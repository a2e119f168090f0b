SPECIFICATION FairSpec
CONSTANTS
  a = a
  b = b
  r1 = r1
  r2 = r2
  r3 = r3
  r4 = r4
  Threads = {a, b}
  Records = {r1, r2, r3, r4}
  OnScreen = {r1, r2}
  MaxBuf = 1
CHECK_DEADLOCK FALSE
INVARIANTS
  ScreenAgrees
PROPERTIES
  ImplementsFunctorQueue
  RecordWritten
  DestructorReturns
