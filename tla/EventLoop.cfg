SPECIFICATION FairSpec
CONSTANTS
  LoopThread = loopThread
  c1 = c1
  c2 = c2
  f1 = f1
  f2 = f2
  f3 = f3
  Callers = {c1, c2}
  Functors = {f1, f2, f3}
  EfdMax = 2
INVARIANTS
  NoLostWakeup
PROPERTIES
  ImplementsFunctorQueue
  RequestsServed
