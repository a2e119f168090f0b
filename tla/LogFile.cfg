SPECIFICATION MCSpec
CONSTANTS
  Names = {"f1", "f2"}
  MaxChanges = 5
  MaxWd = 3
  MaxCalls = 3
  MaxResults = 2
  Calling = {2}
  Conns = {"c1", "c2", "c3"}
  MaxDeleted = 2
  Callers = {"t1", "t2", "t3"}
  Threads = 2
  MaxIndex = 4
  Buffer = 4
  Records = {"r1", "r2", "r3"}
  Large = {"r3"}
  RollSize = 2
  FlushInterval = 1
  AutoRm = 1
  SecondsPerDay = 3
  DaysPerMonth = 2
  MaxTime = 7
  MaxGap = 1
  Words <- Vocabulary
  KeyOrder <- TwoKeys
  Texts <- Values
  Files <- FirstFiles
  none = none
  Components = {"log"}
CHECK_DEADLOCK FALSE
INVARIANTS
  FilesInOrder
  RightDay
  BufferIsYoung
PROPERTIES
  LossHasCause
