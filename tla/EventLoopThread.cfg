SPECIFICATION FairThreadSpec
CONSTANTS
  LoopThread = loopThread
  Owner = owner_
  f1 = f1
  f2 = f2
  Clients = {client}
  Callers = {client, owner_}
  Functors = {f1, f2}
  EfdMax = 2
CHECK_DEADLOCK FALSE
INVARIANTS
  NobodyWaitsInVain
PROPERTIES
  CallsReturn
