SPECIFICATION Spec
CONSTANTS
  l1 = l1
  l2 = l2
  p1 = p1
  p2 = p2
  d1 = d1
  d2 = d2
  app = app
  none = none
  Conns = {p1, p2}
  Loops = {l1, l2}
  ServerLoop = l1
  LoopOf <- LoopOfConn
  App = app
  Callers = {app, l1}
  Pdus = {d1, d2}
  MaxCalls = 2
SYMMETRY Symmetry
CHECK_DEADLOCK FALSE
INVARIANTS
  StreamHasNoHoles
  NoSelfLock
  ServedOrGone
