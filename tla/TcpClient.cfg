SPECIFICATION FairClientSpec
CONSTANTS
  ClientLoop = loop1
  ConnLoops = {loop1, loop2}
  loop1 = loop1
  loop2 = loop2
  p1 = p1
  p2 = p2
  Conns = {p1, p2}
  none = none
  Loops = {loop1, loop2}
  ServerLoop = loop1
  LoopOf <- LoopOfConn
  app = app
  App = app
  Callers = {}
  Pdus = {}
  Addrs = 2
  PatientRetry = TRUE
  AppCloses = FALSE
  MaxCalls = 4
CHECK_DEADLOCK FALSE
INVARIANTS
  TiedWhileOpen
  ListMatchesMap
  ClientKept
PROPERTIES
  DeletedGoes
  TriesEveryAddress
