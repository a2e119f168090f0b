SPECIFICATION FairSpec
CONSTANTS
  once = once
  every = every
  Timers = {once, every}
  Once = {once}
  none = none
CHECK_DEADLOCK FALSE
INVARIANTS
  
  CancelSticks
PROPERTIES
  OnceFires
