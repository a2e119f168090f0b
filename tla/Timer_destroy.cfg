SPECIFICATION Spec
CONSTANTS
  once = once
  every = every
  Timers = {once, every}
  Once = {once}
  none = none
CHECK_DEADLOCK FALSE
INVARIANTS
  DestroyedInLoopThread
