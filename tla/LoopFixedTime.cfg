\* The fixed-step loop: a short frame after a long one.
CONSTANTS
  TimeStep = 2
  MaxFrameTime = 3
  MaxTime = 6
  MaxCycle = 3
SPECIFICATION Spec
INVARIANTS
  ManyUpdatesOnlyIfLong
CHECK_DEADLOCK FALSE
