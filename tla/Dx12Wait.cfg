\* A second thread loads buffers; no wait times out.
CONSTANTS
  Loaders = {"loader"}
  Timeouts = FALSE
  MaxFence = 4
SPECIFICATION Spec
INVARIANTS
  WaitMeansReached
CHECK_DEADLOCK FALSE
