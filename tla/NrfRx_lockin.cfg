CHECK_DEADLOCK FALSE
SPECIFICATION Spec
CONSTANTS
  Builds = {TRUE}
  RESTART_DELAY = 2
  FifoSize = 3
  MaxSent = 4
INVARIANTS Detects
