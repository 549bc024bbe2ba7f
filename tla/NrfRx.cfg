\* the program ends
CHECK_DEADLOCK FALSE
SPECIFICATION Spec
CONSTANTS
  Builds = {TRUE, FALSE}
  RESTART_DELAY = 2
  FifoSize = 3
  MaxSent = 5
INVARIANTS NoneOverlooked Flagged EmptyUntilEnabled
PROPERTIES Served Stops
