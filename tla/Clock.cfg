SPECIFICATION Spec
CONSTANTS
  U32 = 4
  Usecs = {0, 1, 2, 3}
  Threshold = 2
  SysDriver = TRUE
  MaxNow = 15
INVARIANTS TypeOK Ticks64InCall SleepsEnough
