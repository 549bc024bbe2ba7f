SPECIFICATION Spec
CONSTANTS
  MaxPrio = 2
  Starts <- MCStarts
  SysDriver = FALSE
  DHT_DTA_BITS = 2
  ByteBits = 1
  CD_NO_RESP = 2
  Retries = {0}
  MaxRefused = 1
  MaxSlips = 0
  Answers = {0, 7}
  MaxBits = 1
INVARIANT GivenBackAlways
