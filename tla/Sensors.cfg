SPECIFICATION FairSpec
CONSTANTS
  MaxPrio = 2
  Starts <- MCPlain
  SysDriver = TRUE
  DHT_DTA_BITS = 3
  ByteBits = 1
  CD_NO_RESP = 2
  Retries = {0, 2}
  MaxRefused = 1
  MaxSlips = 1
  Answers = {0, 5, 9}
  MaxBits = 3
INVARIANTS GivenBack PinsAtRest PromptIsExact PisoExact
PROPERTIES RetriesTold ProbesReturn
