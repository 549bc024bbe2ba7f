SPECIFICATION Spec
CONSTANTS
  MaxCmds = 2
  Lens = {1}
  MaxLen = 100
  Configs = {FALSE}
  Adjacent = TRUE
INVARIANT DataInPlace
