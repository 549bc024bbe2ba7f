SPECIFICATION Spec
CONSTANTS
  MaxCmds = 3
  Lens = {0, 1}
  MaxLen = 15
  Configs = {TRUE, FALSE}
  Adjacent = FALSE
INVARIANTS TypeOK DataInPlace SuccessMeansFilled OutcomeReported
