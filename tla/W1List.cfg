SPECIFICATION Spec
CONSTANTS
  MaxPop = 4
  Sizes = {0, 1, 3, 5}
INVARIANTS ResultConsistent TotalExactInTime
