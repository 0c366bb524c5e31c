SPECIFICATION Spec
CONSTANTS
  x1 = x1  x2 = x2  None = None
  Txns = {x1, x2}
  Overlap = 2
  Initial = 2
  Lag = 1
  MaxDuration = 1
  MaxClock = 6
SYMMETRY TxnSymmetry
INVARIANTS NothingMissed WindowInv
CHECK_DEADLOCK FALSE
