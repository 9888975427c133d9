SPECIFICATION Spec
CONSTANTS
  v = v
  x = x
  y = y
  t = t
  Id = {v, x, y}
  Target <- Targets
  Request = {r1, r2}
  MaxGuesses = 3
  PerCode = 2
  MaxSends = 1
  MaxIssued = 2
  MaxTicks = 1
  Mixes <- Uses
  None = None
INVARIANTS TypeOK WithinBudgets UsedOnce
PROPERTIES SparesNewCodes
SYMMETRY Symmetry
CHECK_DEADLOCK FALSE
