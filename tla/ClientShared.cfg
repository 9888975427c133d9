SPECIFICATION SessionSpec
CONSTANTS
  Key = {k1, k2}
  Derived = {k1}
  Fetch = {f1}
  MaxEdits = 2
  MaxQty = 1
  MaxRemote = 1
  Ordered = FALSE
  Lossy = TRUE
  Cold = TRUE
  Uses = {"add", "adjust", "set", "removeMany"}
  None = None
INVARIANTS TypeOK DeferredOnlyWhileMutating
PROPERTIES Converges
CHECK_DEADLOCK FALSE
