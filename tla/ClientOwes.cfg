SPECIFICATION Spec
CONSTANTS
  Key = {k1}
  Derived = {k1}
  Fetch = {f1, f2}
  MaxEdits = 2
  MaxQty = 1
  MaxRemote = 0
  Ordered = TRUE
  Lossy = FALSE
  Cold = FALSE
  Uses = {"add", "set"}
  None = None
INVARIANTS FailureReconciled
CHECK_DEADLOCK FALSE
