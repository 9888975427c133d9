SPECIFICATION AloneSpec
CONSTANTS
  Key = {k1, k2}
  Derived = {k1}
  Fetch = {f1, f2}
  MaxEdits = 3
  MaxQty = 1
  MaxRemote = 0
  Ordered = TRUE
  Lossy = FALSE
  Cold = FALSE
  Uses = {"add", "removeMany"}
  None = None
SYMMETRY Symmetry
INVARIANTS ShownIsReplay QuietAgrees
PROPERTIES AdoptsOnlyCurrent
CHECK_DEADLOCK FALSE
