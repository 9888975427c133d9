SPECIFICATION MixSpec
CONSTANTS
  User = {u1, u2}
  Req = {r1, r2}
  Coll = {c1, c2}
  Invite = {i1}
  Stack = {s1, s2}
  MaxQty = 1
  MaxRows = 2
  None = None
  Advisory = Advisory
  Ops = {"set", "remove", "drop", "batch", "import", "read", "invite", "accept", "delete_user"}
INVARIANTS TypeOK LedgerBalances
PROPERTIES RequestsEnd
CHECK_DEADLOCK FALSE
