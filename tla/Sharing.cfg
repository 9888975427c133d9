SPECIFICATION MixSpec
CONSTANTS
  User = {u1, u2, u3}
  Req = {r1, r2}
  Coll = {c1, c2, c3}
  Invite = {i1, i2}
  Stack = {s1}
  MaxQty = 1
  MaxRows = 1
  None = None
  Advisory = Advisory
  Ops = {"set", "invite", "revoke", "accept", "leave", "preview", "delete_user"}
SYMMETRY Symmetry
INVARIANTS MembershipInv
PROPERTIES OnlyMembersWrite AtomicRequests InvitesUsedOnce
CHECK_DEADLOCK FALSE
