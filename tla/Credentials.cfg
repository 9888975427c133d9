SPECIFICATION Spec
CONSTANTS
  u1 = u1
  u2 = u2
  a1 = a1
  a2 = a2
  User = {u1, u2}
  Address = {a1, a2}
  Home <- OneHome
  Request = {r1, r2, r3}
  MaxWrites = 2
  MaxTokens = 3
  Mixes <- Overlap
  None = None
  Gone = Gone
INVARIANTS TypeOK NoStaleSession LinksFollowAddress AddressesDistinct
PROPERTIES ResetsPrevail
SYMMETRY Symmetry
CHECK_DEADLOCK FALSE
