SPECIFICATION MixSpec
CONSTANTS
  Device = {d1, d2, d3}
  Coll = {c1, c2}
  MaxListeners = 2
  Capacity = 1
  MaxEvents = 2
  MaxMoves = 2
  None = None
INVARIANTS TypeOK CountsListeners NoSilentGap
PROPERTIES LeaverHearsNothing StreamsEnd
CHECK_DEADLOCK FALSE
