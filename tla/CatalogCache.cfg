SPECIFICATION MixSpec
CONSTANTS
  Req = {q1, q2}
  MaxWrites = 2
  MaxRestarts = 1
  MaxResults = 1
  None = None
INVARIANTS TypeOK CachesFollow ResultsCoverHash StatusTells
CHECK_DEADLOCK FALSE
