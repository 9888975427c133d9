SPECIFICATION FairSpec
CONSTANTS
  Version = {v1, v2, v3}
  Given = {v1, v2}
  Active = v1
  MaxEdits = 2
  MaxActs = 2
  Mixes <- Some
  None = None
  Failed = Failed
  Sent = Sent
INVARIANTS TypeOK NoQueueStranded SavedIsStored
PROPERTIES AsksAfterFailure SavesSettle
CHECK_DEADLOCK FALSE
