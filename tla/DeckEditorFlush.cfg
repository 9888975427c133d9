SPECIFICATION Spec
CONSTANTS
  Version = {v1, v2}
  Given = {v1, v2}
  Active = v1
  MaxEdits = 2
  MaxActs = 1
  Mixes <- Plain
  None = None
  Failed = Failed
  Sent = Sent
PROPERTIES FlushWaits
CHECK_DEADLOCK FALSE
