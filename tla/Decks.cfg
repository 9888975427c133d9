SPECIFICATION MixSpec
CONSTANTS
  Req = {r1, r2}
  DeckId = {d1, d2, s1}
  VersionId = {v1, v2, v3}
  Source = {s1}
  Cards = {c1, c2}
  MaxVersions = 2
  Uses = {"put", "import", "create", "activate", "remove", "save", "rename", "delete", "share", "unshare", "close"}
  None = None
SYMMETRY Symmetry
INVARIANTS TypeOK SoundVersions SoundSources
PROPERTIES ListsOverwrittenOnlyBySaves
CHECK_DEADLOCK FALSE
