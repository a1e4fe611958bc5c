SPECIFICATION Spec
CONSTANTS
  Keys = {k1, k2}
  Requests = {r1, r2}
  Workers = {w1}
  NumChunks = 1
  Null = Null
  None = None
  Modes = {"Disabled", "Enabled", "Suspended"}
  Kinds = {"put", "copy", "delete", "purge", "deleteVersion"}
  SweepWhileWriting = TRUE
  StatusMayMislead = TRUE
  StartupQueryMayFail = TRUE
  MaxUploads = 1
  MaxDisruptions = 1
SYMMETRY Symmetry
INVARIANTS TypeOK NoForgottenChunk JobsOwnLiveVersions
PROPERTY RemoteIsFinal
