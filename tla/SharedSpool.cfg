SPECIFICATION Spec
CONSTANTS
  Keys = {k1, k2}
  Requests = {r1, r2}
  Workers = {w1}
  NumChunks = 1
  Null = Null
  None = None
  Modes = {}
  Kinds = {"put", "copy"}
  SweepWhileWriting = FALSE
  StatusMayMislead = TRUE
  StartupQueryMayFail = FALSE
  MaxUploads = 1
  MaxDisruptions = 0
INVARIANT PendingHasFile
