SPECIFICATION Spec
CONSTANTS
  Keys = {k1}
  Requests = {r1}
  Workers = {w1}
  NumChunks = 1
  Null = Null
  None = None
  Modes = {}
  Kinds = {"put"}
  SweepWhileWriting = TRUE
  StatusMayMislead = TRUE
  StartupQueryMayFail = FALSE
  MaxUploads = 1
  MaxDisruptions = 0
INVARIANT Readable
