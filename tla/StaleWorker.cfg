SPECIFICATION Spec
CONSTANTS
  Keys = {k1}
  Requests = {r1, r2}
  Workers = {w1}
  NumChunks = 1
  Null = Null
  None = None
  Modes = {"Suspended"}
  Kinds = {"put"}
  SweepWhileWriting = FALSE
  StatusMayMislead = TRUE
  StartupQueryMayFail = FALSE
  MaxUploads = 1
  MaxDisruptions = 0
INVARIANT OwnBytes
