SPECIFICATION Spec
CONSTANTS
  Keys = {k1}
  Requests = {r1, r2}
  Workers = {w1, w2}
  NumChunks = 1
  Null = Null
  None = None
  Modes = {"Disabled", "Enabled"}
  Kinds = {"put", "copy", "delete", "purge", "deleteVersion"}
  SweepWhileWriting = TRUE
  StatusMayMislead = TRUE
  StartupQueryMayFail = TRUE
  MaxUploads = 2
  MaxDisruptions = 0
SYMMETRY Symmetry
INVARIANTS HonestState OwnBytes NoForgottenChunk
