SPECIFICATION Spec
CONSTANTS
  Keys = {k1}
  Requests = {r1, r2}
  Workers = {w1}
  NumChunks = 1
  Null = Null
  None = None
  Modes = {"Enabled"}
  Kinds = {"put", "purge"}
  SweepWhileWriting = FALSE
  StatusMayMislead = FALSE
  StartupQueryMayFail = FALSE
  MaxUploads = 1
  MaxDisruptions = 0
PROPERTY EnabledKeepsVersions
