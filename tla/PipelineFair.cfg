SPECIFICATION FairSpec
CONSTANTS
  Keys = {k1}
  Requests = {r1, r2}
  Workers = {w1}
  NumChunks = 1
  Null = Null
  None = None
  Modes = {}
  Kinds = {"put", "purge"}
  SweepWhileWriting = FALSE
  StatusMayMislead = TRUE
  StartupQueryMayFail = FALSE
  MaxUploads = 2
  MaxDisruptions = 1
PROPERTIES Offloaded SpoolDrains
