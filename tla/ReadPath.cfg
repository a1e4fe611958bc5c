SPECIFICATION RecoverySpec
CONSTANTS
  Keys = {k1}
  Requests = {r1, r2}
  Workers = {w1}
  Readers = {g1}
  NumChunks = 2
  Null = Null
  None = None
  Modes = {}
  Kinds = {"put", "purge"}
  SweepWhileWriting = FALSE
  StatusMayMislead = TRUE
  StartupQueryMayFail = FALSE
  MaxUploads = 1
  MaxDisruptions = 1
SYMMETRY Symmetry
INVARIANTS ReaderTypeOK WholeOrGone
PROPERTIES FailsOnlyIfOvertaken BundleSound
