SPECIFICATION Spec
CONSTANTS
  Keys = {k1}
  Requests = {r1, r2}
  Workers = {w1}
  NumChunks = 2
  Null = Null
  None = None
  Modes = {"Disabled", "Enabled"}
  Kinds = {"put", "delete", "deleteVersion"}
  SweepWhileWriting = FALSE
  StatusMayMislead = FALSE
  StartupQueryMayFail = FALSE
  MaxUploads = 2
  MaxDisruptions = 1
SYMMETRY Symmetry
INVARIANTS Readable RemoteIsStored
PROPERTY ImplementsVersionStore
