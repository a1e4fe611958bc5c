SPECIFICATION Spec
CONSTANTS
  Uploads = {u1, u2}
  Requests = {r1, r2, r3}
  NumParts = 2
  Bodies = {b1, b2}
  None = None
  Modes = {"Disabled", "Enabled"}
  MaxDisruptions = 1
SYMMETRY Symmetry
INVARIANTS TypeOK Intact PartHasFile AsListed OneObject EndedHasNoRows
