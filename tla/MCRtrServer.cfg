SPECIFICATION Spec
CONSTANTS
  c1 = c1
  c2 = c2
  Records = {v1}
  RouterKeys = {}
  Readers = {c1, c2}
  Versions = {1}
  FDs = {1, 2}
  None = None
  NoClient = NoClient
  Unset = Unset
  MaxSerial = 2
  MaxObjs = 4
  MaxRestarts = 0
  StartTime = 0
  MayFail = FALSE
SYMMETRY RouterSymmetry
INVARIANTS
  RouterExact
  ResetNeverOlder
  TableNotAhead
  NoOrphanEntry
CHECK_DEADLOCK FALSE
