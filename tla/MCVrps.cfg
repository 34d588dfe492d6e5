SPECIFICATION VrpsSpec
CONSTANTS
  r1 = r1
  r2 = r2
  Records = {r1, r2}
  Readers = {t1}
  None = None
  MaxSerial = 2
  MaxObjs = 6
  MaxRestarts = 1
  StartTime = 0
  MayFail = TRUE
SYMMETRY RecordSymmetry
INVARIANTS
  VrpsInv
  ServedExact
  ListedIsReferenced
PROPERTY BaseStableWhileStreaming
CHECK_DEADLOCK FALSE
