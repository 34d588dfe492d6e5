SPECIFICATION FairSpec
CONSTANTS
  c1 = c1
  c2 = c2
  Records = {k1}
  RouterKeys = {k1}
  Readers = {c1}
  Versions = {0, 1}
  FDs = {1}
  None = None
  NoClient = NoClient
  Unset = Unset
  MaxSerial = 2
  MaxObjs = 4
  MaxRestarts = 1
  StartTime = 0
  MayFail = TRUE
INVARIANTS
  TypeOK
  RouterExact
PROPERTIES
  VrpsSpec
  RequestsAnswered
  Converges
CHECK_DEADLOCK FALSE
