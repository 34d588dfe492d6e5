SPECIFICATION Spec
CONSTANTS
  mft1 = mft1
  mft2 = mft2
  roa1 = roa1
  dir1 = dir1
  dir2 = dir2
  Word = 16
  NoHead = NoHead
  Files = {mft1, roa1}
  Mfts = {mft1}
  DirOf <- OneDirectory
  Versions = {1}
  Absent = Absent
  NoEntry = NoEntry
  NoSession = NoSession
  MaxPublished = 3
  MaxSessions = 2
  MaxTime = 2
  MaxRestarts = 0
  MayFail = FALSE
  MayTrim = TRUE
INVARIANT MirrorsSerial
