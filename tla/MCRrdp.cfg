SPECIFICATION Spec
CONSTANTS
  mft1 = mft1
  mft2 = mft2
  roa1 = roa1
  dir1 = dir1
  dir2 = dir2
  Word = 16
  NoHead = NoHead
  Files = {mft1, mft2}
  Mfts = {mft1, mft2}
  DirOf <- TwoDirectories
  Versions = {1, 2}
  Absent = Absent
  NoEntry = NoEntry
  NoSession = NoSession
  MaxPublished = 3
  MaxSessions = 2
  MaxTime = 2
  MaxRestarts = 1
  MayFail = TRUE
  MayTrim = FALSE
INVARIANT TypeOK
INVARIANT MirrorsSerial
INVARIANT RequestedOnce
INVARIANT OnlyRacesHidden
