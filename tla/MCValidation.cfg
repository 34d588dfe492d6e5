CONSTANTS
  t1 = t1
  t2 = t2
  r1 = r1
  r2 = r2
  r3 = r3
  NULL = NULL
  Tals = {t1, t2}
  Records = {r1, r2, r3}
  SlurmNames = {"f1", "f2"}
  Yields <- MCYields
  Contents <- MCContents
  MaxEdits = 2
  MaxFaults = 1
SPECIFICATION LiveSpec
INVARIANTS ValidationInv RulesFollowFiles
PROPERTIES RrdpKept PublishesAllOrNothing CycleEnds Converges
