SPECIFICATION Spec
CONSTANTS
  ta = ta
  a = a
  b = b
  sub = sub
  router = router
  NULL = NULL
  Freed = Freed
  Crit = Crit
  Strategy = "root-except-ta"
  RetryCount = 1
  Certs = {ta, a, b, sub, router}
  Root = ta
  Children <- TreeChildren
  Routers = {router}
  CertUri <- TreeUris
  Aia <- TreeAia
  Repository <- TreeRepositories
  Notify <- TreeNotify
  Holds <- TreeHolds
  RrdpFirst = {a}
  TalUris <- TwoTalUris
  MaxDepth = 3
  MaxMissing = 1
  MaxCycles = 1
CHECK_DEADLOCK FALSE
 
INVARIANT NothingSkipped
INVARIANT SameTree
INVARIANT FailedNotRepeated
PROPERTY ThreadEnds
