SPECIFICATION Spec
CONSTANTS
  MaxValue = 5
  MaxCount = 3
  NULL = NULL
  Bad = Bad
  Kinds = {"ip4s", "asns"}
  ObjIds = {1, 2, 3, 4, 5, 6}
  Elements <- FewElements
  MaxDepth = 2
  OctetBits = 2
  QuadrantOctets = 2
  AsnMax = 3
  SkiOctets = 2
  Word = 8
  NoHead = NoHead
  MaxDeltas = 3
  TagBits = 16
  LenBits = 16
  LocalOffset = 3600
  IntOctets = 2
  ArcBits = 14
CHECK_DEADLOCK FALSE
INVARIANT ContainsExact
INVARIANT ResourcesExact
INVARIANT SlurmExact
INVARIANT NotificationsExact
INVARIANT DecodingExact
INVARIANT ConversionsExact
