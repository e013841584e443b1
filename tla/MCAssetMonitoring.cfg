CONSTANTS
  Asset = {a1, a2}
  Session = {s1, s2}
  Gone = Gone
  Never = Never
  StaleAfter = 0
  MaxSkew = 1
  Offset <- OffsetValue
  BatchLimit = 2
  MaxRequests = 2
  MaxTime = 2
SPECIFICATION FairSpec
INVARIANTS
  StatusIsLastVerdict
  SilentAssetGoesDark
PROPERTIES
  EveryRequestEnds
CHECK_DEADLOCK FALSE
