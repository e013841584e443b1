CONSTANTS
  Agent = {a1}
  Request = {r1, r2, r3}
  Provisioned = Provisioned
  Gone = Gone
  NoCall = NoCall
  MaxTime = 2
SYMMETRY Symmetry
SPECIFICATION Spec
INVARIANTS
  AcceptedWasAuthorised
  LatestTokenIsStored
  RevocationSticks
  RowAndFeedTellStatus
PROPERTIES
  SeenGoesBackOnlyOnOverlap
CHECK_DEADLOCK FALSE
