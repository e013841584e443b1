CONSTANTS
  Request = {r1, r2, r3}
  Extra = {x1}
  Org = {acme, other}
  AcmeCorp = acme
  Email = {seedadmin, owner}
  SeedAdmin = seedadmin
  Null = Null
SPECIFICATION FairSpec
CHECK_DEADLOCK FALSE
INVARIANTS
  NothingHalfSetUp
  SecondAdminNeedsOverlap
  UnmanagedNeedsDeletion
PROPERTIES
  LockoutNeedsSeed
  EveryRequestEnds
