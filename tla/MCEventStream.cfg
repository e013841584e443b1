CONSTANTS
  Txn = {t1, t2, t3}
  Stream = {s1}
  BatchLimit = 2
  MaxEvents = 2
  MaxTime = 2
SPECIFICATION FairSpec
INVARIANTS
  SentOnceInOrder
  MissingHasCause
PROPERTIES
  StreamsAdvance
CHECK_DEADLOCK FALSE
