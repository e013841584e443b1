CONSTANTS
  Txn = {t1, t2, t3}
  Stream = {s1}
  BatchLimit = 2
  MaxEvents = 2
  MaxTime = 2
SPECIFICATION Spec
INVARIANTS
  EveryEventIsStreamed
CHECK_DEADLOCK FALSE
