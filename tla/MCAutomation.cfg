CONSTANTS
  r1 = r1
  r2 = r2
  failed = failed
  ssh = ssh
  evil = evil
  Malformed = Malformed
  engine = engine
  None = None
  Operator = Operator
  ThreatEngine <- ThreatEngineValue
  Request = {r1, r2}
  Word <- WordValue
  Log <- LogValue
  DetectionRule <- RuleValue
  Indicator = {evil}
  Playbook <- PlaybookValue
SPECIFICATION Spec
SYMMETRY Symmetry
INVARIANTS
  NothingHalfDone
  KnownThreatsAreRaised
  ErrorLeavesOnlyTheLog
CHECK_DEADLOCK FALSE
