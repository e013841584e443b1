CONSTANTS
  Alert = {a1, a2}
  Seed = {i1}
  Request = {r1, r2, r3}
  PatchedStatus = {"open"}
  PatchedState = {"open"}
  Gone = Gone
  NoIncident = NoIncident
  NoCall = NoCall
SPECIFICATION Spec
SYMMETRY Symmetry
INVARIANTS
  AllOrNothing
  AuditLossNeedsOverwrite
PROPERTIES
  ReopenedOnlyByOverlap
  OtherColumnsSurvive
  ResolutionCoversLinkedAlerts
