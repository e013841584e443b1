CONSTANTS
  Alert = {a1}
  Seed = {i1}
  Request = {r1, r2}
  PatchedStatus = {"open"}
  PatchedState = {"open"}
  Gone = Gone
  NoIncident = NoIncident
  NoCall = NoCall
SPECIFICATION Spec
PROPERTIES
  TaskUpdateIsStored
