CONSTANTS
  Asset = {a1}
  Radio = {d1}
  Source = {h1}
  Link = {l1}
  Session = {s1, s2, s3}
  MaxDetections = 3
  MaxChanges = 3
SPECIFICATION Spec
SYMMETRY Symmetry
CHECK_DEADLOCK FALSE
INVARIANTS
  DuplicatesAreBounded
  OccurrencesCountDetections
  
PROPERTIES
  DetectionLeavesActiveAlert
  DetectionsAreAtomic
