CONSTANTS
  Client = {c1, c2}
  WindowSeconds = 2
  MaxRequests = 2
  MaxTime = 5
SPECIFICATION LimiterSpec
SYMMETRY Symmetry
INVARIANTS
  WindowsAreLimited
  RejectionsAreJustified
PROPERTIES
  ImplementsSlidingWindow
