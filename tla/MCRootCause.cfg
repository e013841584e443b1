CONSTANTS
  Unknown = Unknown
  Values <- MCValues
  MaxInterfaces = 2
SPECIFICATION Spec
INVARIANTS
  AlertNeedsTwoFaults
  CriticalPassesThreshold
  EnginesAgree
  RadioPollTells
PROPERTIES
  RepairsNeverHurt
