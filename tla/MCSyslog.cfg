CONSTANTS
  Source = {a}
  Message <- MCMessage
  MaxLogs = 2
SPECIFICATION SyslogSpec
CHECK_DEADLOCK FALSE
INVARIANTS
  SevereIsAlerted
  ThreatMissedOnlyAsLogin
  UnderstatedOnlyByLevel
