SPECIFICATION FairSpec
CONSTANTS
  Loops = {l1}
  InitialProfile <- ShortHold
  StopLossBps = 100
  TakeProfitBps = 150
  PnlBps <- MCPnl
  Confidences = {60, 100}
  MaxSessions = 2
  MaxAge = 5
INVARIANTS TypeOK AtMostOneOpenSession RevisionLineage DecisionAttribution
PROPERTIES CooldownRespected WatchedUntilClosed
