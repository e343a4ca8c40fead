SPECIFICATION Spec
CONSTANTS
  InitialProfile <- MCProfile
  StopLossBps = 100
  TakeProfitBps = 150
  Bars <- MCBars
  WindowEnds <- MCWindows
  StartingCash = 20100
  QuoteSize = 10000
  FeeBps = 10
  LotsPerUsdc = 1000
  LiveReasons = {"stop_loss"}
  MaxRuns = 2
  MaxLivePatches = 1
INVARIANTS TypeOK BooksBalance TradesInTurn CompletedLadder LessonsInOrder
CHECK_DEADLOCK FALSE
