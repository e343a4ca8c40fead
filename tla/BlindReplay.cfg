SPECIFICATION Spec
CONSTANTS
  InitialProfile <- MCProfile
  StopLossBps = 100
  TakeProfitBps = 150
  Bars <- MCBars
  WindowEnds <- ShortWindows
  StartingCash = 20100
  QuoteSize = 10000
  FeeBps = 10
  LotsPerUsdc = 1000
  LiveReasons = {"stop_loss"}
  MaxRuns = 2
  MaxLivePatches = 0
INVARIANT ReplayIsBlind
CHECK_DEADLOCK FALSE
