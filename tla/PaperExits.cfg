SPECIFICATION Spec
CONSTANTS
  usdc = usdc
  sol = sol
  junk = junk
  Ops = {o1, o2}
  Openers = {o2}
  Closers = {o1}
  Mints <- MCMints
  USDC = usdc
  Tracked <- MCTracked
  KnownDecimals <- MCTracked
  ConfiguredSizes <- MCSizes
  MaxQuoteAge = 1
  AllowLong = TRUE
  AllowShort = TRUE
  CondShapes <- LongOnly
  QuoteShapes <- ExitQuotes
  Pins = {0}
  MaxClock = 2
  MaxConds = 1
  MaxQuotes = 2
  MaxTraces = 3
INVARIANTS ExitProvenance
PROPERTIES LedgerRefinement
CHECK_DEADLOCK FALSE
