SPECIFICATION Spec
CONSTANTS
  usdc = usdc
  sol = sol
  junk = junk
  Ops = {o1, o2}
  Openers = {o1}
  Closers = {o1, o2}
  Mints <- MCMints
  USDC = usdc
  Tracked <- MCTracked
  KnownDecimals <- MCTracked
  ConfiguredSizes <- MCSizes
  MaxQuoteAge = 1
  AllowLong = TRUE
  AllowShort = TRUE
  CondShapes <- LongOnly
  QuoteShapes <- RoundTrip
  Pins = {0}
  MaxClock = 1
  MaxConds = 1
  MaxQuotes = 2
  MaxTraces = 3
INVARIANTS SoldAtMostBought
CHECK_DEADLOCK FALSE
