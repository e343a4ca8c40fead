SPECIFICATION Spec
CONSTANTS
  usdc = usdc
  sol = sol
  junk = junk
  Ops = {o1, o2}
  Openers = {o1, o2}
  Closers = {}
  Mints <- MCMints
  USDC = usdc
  Tracked <- MCAllTracked
  KnownDecimals <- MCTracked
  ConfiguredSizes <- MCSizes
  MaxQuoteAge = 1
  AllowLong = TRUE
  AllowShort = TRUE
  CondShapes <- MCCondShapes
  QuoteShapes <- EntryQuotes
  Pins = {0, 1}
  MaxClock = 2
  MaxConds = 2
  MaxQuotes = 1
  MaxTraces = 2
INVARIANTS TypeOK FillProvenance CycleReadsItsOwnRows
CHECK_DEADLOCK FALSE
