SPECIFICATION FairSpec
CONSTANTS
    Tickers = {"X:SOLUSD", "X:BTCUSD"}
    Lookback = 4
    ChunkDays = 2
    Profiles = {"quickstart_300d", "full_730d"}
    ProfileLookback <- MCProfileLookback
    RequiredDays <- MCRequiredDays
    MaxMassiveDays = 1
    OperatorJobs = {"collect", "missing", "day"}
    FirstDay = 4
    MaxTicks = 1
    MaxTrouble = 1
    MaxCli = 1
INVARIANTS
    TypeOK
    CandlesAreReplayable
    SummaryIsTrue
    LadderHasHistory
PROPERTY
    CacheFills
