SPECIFICATION FairSpec
CONSTANTS
    Tickers = {"X:SOLUSD"}
    Lookback = 4
    ChunkDays = 2
    Profiles = {"quickstart_300d", "full_730d"}
    ProfileLookback <- MCProfileLookback
    RequiredDays <- MCRequiredDays
    MaxMassiveDays = 1
    OperatorJobs = {"collect", "missing"}
    FirstDay = 4
    MaxTicks = 0
    MaxTrouble = 0
    MaxCli = 2
PROPERTY
    RequiredHistoryStartsTheLadder
