SPECIFICATION FairSpec
CONSTANTS
    IncludeJupiter = FALSE
    IncludeHelius = FALSE
    WithHeliusWs = FALSE
    CliCaptures = {"fred-observations"}
    StartMinute = 4310
    EarlierCapture = 2010
    EarlierValue = 1
    HistoryMinutes = 30
    FredValues = {2}
    TickLengths = {20}
    MaxTicks = 1
    MaxTrouble = 1
    MaxCli = 1
INVARIANTS
    TypeOK ReceiptMeansWholePass MacroIsLastKnown
CHECK_DEADLOCK TRUE
PROPERTY PassesComplete
