SPECIFICATION Spec
CONSTANTS
    Runs = {r1}
    Amounts = {1, 2}
    Caps = {1}
    Ttls = {1}
    MaxClock = 2
    MaxMetrics = 1
    MaxWrites = 3
INVARIANTS
    TypeOK
    SwapsWereArmed
    PauseStopsLaterSwaps
    LedgerMatchesChain
