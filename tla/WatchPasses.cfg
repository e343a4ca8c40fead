SPECIFICATION FairSpec
CONSTANTS
    Watchers <- MCWatchers
    Stories = {"A", "B"}
    KeptStories = {"A"}
    Cycles = {c1}
    Files <- MCFiles
    Jobs <- MCJobs
    Touched = {"story_promotion", "lane_health"}
    MaxWrites = 2
    MaxAudits = 1
    MaxDeaths = 1
INVARIANTS
    TypeOK
    AnsweredHasPacket
    RoutedOnTruth
    ReviewedOncePerDeath
PROPERTIES
    NothingForgotten
    EveryCycleIsReviewed
    DriftIsReported
CHECK_DEADLOCK FALSE
