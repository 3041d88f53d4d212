\* Three sessions; a session starts with two alarms and may add two batches.
CONSTANTS
    InitialAlarms = 2
    Threshold = 2
    Batch = 2
    ReadMoreCount = 2
    Retries = 1
    MaxSessions = 3
SPECIFICATION FairSpec
INVARIANTS
    ListBacked
    EndIsHonest
    GrowthBounded
PROPERTIES
    ImplementsLog
    LoadEnds
\* The last session may end with every load done.
CHECK_DEADLOCK FALSE
