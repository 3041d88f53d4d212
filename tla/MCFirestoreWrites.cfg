\* Three writes of two users, one change of the user, one break of the stream
\* and one restart, over a pipeline that takes two writes.
SPECIFICATION FairSpec
CONSTANTS
    User = {anna, ben}
    NoUser = nobody
    MaxWrites = 3
    MaxSwitches = 1
    MaxFaults = 1
    MaxCrashes = 1
    kMaxPendingWrites = 2
INVARIANTS
    OwnersToken
    InIssueOrder
    NoWriteLeftBehind
PROPERTIES
    WritesAreDurable
    ImplementsWrites
    WritesEnd
\* At the bounds the user has stopped.
CHECK_DEADLOCK FALSE
