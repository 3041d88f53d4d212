\* Two gets over a document that is written once more, two streams that break
\* and one restart of the network.
SPECIFICATION FairSpec
CONSTANTS
    Get = {g1, g2}
    LastVersion = 1
    MaxFaults = 2
    MaxRestarts = 1
    kMaxWatchStreamFailures = 1
INVARIANTS TimersJustified AcksMatch SyncedIsFresh
PROPERTIES ImplementsReads GetsEnd
\* Every get has ended and nobody asks any more.
CHECK_DEADLOCK FALSE
