\* Two gets and two streams that break: the second get waits for an attempt that
\* no timer bounds.
SPECIFICATION Spec
CONSTANTS
    Get = {g1, g2}
    LastVersion = 1
    MaxFaults = 2
    MaxRestarts = 0
    kMaxWatchStreamFailures = 1
INVARIANT AttemptsAreTimed
CHECK_DEADLOCK FALSE
