\* A bar of four tabs and two sessions in which the alarm page is seen; each
\* may add one batch of two alarms.
CONSTANTS
    Tabs = 4
    WatchTab = 1
    ProfileTab = 0
    AlarmTab = 3
    MenuTab = 2
    Alarms = {1, 2, 3, 4, 5, 6, 7}
    NoData = 0
    InitialAlarms = 2
    Threshold = 2
    Batch = 2
    ReadMoreCount = 1
    Retries = 1
    MaxSessions = 2
SPECIFICATION FairSpec
INVARIANTS
    OpenedAlarmIsRead
PROPERTIES
    OpenedAlarmIsShown
