\* A bar of four tabs (home is also the profile), two calls of animateIndicator
\* suspended at once, two alarms.
CONSTANTS
    Tabs = 4
    WatchTab = 1
    ProfileTab = 0
    AlarmTab = 3
    MenuTab = 2
    Alarms = {a1, a2}
    NoData = NoData
    Duration = 100
    Loops = {l1, l2}
SPECIFICATION FairSpec
INVARIANTS
    WatchShowsOpenedAlarm
    AgreeAtRest
PROPERTIES
    ImplementsSelection
    ComesToRest
