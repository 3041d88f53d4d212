\* The bar of six tabs, two calls of animateIndicator suspended at once.
CONSTANTS
    Tabs = 6
    Duration = 100
    Loops = {l1, l2}
SPECIFICATION FairSpec
INVARIANTS
    TypeOK
    RestsOnRequestedTab
    SettlesOnTarget
PROPERTIES
    SweepsTowardTarget
    EveryLoopEnds
