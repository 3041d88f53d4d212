SPECIFICATION AgeSpec
CONSTANTS
    Behind = 2
    Horizon = 420
INVARIANTS AgeIsNear
PROPERTIES AgeNeverShrinks
