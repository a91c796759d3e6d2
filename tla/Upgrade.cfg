SPECIFICATION Spec
CONSTANTS
    Upgrades = TRUE
    Updates = TRUE
    SameTag = TRUE
    Apart = TRUE
    Corrects = TRUE
    MaxSpec = 2
    MaxImage = 2
INVARIANTS
    TypeOK
    StateNotBehind
    FrozenSpecRuns
    RouteKept
    PartialSaid
PROPERTY FrozenAsItRuns
CHECK_DEADLOCK FALSE
