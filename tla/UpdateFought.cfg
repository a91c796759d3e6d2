SPECIFICATION Spec
CONSTANTS
    Upgrades = FALSE
    Updates = TRUE
    SameTag = TRUE
    Apart = FALSE
    Corrects = TRUE
    MaxSpec = 1
    MaxImage = 2
PROPERTIES
    NoContradictoryOrder
CHECK_DEADLOCK FALSE
