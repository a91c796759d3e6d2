SPECIFICATION Spec
CONSTANTS
    MaxVersion = 3
    Ships <- MCShips
INVARIANTS
    WholeAtPath
    PredecessorKept
    SomeBinaryOpens
CHECK_DEADLOCK FALSE
