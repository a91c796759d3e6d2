SPECIFICATION Spec
CONSTANTS
    Action = {x, y}
    Routed = {x}
    Process = {cli, daemon}
    MaxLen = 3
    MaxRun = 3
    MaxChange = 1
SYMMETRY MCSymmetry
INVARIANTS
    DoneWasRun
    RecordedIsStable
    CarriedOnce
    DoneStaysDone
