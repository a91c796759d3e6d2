SPECIFICATION Spec
CONSTANTS
    Subject = {gitea, blog}
    MaxChange = 3
    MaxNight = 1
    MaxMute = 1
    MaxRefusal = 1
    MaxRestart = 1
INVARIANTS
    TypeOK
    SaidOrKept
PROPERTY FailureTold
