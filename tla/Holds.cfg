SPECIFICATION FairSpec
CONSTANTS
    nightly = nightly
    update = update
    restore = restore
    encrypt = encrypt
    Process = {nightly, restore, encrypt}
    Job <- MCJob
    InDaemon = {nightly}
    Replicas = 1
    MaxReplicas = 2
    Corrects = TRUE
    MaxOps = 2
    MaxKills = 2
    MaxTrouble = 1
INVARIANTS
    TypeOK
    CopiedCold
    HalfRestoredLeftAlone
    CountGivenBack
PROPERTIES
    RunsAgain
    DecidedRuns
