SPECIFICATION Spec
CONSTANTS
    gitea = gitea
    caddy = caddy
    cli = cli
    daemon = daemon
    App = {gitea, caddy}
    Caddy = caddy
    Process = {cli}
    Plan <- MCPlanWhole
    Withheld = {}
    Drives <- MCDrivesSolo
    CatalogPinned = {caddy}
    Fragile = {gitea, caddy}
    Exposed = TRUE
    IngressUp = TRUE
INVARIANTS
    TypeOK
    RunningIsComplete
    ServiceBehindStatus
    NothingBeforePrerequisites
