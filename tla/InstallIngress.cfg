SPECIFICATION Spec
CONSTANTS
    gitea = gitea
    caddy = caddy
    cli = cli
    daemon = daemon
    App = {gitea, caddy}
    Caddy = caddy
    Process = {cli, daemon}
    Plan <- MCPlanRoutes
    Withheld = {}
    Drives <- MCDrivesApart
    CatalogPinned = {gitea, caddy}
    Fragile = {}
    Exposed = FALSE
    IngressUp = FALSE
INVARIANTS
    RunningIsComplete
    PartialIsOpen
    DoneRouteWasServed
