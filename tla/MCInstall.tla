----------------------------- MODULE MCInstall -----------------------------
(***************************************************************************)
(* Small instances of Install: an app whose plan holds every kind of       *)
(* action in the order hlb-resolver emits them, and the ingress.           *)
(***************************************************************************)
EXTENDS Install

CONSTANTS gitea, caddy, cli, daemon

\* The app alone, with the ingress up: every kind of action.
MCPlanWhole ==
    [a \in {gitea, caddy} |->
        IF a = gitea
        THEN <<"PreGuide", "ResolveDigest", "Provision", "DeployService",
               "WaitHealthy", "Guide", "ConfigureIngress">>
        ELSE <<"DeployService", "WaitHealthy">>]

\* An app that is only a route, which a resumed run may see refused once it was left
\* unimplemented, and the ingress.
MCPlanRoutes ==
    [a \in {gitea, caddy} |->
        IF a = gitea THEN <<"ConfigureIngress">>
                     ELSE <<"DeployService", "WaitHealthy">>]

\* One process alone with the app; and the daemon with the app beside the command
\* line with the ingress.
MCDrivesSolo == [p \in {cli} |-> {gitea}]
MCDrivesApart == [p \in {cli, daemon} |-> IF p = cli THEN {caddy} ELSE {gitea}]
============================================================================
