---------------------------- MODULE Publication ----------------------------
(***************************************************************************)
(* Publishing the apps' routes on the ingress (crates/hlb-engine/src/      *)
(* ingress.rs), with the parts of the SQLite state it reads and writes     *)
(* (crates/hlb-state/src/lib.rs): the apps and their statuses, the plan    *)
(* journal, and the record of what was published.                          *)
(*                                                                         *)
(* Several processes - the daemon's intents, the command line - publish    *)
(* with no lock between them.  Each SQL transaction is one step; between   *)
(* two of them, and during each call to Docker, any other process runs.    *)
(***************************************************************************)
EXTENDS Naturals, Sequences, FiniteSets

CONSTANTS
    App,        \* the apps of the catalog, the ingress included
    Caddy,      \* the ingress's own app, which Docker runs as `caddy`
    Process,    \* what acts on the state: the daemon's intents, the CLI
    Plan,       \* the sequence of action kinds each app's install resolves to
    Withheld    \* apps whose route names a chain link hlb no longer serves

\* The kinds of action a plan holds.  "Provision" stands for every action that
\* creates something once (secret, database, bucket, volume, OIDC client,
\* account, download); "PreGuide" is a blocking pre-install guide step, "Guide"
\* one that runs after the app is up (a first-run wizard).
Kind == {"ResolveDigest", "Provision", "DeployService", "WaitHealthy",
         "PreGuide", "Guide", "ConfigureIngress"}

ASSUME PublicationAssumption ==
    /\ Caddy \in App
    /\ Plan \in [App -> Seq(Kind)]
    /\ Withheld \subseteq App

VARIABLES
    status,     \* apps.status, "absent" when the app has no row
    journal,    \* plan_actions.status of each action, "absent" without a row
    services,   \* the apps whose service exists in Swarm
    exposure,   \* was `hlb config exposure` run?
    caddyfile,  \* the apps routed by the file Caddy watches
    published,  \* the apps of ingress_published
    stage,      \* where a process stands in a publication
    rendered,   \* the routes its publication rendered
    wasServed   \* history: apps some file taken by Caddy routed since recorded

stateVars == <<status, journal>>
ingressVars == <<caddyfile, published, wasServed>>
publisherVars == <<stage, rendered>>

AppStatus == {"absent", "installing", "running", "partial", "failed"}
ActionStatus == {"absent", "pending", "done", "unimplemented", "failed"}
Steps(a) == 1 .. Len(Plan[a])
Stage == {"out", "begin", "write", "record", "complete",
          "served", "unserved", "refused"}

HasRoute(a) == \E i \in Steps(a) : Plan[a][i] = "ConfigureIngress"

\* Every route there is to publish.  A failed app is left out, an app still
\* installing is not; a route through a link hlb no longer serves is withheld.
Routes == {a \in App : /\ HasRoute(a)
                       /\ status[a] \notin {"absent", "failed"}
                       /\ a \notin Withheld}

-----------------------------------------------------------------------------
\* The first half of publish(): nothing to do without an exposure or without
\* the ingress's service, else the routes of this moment are rendered.
PublishBegin(p) ==
    /\ stage[p] = "begin"
    /\ \/ /\ ~exposure \/ Caddy \notin services
          /\ stage' = [stage EXCEPT ![p] = "unserved"]
          /\ rendered' = rendered
       \/ /\ exposure /\ Caddy \in services
          /\ stage' = [stage EXCEPT ![p] = "write"]
          /\ rendered' = [rendered EXCEPT ![p] = Routes]
       \/ /\ exposure                    \* Docker's answer is another error
          /\ stage' = [stage EXCEPT ![p] = "refused"]
          /\ rendered' = rendered
    /\ UNCHANGED <<stateVars, services, exposure, ingressVars>>

\* Caddy takes a file routing the apps of r.
Take(r) ==
    /\ caddyfile' = r
    /\ wasServed' = wasServed \cup r

\* write() and reconfigure(): the file is validated and moved in place whole.
\* It is refused with nothing changed, or the new task Caddy needs does not
\* start and the publication fails with the file already moved.
PublishWrite(p) ==
    /\ stage[p] = "write"
    /\ \/ /\ Take(rendered[p])
          /\ stage' = [stage EXCEPT ![p] = "record"]
       \/ /\ Take(rendered[p])
          /\ stage' = [stage EXCEPT ![p] = "refused"]
       \/ /\ stage' = [stage EXCEPT ![p] = "refused"]
          /\ UNCHANGED <<caddyfile, wasServed>>
    /\ UNCHANGED <<stateVars, services, exposure, published, rendered>>

\* record_ingress: the whole set replaced in one transaction.
PublishRecord(p) ==
    /\ stage[p] = "record"
    /\ published' = rendered[p]
    /\ stage' = [stage EXCEPT ![p] = "complete"]
    /\ UNCHANGED <<stateVars, services, exposure, caddyfile, wasServed, rendered>>

\* complete_unimplemented("ConfigureIngress", among): the journal's rows first,
\* then the apps no unimplemented row holds back any more, in one transaction.
RouteRowsDone(among) ==
    [a \in App |->
        [i \in Steps(a) |->
            IF /\ a \in among
               /\ Plan[a][i] = "ConfigureIngress"
               /\ journal[a][i] = "unimplemented"
            THEN "done"
            ELSE journal[a][i]]]

Waited(a) == \E i \in Steps(a) : /\ Plan[a][i] = "ConfigureIngress"
                                 /\ journal[a][i] = "unimplemented"

StatusLeftAsItWas(among) == status
PartialNowRunning(among) ==
    [a \in App |->
        IF /\ a \in among
           /\ Waited(a)
           /\ status[a] = "partial"
           /\ \A i \in Steps(a) : RouteRowsDone(among)[a][i] # "unimplemented"
        THEN "running"
        ELSE status[a]]

PublishComplete(p) ==
    /\ stage[p] = "complete"
    /\ journal' = RouteRowsDone(rendered[p])
    /\ status' = PartialNowRunning(rendered[p])
    /\ stage' = [stage EXCEPT ![p] = "served"]
    /\ UNCHANGED <<services, exposure, ingressVars, rendered>>

PublishStep(p) ==
    \/ PublishBegin(p)
    \/ PublishWrite(p)
    \/ PublishRecord(p)
    \/ PublishComplete(p)

PublicationTypeOK ==
    /\ status \in [App -> AppStatus]
    /\ journal = [a \in App |-> journal[a]]
    /\ \A a \in App : journal[a] \in [Steps(a) -> ActionStatus]
    /\ services \subseteq App
    /\ exposure \in BOOLEAN
    /\ caddyfile \subseteq App
    /\ published \subseteq App
    /\ wasServed \subseteq App
    /\ stage \in [Process -> Stage]
    /\ rendered \in [Process -> SUBSET App]
=============================================================================
