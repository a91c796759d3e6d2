------------------------------ MODULE Install ------------------------------
(***************************************************************************)
(* Installing, resuming and removing apps: the executor's run              *)
(* (crates/hlb-engine/src/lib.rs) under `hlb install`, `hlb remove` and    *)
(* the daemon's intents (crates/hlb-privd/src/apps.rs), over the journal   *)
(* and the publication of module Publication.                              *)
(*                                                                         *)
(* An app's plan is resolved from the manifest frozen when it was          *)
(* recorded, so every run of one app has the same plan here; plans that    *)
(* change are upgrades.  Any step of a process may be its last (Crash):    *)
(* what it wrote stays, what it held in memory is gone.                    *)
(***************************************************************************)
EXTENDS Publication

CONSTANTS
    Drives,         \* Drives[p]: the apps process p installs and removes
    CatalogPinned,  \* apps whose catalog manifest already carries a digest
    Fragile,        \* apps whose service someone may remove behind hlb's back
    Exposed,        \* does the story start with an exposure configured?
    IngressUp       \* does it start with the ingress installed?

ASSUME InstallAssumption ==
    /\ Drives \in [Process -> SUBSET App]
    /\ CatalogPinned \subseteq App
    /\ Fragile \subseteq App
    /\ Exposed \in BOOLEAN
    /\ IngressUp \in BOOLEAN
    /\ IngressUp => Exposed

VARIABLES
    handled,  \* handled[a]: a's guide steps verified or attested, by kind
    pinned,   \* pinned[a]: the frozen manifest carries the image's digest
    pc,       \* where each process stands
    target,   \* the app its operation is about
    todo,     \* the actions its run has still to execute
    result,   \* how the action it executed ended
    unimpl,   \* did its run leave an action unimplemented?
    ended,    \* history: apps whose last run or removal, once started, returned
    gone,     \* history: apps whose service went away since their last run looked, or
              \* was away when Docker did not answer that look
    reopened, \* history: apps whose blocking step a re-check opened again since a run
              \* last found it handled
    assumed,  \* history: apps a publication takes as served on its word (WaitHealthy,
              \* ForgetApp)
    outrun    \* history: apps whose route was completed under a run that had counted
              \* it as unimplemented

vars == <<status, journal, services, exposure, caddyfile, published, stage,
          rendered, wasServed, handled, pinned, pc, target, todo, result,
          unimpl, ended, gone, reopened, assumed, outrun>>

GuideKind == {"PreGuide", "Guide"}
PC == {"idle", "recording", "planning", "checking", "starting", "running",
       "deploying", "publishing", "marking", "failing",
       "forgetting", "republishing"}
Result == {"done", "unimplemented", "failed"}

\* A run whose plan is recorded, and one that executes it.
Planned == {"checking", "starting", "running", "deploying", "publishing",
            "marking", "failing"}
Started == Planned \ {"checking", "starting"}

Driven(a) == \E p \in Process : pc[p] # "idle" /\ target[p] = a

\* What a process leaves alone, by part of the state.
unrecorded == <<status, journal>>
undeployed == <<services, exposure, caddyfile, published, wasServed>>
unpublished == <<stage, rendered>>
unguided == <<handled, pinned>>
history == <<ended, gone, reopened, assumed, outrun>>
local == <<target, todo, result, unimpl>>

Goto(p, l) == pc' = [pc EXCEPT ![p] = l]

\* The operation is over: what the process held in memory is dropped.
Return(p) ==
    /\ Goto(p, "idle")
    /\ target' = [target EXCEPT ![p] = Caddy]
    /\ todo' = [todo EXCEPT ![p] = {}]
    /\ result' = [result EXCEPT ![p] = "done"]
    /\ unimpl' = [unimpl EXCEPT ![p] = FALSE]
    /\ stage' = [stage EXCEPT ![p] = "out"]
    /\ rendered' = [rendered EXCEPT ![p] = {}]

\* The three UPDATEs of the state that find no row leave everything as it was.
SetStatus(a, s) ==
    status' = [status EXCEPT ![a] = IF @ = "absent" THEN @ ELSE s]
SetRow(a, i, s) ==
    journal' = [journal EXCEPT ![a][i] = IF @ = "absent" THEN @ ELSE s]
Handle(a, ks) == handled' = [handled EXCEPT ![a] = @ \cup ks]

Guides(a) == {k \in GuideKind : \E i \in Steps(a) : Plan[a][i] = k}

-----------------------------------------------------------------------------
Init ==
    LET up(a) == IngressUp /\ a = Caddy
    IN  /\ status = [a \in App |-> IF up(a) THEN "running" ELSE "absent"]
        /\ journal = [a \in App |-> [i \in Steps(a) |->
                                        IF up(a) THEN "done" ELSE "absent"]]
        /\ services = {a \in App : up(a)}
        /\ exposure = Exposed
        /\ caddyfile = {}
        /\ published = {}
        /\ wasServed = {}
        /\ stage = [p \in Process |-> "out"]
        /\ rendered = [p \in Process |-> {}]
        /\ handled = [a \in App |-> IF up(a) THEN Guides(a) ELSE {}]
        /\ pinned = [a \in App |-> up(a)]
        /\ pc = [p \in Process |-> "idle"]
        /\ target = [p \in Process |-> Caddy]
        /\ todo = [p \in Process |-> {}]
        /\ result = [p \in Process |-> "done"]
        /\ unimpl = [p \in Process |-> FALSE]
        /\ ended = App
        /\ gone = {}
        /\ reopened = {}
        /\ assumed = {}
        /\ outrun = {}

-----------------------------------------------------------------------------
\* An install applies: the refusals are behind it.  The ingress needs an
\* exposure.  An app recorded already is resumed as it was frozen.
BeginInstall(p, a) ==
    /\ pc[p] = "idle"
    /\ a \in Drives[p]
    /\ a = Caddy => exposure
    /\ Goto(p, IF status[a] = "absent" THEN "recording" ELSE "planning")
    /\ target' = [target EXCEPT ![p] = a]
    /\ UNCHANGED <<unrecorded, undeployed, unpublished, unguided, history,
                   todo, result, unimpl>>

\* install::record: upsert_app inserts "installing", and keeps the status of a
\* row another process inserted meanwhile.
RecordApp(p) ==
    LET a == target[p]
    IN  /\ pc[p] = "recording"
        /\ status' = [status EXCEPT ![a] = IF @ = "absent" THEN "installing"
                                                           ELSE @]
        /\ pinned' = [pinned EXCEPT ![a] = a \in CatalogPinned]
        /\ Goto(p, "planning")
        /\ UNCHANGED <<journal, undeployed, unpublished, handled, history, local>>

\* record_plan, then add_guide for each guide step.  The rows of an app removed
\* meanwhile have no app to belong to: the insert fails and the run with it.
RecordPlan(p) ==
    LET a == target[p]
    IN  /\ pc[p] = "planning"
        /\ \/ /\ status[a] # "absent"
              /\ journal' = [journal EXCEPT ![a] =
                    [i \in Steps(a) |-> IF @[i] = "absent" THEN "pending"
                                                           ELSE @[i]]]
              /\ Goto(p, "checking")
              /\ UNCHANGED <<unpublished, local>>
           \/ /\ status[a] = "absent"
              /\ UNCHANGED journal
              /\ Return(p)
        /\ UNCHANGED <<status, undeployed, unguided, history>>

\* The blocking pre-install steps the state does not hold as handled.
OpenWithoutLooking(a) == {}
OpenPrerequisites(a) == (Guides(a) \cap {"PreGuide"}) \ handled[a]

\* prerequisites(): a blocking pre-install step is met when the state holds it
\* as handled or its check proves it now; one neither stops the run before
\* anything is modified (BlockedByGuide).
CheckPrerequisites(p) ==
    LET a == target[p]
        open == OpenPrerequisites(a)
    IN  /\ pc[p] = "checking"
        /\ \/ /\ Handle(a, open)
              /\ reopened' = reopened \ {a}
              /\ Goto(p, "starting")
              /\ UNCHANGED <<unpublished, local>>
           \/ /\ open # {}
              /\ UNCHANGED <<handled, reopened>>
              /\ Return(p)
        /\ UNCHANGED <<unrecorded, undeployed, pinned, ended, gone, assumed, outrun>>

\* What this run executes: the actions the journal does not hold as done, the
\* deployment and the wait of a service deployed once and gone since, and a
\* digest resolved once and absent from the frozen manifest since.  Only Docker's
\* NotFound counts as gone: any other error is taken for a service that is there,
\* and a frozen manifest that cannot be read for one that lost nothing.  read is
\* what the run could read.
RedeploysNothing(a, i, read) == FALSE
Redeploys(a, i, read) ==
    \/ /\ Plan[a][i] \in {"DeployService", "WaitHealthy"}
       /\ "services" \in read
       /\ a \notin services
       /\ \E j \in Steps(a) : /\ Plan[a][j] = "DeployService"
                              /\ journal[a][j] = "done"
    \/ /\ Plan[a][i] = "ResolveDigest"
       /\ "manifest" \in read
       /\ ~pinned[a]
ToExecute(a, read) ==
    {i \in Steps(a) : journal[a][i] # "done" \/ Redeploys(a, i, read)}

\* A run resuming after a failure is installing again: failed apps have no
\* route.  Then what is done is read, once, for the whole run.
Start(p) ==
    LET a == target[p]
    IN  /\ pc[p] = "starting"
        /\ status' = [status EXCEPT ![a] = IF @ = "failed" THEN "installing"
                                                           ELSE @]
        /\ \E read \in SUBSET {"services", "manifest"} :
              /\ todo' = [todo EXCEPT ![p] = ToExecute(a, read)]
              /\ gone' = IF "services" \in read THEN gone \ {a}
                                               ELSE gone \cup ({a} \ services)
        /\ unimpl' = [unimpl EXCEPT ![p] = FALSE]
        /\ ended' = ended \ {a}
        /\ outrun' = outrun \ {a}
        /\ Goto(p, "running")
        /\ UNCHANGED <<journal, undeployed, unpublished, unguided, reopened,
                       assumed, target, result>>

-----------------------------------------------------------------------------
\* execute_one.  i is the run's next action.
Next1(p, i) == i \in todo[p] /\ \A j \in todo[p] : i <= j

Answer(p, r) == result' = [result EXCEPT ![p] = r] /\ Goto(p, "marking")

Executing(p, kinds) ==
    /\ pc[p] = "running"
    /\ \E i \in Steps(target[p]) : Next1(p, i) /\ Plan[target[p]][i] \in kinds

\* Creates what is absent; without the building block it needs (a vault, a
\* database server, PocketID) it is recorded unimplemented, never done.
ExecuteProvision(p) ==
    /\ Executing(p, {"Provision"})
    /\ \E r \in Result : Answer(p, r)
    /\ UNCHANGED <<unrecorded, undeployed, unpublished, unguided, history,
                   target, todo, unimpl>>

\* Without a registry client nothing is resolved.
ExecuteResolveDigest(p) ==
    /\ Executing(p, {"ResolveDigest"})
    /\ \E r \in Result :
          /\ Answer(p, r)
          /\ pinned' = [pinned EXCEPT ![target[p]] = @ \/ r = "done"]
    /\ UNCHANGED <<unrecorded, undeployed, unpublished, handled, history,
                   target, todo, unimpl>>

\* An automated step is tried; the action is done whether or not it was.
ExecuteGuide(p) ==
    /\ Executing(p, GuideKind)
    /\ \/ /\ \E i \in todo[p] : Next1(p, i) /\ Handle(target[p], {Plan[target[p]][i]})
          /\ Answer(p, "done")
       \/ /\ UNCHANGED handled
          /\ \E r \in {"done", "failed"} : Answer(p, r)
    /\ UNCHANGED <<unrecorded, undeployed, unpublished, pinned, history,
                   target, todo, unimpl>>

\* An image with no digest is refused.  The ingress is deployed on a file that
\* routes what there is to route, rendered first.
ExecuteDeploy(p) ==
    LET a == target[p]
    IN  /\ Executing(p, {"DeployService"})
        /\ \/ /\ Answer(p, "failed")
              /\ UNCHANGED <<services, rendered, gone>>
           \/ /\ pinned[a] /\ a # Caddy
              /\ services' = services \cup {a}
              /\ Answer(p, "done")
              /\ gone' = gone \ {a}
              /\ UNCHANGED rendered
           \/ /\ pinned[a] /\ a = Caddy
              /\ rendered' = [rendered EXCEPT ![p] = Routes]
              /\ Goto(p, "deploying")
              /\ UNCHANGED <<services, result, gone>>
        /\ UNCHANGED <<unrecorded, exposure, ingressVars, stage, unguided,
                       ended, reopened, assumed, outrun, target, todo, unimpl>>

\* The ingress's file is written, then its service deployed.
DeployIngress(p) ==
    /\ pc[p] = "deploying"
    /\ \/ /\ Take(rendered[p])
          /\ services' = services \cup {Caddy}
          /\ gone' = gone \ {Caddy}
          /\ Answer(p, "done")
       \/ /\ Take(rendered[p])
          /\ UNCHANGED <<services, gone>>
          /\ Answer(p, "failed")
       \/ /\ UNCHANGED <<services, caddyfile, wasServed, gone>>
          /\ Answer(p, "failed")
    /\ rendered' = [rendered EXCEPT ![p] = {}]
    /\ UNCHANGED <<unrecorded, exposure, published, stage, unguided, ended,
                   reopened, assumed, outrun, target, todo, unimpl>>

\* wait_healthy; once the ingress is up, the routes of this moment are recorded
\* as published.
ExecuteWaitHealthy(p) ==
    LET a == target[p]
    IN  /\ Executing(p, {"WaitHealthy"})
        /\ \/ /\ Answer(p, "failed")
              /\ UNCHANGED <<unpublished, assumed>>
           \/ /\ a \in services /\ a # Caddy
              /\ Answer(p, "done")
              /\ UNCHANGED <<unpublished, assumed>>
           \/ /\ a \in services /\ a = Caddy
              /\ rendered' = [rendered EXCEPT ![p] = Routes]
              /\ stage' = [stage EXCEPT ![p] = "record"]
              /\ assumed' = assumed \cup (Routes \ wasServed)
              /\ Goto(p, "publishing")
              /\ UNCHANGED result
        /\ UNCHANGED <<unrecorded, undeployed, unguided, ended, gone, reopened,
                       outrun, target, todo, unimpl>>

ExecuteConfigureIngress(p) ==
    /\ Executing(p, {"ConfigureIngress"})
    /\ stage' = [stage EXCEPT ![p] = "begin"]
    /\ Goto(p, "publishing")
    /\ UNCHANGED <<unrecorded, undeployed, rendered, unguided, history, local>>

\* The apps of a publication about to complete their routes whose own run, still
\* going, has counted an action as unimplemented.
Outruns(p) ==
    {a \in rendered[p] :
        /\ stage[p] = "complete"
        /\ Waited(a)
        /\ \E q \in Process : target[q] = a /\ pc[q] \in Started /\ unimpl[q]}

\* One step of the publication a process is in.
Publish(p) ==
    /\ pc[p] \in {"publishing", "republishing"}
    /\ PublishStep(p)
    /\ outrun' = outrun \cup Outruns(p)
    /\ UNCHANGED <<unguided, pc, ended, gone, reopened, assumed, local>>

\* How the publication an action ran ended.  A route step is done when THIS app's
\* route is among those served; with no ingress, or withheld, unimplemented.
RouteAnswerUnread(p) == IF stage[p] = "refused" THEN "failed" ELSE "done"
RouteAnswer(p) ==
    CASE stage[p] = "refused" -> "failed"
      [] stage[p] = "unserved" -> "unimplemented"
      [] stage[p] = "served" -> IF target[p] = Caddy \/ target[p] \in rendered[p]
                                THEN "done" ELSE "unimplemented"

PublicationAnswered(p) ==
    /\ pc[p] = "publishing"
    /\ stage[p] \in {"served", "unserved", "refused"}
    /\ Answer(p, RouteAnswer(p))
    /\ stage' = [stage EXCEPT ![p] = "out"]
    /\ rendered' = [rendered EXCEPT ![p] = {}]
    /\ UNCHANGED <<unrecorded, undeployed, unguided, history, target, todo,
                   unimpl>>

\* set_action_status, and the counters of the run's Outcome.
Mark(p) ==
    LET a == target[p]
    IN  /\ pc[p] = "marking"
        /\ \E i \in Steps(a) :
              /\ Next1(p, i)
              /\ SetRow(a, i, result[p])
              /\ todo' = [todo EXCEPT ![p] = @ \ {i}]
        /\ unimpl' = [unimpl EXCEPT ![p] = @ \/ result[p] = "unimplemented"]
        /\ result' = [result EXCEPT ![p] = "done"]
        /\ Goto(p, IF result[p] = "failed" THEN "failing" ELSE "running")
        /\ UNCHANGED <<status, undeployed, unpublished, unguided, history,
                       target>>

\* A failed action stops the run dead, the app failed.
Fail(p) ==
    /\ pc[p] = "failing"
    /\ SetStatus(target[p], "failed")
    /\ ended' = ended \cup {target[p]}
    /\ Return(p)
    /\ UNCHANGED <<journal, undeployed, unguided, gone, reopened, assumed, outrun>>

\* The whole plan went through.
FinalStatusUnknown(p) == IF unimpl[p] THEN "unfinished" ELSE "running"
FinalStatusBlind(p) == "running"
FinalStatus(p) == IF unimpl[p] THEN "partial" ELSE "running"

Finish(p) ==
    /\ pc[p] = "running"
    /\ todo[p] = {}
    /\ SetStatus(target[p], FinalStatus(p))
    /\ ended' = ended \cup {target[p]}
    /\ Return(p)
    /\ UNCHANGED <<journal, undeployed, unguided, gone, reopened, assumed, outrun>>

-----------------------------------------------------------------------------
\* Removal: the services first, then the app is forgotten with its journal and
\* its guides, then the routes are published without it.  A removal Docker
\* refuses changes nothing.
RemoveServices(p, a) ==
    /\ pc[p] = "idle"
    /\ a \in Drives[p]
    /\ status[a] # "absent"
    /\ target' = [target EXCEPT ![p] = a]
    /\ services' = services \ {a}
    /\ Goto(p, "forgetting")
    /\ ended' = ended \ {a}
    /\ UNCHANGED <<unrecorded, exposure, ingressVars, unpublished, unguided,
                   todo, result, unimpl, gone, reopened, assumed, outrun>>

\* Publications of other processes that served a and have not completed it yet: they
\* go on as if the app they rendered were still the one recorded.
Outlives(p, a) ==
    \E q \in Process \ {p} : /\ stage[q] \in {"record", "complete", "served"}
                             /\ a \in rendered[q]

ForgetApp(p) ==
    LET a == target[p]
    IN  /\ pc[p] = "forgetting"
        /\ status' = [status EXCEPT ![a] = "absent"]
        /\ journal' = [journal EXCEPT ![a] = [i \in Steps(a) |-> "absent"]]
        /\ handled' = [handled EXCEPT ![a] = {}]
        /\ pinned' = [pinned EXCEPT ![a] = FALSE]
        /\ wasServed' = wasServed \ {a}
        /\ assumed' = IF Outlives(p, a) THEN assumed \cup {a} ELSE assumed \ {a}
        /\ reopened' = reopened \ {a}
        /\ stage' = [stage EXCEPT ![p] = "begin"]
        /\ Goto(p, "republishing")
        /\ ended' = ended \cup {a}
        /\ UNCHANGED <<services, exposure, caddyfile, published, rendered,
                       gone, outrun, local>>

\* `hlb config exposure`, `hlb ingress --apply`, an attested guide step: each
\* publishes what there is.
Republish(p) ==
    /\ pc[p] = "idle"
    /\ \/ exposure' = TRUE /\ UNCHANGED handled
       \/ /\ UNCHANGED exposure
          /\ \E a \in App : status[a] # "absent" /\ Handle(a, Guides(a))
    /\ stage' = [stage EXCEPT ![p] = "begin"]
    /\ Goto(p, "republishing")
    /\ target' = [target EXCEPT ![p] = Caddy]
    /\ UNCHANGED <<unrecorded, services, ingressVars, rendered, pinned,
                   history, todo, result, unimpl>>

RepublicationEnds(p) ==
    /\ pc[p] = "republishing"
    /\ stage[p] \in {"served", "unserved", "refused"}
    /\ Return(p)
    /\ UNCHANGED <<unrecorded, undeployed, unguided, history>>

-----------------------------------------------------------------------------
\* A process dies where it stands.
Crash(p) ==
    /\ pc[p] # "idle"
    /\ Return(p)
    /\ UNCHANGED <<unrecorded, undeployed, unguided, history>>

\* `docker service rm`, a lost cluster.
Vanish(a) ==
    /\ a \in Fragile \cap services
    /\ services' = services \ {a}
    /\ gone' = gone \cup {a}
    /\ UNCHANGED <<unrecorded, exposure, ingressVars, unpublished, unguided, pc,
                   ended, reopened, assumed, outrun, local>>

\* recheck_guides, every night: a handled step whose check fails, twice, is pending
\* again, whatever its app is doing.
Reopen(a) ==
    /\ \E k \in handled[a] :
          /\ handled' = [handled EXCEPT ![a] = @ \ {k}]
          /\ reopened' = IF k = "PreGuide" THEN reopened \cup {a} ELSE reopened
    /\ UNCHANGED <<unrecorded, undeployed, unpublished, pinned, pc, ended, gone,
                   assumed, outrun, local>>

\* A manifest frozen again with no digest, for an image built here.
LoseDigest(a) ==
    /\ a \notin CatalogPinned
    /\ pinned[a]
    /\ ~Driven(a)
    /\ pinned' = [pinned EXCEPT ![a] = FALSE]
    /\ UNCHANGED <<unrecorded, undeployed, unpublished, handled, pc, history, local>>

Run(p) ==
    \/ RecordApp(p) \/ RecordPlan(p) \/ CheckPrerequisites(p) \/ Start(p)
    \/ ExecuteProvision(p) \/ ExecuteResolveDigest(p) \/ ExecuteGuide(p)
    \/ ExecuteDeploy(p) \/ DeployIngress(p) \/ ExecuteWaitHealthy(p)
    \/ ExecuteConfigureIngress(p) \/ Publish(p) \/ PublicationAnswered(p)
    \/ Mark(p) \/ Fail(p) \/ Finish(p)
    \/ ForgetApp(p) \/ RepublicationEnds(p)

Next ==
    \/ \E p \in Process :
          \/ Run(p)
          \/ Crash(p)
          \/ Republish(p)
          \/ \E a \in App : BeginInstall(p, a) \/ RemoveServices(p, a)
    \/ \E a \in App : Vanish(a) \/ Reopen(a) \/ LoseDigest(a)

Spec == Init /\ [][Next]_vars

-----------------------------------------------------------------------------
\* An app nobody is working on, whose last run or removal was not cut short.
Quiet(a) == a \in ended /\ ~Driven(a)

\* Every variable holds what the code can put there.
TypeOK ==
    /\ PublicationTypeOK
    /\ handled \in [App -> SUBSET GuideKind]
    /\ pinned \in [App -> BOOLEAN]
    /\ pc \in [Process -> PC]
    /\ target \in [Process -> App]
    /\ todo \in [Process -> SUBSET Nat]
    /\ result \in [Process -> Result]
    /\ unimpl \in [Process -> BOOLEAN]
    /\ ended \subseteq App
    /\ gone \subseteq App
    /\ reopened \subseteq App
    /\ assumed \subseteq App
    /\ outrun \subseteq App

\* "running" is never claimed over work left: once the operation returned, an
\* app whose status is running has every action of its plan recorded done.
RunningIsComplete ==
    \A a \in App : Quiet(a) /\ status[a] = "running" =>
        \A i \in Steps(a) : journal[a][i] = "done"

\* "partial" is said only while an action is left unimplemented, so that a later
\* publication moves the app on: unless one completed the app's route while the run
\* that had counted it was still going.
PartialIsOpen ==
    \A a \in App : Quiet(a) /\ status[a] = "partial" =>
        \/ \E i \in Steps(a) : journal[a][i] = "unimplemented"
        \/ a \in outrun

\* A run that ended well leaves its service in Swarm, also when the service had
\* vanished before the run or a removal was cut short: unless it went since the run
\* looked, or Docker did not answer that look.
ServiceBehindStatus ==
    \A a \in App : /\ Quiet(a)
                   /\ status[a] \in {"running", "partial"}
                   /\ \E i \in Steps(a) : Plan[a][i] = "DeployService"
                   => a \in services \cup gone

\* No service exists whose app's blocking pre-install steps are open, unless the
\* nightly re-check opened one again since a run last found it handled.
NothingBeforePrerequisites ==
    \A a \in services : "PreGuide" \in Guides(a) =>
        "PreGuide" \in handled[a] \/ a \in reopened

\* A route recorded done was in a file Caddy took since the app was recorded, unless
\* it is taken on the word of the ingress's own run, which records the routes of the
\* moment it was healthy, or of a publication the app's removal ran under.
DoneRouteWasServed ==
    \A a \in App : \A i \in Steps(a) :
        Plan[a][i] = "ConfigureIngress" /\ journal[a][i] = "done" =>
            a \in wasServed \cup assumed

\* An app said to be running is reachable: with the ingress up and nobody
\* publishing, the file Caddy serves routes it.
RunningIsRouted ==
    \A a \in App :
        /\ Quiet(a)
        /\ status[a] = "running"
        /\ HasRoute(a)
        /\ Caddy \in services
        /\ \A p \in Process : stage[p] = "out"
        => a \in caddyfile

-----------------------------------------------------------------------------
\* No two processes install or remove the same app.
OneDriver == \A p, q \in Process : p # q => Drives[p] \cap Drives[q] = {}

OwnsTarget ==
    \A p \in Process : pc[p] \notin {"idle", "republishing"} =>
        target[p] \in Drives[p]

StartedNotEnded ==
    \A p \in Process : pc[p] \in Started \cup {"forgetting"} =>
        target[p] \notin ended

RowsPresent ==
    \A p \in Process : pc[p] \in Planned =>
        \A i \in Steps(target[p]) : journal[target[p]][i] # "absent"

\* What a run no longer has to do is done, or counted as unimplemented.
RunProgress ==
    \A p \in Process : pc[p] \in Started \ {"failing"} =>
        \A i \in Steps(target[p]) : i \notin todo[p] =>
            \/ journal[target[p]][i] = "done"
            \/ unimpl[p] /\ journal[target[p]][i] = "unimplemented"

EndedComplete ==
    \A a \in ended : \A i \in Steps(a) :
        /\ status[a] = "running" => journal[a][i] = "done"
        /\ status[a] = "partial" => journal[a][i] \in {"done", "unimplemented"}

\* Why RunningIsComplete holds when no app has two drivers: RunProgress carries
\* through the run what Finish then claims, and a publication of another
\* process only turns unimplemented rows into done ones.
CompleteInv ==
    /\ TypeOK
    /\ OwnsTarget
    /\ StartedNotEnded
    /\ RowsPresent
    /\ RunProgress
    /\ EndedComplete
=============================================================================
