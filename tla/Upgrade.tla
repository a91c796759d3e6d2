------------------------------ MODULE Upgrade ------------------------------
(***************************************************************************)
(* What an installed app runs, and what the state says it runs: `hlb       *)
(* upgrade` (crates/hlb-engine/src/upgrade.rs, crates/hlb-privd/src/       *)
(* apps.rs), `hlb update` (crates/hlb-updater/src/apply.rs) and            *)
(* reconciliation (crates/hlb-engine/src/reconcile.rs), each a process of  *)
(* its own over the frozen manifest, the journal and Swarm.                *)
(*                                                                         *)
(* A manifest is its specification, which upgrades move, and its image,    *)
(* which updates move.  The app has one service; its plan provisions,      *)
(* deploys it, and waits for it.                                           *)
(***************************************************************************)
EXTENDS Naturals, FiniteSets

CONSTANTS
    Upgrades,   \* does someone upgrade the app?
    Updates,    \* does someone update its image?
    SameTag,    \* is the newer image a rebuild under the same tag?
    Apart,      \* does one begin only when the other is over, and Swarm settled?
    Corrects,   \* does reconciliation correct (--reconcile-apply)?
    MaxSpec,    \* bound: versions of the catalog's manifest
    MaxImage    \* bound: images released

ASSUME UpgradeAssumption ==
    /\ {Upgrades, Updates, SameTag, Apart, Corrects} \subseteq BOOLEAN
    /\ MaxSpec \in Nat \ {0}
    /\ MaxImage \in Nat \ {0}

VARIABLES
    catalog,    \* the version of the manifest the catalog holds
    released,   \* the newest image
    frozen,     \* the manifest in the state
    status,     \* apps.status
    journal,    \* plan_actions.status of each action of the plan
    service,    \* the spec Swarm was given last
    previous,   \* the one before, which a rollback goes back to
    rollout,    \* Swarm's update_state
    task,       \* what the running task runs
    u,          \* the upgrade
    d,          \* the update
    r,          \* the reconciliation
    disturbed,  \* history: what came across an operation
    missing     \* history: was the app last provisioned short of something?

vars == <<catalog, released, frozen, status, journal, service, previous, rollout,
          task, u, d, r, disturbed, missing>>
state == <<frozen, status, journal>>
swarm == <<service, previous, rollout, task>>
releases == <<catalog, released>>
world == <<releases, disturbed, missing>>

Manifest == [spec : 1 .. MaxSpec, image : 1 .. MaxImage]
Row == 1 .. 3
Deploy == 2
Wait == 3

Fresh == [spec |-> 1, image |-> 1]
UpgradeIdle == [pc |-> "idle", kept |-> Fresh, was |-> "running", plan |-> Fresh,
                res |-> "done", unimpl |-> FALSE]
UpdateIdle == [pc |-> "idle", to |-> 1, m |-> Fresh, st |-> "running"]
ReconcileIdle == [pc |-> "idle", image |-> 1]

Init ==
    /\ catalog = 1
    /\ released = 1
    /\ frozen = Fresh
    /\ \/ status = "running" /\ journal = [i \in Row |-> "done"]
       \/ status = "partial"
          /\ journal = [i \in Row |-> IF i = 1 THEN "unimplemented" ELSE "done"]
    /\ service = Fresh
    /\ previous = Fresh
    /\ rollout = "none"
    /\ task = Fresh
    /\ u = UpgradeIdle
    /\ d = UpdateIdle
    /\ r = ReconcileIdle
    /\ disturbed = {}
    /\ missing = (status = "partial")

-----------------------------------------------------------------------------
\* next(): the catalog's manifest, running the image installed now.
NextManifest == [frozen EXCEPT !.spec = catalog]

\* interrupted(): only a failed action says that the last run stopped.
Interrupted == \E i \in Row : journal[i] = "failed"

Offered == NextManifest # frozen \/ Interrupted

\* The manifest and the journal are read, and the plan resolved.
ReadUpgrade ==
    /\ Upgrades
    /\ u.pc = "idle"
    /\ Apart => d.pc = "idle" /\ rollout # "updating"
    /\ Offered
    /\ u' = [UpgradeIdle EXCEPT !.pc = "planned", !.kept = frozen,
                                !.plan = NextManifest]
    /\ UNCHANGED <<world, state, swarm, d, r>>

\* The status the app has, to be put back if the run stops.
ReadStatus ==
    /\ u.pc = "planned"
    /\ u' = [u EXCEPT !.pc = "freezing", !.was = status]
    /\ UNCHANGED <<world, state, swarm, d, r>>

\* upsert_app, set_app_guide, set_app_release.
FreezeNext ==
    /\ u.pc = "freezing"
    /\ frozen' = u.plan
    /\ u' = [u EXCEPT !.pc = "resetting"]
    /\ UNCHANGED <<world, status, journal, swarm, d, r>>

ResetPlan ==
    /\ u.pc = "resetting"
    /\ journal' = [i \in Row |-> "absent"]
    /\ u' = [u EXCEPT !.pc = "recording"]
    /\ UNCHANGED <<world, frozen, status, swarm, d, r>>

\* The run records its plan; a blocking guide step the new manifest brings, not
\* handled, ends it there with an error.  Without an orchestrator there is no run,
\* and a plan that cannot be written is none: the journal stays empty.
RecordPlan ==
    /\ u.pc = "recording"
    /\ \/ /\ journal' = [i \in Row |-> "pending"]
          /\ status' = IF status = "failed" THEN "installing" ELSE status
          /\ u' = [u EXCEPT !.pc = "running"]
       \/ /\ journal' \in {journal, [i \in Row |-> "pending"]}
          /\ status' = status
          /\ u' = [u EXCEPT !.pc = "settling"]
    /\ UNCHANGED <<world, frozen, swarm, d, r>>

\* Swarm is given a spec: what it had is what it would roll back to.
Push(m) ==
    /\ service' = m
    /\ previous' = service
    /\ rollout' = "updating"
    /\ task' = task

\* The image deployed is the state's for the plan's repository and tag, or, when
\* the state names another tag or does not answer, the plan's own.
Resolved == {u.plan.image} \cup (IF SameTag THEN {frozen.image} ELSE {})

\* rollout_concluded: the tasks are told from those of before by their image alone.
Converged == rollout \in {"none", "completed"} /\ task.image = service.image

NextRow(i) == journal[i] = "pending" /\ \A j \in Row : journal[j] = "pending" => i <= j

\* execute_one: provisioning is done, unimplemented or failed; a deployment
\* updates the service in place, and its answer may be lost after Swarm took it; the
\* wait ends well once Swarm has finished watching the new tasks.
Execute(i) ==
    /\ u.pc = "running"
    /\ NextRow(i)
    /\ \/ /\ i \notin {Deploy, Wait}
          /\ \E res \in {"done", "unimplemented"} :
                u' = [u EXCEPT !.pc = "marking", !.res = res]
          /\ UNCHANGED <<swarm, disturbed>>
       \/ /\ i = Deploy
          /\ \E image \in Resolved : Push([spec |-> u.plan.spec, image |-> image])
          /\ \E res \in {"done", "failed"} :
                /\ u' = [u EXCEPT !.pc = "marking", !.res = res]
                /\ disturbed' = disturbed \cup (IF res = "failed" THEN {"unheard"} ELSE {})
       \/ /\ i = Wait
          /\ Converged
          /\ u' = [u EXCEPT !.pc = "marking", !.res = "done"]
          /\ UNCHANGED <<swarm, disturbed>>
       \/ /\ u' = [u EXCEPT !.pc = "marking", !.res = "failed"]
          /\ UNCHANGED <<swarm, disturbed>>
    /\ UNCHANGED <<releases, missing, state, d, r>>

\* set_action_status, which ends the run when it fails; provisioned or not, the app is
\* as the action left it.
Provisioned(i) ==
    missing' = IF i \in {Deploy, Wait} \/ u.res = "failed" THEN missing
               ELSE u.res = "unimplemented"

Mark(i) ==
    /\ u.pc = "marking"
    /\ NextRow(i)
    /\ Provisioned(i)
    /\ \/ /\ journal' = [journal EXCEPT ![i] = u.res]
          /\ u' = [u EXCEPT !.pc = IF u.res = "failed" THEN "failing" ELSE "running",
                            !.unimpl = @ \/ u.res = "unimplemented"]
          /\ UNCHANGED disturbed
       \/ /\ u' = [u EXCEPT !.pc = "settling"]
          /\ disturbed' = disturbed \cup (IF i = Deploy /\ u.res = "done" THEN {"unheard"} ELSE {})
          /\ UNCHANGED journal
    /\ UNCHANGED <<releases, frozen, status, swarm, d, r>>

FinalStatus == IF u.unimpl THEN "partial" ELSE "running"

\* The status the run ends on, unless it cannot be written.
EndRun ==
    /\ \/ /\ u.pc = "failing"
          /\ status' = "failed"
          /\ UNCHANGED disturbed
       \/ /\ u.pc = "running"
          /\ \A i \in Row : journal[i] # "pending"
          /\ status' = FinalStatus
          /\ UNCHANGED disturbed
       \/ /\ u.pc = "failing" \/ (u.pc = "running" /\ \A i \in Row : journal[i] # "pending")
          /\ disturbed' = disturbed \cup {"unsaid"}
          /\ UNCHANGED status
    /\ u' = [u EXCEPT !.pc = "settling"]
    /\ UNCHANGED <<releases, missing, frozen, journal, swarm, d, r>>

\* settle(): a plan gone through is left as it is.  Otherwise - rows open, or none -
\* the previous manifest is put back when nothing was redeployed, and the status it had.
Open == \E i \in Row : journal[i] \in {"failed", "pending", "absent"}
RedeployedNever == FALSE
Redeployed == journal[Deploy] = "done"

Settle ==
    /\ u.pc = "settling"
    /\ \/ /\ ~Open
          /\ u' = UpgradeIdle
          /\ disturbed' = disturbed \ {"unrun"}
          /\ UNCHANGED frozen
       \/ /\ Open
          /\ frozen' = IF Redeployed THEN frozen ELSE u.kept
          /\ u' = [u EXCEPT !.pc = "restoring"]
          /\ disturbed' = disturbed \cup (IF Interrupted THEN {} ELSE {"unrun"})
    /\ UNCHANGED <<releases, missing, status, journal, swarm, d, r>>

StatusNotRestored == status
StatusOfTheRow == u.res
StatusRestored == u.was
RestoreStatus ==
    /\ u.pc = "restoring"
    /\ status' = StatusRestored
    /\ u' = UpgradeIdle
    /\ UNCHANGED <<world, frozen, journal, swarm, d, r>>

-----------------------------------------------------------------------------
\* hlb update: a candidate newer than what is installed, backed up first.
ReadUpdate ==
    /\ Updates
    /\ d.pc = "idle"
    /\ Apart => u.pc = "idle" /\ rollout # "updating"
    /\ frozen.image < released
    /\ d' = [UpdateIdle EXCEPT !.pc = "pushing", !.to = released]
    /\ UNCHANGED <<world, state, swarm, u, r>>

\* update_image replaces the image alone in the spec Swarm holds; an error, before
\* or after Swarm took it, ends the update there.
PushImage ==
    /\ d.pc = "pushing"
    /\ \/ /\ Push([service EXCEPT !.image = d.to])
          /\ d' \in {[d EXCEPT !.pc = "watching"], UpdateIdle}
       \/ /\ d' = UpdateIdle
          /\ UNCHANGED swarm
    /\ UNCHANGED <<world, state, u, r>>

\* watch(): failures are read from update_state, success from the tasks.
AppliedBySpec == rollout # "rolledback" /\ service.image = d.to
Applied == Converged /\ task.image = d.to
Watch ==
    /\ d.pc = "watching"
    /\ d' = CASE rollout \in {"rolledback", "paused"} -> UpdateIdle
              [] OTHER -> IF Applied THEN [d EXCEPT !.pc = "reading"] ELSE d
    /\ d' # d
    /\ UNCHANGED <<world, state, swarm, u, r>>

\* The deadline passed with no clear conclusion: nothing is written.
TimeOut ==
    /\ d.pc = "watching"
    /\ d' = UpdateIdle
    /\ UNCHANGED <<world, state, swarm, u, r>>

\* The manifest is read, the new image put in it, and the whole written back.
ReadManifest ==
    /\ d.pc = "reading"
    /\ d' = [d EXCEPT !.pc = "writing", !.m = [frozen EXCEPT !.image = d.to]]
    /\ UNCHANGED <<world, state, swarm, u, r>>

FreezeImage ==
    /\ d.pc = "writing"
    /\ frozen' = d.m
    /\ d' = [d EXCEPT !.pc = "judging"]
    /\ UNCHANGED <<world, status, journal, swarm, u, r>>

\* status_after_update: a plan that failed keeps its status, one with an action
\* unimplemented is partial.
RunningWhateverBefore == "running"
StatusAfterUpdate ==
    IF \E i \in Row : journal[i] = "unimplemented" THEN "partial" ELSE "running"

JudgeStatus ==
    /\ d.pc = "judging"
    /\ d' = IF \E i \in Row : journal[i] = "failed"
            THEN UpdateIdle
            ELSE [d EXCEPT !.pc = "ending", !.st = StatusAfterUpdate]
    /\ UNCHANGED <<world, state, swarm, u, r>>

SetStatus ==
    /\ d.pc = "ending"
    /\ status' = d.st
    /\ d' = UpdateIdle
    /\ UNCHANGED <<world, frozen, journal, swarm, u, r>>

-----------------------------------------------------------------------------
\* detect(): the services are listed with the apps whose install ended, then the
\* image each was told is compared with the frozen one.
Observe ==
    /\ Corrects
    /\ r.pc = "idle"
    /\ status \in {"running", "partial"}
    /\ r' = [pc |-> "comparing", image |-> service.image]
    /\ UNCHANGED <<world, state, swarm, u, d>>

Detect ==
    /\ r.pc = "comparing"
    /\ r' = IF r.image = frozen.image
            THEN ReconcileIdle
            ELSE [pc |-> "correcting", image |-> frozen.image]
    /\ UNCHANGED <<world, state, swarm, u, d>>

\* correct(): whatever Swarm is doing by then.
CorrectImage ==
    /\ r.pc = "correcting"
    /\ Push([service EXCEPT !.image = r.image])
    /\ r' = ReconcileIdle
    /\ disturbed' = disturbed \cup (IF d.pc = "idle" THEN {} ELSE {"fought"})
    /\ UNCHANGED <<releases, missing, state, u, d>>

-----------------------------------------------------------------------------
\* Swarm replaces the tasks, and rolls back or pauses when they do not start.
Succeed ==
    /\ rollout = "updating"
    /\ task' = service
    /\ rollout' = "completed"
    /\ UNCHANGED <<world, state, service, previous, u, d, r>>

RollBack ==
    /\ rollout = "updating"
    /\ disturbed' = disturbed \cup {"rolledback"}
    /\ \/ /\ service' = previous
          /\ task' = previous
          /\ rollout' = "rolledback"
       \/ /\ rollout' = "paused"
          /\ UNCHANGED <<service, task>>
    /\ UNCHANGED <<releases, missing, state, previous, u, d, r>>

Publish ==
    /\ \/ catalog < MaxSpec /\ catalog' = catalog + 1 /\ released' = released
       \/ released < MaxImage /\ released' = released + 1 /\ catalog' = catalog
    /\ UNCHANGED <<disturbed, missing, state, swarm, u, d, r>>

\* The daemon or the command line dies, or an error of the state ends what it was at
\* outside the run: its operation is forgotten.
Crash ==
    /\ disturbed' = disturbed \cup {"died"}
    /\ \/ u.pc # "idle" /\ u' = UpgradeIdle /\ d' = d
       \/ d.pc # "idle" /\ d' = UpdateIdle /\ u' = u
    /\ UNCHANGED <<releases, missing, state, swarm, r>>

Upgrading ==
    \/ ReadStatus \/ FreezeNext \/ ResetPlan \/ RecordPlan
    \/ (\E i \in Row : Execute(i) \/ Mark(i))
    \/ EndRun \/ Settle \/ RestoreStatus
Updating ==
    \/ PushImage \/ Watch \/ TimeOut \/ ReadManifest \/ FreezeImage
    \/ JudgeStatus \/ SetStatus

Next ==
    \/ ReadUpgrade \/ Upgrading
    \/ ReadUpdate \/ Updating
    \/ Observe \/ Detect \/ CorrectImage
    \/ Succeed \/ RollBack \/ Publish \/ Crash

Spec == Init /\ [][Next]_vars

-----------------------------------------------------------------------------
Quiet == u.pc = "idle" /\ d.pc = "idle" /\ r.pc = "idle" /\ rollout # "updating"

Heard == "unheard" \notin disturbed

UpgradeState ==
    [pc : {"idle", "planned", "freezing", "resetting", "recording", "running",
           "marking", "failing", "settling", "restoring"},
     kept : Manifest, was : {"running", "partial", "failed", "installing"},
     plan : Manifest, res : {"done", "unimplemented", "failed"}, unimpl : BOOLEAN]
UpdateState ==
    [pc : {"idle", "pushing", "watching", "reading", "writing", "judging", "ending"},
     to : 1 .. MaxImage, m : Manifest, st : {"running", "partial"}]
ReconcileState == [pc : {"idle", "comparing", "correcting"}, image : 1 .. MaxImage]

\* Every variable holds what the code can put there.
TypeOK ==
    /\ catalog \in 1 .. MaxSpec
    /\ released \in 1 .. MaxImage
    /\ frozen \in Manifest /\ service \in Manifest
    /\ previous \in Manifest /\ task \in Manifest
    /\ status \in {"running", "partial", "failed", "installing"}
    /\ journal \in [Row -> {"absent", "pending", "done", "unimplemented", "failed"}]
    /\ rollout \in {"none", "updating", "completed", "rolledback", "paused"}
    /\ u \in UpgradeState
    /\ d \in UpdateState
    /\ r \in ReconcileState
    /\ disturbed \subseteq {"fought", "rolledback", "died", "unheard", "unsaid", "unrun"}
    /\ missing \in BOOLEAN

\* The frozen manifest moves with what runs: an upgrade that returned leaves the
\* state on the specification the service was given, wherever its run stopped, unless
\* Swarm could not run it or its deployment went unrecorded.
FrozenSpecRuns ==
    Quiet /\ disturbed \subseteq {"fought", "unsaid", "unrun"} => frozen.spec = service.spec

\* An image is frozen only as it runs: the state never moves to one that Swarm
\* could not start, towards which reconciliation would correct, unless
\* reconciliation itself gave another order while the update watched.
FrozenAsItRuns ==
    [][d.pc = "writing" /\ d'.pc = "judging" /\ "fought" \notin disturbed
         => task.image = frozen'.image]_vars

\* The state is ahead of Swarm or level with it, wherever a process dies: the
\* manifest is frozen before it is deployed and taken back only if it was not, so
\* no service runs a specification newer than the one the state knows - unless Swarm
\* took a deployment whose answer, or whose record, was lost.
StateNotBehind == Heard => frozen.spec >= service.spec

\* An upgrade that stops leaves the app the route it had: it never ends failed.
RouteKept == Quiet /\ "died" \notin disturbed => status # "failed"

\* "running" is not said of an app last provisioned short of something, whatever
\* upgrades reset its journal and updates judged it since: only where the last run
\* failed, where one stopped with rows it neither did nor failed - which wipes the
\* marks an update reads - or where a status went unwritten.
PartialSaid ==
    Quiet /\ ~Interrupted /\ disturbed \cap {"died", "unsaid", "unrun"} = {} =>
        (missing => status # "running")

\* Reconciliation gives Swarm no order while it is still following another.
NoContradictoryOrder ==
    [][r.pc = "correcting" /\ r'.pc = "idle" => rollout # "updating"]_vars

-----------------------------------------------------------------------------
\* Upgrades and updates of the app exclude each other.
OneAtATime == Apart \/ ~Updates

Exclusive ==
    /\ u.pc = "idle" \/ d.pc = "idle"
    /\ ~Updates => d.pc = "idle"

\* An update writes the specification it read, which nobody moved meanwhile.
ReadIsFrozen == d.pc = "writing" => d.m.spec = frozen.spec

\* What the state, and Swarm's two specs, may be at each point of an upgrade.
Ordered ==
    /\ catalog >= frozen.spec
    /\ Heard => frozen.spec >= service.spec /\ frozen.spec >= previous.spec

PlannedFromFrozen ==
    u.pc \in {"planned", "freezing"} =>
        /\ u.kept.spec = frozen.spec
        /\ frozen.spec <= u.plan.spec
        /\ u.plan.spec <= catalog

Frozen == {"resetting", "recording", "running", "marking", "failing", "settling"}

FrozenIsPlan ==
    u.pc \in Frozen => u.plan.spec = frozen.spec /\ u.kept.spec <= frozen.spec

\* The service was not given the new specification yet, as far as the run knows.
NotPushed ==
    \/ u.pc \in {"resetting", "recording"}
    \/ /\ journal[Deploy] # "done"
       /\ ~(u.pc = "marking" /\ u.res = "done" /\ NextRow(Deploy))

KeptNotBehind ==
    Heard /\ u.pc \in Frozen /\ NotPushed =>
        u.kept.spec >= service.spec /\ u.kept.spec >= previous.spec

\* Why StateNotBehind holds: the manifest an upgrade would put back stays level
\* with both specs Swarm may run, until the deployment is recorded.
SpecInv ==
    /\ TypeOK
    /\ Exclusive
    /\ ReadIsFrozen
    /\ Ordered
    /\ PlannedFromFrozen
    /\ FrozenIsPlan
    /\ KeptNotBehind
=============================================================================
