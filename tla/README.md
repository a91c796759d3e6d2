# Verification of Homelabus

Homelabus (`hlb`) installs and looks after apps on a Docker Swarm. This directory holds
TLA+ models of the part of it that decides: what is installed, what is published, what
is stopped and given back, what an app runs, who may do what, what someone is told, how
`hlb` replaces itself. TLC checks the models on small instances;
TLAPS proves most of their safety properties for every value of the constants.

Why models here: the daemon (`hlb-privd`) and any number of `hlb` command lines work on
one SQLite file and one Swarm **with no lock between them**. Each SQL statement and each
Docker call is an await; between two of them any other process runs, or the process
dies. The unit tests of the repository drive one operation at a time.

## 1. Inventory

| Part | State it keeps | Operations | Works with |
|---|---|---|---|
| `hlb-engine` executor (`lib.rs`, `install.rs`, `removal.rs`) | none of its own; a run's counters in memory | run a plan action by action, resume, remove | journal and statuses of `hlb-state`, Swarm, registry, guides, ingress |
| `hlb-engine` ingress (`ingress.rs`) | the Caddyfile in a volume | render, validate and write, reconfigure, record, complete what waited | `hlb-state`, Caddy, Swarm |
| `hlb-engine` upgrade (`upgrade.rs`) | none | next, interrupted, settle | executor, `hlb-privd`, `hlb-cli` |
| `hlb-updater` (`apply.rs`) | none | switch an image, watch the rollout, freeze it | Swarm, `hlb-state` |
| `hlb-engine` reconciliation (`reconcile.rs`) | none | detect drift, correct it with `--reconcile-apply` | Swarm, holds, frozen manifests |
| `hlb-backup-run` (`lib.rs`, `restore.rs`) | holds in the state | hold, stop, wait, copy or write, give back; at the daemon's start, give back copies left | Swarm, `hlb-state`, reconciliation |
| `hlb-state` | `apps`, `plan_actions`, `guides`, `ingress_published`, `service_holds`, and audit, secrets, sessions, notifications | one SQL transaction per call | everyone |
| `hlb-privd` | intents, loops | install, upgrade, remove, attest, scale, sign-up, nightly passes | the engine |
| `hlb-privd` confirmations (`confirm.rs`) | a bounded table in memory | begin, consume | PocketID, roles, the web side |
| `hlb-privd` alerts, `hlb-notify`, `hlb-metrics` rules | what was said (memory), what is held (state) | evaluate, say, hold, deliver, mute | VictoriaMetrics, ntfy |
| roles: `hlb-state/src/roles.rs`, `hlb-controller`, `hlb-engine/src/roles.rs`, `hlb-users` | roles, accounts, invitations, who an app lets in | give, remake, delete, allow, deny, invite, sign up, add an account; a pass that makes PocketID match | PocketID |
| `hlb-selfupdate` | the binary and its neighbours on disk | swap, roll back, undo migrations | the filesystem, the schema |
| `hlb-cli` | none | the same operations by hand, restores, volume encryption | the engine, beside the daemon |
| `hlb-orchestrator` | Swarm's services | deploy, scale, update, roll back | Docker |
| `hlb-resolver`, `hlb-catalog`, `hlb-types`, `hlb-ingress` | none | pure: manifest to plan, validation, text | the engine |
| the rest: mail, Termix, secrets, mesh, bootstrap, agent, most of the controller, web | remote services, their own tables | calls to remote services, views | `hlb-state` |

What is hard, and what makes each part correct:

* **Executor.** Dying between an action and its record; another process's publication
  writing the app's rows; a service that vanished after being recorded; Docker or the state
  not answering what a run reads; a step the nightly re-check opens again. Correct when
  `running` is never claimed over work left, the service behind a status exists, and
  nothing is deployed before the blocking prerequisites.
* **Publication.** Render, write and record are three steps with no lock. Correct when a
  route is recorded served only if it was, an app leaves `partial` once served, and one
  said to be running is reachable.
* **Holds.** A copy, a restore and an encryption each stop a service; reconciliation and
  the daemon's start each start one. Correct when no copy is taken live, a half restored
  volume is run by nobody, and what was stopped runs again with the count it had.
* **Upgrade, update, reconciliation.** The manifest is frozen, deployed, and perhaps taken
  back; Swarm rolls back by itself. Correct when the state names what runs, is never
  behind Swarm, and nobody orders Swarm against a rollout under way.

* **Journal.** The plan changes between two runs and rows are matched to actions again.
  Correct when progress follows the action that made it, once each.
* **Confirmations.** Requests at once across awaits, a bounded table, roles that change.
  Correct when a passkey lets each intent it was presented for act once, by someone whose
  role allows it now.
* **Alerts.** Two loops, quiet hours, mutes, refusals, restarts. Correct when what is taken
  as said was said or is kept, and a failure that lasts is told.
* **Roles.** Judged on one reading, applied after a passkey; two passes write PocketID with
  no lock. Correct when an administrator remains, nobody holds a role that is gone, a link
  lets in its number, and PocketID holds the roles in the end.
* **Self-update.** A kill or a power cut between two calls to the filesystem, and a schema
  that moves with any command. Correct when the path names a whole binary, the one replaced
  is kept, and some binary opens the state.

`PROJECT.json` lists every component, each hazard at the line where it bites, the source
lines each definition stands for, and the mutant that shows each property can fail.

## 2. Modules

| Module | Models |
|---|---|
| `Publication` | a publication as four steps (`PublishBegin`, `Write`, `Record`, `Complete`) of any process over the statuses, the journal, the ingress's file and its record |
| `Install` (extends `Publication`) | `Executor::run` under installs, resumes, removals and republications; crashes at every step; services that vanish; reads that fail; the nightly re-check of handled steps |
| `Holds` | holding, stopping, waiting, working and giving back a service, for copies, in-place restores and encryptions; the daemon's death and start; reconciliation of replicas; `hlb scale` and `hlb stop` |
| `Upgrade` | upgrade, update and reconciliation of the image, as three processes over the frozen manifest, the journal and Swarm; calls and writes that fail before or after they took effect |
| `Journal` | `record_plan`, `carry_progress`, `completed_actions`, `set_action_status`, `reset_plan` under runs of a plan that changes, do again what vanished, or have their routes completed by a publication (`complete_unimplemented`) |
| `Mandate` | what a passkey promises: an abstract specification |
| `Confirm` | the table of confirmations and the requests that consume them; implements `Mandate` |
| `Alerts` | the evaluation of a rule and the delivery of what quiet hours held |
| `Roles` | requests that judge, perhaps on a read that failed, and apply; sign-up and `hlb user add`; and the passes that synchronise PocketID |
| `SelfUpdate` | `swap`, `rollback` and the schema, over a directory a power cut may take back |
| `MCInstall`, `MCHolds`, `MCUpgrade`, `MCJournal`, `MCConfirm`, `MCAlerts`, `MCRoles`, `MCSelfUpdate` | instances for TLC |
| `InstallProofs`, `JournalProofs`, `UpgradeProofs`, `HoldsProofs`, `ConfirmProofs`, `AlertsProofs`, `RolesProofs`, `SelfUpdateProofs` | theorems |

**How state maps to code.** In `Install`, `status` is `apps.status` and `journal`
`plan_actions.status` (`"absent"` without a row); `handled` the guides verified or
attested; `pinned` whether the frozen manifest carries a digest; `services` what Swarm
knows; `caddyfile` the routes of the file Caddy watches, `published` the table
`ingress_published`. Each process has a `pc`, the app it works on, and the locals of
`run()`: the actions left, the result of the last one, whether one was unimplemented. A
plan is a constant sequence of kinds. `Provision` stands for every action that creates
something once; the outcome of a remote call (done, unimplemented, failed) is a choice.
`ended`, `gone`, `reopened`, `wasServed`, `assumed` and `outrun` are history variables read
by the properties only. An ingress that is there at the start had its own steps handled.

In `Holds`, `hold` is the one row of `service_holds` of the service, `count` what a
process read before it stopped the service, `gives` what it is about to ask; `desired` is
Swarm's instruction and `up` whether a task runs. In `Upgrade`, a manifest is a pair: the
specification, which upgrades move, and the image, which updates move; `service` and
`previous` are the specs Swarm holds, `task` what runs, `u`, `d`, `r` the locals of the
upgrade, the update and reconciliation; `missing` is a history variable, whether the app
was last provisioned short of something.

`Holds` also has the operator: `decided` is the count kept in the state (`app_replicas`),
`op` and `asked` the scaling under way. `trouble` is a history variable: the kinds of thing
that went otherwise than one operation at a time (an overlap, a refused prior backup, a
call that failed, a hold that lapsed, a scaling under something else, a count Swarm was
asked for and the state did not keep). The environment may
do any of it; the properties say which of it they tolerate. `disturbed` of `Upgrade` and
`crossed` of `Journal` and `Roles` have the same purpose; `blind` of `Roles` names the
refusals a request was spared because a read failed.

In `Journal` a row is an action (its kind and description) and a status, its `seq` its
place. In `Confirm`, `open` and `left` are the table, `held` what a request took out of it,
`allowed` the accounts whose role allowed its intent since it came. In `Alerts`, `said` is
`AlertLoop.said` for one rule, `row` the rule's row of `held_notifications` with its
revision, `tick` and `flush` the locals of the two loops. In `SelfUpdate`, `names` is the
directory, `durable` the directories a power cut may leave, `schema` the last migration
applied. In `Roles`, `ask` and `pass` hold what a request or a pass read and has not written
yet; the app has a client of its own and a lowest level it lets in (`Floor`).

One action is one SQL transaction or one Docker call with the code up to the next await.
Where several writes of one function touch rows no property tells apart (`upsert_app`,
`set_app_guide`, `set_app_release` of an upgrade) they are one step.

## 3. Runs

Twelve runs: ten that pass, two where the code does what a comment of it excludes.

| Run | Instance | Shows |
|---|---|---|
| `install_solo` | one app with every kind of action, ingress up, one process that may die anywhere, services that vanish, Docker or the state not answering, the nightly re-check | `TypeOK`, `RunningIsComplete`, `ServiceBehindStatus`, `NothingBeforePrerequisites` |
| `install_ingress` | the daemon with an app that is a route, the command line with the ingress, at once, each dying anywhere | `RunningIsComplete`, `PartialIsOpen`, `DoneRouteWasServed` |
| `holds` | nightly copy, restore and encryption, reconciliation, an operator, two kills, one kind of trouble | `TypeOK`, `CopiedCold`, `HalfRestoredLeftAlone`, `CountGivenBack`, and `RunsAgain`, `DecidedRuns` |
| `upgrade` | two versions, two images, deaths, rollbacks, pauses, reconciliation, an image rebuilt under the same tag, calls and writes that fail | `TypeOK`, `StateNotBehind`, `FrozenSpecRuns`, `RouteKept`, `PartialSaid`, `FrozenAsItRuns` |
| `journal` | plans of up to three actions of two kinds, two processes, a plan that changes or is reset, one of the kinds a route that publications complete | `DoneWasRun`, `RecordedIsStable`, `CarriedOnce`, `DoneStaysDone` |
| `confirm` | two requests, two confirmations, a table of one place, two accounts, one intent that is its owner's alone | `HeldApart`, `RoleReadNow`, and that `Confirm` implements `Mandate` (`OncePerPasskey`) |
| `alerts` | two subjects, a night, a mute, a refusal, a restart | `TypeOK`, `SaidOrKept`, and `FailureTold` |
| `selfupdate` | three releases, two of which ship migrations of their own, with and without hard links | `WholeAtPath`, `PredecessorKept`, `SomeBinaryOpens` |
| `roles` | three people, two roles, two requests at once, three requests, one read that fails or request cut short | `AdminRemains`, `RoleHeldExists`, `LinkLetsInItsNumber` |
| `roles_sync` | two people, two roles, one request at a time, two passes at once, one refusal or change by hand, an app that lets in administrators only | `SyncedIsTrue`, and `Converges` |
| `install_unreachable` | as `install_solo`, nothing vanishing | `RunningIsRouted` fails |
| `update_fought` | one update beside reconciliation | `NoContradictoryOrder` fails |

**Bounds and why they are enough.** One process that may die anywhere and begin again gives
every cut of a run over the whole plan. In `install_ingress` the app that waits and the
ingress it waits for have a process each, which is the least where one publishes under the
other's run; its app is a route alone, to keep the interleavings within reach. The theorems
cover any number of processes over any plans (section 4). In `Holds`,
`MaxReplicas = 2` tells the count held from 0 and from the manifest's, `MaxOps = 2` with
`MaxKills = 2` allows an operation cut and another over what it left, and `MaxTrouble = 1`
any one kind of trouble at any time; the safety properties are proved for any number of
processes and operations. `MaxSpec = 2` allows an upgrade that
stops, anywhere, and is tried again over what it left, with updates before, between and
after; the theorems cover any number of versions. In `Journal` three places hold two actions that read the same and one that moves
between them. In `Confirm` two confirmations over a table of one place force an eviction
while a request has the other out, and `Timeout`, `MaxAge` and `MaxNow` put each deadline on
both sides. In `Alerts` three changes let a subject fail, another join it, and one recover.
In `Roles` three people give an administrator, another and a newcomer, and three requests
two that cross and one that finds what they left. `CHECK_DEADLOCK FALSE`
is set where the bounds let the system stop. `Apart` restricts `upgrade` to operations that
begin when nothing else is under way (each may still be cut at any step); section 5 says
what happens without it. Symmetry is used where no property is a liveness property.

**Fairness.** `Holds!FairSpec` is weak fairness of each process's own steps (every Docker
call, SQL statement and wait ends, by an answer or its time limit) and says that Swarm
follows its instructions, that reconciliation passes (the daemon's loop), and that the
daemon starts again, since `hlb fleet controller` deploys `hlb-privd` as a Swarm
service (`docs/cli-tour.md:297`), and that its start gives back interrupted copies before
any loop (`hlb-privd/src/daemon/start.rs:1280`). `RunsAgain` does not rest on
reconciliation: a hold that is live is left alone by it. `Alerts!Spec` has both loops pass again and
again, nights end, mutes reach their deadline and the scrape come back; ntfy may refuse as
often as its bound says. `Roles!FairSpec` has the daemon's loop
(`hlb-privd/src/daemon/start.rs:1378`) begin passes and a pass go on to its end; it assumes
nothing of requests.

## 4. Proofs

`InstallProofs`, for every set of apps and processes and every plan:

* `TypeCorrect`: `Spec => []TypeOK`.
* `RunningIsCompleteAlways`: assuming `OneDriver` (no two processes install or remove the
  same app), `Spec => []RunningIsComplete`. The property alone is not inductive: `Finish`
  writes `running` from the run's memory. `CompleteInv` says what that memory is worth:
  what a run no longer has to do is done, or counted as unimplemented (`RunProgress`); its
  rows exist (`RowsPresent`); and an app whose operation returned is as complete as its
  status says (`EndedComplete`). Another process's publication only turns unimplemented
  rows into done ones, which keeps all of it (`PublishCompletes`).
* `ServiceBehindStatusAlways`, under `OneDriver` too: `Spec => []ServiceBehindStatus`.
  `ServiceInv` says, of each process, that a deployment it no longer has to do is in Swarm,
  vanished since it looked, or was away when Docker did not answer that look
  (`RunDeployed`), and the same of each app whose operation returned (`EndedDeployed`); it
  rests on `CompleteInv` for what the journal is worth.
* `NothingBeforePrerequisitesAlways`, under `OneDriver` too:
  `Spec => []NothingBeforePrerequisites`. `ReadyInv` adds that a run past `prerequisites()`
  found them handled, and that only the re-check has opened one since (`Ready`), and that a
  removal about to forget the guides has taken the service away before (`RunReady`).
* `DoneRouteWasServedAlways`, under `OneDriver` and for an ingress with no route of its own
  (`IngressUnrouted`; `catalog/_platform/caddy/manifest.yaml:34`), with any number of
  processes publishing at once: `Spec => []DoneRouteWasServed`. `ServedInv` says that what a
  publication is about to record was in a file Caddy took, or is taken so by one of the two
  writers the property names (`assumed`), and the same of a route whose answer a run holds.
* `PartialIsOpenAlways`, under `OneDriver`, with any number of processes publishing at once:
  `Spec => []PartialIsOpen`. `Finish` writes `partial` from a flag in memory; `OpenInv` ties
  the flag to a row the run counted and nobody completed since, or to a publication that
  completed it under the run (`outrun`), the one way there is (`PublishKeepsOpen`).

`JournalProofs`, for every set of actions and of processes and plans of every length:

* What `CarryProgress`, a recursive function, computes is proved by least counterexample:
  the naturals are well founded (`NatLessThanWellFounded`, `WFMin`), so a claim about each
  place that fails somewhere fails at a first place (`Least`), and the step from the place
  before refutes it. `CarriesExists` so shows that the recursion has a solution,
  `CarryInOrder` that each action picks among the rows those before it left. From it,
  `CarryServes`, `CarryInjective` and `CarryInPlace`: a row carried is of the same action
  and serves once, an action left without found every row of its sort taken, and each row
  of an unchanged plan keeps its place.
* `DoneRowsWereRun`: `Spec => []DoneWasRun`. It is not inductive: a run that has executed
  its action has yet to mark it, and marks by place, and a publication marks rows of a run
  that may be about to mark them too (`PublishKeeps`). `Inv` counts the rows done together
  with those owed (`OwedWasRun`), and says that, until a plan is recorded under another
  run, every run's places are the rows' (`PlacesAgree`). A plan recorded by a run that is
  alone carries no more done rows than there were (`NoneDoneAnew`, by the injection);
  recorded under others, it is the same plan and changes nothing (`RecordedSame`).
* `RecordingAgainIsStable`, `ProgressCarriedOnce`, `DoneStaysDoneAlways`:
  `Spec => []RecordedIsStable`, `[]CarriedOnce` and `[]DoneStaysDone`, from what
  `CarryProgress` computes and the type of the journal.

`UpgradeProofs`, for every number of versions and images:

* `UpgradeTypeCorrect`: `Spec => []TypeOK`, with every process at once.
* `StateNeverBehind`: assuming `OneAtATime` (upgrades and updates of the app exclude each
  other, or nobody updates), `Spec => []StateNotBehind`, which is said as long as no
  deployment Swarm took went unheard or unrecorded (`Heard`). `SpecInv` adds that the manifest
  an upgrade keeps to put back is level with **both** specs Swarm may run, the current and
  the one it would roll back to, until the deployment is pushed (`KeptNotBehind`), and
  that an update writes back the specification it read (`ReadIsFrozen`). Without
  `OneAtATime` the statement is false (section 5).
* `RouteAlwaysKept`: `Spec => []RouteKept`, with every process at once. `FailureTold` says
  at each step who may still put the status back: `failed` is written only over a row
  that failed, and `settle` keeps the status it read until it has put it back.
* `PartialAlwaysSaid`, `FrozenSpecAlwaysRuns` and the action property `FrozenOnlyAsItRuns`,
  under `OneAtATime`, from one invariant, `UpgradeInv`: `ProvisionTold` ties what the app
  misses (`missing`) to the first row and the run's flag, and `PartialTold` to the status
  each step leaves or is about to write, through the resets and the restorings that lose
  that row; `Deployable` and `Level` say which specification Swarm was given at each step of an upgrade, so that
  `settle` puts the old manifest back exactly when it is the one that runs; `StillApplied`
  says that the image an update is about to freeze is the one that runs, unless
  reconciliation gave another order.

`HoldsProofs`, for every number of processes, whatever each is for, every count of replicas
and every bound:

* `HoldsTyped`: `Spec => []TypeOK`, whatever goes wrong.
* `CopiesAreCold`, `GivenBackWhole`: `Spec => []CopiedCold` and `Spec => []CountGivenBack`.
  Neither is inductive: who died holding the service leaves only the row. `Orderly` says
  what carries over: a hold is live and has the count decided, and without one Swarm is
  asked for it (`HoldOK`); each step of the one at work knows what is held and asked
  (`StepOK`); what reconciliation read is the count decided, unless the service is held
  (`PassOK`); one operation at a time (`Alone`). It holds as long as operations came one at
  a time and Docker answered (`OneAtATime`, a condition of the properties themselves).
* `HalfRestoredStaysDown`: `Spec => []HalfRestoredLeftAlone`. `HalfOK` adds that a half
  restored volume is under a restore's hold and that whoever is at work is a restore that has
  not written yet, or a copy about to be refused.

`ConfirmProofs`, for every number of requests, confirmations, intents and accounts and every
size of the table:

* `OneHolder`: `Spec => [](TypeOK /\ HeldApart)`; `HeldApart` with the types is inductive.
* `RoleCounted`: `Spec => []RoleReadNow`, with `AllowedSinceBegun`: an account whose role
  allows the intent of a request under way is counted for it.
* `PromiseKept`: `Spec => OncePerPasskey`, that is, `Confirm` implements `Mandate` under
  the mapping that takes a confirmation's mandate to be what its entry in the table holds
  together with what the requests that took it out hold. Beginning one is a `Give`
  (evictions withdraw), acting is an `Act`, everything else withdraws or stutters.

`AlertsProofs`, for every set of subjects and every bound:

* `AlertsTyped`: `Spec => []TypeOK`.
* `NothingForgotten`: `Spec => []SaidOrKept`. A delivery forgets the row it sent: only the
  revision says that it is still the row that was read (`SentIsRow`), and then whoever it
  names was told (`ReleasedWasTold`). A rule without data names nobody (`NobodyUnnamed`).

`RolesProofs`, for all people, roles, requests and passes:

* `LinkNeverOverdrawn`: `Spec => []LinkLetsInItsNumber`, with requests at once: what a link
  let in and what it still lets in never exceed what it was made for (`LinkCounted`).
* `SomebodyAdministers` and `RolesHeldExist`: `Spec => []AdminRemains` and
  `Spec => []RoleHeldExists`. A request is judged on one reading and applied later;
  `Uncrossed` says that, while no two requests overlapped, what each was judged on is still
  true when it is applied (`Judgement`), as far as it was read: a role or a level judged on a
  failed read may cost the administrator (`blind`), never the existence of a role held.
* `SyncHolds`: `Spec => []SyncedIsTrue`. `Progress` says what a pass nothing disturbed has
  written so far, and `Idempotent` that a pass over a PocketID that matches finds nothing to
  change.

`SelfUpdateProofs`, for every number of releases, whatever migrations each ships:

* `PathStaysWhole`, `OldBinaryKept` and `StateStaysOpenable`: `Spec => []WholeAtPath`,
  `[]PredecessorKept` and `[]SomeBinaryOpens`. A power cut leaves any directory there has
  been since the last flush, so the invariant speaks of all of them (`DirOK`,
  `PredecessorEverywhere`); what keeps the state openable is one release that every one of
  them holds, no earlier than what any would run (`Common`), and that one is at the path or
  was set aside from it (`AtHand`).

The assumptions on constants are the modules' own, named after them
(`PublicationAssumption`, `InstallAssumption`, `UpgradeAssumption`, `HoldsAssumption`, ...);
every run evaluates its module's. Each inductive invariant was checked with TLC, on
instances at least as large as the runs', before it was proved.

Only model-checked: liveness (`RunsAgain`, `DecidedRuns`, `FailureTold`,
`Converges`), which rests on fairness and is out of the provers' reach.

## 5. Where the code and what is said of it differ

The two violation runs, each quoted in `PROJECT.json` with the comment it contradicts:

1. `install_unreachable`: an app whose route is done is run again and another action
   fails; a publication leaves the failed app out; the run that resumes skips the route,
   done in the journal, and ends `running` with no route. No crash and no second process
   is needed. `install_ingress` does not check `RunningIsRouted`, its app's plan being a
   route alone.
2. `update_fought`: reconciliation takes the image an update is rolling out for a drift
   and orders the old one back.

Met on the same modules with other constants, or without a property's condition on its
history variable:

* `Install`, two processes: the app's run counted its route unimplemented; the ingress's
  publication then marks it done; the run ends by writing `partial` from its count
  (`hlb-engine/src/lib.rs:745`), and no unimplemented row is left for a later publication
  to act on, where `hlb-state/src/lib.rs:3169` gives the publication that purpose.
  `PartialIsOpen` leaves such apps out (`outrun`): it is the only way there.
* `Install`: a run does again a deployment whose service is gone only when Docker says
  `NotFound` (`hlb-engine/src/lib.rs:676`). A look Docker does not answer counts as a
  service that is there, and the app ends `running` without it; so it does when a run saw
  it gone, died before its deployment, and the next run's look is not answered.
  `ServiceBehindStatus` leaves these out (`gone`).
* `Install`: the nightly `recheck_guides` (`hlb-engine/src/lib.rs:347`) opens a blocking
  step again when its check fails, while the service runs; the step blocks the next run
  only. `NothingBeforePrerequisites` leaves these out (`reopened`).
* `Install`: when the ingress is healthy its routes are computed again and recorded, though
  it runs on the file rendered before its deployment; an app to be routed only since is said
  to be served. With two processes, an app recorded in between; with one, an app that was
  `failed` when the ingress was deployed, begun again after, both runs cut short.
  `DoneRouteWasServed` leaves such apps out (`assumed`). With two processes a publication
  that rendered an app also completes the rows of that app removed and installed again
  under it, left out likewise.
* `Install`: any publication while an app is installing routes it, before its first-run
  wizard, where `docs/how-it-works.md:75` says no route exists then.
* `Journal`, when a run records another plan under another run: the other run marks the row
  at its place, which is another action's (`DoneWasRun`).
* `Holds`, a restore stopped halfway and tried again: its prior backup is refused, and the
  refusal (`hlb-cli/src/restore.rs:242`) starts the service on the volume the first attempt
  left, where line 248 says it is left stopped.
* `Holds`, two copies at once: the first to end starts the service under the other
  (`CopiedCold`). A copy that begins between a restore's look at the holds and its own hold:
  the copy's end starts the service under the restore (`HalfRestoredLeftAlone`). With a
  kill, the daemon's start gives back a copy's hold and releases the row a restore took
  meanwhile (`CountGivenBack`). A copy run by hand has its service started under it by the
  daemon's start, which `hlb-backup-run/src/restore.rs:1008` says of itself; a restore that
  counts while the daemon has not given back yet counts 0, and gives 0 back.
* `Holds`: an encryption looks at no hold, and gives back a service a restore left stopped
  halfway. A hold that lapsed lets reconciliation start the service. A drift judged before a
  hold is corrected after it. A service whose status could not be read
  (`hlb-backup-run/src/restore.rs:887`) is written under while it runs. A give-back that
  failed is released all the same, and reconciliation may start the service under the next
  copy. A scaling Swarm took and the state did not keep (`hlb-privd/src/swarm.rs:75`) is
  undone by reconciliation. `hlb stop` of a service a copy has at zero says it is stopped already and keeps
  nothing: the copy's end starts it.
* `Upgrade`, a process that dies: no action is `failed`, the frozen manifest is the
  catalog's, and the upgrade is not offered any more (`hlb-engine/src/upgrade.rs:388`;
  line 381 asks whether the last run stopped before its end).
* `Upgrade`: an upgrade blocked by a new guide, or stopped by a write of the state that
  failed, has rewritten the rows as pending (`hlb-engine/src/lib.rs:615`): the marks of what
  a `partial` app misses are gone, and though `settle` puts `partial` back, the next update
  finds none and writes `running`, where `hlb-updater/src/apply.rs:127` says a partial app
  does not become so. `PartialSaid` leaves out apps in that state (`"unrun"`), until an
  upgrade goes through.
* `Upgrade`: a deployment Swarm took whose answer was lost
  (`hlb-orchestrator/src/swarm.rs:1238`), or whose row could not be written, is one
  `settle` takes for never done: the old manifest is put back while the new one runs
  (`StateNotBehind`, under `Heard`). A status that could not be written leaves the app on
  the one it had (`"unsaid"`).
* `Upgrade`: Swarm rolls an upgrade's deployment back and the new manifest stays frozen
  (`FrozenSpecRuns`). With `Apart = FALSE` an update that read the manifest before an
  upgrade froze the next one writes the old specification back (`StateNotBehind`), and an
  upgrade planned before an update writes the old image back.
* `Confirm`: what is put back is not counted against `MAX_OPEN`; two intents of one
  confirmation sent at once refuse each other, the second finding nothing in the table.
* `Alerts`: under a mute, the subjects of a rule that was said already are replaced by those
  that fail (`daemon/alerts.rs:215`): one that began failing under the mute is no news once
  the mute is lifted. `FailureTold` leaves such subjects out (`hushed`).
* `SelfUpdate`: between a rollback's two renames there is no `hlb`, where `swap.rs:20` says
  there is always one; the copy kept where there are no hard links is not flushed; an update
  killed after it removed `hlb.previous` leaves none. `hlb self rollback --to-migration`
  then `--binary`, the order its output suggests, opens the state with the newer binary in
  between, which migrates it again.
* `Roles`, requests that cross: two demotions, each judged while the other was still an
  administrator, leave none (`AdminRemains`); an invitation made between the judgement and
  the deletion of its role gives an account a role that is gone (`RoleHeldExists`); a role
  allowed in between closes the app's door. The second `set_user_role` of a sign-up may
  write over a role given meanwhile, and `hlb user add` writes the role it looked up before.
* `Roles`, one request, a read that fails: `change_role` takes a `role_of` that failed for a
  role of no level and skips the guard of the last administrator
  (`hlb-controller/src/accounts.rs:557`), where line 565 says an unreadable state is a
  refusal; `put_role` takes a role it could not read for a new one
  (`hlb-controller/src/roles.rs:250`) and skips the same guard, and, no level being asked
  for, makes it `user`; `delete_role` takes a `role_in_use` that failed for a role nobody
  uses (line 384). `AdminRemains` and `RoleHeldExists` leave these out, each the reads it
  rests on (`blind`).

## 6. Not modelled

Text and bytes (Caddyfiles, manifests, dumps, copies), remote services beyond their
answer, placement, printing and prompts. Companions of an app go through the same steps
as its main service. Volume deletion and emergency purges are separate commands. What
`upgrade::refusals` and the refusals of an install decide comes before anything changes.

`Alerts` has one rule with subjects whose absence alarms; an installation with no ntfy, the
digest of updates and the notices other loops raise are left out, and a table of mutes that
cannot be read, which counts as none. `Roles` takes the several queries of `Inputs::read` as
one reading and a group's id as its name; claims, quotas, addresses and the doors other than
a PocketID client are further writes of the same pass; it has two levels, and of
`hlb user add` the account and its identity, the mailbox being a further call. `Install` has
routes no exposure serves (`Withheld`), which the theorems cover and no run has. `SelfUpdate` has one command at a
time: two updates at once share `hlb.new`; download and signature come before anything
changes. `Confirm` takes a digest, a code and a nonce as the identity of what they name.

The repository is far larger than what these modules cover (their map is a small share of
its lines). Most of the rest has no state of its own to check: command-line output, views
and routes of the controller, manifests and their validation, text generation, clients of
remote services, preparation of machines. The remaining tables of `hlb-state`, and the
components marked `not_modelled`, are below or outside the models for the reason
`PROJECT.json` gives.

## 7. Plan

Done: `Publication`, `Install`, `Holds` with the operator's scaling, `Upgrade`, `Journal`,
`Confirm` and its abstract specification, `Alerts`, `Roles`, `SelfUpdate`; eight proof
modules, with every safety property the runs check.

Next, in order:

1. An abstract specification of an installed app (absent, in progress, complete, waiting)
   that `Install` implements under `OneDriver`.
2. Sessions; the audit chain and the rekey of stored ciphertexts; Termix's password
   rotation; the resolver's dependency order.

Out of the provers' reach here, and left to TLC: liveness and `ENABLED`. Induction over
data goes by least counterexample, as in `JournalProofs`: the schema itself takes an
operator as a parameter, which the provers here cannot instantiate.
