------------------------------- MODULE Holds -------------------------------
(***************************************************************************)
(* Services held stopped (crates/hlb-backup-run/src/restore.rs): a backup  *)
(* pass stops a service to copy its volume, a restore to write it, the     *)
(* encryption of a volume to move it; reconciliation (crates/hlb-engine/   *)
(* src/reconcile.rs) leaves a held service alone; the daemon gives back,   *)
(* as it starts, what a copy it did not finish left stopped.  `hlb scale`  *)
(* and `hlb stop` (crates/hlb-cli/src/main.rs, crates/hlb-privd/src/       *)
(* swarm.rs) change the count decided and look at no hold.                 *)
(*                                                                         *)
(* One service and its volume.  An app with companions does each step for  *)
(* each of its services.  Every call to Docker and every SQL statement is  *)
(* a step; between two of them any other process runs or dies.             *)
(***************************************************************************)
EXTENDS Naturals, FiniteSets

CONSTANTS
    Process,    \* what may hold the service
    Job,        \* Job[p]: "copy", "restore" or "encryption"
    InDaemon,   \* the processes that are tasks of the daemon
    Replicas,   \* the manifest's count
    MaxReplicas,\* bound: the count an operator may decide
    Corrects,   \* was the daemon started with --reconcile-apply?
    MaxOps,     \* bound: operations begun
    MaxKills,   \* bound: processes killed
    MaxTrouble  \* bound: kinds of trouble met in one story

ASSUME HoldsAssumption ==
    /\ Job \in [Process -> {"copy", "restore", "encryption"}]
    /\ InDaemon \subseteq Process
    /\ MaxReplicas \in Nat /\ Replicas \in 1 .. MaxReplicas
    /\ MaxOps \in Nat
    /\ MaxKills \in Nat
    /\ MaxTrouble \in Nat
    /\ Corrects \in BOOLEAN

VARIABLES
    decided,    \* the count decided for the service
    desired,    \* the replicas Swarm is instructed to run
    up,         \* does a task of the service run?
    hold,       \* the row of service_holds; why = "none" without one
    half,       \* is the volume between what it held and what is restored?
    pc,         \* where each process stands
    count,      \* count[p]: the replicas p read before stopping the service
    gives,      \* gives[p]: the replicas p is about to give back
    skips,      \* the processes whose list left the service out, unreadable
    daemon,     \* "up", "down", or giving back what a copy left stopped
    pass,       \* where reconciliation's pass stands
    seen,       \* the replicas it read in Swarm
    aims,       \* the count decided when it looked
    op,         \* where `hlb scale` or `hlb stop` stands
    asked,      \* the count it was asked for
    left,       \* what is left of MaxOps
    kills,      \* what is left of MaxKills
    trouble     \* history: what went otherwise than one operation at a time

budget == <<left, kills>>
Trouble == {"overlap", "refused", "failed", "lapsed", "scaled", "unkept"}
vars == <<decided, desired, up, hold, half, pc, count, gives, skips, daemon, pass,
          seen, aims, op, asked, budget, trouble>>

swarm == <<desired, up>>
reconciler == <<pass, seen, aims>>
operator == <<decided, op, asked>>
worker == <<pc, count, gives, skips>>
others == <<daemon, reconciler, operator>>

NoHold == [why |-> "none", live |-> FALSE, count |-> 0]
Larger(m, n) == IF m >= n THEN m ELSE n

PC == {"idle", "checking", "counting", "noting", "holding", "scaling", "waiting",
       "working", "writing", "giving", "starting", "releasing"}

Goto(p, l) == pc' = [pc EXCEPT ![p] = l]

\* Something else than one operation at a time, each going well.
Met(t) ==
    /\ trouble' = trouble \cup {t}
    /\ Cardinality(trouble') <= MaxTrouble
Well == UNCHANGED trouble

NobodyAtWork == \A p \in Process : pc[p] = "idle"

\* Nothing is under way.
Calm ==
    /\ daemon = "up" /\ pass = "idle" /\ op = "idle"
    /\ up = (desired > 0)
    /\ NobodyAtWork

Init ==
    /\ decided = Replicas
    /\ desired = Replicas
    /\ up = TRUE
    /\ hold = NoHold
    /\ half = FALSE
    /\ pc = [p \in Process |-> "idle"]
    /\ count = [p \in Process |-> 0]
    /\ gives = [p \in Process |-> 0]
    /\ skips = {}
    /\ daemon = "up"
    /\ pass = "idle"
    /\ seen = Replicas
    /\ aims = Replicas
    /\ op = "idle"
    /\ asked = 0
    /\ left = MaxOps
    /\ kills = MaxKills
    /\ trouble = {}

-----------------------------------------------------------------------------
\* A pass looks at the holds first, the others at the replicas; an encryption
\* never looks at the holds.
Begin(p) ==
    /\ pc[p] = "idle"
    /\ left > 0
    /\ p \in InDaemon => daemon = "up"
    /\ left' = left - 1
    /\ IF Calm /\ (Job[p] = "encryption" => hold = NoHold) THEN Well ELSE Met("overlap")
    /\ Goto(p, IF Job[p] = "copy" THEN "checking" ELSE "counting")
    /\ UNCHANGED <<swarm, hold, half, count, gives, skips, others, kills>>

\* A restore is refused while a copy holds the service, a copy while anything
\* else does; a lapsed hold refuses neither.
BlockedNever(p) == FALSE
Blocked(p) ==
    /\ hold.live
    /\ (hold.why = "copy") = (Job[p] = "restore")

Check(p) ==
    /\ pc[p] = "checking"
    /\ Goto(p, CASE Blocked(p) -> "idle"
                 [] ~Blocked(p) /\ Job[p] = "copy" -> "counting"
                 [] ~Blocked(p) /\ Job[p] # "copy" -> "noting")
    /\ Well
    /\ UNCHANGED <<swarm, hold, half, count, gives, skips, others, budget>>

\* The replicas to give back.  A service whose status cannot be read is not
\* copied; a restore and an encryption leave it out of what they stop.
CountReplicas(p) ==
    /\ pc[p] = "counting"
    /\ \/ /\ count' = [count EXCEPT ![p] = desired]
          /\ Goto(p, IF Job[p] = "restore" THEN "checking" ELSE "holding")
          /\ Well
          /\ UNCHANGED skips
       \/ /\ Met("failed")
          /\ Job[p] = "copy"
          /\ Goto(p, "idle")
          /\ UNCHANGED <<count, skips>>
       \/ /\ Met("failed")
          /\ Job[p] # "copy"
          /\ Goto(p, "working")
          /\ skips' = skips \cup {p}
          /\ UNCHANGED count
    /\ UNCHANGED <<swarm, hold, half, gives, others, budget>>

\* hold_services: held again, the larger count stays.  A restore holds once to
\* note the node it will write on, and again to stop.
HeldAfterSum(p) ==
    [why |-> Job[p], live |-> TRUE, count |-> hold.count + count[p]]
HeldAfterLastCount(p) == [why |-> Job[p], live |-> TRUE, count |-> count[p]]
HeldAfter(p) ==
    [why |-> Job[p], live |-> TRUE, count |-> Larger(hold.count, count[p])]

Hold(p) ==
    /\ pc[p] \in {"noting", "holding"}
    /\ hold' = HeldAfter(p)
    /\ Goto(p, IF pc[p] = "noting" THEN "holding" ELSE "scaling")
    /\ Well
    /\ UNCHANGED <<swarm, half, count, gives, skips, others, budget>>

\* Asked to stop, unless it was at zero already.  What fails is started again.
ScaleDown(p) ==
    /\ pc[p] = "scaling"
    /\ \/ /\ desired' = IF count[p] > 0 THEN 0 ELSE desired
          /\ Goto(p, "waiting")
          /\ Well
       \/ /\ Met("failed")
          /\ count[p] > 0
          /\ Goto(p, "giving")
          /\ UNCHANGED desired
    /\ UNCHANGED <<up, hold, half, count, gives, skips, others, budget>>

\* Scaled to zero is asked, not done: waited for, up to STOP_TIMEOUT.
AwaitStopped(p) ==
    /\ pc[p] = "waiting"
    /\ \/ /\ ~up
          /\ Goto(p, "working")
          /\ Well
       \/ /\ up
          /\ IF desired > 0 THEN Well ELSE Met("failed")
          /\ Goto(p, "giving")
    /\ UNCHANGED <<swarm, hold, half, count, gives, skips, others, budget>>

\* The copy, or the move of the volume, fails or not: the service is given back.
\* An error of the state while the copy is prepared ends the pass there, the
\* service stopped and held.
Work(p) ==
    /\ pc[p] = "working"
    /\ Job[p] # "restore"
    /\ \/ Well /\ Goto(p, "giving")
       \/ Met("failed") /\ Job[p] = "copy" /\ Goto(p, "idle")
    /\ UNCHANGED <<swarm, hold, half, count, gives, skips, others, budget>>

\* What the volume holds is backed up first; without that nothing is restored
\* and the service is started again.
BackUpFirst(p) ==
    /\ pc[p] = "working"
    /\ Job[p] = "restore"
    /\ \/ /\ Goto(p, "writing")
          /\ half' = TRUE
          /\ Well
       \/ /\ Met("refused")
          /\ Goto(p, "giving")
          /\ UNCHANGED half
    /\ UNCHANGED <<swarm, hold, count, gives, skips, others, budget>>

\* A restore that stops halfway returns at once: the service is left stopped,
\* and held.
Write(p) ==
    /\ pc[p] = "writing"
    /\ \/ /\ half' = FALSE
          /\ Goto(p, "giving")
       \/ /\ Goto(p, "idle")
          /\ UNCHANGED half
    /\ skips' = IF pc'[p] = "idle" THEN skips \ {p} ELSE skips
    /\ Well
    /\ UNCHANGED <<swarm, hold, count, gives, others, budget>>

\* start(): the hold's count over the caller's.
Gives(p) == Larger(hold.count, count[p])
ReadHolds(p) ==
    /\ pc[p] = "giving"
    /\ gives' = [gives EXCEPT ![p] = Gives(p)]
    /\ Goto(p, IF p \in skips THEN "idle" ELSE "starting")
    /\ skips' = skips \ {p}
    /\ Well
    /\ UNCHANGED <<swarm, hold, half, count, others, budget>>

ScaleUp(p) ==
    /\ pc[p] = "starting"
    /\ \/ /\ desired' = IF gives[p] > 0 THEN gives[p] ELSE desired
          /\ Well
       \/ /\ Met("failed")
          /\ gives[p] > 0
          /\ UNCHANGED desired
    /\ Goto(p, "releasing")
    /\ UNCHANGED <<up, hold, half, count, gives, skips, others, budget>>

\* Released whatever happened.
Release(p) ==
    /\ pc[p] = "releasing"
    /\ hold' = NoHold
    /\ Goto(p, "idle")
    /\ Well
    /\ UNCHANGED <<swarm, half, count, gives, skips, others, budget>>

-----------------------------------------------------------------------------
\* A process of the command line is killed, or the daemon with all its tasks.
\* What Swarm and the state hold stays.
Killed(ps) ==
    /\ kills > 0
    /\ kills' = kills - 1
    /\ pc' = [p \in Process |-> IF p \in ps THEN "idle" ELSE pc[p]]
    /\ skips' = skips \ ps
    /\ Well
    /\ UNCHANGED <<swarm, hold, half, count, gives, operator, left>>

Kill(p) ==
    /\ p \notin InDaemon
    /\ pc[p] # "idle"
    /\ Killed({p})
    /\ UNCHANGED <<daemon, reconciler>>

KillDaemon ==
    /\ daemon # "down"
    /\ Killed(InDaemon)
    /\ daemon' = "down"
    /\ pass' = "idle"
    /\ UNCHANGED <<seen, aims>>

\* restart_interrupted_copies, before any loop of the daemon starts: a copy's
\* hold, lapsed or not, is given back, also under a pass run by hand that is
\* still copying: one operation over another.
InterruptedNever == FALSE
Interrupted == hold.why = "copy"
Started == IF hold.count > 0 THEN hold.count ELSE desired
StartDaemon ==
    /\ daemon = "down"
    /\ IF Interrupted
       THEN /\ \/ /\ IF NobodyAtWork THEN Well ELSE Met("overlap")
                  /\ desired' = Started
               \/ Met("failed") /\ hold.count > 0 /\ UNCHANGED desired
            /\ daemon' = "releasing"
       ELSE /\ daemon' = "up"
            /\ Well
            /\ UNCHANGED desired
    /\ UNCHANGED <<up, hold, half, worker, reconciler, operator, budget>>

ReleaseInterrupted ==
    /\ daemon = "releasing"
    /\ hold' = NoHold
    /\ daemon' = "up"
    /\ Well
    /\ UNCHANGED <<swarm, half, worker, reconciler, operator, budget>>

-----------------------------------------------------------------------------
\* Reconciliation reads Swarm, then the count decided, then the holds, and
\* corrects what it judged by then.
Observe ==
    /\ daemon = "up"
    /\ Corrects
    /\ pass = "idle"
    /\ seen' = desired
    /\ pass' = "looking"
    /\ IF op = "idle" THEN Well ELSE Met("scaled")
    /\ UNCHANGED <<swarm, hold, half, worker, daemon, aims, operator, budget>>

Look ==
    /\ pass = "looking"
    /\ aims' = decided
    /\ pass' = "judging"
    /\ Well
    /\ UNCHANGED <<swarm, hold, half, worker, daemon, seen, operator, budget>>

DivergedEvenHeld == seen # aims
DivergedWhenUp == ~hold.live /\ seen > aims
Diverged == ~hold.live /\ seen # aims
Judge ==
    /\ pass = "judging"
    /\ pass' = IF Diverged THEN "correcting" ELSE "idle"
    /\ Well
    /\ UNCHANGED <<swarm, hold, half, worker, daemon, seen, aims, operator, budget>>

Correct ==
    /\ pass = "correcting"
    /\ \/ Well /\ desired' = aims
       \/ Met("failed") /\ UNCHANGED desired
    /\ pass' = "idle"
    /\ UNCHANGED <<up, hold, half, worker, daemon, seen, aims, operator, budget>>

-----------------------------------------------------------------------------
\* Scaling is an instruction to Swarm, then the count kept in the state.  A stop
\* of what Swarm is not told to run ends there.
Ask(n) ==
    /\ op = "idle"
    /\ left > 0
    /\ left' = left - 1
    /\ n # 0 \/ desired # 0
    /\ op' = "scaling"
    /\ asked' = n
    /\ IF Calm /\ hold = NoHold THEN Well ELSE Met("scaled")
    /\ UNCHANGED <<swarm, hold, half, worker, daemon, reconciler, decided, kills>>

Scale ==
    /\ op = "scaling"
    /\ \/ Well /\ desired' = asked /\ op' = "keeping"
       \/ Met("failed") /\ op' = "idle" /\ UNCHANGED desired
    /\ UNCHANGED <<up, hold, half, worker, daemon, reconciler, decided, asked, budget>>

\* remember_replicas, set_app_replicas: scaled, but not kept, when the state refuses or
\* the process dies first.
Keep ==
    /\ op = "keeping"
    /\ \/ Well /\ decided' = asked
       \/ Met("unkept") /\ UNCHANGED decided
    /\ op' = "idle"
    /\ UNCHANGED <<swarm, hold, half, worker, daemon, reconciler, asked, budget>>

-----------------------------------------------------------------------------
\* Swarm follows its instruction.
Converge ==
    /\ up # (desired > 0)
    /\ up' = (desired > 0)
    /\ Well
    /\ UNCHANGED <<desired, hold, half, worker, others, budget>>

\* HOLD_SECS is longer than any copy or restore: a hold lapses on nobody at work.
Lapse ==
    /\ hold.live
    /\ NobodyAtWork
    /\ hold' = [hold EXCEPT !.live = FALSE]
    /\ Met("lapsed")
    /\ UNCHANGED <<swarm, half, worker, others, budget>>

Step(p) ==
    \/ Check(p) \/ CountReplicas(p) \/ Hold(p) \/ ScaleDown(p) \/ AwaitStopped(p)
    \/ Work(p) \/ BackUpFirst(p) \/ Write(p)
    \/ ReadHolds(p) \/ ScaleUp(p) \/ Release(p)

Serve == StartDaemon \/ ReleaseInterrupted
Reconcile == Observe \/ Look \/ Judge \/ Correct
Operate == Scale \/ Keep

Next ==
    \/ \E p \in Process : Begin(p) \/ Step(p) \/ Kill(p)
    \/ KillDaemon \/ Serve \/ Reconcile \/ Converge \/ Lapse
    \/ (\E n \in 0 .. MaxReplicas : Ask(n)) \/ Operate

Spec == Init /\ [][Next]_vars

\* Every call to Docker and SQLite ends; the daemon passes every minute; Swarm
\* follows, and starts the daemon again, which is a service of its own.
FairSpec ==
    /\ Spec
    /\ \A p \in Process : WF_vars(Step(p))
    /\ WF_vars(Serve) /\ WF_vars(Reconcile) /\ WF_vars(Operate) /\ WF_vars(Converge)

-----------------------------------------------------------------------------
\* Every variable holds what the code can put there: no count above the largest
\* one decided is ever asked of Swarm, held or given back.
TypeOK ==
    /\ {decided, desired, seen, aims, asked} \subseteq 0 .. MaxReplicas
    /\ up \in BOOLEAN
    /\ hold \in [why : {"none", "copy", "restore", "encryption"},
                 live : BOOLEAN, count : 0 .. MaxReplicas]
    /\ half \in BOOLEAN
    /\ pc \in [Process -> PC]
    /\ count \in [Process -> 0 .. MaxReplicas]
    /\ gives \in [Process -> 0 .. MaxReplicas]
    /\ skips \subseteq Process
    /\ daemon \in {"up", "down", "releasing"}
    /\ pass \in {"idle", "looking", "judging", "correcting"}
    /\ op \in {"idle", "scaling", "keeping"}
    /\ left \in 0 .. MaxOps
    /\ kills \in 0 .. MaxKills
    /\ trouble \subseteq Trouble

\* No copy is taken live: while a pass copies the volume no task runs, wherever
\* those before it died, as long as operations came one at a time.
CopiedCold ==
    trouble \subseteq {"refused"} =>
        \A p \in Process : Job[p] = "copy" /\ pc[p] = "working" => ~up

\* The service never runs on a volume a restore left between two states, as long
\* as no other restore is refused meanwhile: copies are refused, and the daemon's
\* restart and reconciliation leave its hold alone.
HalfRestoredLeftAlone == half /\ trouble = {} => ~up

\* What was stopped is given back whole: once nothing holds the service and
\* nobody works on it, Swarm is asked for the count decided, however many of
\* those that held it died.
CountGivenBack ==
    Calm /\ hold = NoHold /\ trouble \subseteq {"refused"} => desired = decided

\* A service stopped for a copy runs again, also when the daemon died holding
\* it: restart_interrupted_copies gives it back, reconciliation never does.
RunsAgain == ~up /\ hold.why = "copy" /\ hold.count > 0 ~> up \/ trouble # {}

\* What the operator decided is what Swarm is asked for in the end, unless the
\* service is held: a count given back over it, read before it was kept, or scaled and
\* never kept, is corrected.
DecidedRuns ==
    <>[](desired = decided \/ hold.live \/ "failed" \in trouble \/ ~Corrects)
=============================================================================
