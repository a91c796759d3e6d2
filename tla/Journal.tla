------------------------------ MODULE Journal ------------------------------
(***************************************************************************)
(* The journal of one app's plan when the plan changes: record_plan,       *)
(* completed_actions, set_action_status, reset_plan and                    *)
(* complete_unimplemented (crates/hlb-state/src/lib.rs) under the          *)
(* executor's run (crates/hlb-engine/src/lib.rs), by the command line and  *)
(* the daemon, and under the publications of the ingress.                  *)
(*                                                                         *)
(* Install takes one plan per app.  Here what the resolver answers moves   *)
(* between two runs - a capability added, another catalog - and a run      *)
(* finds rows it did not write.  A row's seq is its place.                 *)
(***************************************************************************)
EXTENDS Naturals, Sequences, FiniteSets, FiniteSetsExt, SequencesExt

CONSTANTS
    Action,     \* an action of a plan: its kind and description
    Routed,     \* those that are routes, which a publication completes
    Process,    \* who runs plans
    MaxLen,     \* bound: actions in a plan
    MaxRun,     \* bound: actions executed and publications
    MaxChange   \* bound: times the plan changes or is reset

ASSUME JournalAssumption ==
    /\ {MaxLen, MaxRun, MaxChange} \subseteq Nat
    /\ Routed \subseteq Action

VARIABLES
    plan,       \* what the resolver answers now
    journal,    \* plan_actions of the app: its rows in the order of seq
    pc,         \* where each run stands
    mine,       \* the plan it runs
    todo,       \* the places of it to execute
    result,     \* how the action at the first of them ended
    ran,        \* history: how often each was executed to its end, or its route served
    crossed,    \* history: did the rows change under a run?
    changes     \* what is left of MaxChange

vars == <<plan, journal, pc, mine, todo, result, ran, crossed, changes>>
run == <<pc, mine, todo, result>>

Status == {"pending", "done", "unimplemented", "failed"}
Row == [act : Action, status : Status]
Plans == UNION {[1 .. n -> Action] : n \in 1 .. MaxLen}

Init ==
    /\ plan \in Plans
    /\ journal = <<>>
    /\ pc = [p \in Process |-> "idle"]
    /\ mine = [p \in Process |-> <<>>]
    /\ todo = [p \in Process |-> {}]
    /\ result = [p \in Process |-> "done"]
    /\ ran = [a \in Action |-> 0]
    /\ crossed = FALSE
    /\ changes = MaxChange

-----------------------------------------------------------------------------
\* carry_progress: the row each action of a plan takes its progress from, 0 for
\* none.  A row serves one action at most: the one at the action's own place, else
\* a done one, else any.
PickByPlace(rows, k, a, used) == IF k \in DOMAIN rows THEN k ELSE 0
PickDoneFirst(rows, k, a, used) ==
    LET free == {i \in DOMAIN rows : i \notin used /\ rows[i].act = a}
        done == {i \in free : rows[i].status = "done"}
    IN  CASE done # {} -> Min(done)
          [] done = {} /\ free # {} -> Min(free)
          [] free = {} -> 0
PickAgain(rows, k, a, used) ==
    LET same == {i \in DOMAIN rows : rows[i].act = a}
    IN  CASE k \in same -> k
          [] k \notin same /\ same # {} -> Min(same)
          [] same = {} -> 0
Pick(rows, k, a, used) ==
    LET free == {i \in DOMAIN rows : i \notin used /\ rows[i].act = a}
        done == {i \in free : rows[i].status = "done"}
    IN  CASE k \in free -> k
          [] k \notin free /\ done # {} -> Min(done)
          [] k \notin free /\ done = {} /\ free # {} -> Min(free)
          [] free = {} -> 0

\* The plan is gone through in order: what its first k actions take.
Carried(rows, acts) ==
    LET carried[k \in 0 .. Len(acts)] ==
            IF k = 0 THEN <<>>
            ELSE Append(carried[k - 1], Pick(rows, k, acts[k], Range(carried[k - 1])))
    IN  carried
CarryProgress(rows, acts) == Carried(rows, acts)[Len(acts)]

\* record_plan: the rows are deleted and written again, in one transaction.
Recorded(rows, acts) ==
    LET from == CarryProgress(rows, acts)
    IN  [k \in DOMAIN acts |->
            [act |-> acts[k],
             status |-> IF from[k] = 0 THEN "pending" ELSE rows[from[k]].status]]

\* completed_actions.
Completed(rows, acts) ==
    LET from == CarryProgress(rows, acts)
    IN  {k \in DOMAIN acts : from[k] # 0 /\ rows[from[k]].status = "done"}

-----------------------------------------------------------------------------
Running(p) == pc[p] # "idle"
Count(rows, a, ss) == Cardinality({k \in DOMAIN rows : rows[k].act = a /\ rows[k].status \in ss})
Acts(rows) == [k \in DOMAIN rows |-> rows[k].act]

\* A run begins by recording what the resolver answered it.
Record(p) ==
    /\ pc[p] = "idle"
    /\ pc' = [pc EXCEPT ![p] = "reading"]
    /\ mine' = [mine EXCEPT ![p] = plan]
    /\ journal' = Recorded(journal, plan)
    /\ crossed' = (crossed \/ (Acts(journal') # Acts(journal) /\ \E q \in Process : Running(q)))
    /\ UNCHANGED <<plan, todo, result, ran, changes>>

\* Then, its prerequisites looked at, reads what is done, once.  Of that, what deploys a
\* service Docker no longer knows, or resolved a digest the manifest no longer holds,
\* is done again; a route is not.
Read(p) ==
    /\ pc[p] = "reading"
    /\ pc' = [pc EXCEPT ![p] = "running"]
    /\ LET done == Completed(journal, mine[p])
       IN  \E again \in SUBSET {k \in done : mine[p][k] \notin Routed} :
              todo' = [todo EXCEPT ![p] = (DOMAIN mine[p] \ done) \cup again]
    /\ UNCHANGED <<plan, journal, mine, result, ran, crossed, changes>>

End(p) ==
    /\ pc' = [pc EXCEPT ![p] = "idle"]
    /\ mine' = [mine EXCEPT ![p] = <<>>]
    /\ todo' = [todo EXCEPT ![p] = {}]
    /\ result' = [result EXCEPT ![p] = "done"]

\* execute_one.
Executed == FoldFunctionOnSet(+, 0, ran, Action)
Execute(p) ==
    /\ pc[p] = "running"
    /\ todo[p] # {}
    /\ Executed < MaxRun
    /\ pc' = [pc EXCEPT ![p] = "marking"]
    /\ \E s \in Status \ {"pending"} :
          /\ result' = [result EXCEPT ![p] = s]
          /\ ran' = [ran EXCEPT ![mine[p][Min(todo[p])]] = IF s = "done" THEN @ + 1 ELSE @]
    /\ UNCHANGED <<plan, journal, mine, todo, crossed, changes>>

\* set_action_status finds its row by its place.  A failure ends the run.
Mark(p) ==
    /\ pc[p] = "marking"
    /\ journal' = [k \in DOMAIN journal |->
                      IF k = Min(todo[p]) THEN [journal[k] EXCEPT !.status = result[p]]
                                   ELSE journal[k]]
    /\ \/ /\ result[p] = "failed"
          /\ End(p)
       \/ /\ result[p] # "failed"
          /\ pc' = [pc EXCEPT ![p] = "running"]
          /\ todo' = [todo EXCEPT ![p] = @ \ {Min(@)}]
          /\ result' = [result EXCEPT ![p] = "done"]
          /\ UNCHANGED mine
    /\ UNCHANGED <<plan, ran, crossed, changes>>

\* The plan is gone through, or its process dies.
Stop(p) ==
    /\ Running(p)
    /\ End(p)
    /\ UNCHANGED <<plan, journal, ran, crossed, changes>>

\* complete_unimplemented: a publication that serves the app's routes, whoever makes it,
\* completes the rows that were waiting for it, one run or another under way or not.
Publish ==
    /\ Executed < MaxRun
    /\ \E a \in Routed : Count(journal, a, {"unimplemented"}) > 0
    /\ journal' = [k \in DOMAIN journal |->
                      IF journal[k].act \in Routed /\ journal[k].status = "unimplemented"
                      THEN [journal[k] EXCEPT !.status = "done"] ELSE journal[k]]
    /\ ran' = [a \in Action |->
                  IF a \in Routed THEN ran[a] + Count(journal, a, {"unimplemented"}) ELSE ran[a]]
    /\ UNCHANGED <<plan, run, crossed, changes>>

-----------------------------------------------------------------------------
\* The resolver answers another plan.
Replan ==
    /\ changes > 0
    /\ changes' = changes - 1
    /\ plan' \in Plans \ {plan}
    /\ UNCHANGED <<journal, run, ran, crossed>>

\* reset_plan: an upgrade, or a move, runs the plan whole again.
Reset ==
    /\ changes > 0
    /\ changes' = changes - 1
    /\ journal' = <<>>
    /\ ran' = [a \in Action |-> 0]
    /\ crossed' = (crossed \/ \E q \in Process : Running(q))
    /\ UNCHANGED <<plan, run>>

Next ==
    \/ \E p \in Process : Record(p) \/ Read(p) \/ Execute(p) \/ Mark(p) \/ Stop(p)
    \/ Publish \/ Replan \/ Reset

Spec == Init /\ [][Next]_vars

-----------------------------------------------------------------------------
\* The journal as a run that begins finds it: any run may have died anywhere.
Quiet == \A p \in Process : ~Running(p)

Times(acts, a) == Cardinality({k \in DOMAIN acts : acts[k] = a})

\* Progress follows the action: no more rows of an action are done than times it was
\* executed to its end, or its route served by a publication, since the plan was last
\* reset - through plans that change, runs that die, two of them at once and publications
\* under them, as long as none records another plan, or resets it, under the other.
DoneWasRun ==
    ~crossed => \A a \in Action : Count(journal, a, {"done"}) <= ran[a]

\* The plan recorded already, recorded again, is left as it is: rerunning puts nothing
\* finished back to pending and moves no status between two actions that read the same.
RecordedIsStable == Quiet => Recorded(journal, Acts(journal)) = journal

\* A row serves one action at most, and as many actions of each sort are carried as
\* both the rows and the plan hold: nothing is done twice or forgotten.
CarriedOnce == Quiet => \A acts \in Plans :
    LET from == CarryProgress(journal, acts)
    IN  /\ \A j, k \in DOMAIN from : j # k /\ from[j] # 0 => from[j] # from[k]
        /\ \A a \in Action :
              LET rows == Count(journal, a, Status)
              IN  Cardinality({k \in DOMAIN from : acts[k] = a /\ from[k] # 0})
                    = IF rows <= Times(acts, a) THEN rows ELSE Times(acts, a)

\* An action recorded once and done stays done in any plan that holds it, wherever
\* it now sits.
DoneStaysDone == Quiet => \A acts \in Plans, a \in Action :
    Count(journal, a, Status) = 1 /\ Count(journal, a, {"done"}) = 1 /\ Times(acts, a) > 0
        => Count(Recorded(journal, acts), a, {"done"}) = 1
=============================================================================
