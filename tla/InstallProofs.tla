--------------------------- MODULE InstallProofs ---------------------------
(***************************************************************************)
(* Proofs about Install, for every set of apps, plan and set of processes: *)
(* type correctness; that "running" is never claimed over work left; that  *)
(* a run that ended well leaves its service in Swarm and nothing is        *)
(* deployed before the operator's part; and what a route's row and a       *)
(* partial status are worth, for any number of processes.                  *)
(***************************************************************************)
EXTENDS Install, TLAPS

\* A plan is a sequence, so its positions are numbers.
LEMMA StepsAreNaturals ==
    ASSUME NEW a \in App
    PROVE  Plan[a] \in Seq(Kind) /\ Steps(a) \subseteq Nat
  BY PublicationAssumption DEF Steps

-----------------------------------------------------------------------------
\* What the parts of the type invariant say of the code's three updates: a
\* status set, a row set, a publication's rows done, none leaves its type.
LEMMA SetStatusType ==
    ASSUME TypeOK, NEW a \in App, NEW s \in AppStatus, SetStatus(a, s)
    PROVE  status' \in [App -> AppStatus]
  BY DEF TypeOK, PublicationTypeOK, SetStatus

\* set_action_status keeps the journal a table of action statuses per plan.
LEMMA SetRowType ==
    ASSUME TypeOK, NEW a \in App, NEW i \in Steps(a), NEW s \in ActionStatus,
           SetRow(a, i, s)
    PROVE  /\ journal' = [b \in App |-> journal'[b]]
           /\ \A b \in App : journal'[b] \in [Steps(b) -> ActionStatus]
           /\ \A b \in App : b # a => journal'[b] = journal[b]
           /\ \A j \in Steps(a) : j # i => journal'[a][j] = journal[a][j]
           /\ journal[a][i] # "absent" => journal'[a][i] = s
  <1> DEFINE v == IF journal[a][i] = "absent" THEN journal[a][i] ELSE s
  <1>1. journal' = [journal EXCEPT ![a] = [journal[a] EXCEPT ![i] = v]]
    BY DEF SetRow
  <1>2. /\ v \in ActionStatus
        /\ journal[a] \in [Steps(a) -> ActionStatus]
        /\ journal = [b \in App |-> journal[b]]
        /\ \A b \in App : journal[b] \in [Steps(b) -> ActionStatus]
    BY DEF TypeOK, PublicationTypeOK
  <1>3. [journal[a] EXCEPT ![i] = v] \in [Steps(a) -> ActionStatus]
    BY <1>2
  <1>4. journal' = [b \in App |-> IF b = a THEN [journal[a] EXCEPT ![i] = v]
                                            ELSE journal[b]]
    BY <1>1, <1>2
  <1> HIDE DEF v
  <1>5. /\ journal'[a] = [journal[a] EXCEPT ![i] = v]
        /\ \A b \in App : b # a => journal'[b] = journal[b]
    BY <1>4
  <1>6. \A b \in App : journal'[b] \in [Steps(b) -> ActionStatus]
    BY <1>2, <1>3, <1>5
  <1>7. journal' = [b \in App |-> journal'[b]]
    BY <1>4, <1>5
  <1>8. /\ \A j \in Steps(a) : j # i => journal'[a][j] = journal[a][j]
        /\ journal[a][i] # "absent" => journal'[a][i] = s
    BY <1>2, <1>5 DEF v
  <1> QED BY <1>5, <1>6, <1>7, <1>8

\* complete_unimplemented keeps the journal a table of action statuses per plan.
LEMMA RouteRowsDoneType ==
    ASSUME TypeOK, NEW among \in SUBSET App, journal' = RouteRowsDone(among)
    PROVE  /\ journal' = [a \in App |-> journal'[a]]
           /\ \A a \in App : journal'[a] \in [Steps(a) -> ActionStatus]
           /\ \A a \in App : \A i \in Steps(a) :
                 \/ journal'[a][i] = journal[a][i]
                 \/ journal[a][i] = "unimplemented" /\ journal'[a][i] = "done"
  BY DEF TypeOK, PublicationTypeOK, RouteRowsDone, ActionStatus

-----------------------------------------------------------------------------
\* What a publication may do, whoever runs it.
LEMMA PublishType ==
    ASSUME TypeOK, NEW p \in Process, PublishStep(p)
    PROVE  PublicationTypeOK'
  <1>1. Routes \subseteq App
    BY DEF Routes
  <1>2. rendered[p] \subseteq App
    BY DEF TypeOK, PublicationTypeOK
  <1>3. CASE PublishBegin(p)
    BY <1>1, <1>3 DEF PublishBegin, TypeOK, PublicationTypeOK, Stage, stateVars,
                      ingressVars
  <1>4. CASE PublishWrite(p)
    BY <1>2, <1>4 DEF PublishWrite, Take, TypeOK, PublicationTypeOK, Stage,
                      stateVars
  <1>5. CASE PublishRecord(p)
    BY <1>2, <1>5 DEF PublishRecord, TypeOK, PublicationTypeOK, Stage, stateVars
  <1>6. CASE PublishComplete(p)
    <2>1. /\ journal' = [a \in App |-> journal'[a]]
          /\ \A a \in App : journal'[a] \in [Steps(a) -> ActionStatus]
      BY <1>2, <1>6, RouteRowsDoneType DEF PublishComplete
    <2>2. status' \in [App -> AppStatus]
      BY <1>6 DEF PublishComplete, PartialNowRunning, TypeOK, PublicationTypeOK,
                  AppStatus
    <2> QED BY <1>6, <2>1, <2>2 DEF PublishComplete, TypeOK, PublicationTypeOK,
                                     Stage, ingressVars
  <1> QED BY <1>3, <1>4, <1>5, <1>6 DEF PublishStep

\* A process that returns leaves its own variables in their types.
LEMMA ReturnType ==
    ASSUME TypeOK, NEW p \in Process, Return(p)
    PROVE  /\ pc' \in [Process -> PC]
           /\ target' \in [Process -> App]
           /\ todo' \in [Process -> SUBSET Nat]
           /\ result' \in [Process -> Result]
           /\ unimpl' \in [Process -> BOOLEAN]
           /\ stage' \in [Process -> Stage]
           /\ rendered' \in [Process -> SUBSET App]
  BY PublicationAssumption
     DEF Return, Goto, TypeOK, PublicationTypeOK, PC, Result, Stage

\* A guide step handled is one of the plan's.
LEMMA HandleType ==
    ASSUME TypeOK, NEW a \in App, NEW ks \in SUBSET GuideKind, Handle(a, ks)
    PROVE  handled' \in [App -> SUBSET GuideKind]
  BY DEF Handle, TypeOK

\* A state as it is first opened, with or without the ingress, is well typed.
LEMMA TypeInit == Init => TypeOK
  <1> SUFFICES ASSUME Init PROVE TypeOK
    OBVIOUS
  <1>1. /\ journal = [a \in App |-> journal[a]]
        /\ \A a \in App : journal[a] \in [Steps(a) -> ActionStatus]
    BY DEF Init, ActionStatus
  <1>2. handled \in [App -> SUBSET GuideKind]
    BY DEF Init, Guides
  <1> QED
    BY <1>1, <1>2, PublicationAssumption, InstallAssumption
       DEF Init, TypeOK, PublicationTypeOK, AppStatus, Stage, PC, Result

\* Every step keeps every variable in its type.
LEMMA TypeStep == TypeOK /\ [Next]_vars => TypeOK'
  <1> SUFFICES ASSUME TypeOK, [Next]_vars PROVE TypeOK'
    OBVIOUS
  <1> USE DEF TypeOK, PublicationTypeOK, unrecorded, undeployed, unpublished,
              unguided, history, local, ingressVars
  <1>1. CASE UNCHANGED vars
    BY <1>1 DEF vars
  <1>2. ASSUME NEW p \in Process, Run(p) PROVE TypeOK'
    <2> DEFINE a == target[p]
    <2>0. a \in App /\ Steps(a) \subseteq Nat /\ Routes \subseteq App
      BY StepsAreNaturals DEF Routes
    <2> HIDE DEF a
    <2>1. CASE RecordApp(p)
      BY <2>0, <2>1 DEF RecordApp, Goto, PC, AppStatus, a
    <2>2. CASE RecordPlan(p)
      <3>1. /\ journal' = [b \in App |-> journal'[b]]
            /\ \A b \in App : journal'[b] \in [Steps(b) -> ActionStatus]
        BY <2>0, <2>2 DEF RecordPlan, ActionStatus, a
      <3> QED BY <2>0, <2>2, <3>1, ReturnType DEF RecordPlan, Goto, PC, a
    <2>3. CASE CheckPrerequisites(p)
      <3>1. OpenPrerequisites(a) \in SUBSET GuideKind
        BY DEF OpenPrerequisites, Guides
      <3>2. handled' \in [App -> SUBSET GuideKind]
        BY <2>0, <2>3, <3>1, HandleType DEF CheckPrerequisites, a
      <3> QED BY <2>3, <3>2, ReturnType DEF CheckPrerequisites, Goto, PC
    <2>4. CASE Start(p)
      BY <2>0, <2>4 DEF Start, ToExecute, Goto, PC, AppStatus, a
    <2>5. CASE ExecuteProvision(p)
      BY <2>5 DEF ExecuteProvision, Answer, Goto, PC
    <2>6. CASE ExecuteResolveDigest(p)
      BY <2>0, <2>6 DEF ExecuteResolveDigest, Answer, Goto, PC, a
    <2>7. CASE ExecuteGuide(p)
      <3>1. PICK i \in Steps(a) : Next1(p, i) /\ Plan[a][i] \in GuideKind
        BY <2>7 DEF ExecuteGuide, Executing, a
      <3>2. ASSUME NEW j \in todo[p], Next1(p, j), Handle(a, {Plan[a][j]})
            PROVE  handled' \in [App -> SUBSET GuideKind]
        <4>1. todo[p] \subseteq Nat
          OBVIOUS
        <4> HIDE DEF TypeOK, PublicationTypeOK
        <4>2. i \in Nat /\ j \in Nat /\ i <= j /\ j <= i
          BY <2>0, <3>1, <3>2, <4>1 DEF Next1
        <4>3. j = i
          BY <4>2
        <4> QED BY <2>0, <3>1, <3>2, <4>3, HandleType
      <3>3. handled' \in [App -> SUBSET GuideKind]
        BY <2>7, <3>2 DEF ExecuteGuide, a
      <3> QED BY <2>7, <3>3 DEF ExecuteGuide, Answer, Goto, PC, Result
    <2>8. CASE ExecuteDeploy(p)
      BY <2>0, <2>8 DEF ExecuteDeploy, Answer, Goto, PC, Result, a
    <2>9. CASE DeployIngress(p)
      BY <2>9, PublicationAssumption
         DEF DeployIngress, Take, Answer, Goto, PC, Result
    <2>10. CASE ExecuteWaitHealthy(p)
      BY <2>0, <2>10 DEF ExecuteWaitHealthy, Answer, Goto, PC, Result, Stage, a
    <2>11. CASE ExecuteConfigureIngress(p)
      BY <2>11 DEF ExecuteConfigureIngress, Goto, PC, Stage
    <2>12. CASE Publish(p)
      <3>1. PublicationTypeOK'
        BY <2>12, PublishType DEF Publish
      <3>2. Outruns(p) \subseteq App
        BY DEF Outruns
      <3> QED BY <2>12, <3>1, <3>2 DEF Publish
    <2>13. CASE PublicationAnswered(p)
      BY <2>13 DEF PublicationAnswered, RouteAnswer, Answer, Goto, PC, Result, Stage
    <2>14. CASE Mark(p)
      <3>1. /\ journal' = [b \in App |-> journal'[b]]
            /\ \A b \in App : journal'[b] \in [Steps(b) -> ActionStatus]
        BY <2>0, <2>14, SetRowType DEF Mark, Result, ActionStatus, a
      <3> QED BY <2>0, <2>14, <3>1 DEF Mark, Goto, PC, Result, a
    <2>15. CASE Fail(p)
      BY <2>0, <2>15, ReturnType, SetStatusType DEF Fail, AppStatus, a
    <2>16. CASE Finish(p)
      BY <2>0, <2>16, ReturnType, SetStatusType DEF Finish, FinalStatus, AppStatus, a
    <2>17. CASE ForgetApp(p)
      <3>1. /\ journal' = [b \in App |-> journal'[b]]
            /\ \A b \in App : journal'[b] \in [Steps(b) -> ActionStatus]
        BY <2>0, <2>17 DEF ForgetApp, ActionStatus, a
      <3> QED BY <2>0, <2>17, <3>1
              DEF ForgetApp, Goto, PC, Stage, AppStatus, a
    <2>18. CASE RepublicationEnds(p)
      BY <2>18, ReturnType DEF RepublicationEnds
    <2> QED
      BY <1>2, <2>1, <2>2, <2>3, <2>4, <2>5, <2>6, <2>7, <2>8, <2>9, <2>10, <2>11,
         <2>12, <2>13, <2>14, <2>15, <2>16, <2>17, <2>18 DEF Run
  <1>3. ASSUME NEW p \in Process, Crash(p) PROVE TypeOK'
    BY <1>3, ReturnType DEF Crash
  <1>4. ASSUME NEW p \in Process, Republish(p) PROVE TypeOK'
    <2>1. \A a \in App : Guides(a) \in SUBSET GuideKind
      BY DEF Guides
    <2>2. handled' \in [App -> SUBSET GuideKind]
      BY <1>4, <2>1, HandleType DEF Republish
    <2> QED BY <1>4, <2>2, PublicationAssumption DEF Republish, Goto, PC, Stage
  <1>5. ASSUME NEW p \in Process, NEW a \in App, BeginInstall(p, a) PROVE TypeOK'
    BY <1>5 DEF BeginInstall, Goto, PC
  <1>6. ASSUME NEW p \in Process, NEW a \in App, RemoveServices(p, a) PROVE TypeOK'
    BY <1>6 DEF RemoveServices, Goto, PC
  <1>7. ASSUME NEW a \in App, Vanish(a) \/ Reopen(a) PROVE TypeOK'
    BY <1>7 DEF Vanish, Reopen
  <1>8. ASSUME NEW a \in App, LoseDigest(a) PROVE TypeOK'
    BY <1>8 DEF LoseDigest
  <1> QED BY <1>1, <1>2, <1>3, <1>4, <1>5, <1>6, <1>7, <1>8 DEF Next

\* Every variable always holds what the code can put there: no step of a run,
\* a publication, a removal or a crash leaves a value outside its type.
THEOREM TypeCorrect == Spec => []TypeOK
  BY TypeInit, TypeStep, PTL DEF Spec

-----------------------------------------------------------------------------
\* What CompleteInv says of one process, and the other processes' view of a
\* step of p: they keep their place.
Holds(p) ==
    /\ pc[p] \notin {"idle", "republishing"} => target[p] \in Drives[p]
    /\ pc[p] \in Started \cup {"forgetting"} => target[p] \notin ended
    /\ pc[p] \in Planned =>
          \A i \in Steps(target[p]) : journal[target[p]][i] # "absent"
    /\ pc[p] \in Started \ {"failing"} =>
          \A i \in Steps(target[p]) : i \notin todo[p] =>
              \/ journal[target[p]][i] = "done"
              \/ unimpl[p] /\ journal[target[p]][i] = "unimplemented"

Stays(q) == UNCHANGED <<pc[q], target[q], todo[q], unimpl[q]>>

\* The account of the runs is one claim per process, and one over ended apps.
LEMMA CompleteInvByProcess ==
    CompleteInv => TypeOK /\ EndedComplete /\ \A p \in Process : Holds(p)
  BY DEF CompleteInv, OwnsTarget, StartedNotEnded, RowsPresent, RunProgress, Holds

\* The same after a step: each process's claim, and the ended apps', suffice.
LEMMA CompleteInvAfter ==
    TypeOK' /\ EndedComplete' /\ (\A p \in Process : Holds(p)') => CompleteInv'
  BY DEF CompleteInv, OwnsTarget, StartedNotEnded, RowsPresent, RunProgress, Holds

\* A step that records nothing is judged by the process that took it.
LEMMA UnrecordedStep ==
    ASSUME CompleteInv, TypeOK', UNCHANGED <<status, journal, ended>>,
           NEW p \in Process, Holds(p)',
           \A q \in Process : q # p => Stays(q)
    PROVE  CompleteInv'
  <1>1. EndedComplete'
    BY DEF CompleteInv, EndedComplete
  <1>2. ASSUME NEW q \in Process, q # p PROVE Holds(q)'
    BY <1>2, CompleteInvByProcess DEF Holds, Stays
  <1> QED BY <1>1, <1>2, CompleteInvAfter

\* A run that goes from one point of an action to another keeps its account.
LEMMA WorkStep ==
    ASSUME CompleteInv, TypeOK', UNCHANGED <<status, journal, ended>>,
           NEW p \in Process, UNCHANGED <<target, todo, unimpl>>,
           \A q \in Process : q # p => pc'[q] = pc[q],
           pc[p] \in Started \ {"failing"}, pc'[p] \in Started \ {"failing"}
    PROVE  CompleteInv'
  <1>1. Holds(p)'
    BY CompleteInvByProcess DEF Holds, Started, Planned
  <1> QED BY <1>1, UnrecordedStep DEF Stays

\* A process that returns holds nothing.
LEMMA ReturnHolds ==
    ASSUME CompleteInv, NEW p \in Process, Return(p)
    PROVE  Holds(p)' /\ \A q \in Process : q # p => Stays(q)
  BY DEF Return, Goto, Holds, Stays, Started, Planned, CompleteInv, TypeOK

\* Two processes at work on what they drive work on different apps.
LEMMA Apart ==
    ASSUME CompleteInv, OneDriver, NEW p \in Process, NEW q \in Process, p # q,
           pc[p] \notin {"idle", "republishing"},
           pc[q] \notin {"idle", "republishing"}
    PROVE  target[p] # target[q]
  BY DEF CompleteInv, OwnsTarget, OneDriver

\* At the start nobody runs and the ingress, if up, is done: the account holds.
LEMMA CompleteInit == Init => CompleteInv
  BY TypeInit DEF Init, CompleteInv, OwnsTarget, StartedNotEnded, RowsPresent,
                  RunProgress, EndedComplete, Started, Planned

\* A publication turns unimplemented rows into done ones, and a partial app
\* with none left into a running one.
LEMMA PublishCompletes ==
    ASSUME CompleteInv, TypeOK', NEW p \in Process, Publish(p)
    PROVE  CompleteInv'
  <1>1. CASE PublishBegin(p) \/ PublishWrite(p) \/ PublishRecord(p)
    BY <1>1, CompleteInvByProcess, UnrecordedStep
       DEF Publish, PublishBegin, PublishWrite, PublishRecord, stateVars, local,
           history, Holds, Stays
  <1>2. CASE PublishComplete(p)
    <2>1. rendered[p] \in SUBSET App
      BY DEF CompleteInv, TypeOK, PublicationTypeOK
    <2>2. \A a \in App : \A i \in Steps(a) :
             \/ journal'[a][i] = journal[a][i]
             \/ journal[a][i] = "unimplemented" /\ journal'[a][i] = "done"
      BY <1>2, <2>1, RouteRowsDoneType DEF PublishComplete, CompleteInv
    <2>3. \A a \in App :
             \/ status'[a] = status[a]
             \/ /\ status[a] = "partial" /\ status'[a] = "running"
                /\ \A i \in Steps(a) : journal'[a][i] # "unimplemented"
      BY <1>2 DEF PublishComplete, PartialNowRunning, CompleteInv, TypeOK,
                  PublicationTypeOK
    <2>4. UNCHANGED <<pc, target, todo, unimpl, ended>>
      BY <1>2 DEF Publish, local, history
    <2>5. /\ \A q \in Process : target[q] \in App
          /\ ended \subseteq App
      BY DEF CompleteInv, TypeOK
    <2>6. EndedComplete'
      BY <2>2, <2>3, <2>4, <2>5 DEF CompleteInv, EndedComplete
    <2>7. \A q \in Process : Holds(q)'
      BY <2>2, <2>4, <2>5, CompleteInvByProcess DEF Holds
    <2> QED BY <2>6, <2>7, CompleteInvAfter
  <1> QED BY <1>1, <1>2 DEF Publish, PublishStep

-----------------------------------------------------------------------------
\* A step that records something about one app a, which nobody else drives: the
\* other processes keep their account, a alone is judged.
LEMMA RecordedStep ==
    ASSUME CompleteInv, TypeOK', NEW a \in App, NEW p \in Process,
           \A b \in App : b # a => /\ status'[b] = status[b]
                                   /\ journal'[b] = journal[b]
                                   /\ b \in ended' => b \in ended,
           \A q \in Process : /\ q # p
                              /\ pc[q] \notin {"idle", "republishing"}
                              => target[q] # a,
           \A q \in Process : q # p => Stays(q),
           Holds(p)',
           a \in ended' => \A i \in Steps(a) :
               /\ status'[a] = "running" => journal'[a][i] = "done"
               /\ status'[a] = "partial" => journal'[a][i] \in {"done", "unimplemented"}
    PROVE  CompleteInv'
  <1>1. EndedComplete'
    BY DEF CompleteInv, EndedComplete, TypeOK
  <1>2. ASSUME NEW q \in Process, q # p PROVE Holds(q)'
    <2>1. Holds(q) /\ target[q] \in App
      BY CompleteInvByProcess DEF CompleteInv, TypeOK
    <2> QED BY <1>2, <2>1 DEF Holds, Stays, Started, Planned
  <1> QED BY <1>1, <1>2, CompleteInvAfter

\* Every step of a run keeps the account of it.
LEMMA RunCompletes ==
    ASSUME OneDriver, CompleteInv, TypeOK', NEW p \in Process, Run(p)
    PROVE  CompleteInv'
  <1> DEFINE a == target[p]
  <1>1. /\ a \in App
        /\ Holds(p)
        /\ pc \in [Process -> PC] /\ target \in [Process -> App]
        /\ todo \in [Process -> SUBSET Nat] /\ unimpl \in [Process -> BOOLEAN]
        /\ status \in [App -> AppStatus]
        /\ journal = [b \in App |-> journal[b]]
        /\ \A b \in App : journal[b] \in [Steps(b) -> ActionStatus]
    BY CompleteInvByProcess DEF CompleteInv, TypeOK, PublicationTypeOK
  <1>2. ASSUME pc[p] \notin {"idle", "republishing"}, NEW q \in Process, q # p,
               pc[q] \notin {"idle", "republishing"}
        PROVE  target[q] # a
    BY <1>2, Apart
  <1> USE DEF unrecorded, undeployed, unpublished, unguided, history, local
  <1> HIDE DEF a
  <1>3. CASE RecordApp(p)
    <2>1. Holds(p)' /\ \A q \in Process : q # p => Stays(q)
      BY <1>1, <1>3 DEF RecordApp, Goto, Holds, Stays, Started, Planned, PC
    <2>2. /\ status' = [status EXCEPT ![a] = IF @ = "absent" THEN "installing" ELSE @]
          /\ UNCHANGED <<journal, ended>>
          /\ pc[p] = "recording"
      BY <1>3 DEF RecordApp, a
    <2>3. a \in ended' => \A i \in Steps(a) :
             /\ status'[a] = "running" => journal'[a][i] = "done"
             /\ status'[a] = "partial" => journal'[a][i] \in {"done", "unimplemented"}
      BY <1>1, <2>2 DEF CompleteInv, EndedComplete
    <2> QED BY <1>1, <1>2, <2>1, <2>2, <2>3, RecordedStep
  <1>4. CASE RecordPlan(p)
    <2>1. CASE status[a] = "absent"
      BY <1>4, <2>1, ReturnHolds, UnrecordedStep DEF RecordPlan, a
    <2>2. CASE status[a] # "absent"
      <3>1. /\ journal' = [journal EXCEPT ![a] =
                    [i \in Steps(a) |-> IF journal[a][i] = "absent" THEN "pending"
                                        ELSE journal[a][i]]]
            /\ UNCHANGED <<status, ended, local>>
            /\ pc[p] = "planning" /\ pc' = [pc EXCEPT ![p] = "checking"]
        BY <1>4, <2>2 DEF RecordPlan, Goto, a
      <3>2. /\ \A b \in App : b # a => journal'[b] = journal[b]
            /\ \A i \in Steps(a) :
                  /\ journal'[a][i] # "absent"
                  /\ journal[a][i] # "absent" => journal'[a][i] = journal[a][i]
        BY <1>1, <3>1
      <3>3. Holds(p)' /\ \A q \in Process : q # p => Stays(q)
        BY <1>1, <3>1, <3>2 DEF Holds, Stays, Started, Planned, a
      <3>4. a \in ended' => \A i \in Steps(a) :
               /\ status'[a] = "running" => journal'[a][i] = "done"
               /\ status'[a] = "partial" => journal'[a][i] \in {"done", "unimplemented"}
        BY <1>1, <3>1, <3>2 DEF CompleteInv, EndedComplete
      <3> QED BY <1>1, <1>2, <3>1, <3>2, <3>3, <3>4, RecordedStep
    <2> QED BY <2>1, <2>2
  <1>5. CASE CheckPrerequisites(p)
    <2>1. CASE pc'[p] = "idle"
      <3>1. Return(p)
        BY <1>1, <1>5, <2>1 DEF CheckPrerequisites, Goto
      <3> QED BY <1>5, <3>1, ReturnHolds, UnrecordedStep DEF CheckPrerequisites
    <2>2. CASE pc'[p] # "idle"
      <3>1. pc[p] = "checking" /\ Goto(p, "starting") /\ UNCHANGED local
        BY <1>1, <1>5, <2>2 DEF CheckPrerequisites, Return, Goto
      <3>2. Holds(p)' /\ \A q \in Process : q # p => Stays(q)
        BY <1>1, <1>5, <3>1
           DEF CheckPrerequisites, Goto, Holds, Stays, Started, Planned
      <3> QED BY <1>5, <3>2, UnrecordedStep DEF CheckPrerequisites
    <2> QED BY <2>1, <2>2
  <1>6. CASE Start(p)
    <2>1. /\ status' = [status EXCEPT ![a] = IF @ = "failed" THEN "installing" ELSE @]
          /\ unimpl' = [unimpl EXCEPT ![p] = FALSE]
          /\ ended' = ended \ {a}
          /\ pc[p] = "starting" /\ pc' = [pc EXCEPT ![p] = "running"]
          /\ UNCHANGED <<journal, target>>
      BY <1>6 DEF Start, Goto, a
    <2>2. PICK read : todo' = [todo EXCEPT ![p] = ToExecute(a, read)]
      BY <1>6 DEF Start, a
    <2>4. \A i \in Steps(a) : i \notin ToExecute(a, read) => journal[a][i] = "done"
      BY DEF ToExecute
    <2>3. Holds(p)' /\ \A q \in Process : q # p => Stays(q)
      BY <1>1, <2>1, <2>2, <2>4 DEF Holds, Stays, Started, Planned, a
    <2> QED BY <1>1, <1>2, <2>1, <2>3, RecordedStep
  <1>7. CASE \/ ExecuteProvision(p) \/ ExecuteResolveDigest(p) \/ ExecuteGuide(p)
             \/ ExecuteDeploy(p) \/ DeployIngress(p) \/ ExecuteWaitHealthy(p)
             \/ ExecuteConfigureIngress(p) \/ PublicationAnswered(p)
    <2>1. /\ UNCHANGED <<status, journal, ended, target, todo, unimpl>>
          /\ pc[p] \in {"running", "deploying", "publishing"}
          /\ \/ pc' = [pc EXCEPT ![p] = "marking"]
             \/ pc' = [pc EXCEPT ![p] = "deploying"]
             \/ pc' = [pc EXCEPT ![p] = "publishing"]
      BY <1>7
         DEF ExecuteProvision, ExecuteResolveDigest, ExecuteGuide, ExecuteDeploy,
             DeployIngress, ExecuteWaitHealthy, ExecuteConfigureIngress,
             PublicationAnswered, Executing, Answer, Goto
    <2> QED BY <1>1, <2>1, WorkStep DEF Started, Planned
  <1>8. CASE Publish(p)
    BY <1>8, PublishCompletes
  <1>9. CASE Mark(p)
    <2>1. PICK i \in Steps(a) :
             /\ SetRow(a, i, result[p])
             /\ todo' = [todo EXCEPT ![p] = @ \ {i}]
      BY <1>9 DEF Mark, a
    <2>2. /\ unimpl' = [unimpl EXCEPT ![p] = @ \/ result[p] = "unimplemented"]
          /\ pc[p] = "marking"
          /\ pc' = [pc EXCEPT ![p] = IF result[p] = "failed" THEN "failing"
                                                             ELSE "running"]
          /\ UNCHANGED <<status, ended, target>>
          /\ result[p] \in {"done", "unimplemented", "failed"}
      BY <1>9 DEF Mark, Goto, CompleteInv, TypeOK, Result
    <2>3. /\ \A b \in App : b # a => journal'[b] = journal[b]
          /\ \A j \in Steps(a) : j # i => journal'[a][j] = journal[a][j]
          /\ journal[a][i] # "absent" => journal'[a][i] = result[p]
      BY <1>1, <2>1, <2>2, SetRowType DEF CompleteInv, ActionStatus
    <2>4. \A j \in Steps(a) : journal[a][j] # "absent"
      BY <1>1, <2>2 DEF Holds, Planned, a
    <2>5. a \notin ended'
      BY <1>1, <2>2 DEF Holds, Started, Planned, a
    <2>6. /\ target'[p] = a
          /\ pc'[p] \in {"failing", "running"}
          /\ pc'[p] = "running" => result[p] # "failed"
          /\ todo'[p] = todo[p] \ {i}
          /\ unimpl[p] => unimpl'[p]
          /\ result[p] = "unimplemented" => unimpl'[p]
      BY <1>1, <2>1, <2>2 DEF a
    <2>7. \A j \in Steps(a) : j \notin todo[p] =>
             \/ journal[a][j] = "done"
             \/ unimpl[p] /\ journal[a][j] = "unimplemented"
      BY <1>1, <2>2 DEF Holds, Started, Planned, a
    <2>8. \A j \in Steps(a) : journal'[a][j] # "absent"
      BY <2>2, <2>3, <2>4
    <2>9. pc'[p] # "failing" => \A j \in Steps(a) : j \notin todo'[p] =>
             \/ journal'[a][j] = "done"
             \/ unimpl'[p] /\ journal'[a][j] = "unimplemented"
      <3> SUFFICES ASSUME pc'[p] # "failing", NEW j \in Steps(a), j \notin todo'[p]
                   PROVE  \/ journal'[a][j] = "done"
                          \/ unimpl'[p] /\ journal'[a][j] = "unimplemented"
        OBVIOUS
      <3>1. CASE j = i
        BY <2>2, <2>3, <2>4, <2>6, <3>1
      <3>2. CASE j # i
        BY <2>3, <2>6, <2>7, <3>2
      <3> QED BY <3>1, <3>2
    <2>10. Holds(p)'
      BY <1>1, <2>2, <2>5, <2>6, <2>8, <2>9 DEF Holds, Started, Planned, a
    <2>11. \A q \in Process : q # p => Stays(q)
      BY <1>1, <2>1, <2>2 DEF Stays
    <2> QED BY <1>1, <1>2, <2>2, <2>3, <2>5, <2>10, <2>11, RecordedStep
  <1>10. CASE Fail(p)
    <2>1. /\ status' = [status EXCEPT ![a] = IF @ = "absent" THEN @ ELSE "failed"]
          /\ ended' = ended \cup {a}
          /\ pc[p] = "failing" /\ Return(p)
          /\ UNCHANGED journal
      BY <1>10 DEF Fail, SetStatus, a
    <2> QED BY <1>1, <1>2, <2>1, ReturnHolds, RecordedStep
  <1>11. CASE Finish(p)
    <2>1. /\ status' = [status EXCEPT ![a] = IF @ = "absent" THEN @ ELSE FinalStatus(p)]
          /\ ended' = ended \cup {a}
          /\ pc[p] = "running" /\ todo[p] = {} /\ Return(p)
          /\ UNCHANGED journal
      BY <1>11 DEF Finish, SetStatus, a
    <2>2. \A i \in Steps(a) :
             \/ journal[a][i] = "done"
             \/ unimpl[p] /\ journal[a][i] = "unimplemented"
      BY <1>1, <2>1 DEF Holds, Started, Planned, a
    <2>3. \A i \in Steps(a) :
             /\ status'[a] = "running" => journal'[a][i] = "done"
             /\ status'[a] = "partial" => journal'[a][i] \in {"done", "unimplemented"}
      BY <1>1, <2>1, <2>2 DEF FinalStatus
    <2> QED BY <1>1, <1>2, <2>1, <2>3, ReturnHolds, RecordedStep
  <1>12. CASE ForgetApp(p)
    <2>1. /\ status' = [status EXCEPT ![a] = "absent"]
          /\ journal' = [journal EXCEPT ![a] = [i \in Steps(a) |-> "absent"]]
          /\ ended' = ended \cup {a}
          /\ pc[p] = "forgetting" /\ pc' = [pc EXCEPT ![p] = "republishing"]
          /\ UNCHANGED <<target, todo, unimpl>>
      BY <1>12 DEF ForgetApp, Goto, a
    <2>2. Holds(p)' /\ \A q \in Process : q # p => Stays(q)
      BY <1>1, <2>1 DEF Holds, Stays, Started, Planned
    <2> QED BY <1>1, <1>2, <2>1, <2>2, RecordedStep
  <1>13. CASE RepublicationEnds(p)
    BY <1>13, ReturnHolds, UnrecordedStep DEF RepublicationEnds
  <1> QED BY <1>3, <1>4, <1>5, <1>6, <1>7, <1>8, <1>9, <1>10, <1>11, <1>12, <1>13
          DEF Run

\* Every step of every process, a crash or a vanished service included, keeps
\* the account when no app has two drivers.
LEMMA CompleteStep == OneDriver /\ CompleteInv /\ [Next]_vars => CompleteInv'
  <1> SUFFICES ASSUME OneDriver, CompleteInv, [Next]_vars PROVE CompleteInv'
    OBVIOUS
  <1>1. TypeOK'
    BY TypeStep DEF CompleteInv
  <1> USE DEF unrecorded, undeployed, unpublished, unguided, history, local
  <1>2. CASE UNCHANGED vars
    BY <1>1, <1>2, CompleteInvByProcess, CompleteInvAfter
       DEF vars, Holds, EndedComplete
  <1>3. ASSUME NEW p \in Process, Run(p) PROVE CompleteInv'
    BY <1>1, <1>3, RunCompletes
  <1>4. ASSUME NEW p \in Process, Crash(p) PROVE CompleteInv'
    BY <1>1, <1>4, ReturnHolds, UnrecordedStep DEF Crash
  <1>5. ASSUME NEW p \in Process, Republish(p) PROVE CompleteInv'
    <2>1. Holds(p)' /\ \A q \in Process : q # p => Stays(q)
      BY <1>5 DEF Republish, Goto, Holds, Stays, Started, Planned, CompleteInv, TypeOK
    <2> QED BY <1>1, <1>5, <2>1, UnrecordedStep DEF Republish
  <1>6. ASSUME NEW p \in Process, NEW a \in App, BeginInstall(p, a) PROVE CompleteInv'
    <2>1. Holds(p)' /\ \A q \in Process : q # p => Stays(q)
      BY <1>6 DEF BeginInstall, Goto, Holds, Stays, Started, Planned, CompleteInv, TypeOK
    <2> QED BY <1>1, <1>6, <2>1, UnrecordedStep DEF BeginInstall
  <1>7. ASSUME NEW p \in Process, NEW a \in App, RemoveServices(p, a) PROVE CompleteInv'
    <2>1. Holds(p)' /\ \A q \in Process : q # p => Stays(q)
      BY <1>7 DEF RemoveServices, Goto, Holds, Stays, Started, Planned, CompleteInv, TypeOK
    <2>2. EndedComplete'
      BY <1>7 DEF RemoveServices, CompleteInv, EndedComplete
    <2>3. ASSUME NEW q \in Process, q # p PROVE Holds(q)'
      BY <1>7, <2>1, <2>3, CompleteInvByProcess DEF RemoveServices, Holds, Stays
    <2> QED BY <1>1, <2>1, <2>2, <2>3, CompleteInvAfter
  <1>8. ASSUME NEW a \in App, Vanish(a) \/ Reopen(a) \/ LoseDigest(a) PROVE CompleteInv'
    BY <1>1, <1>8, CompleteInvByProcess, CompleteInvAfter
       DEF Vanish, Reopen, LoseDigest, Holds, EndedComplete
  <1> QED BY <1>2, <1>3, <1>4, <1>5, <1>6, <1>7, <1>8 DEF Next

\* "running" is never claimed over work left.  If no app has two drivers, then
\* after every run, removal, publication and crash, of every process, an app
\* whose last operation returned and whose status is running has every action
\* of its plan recorded done: whatever run() left unimplemented, failed or never
\* reached keeps the app from the status set_app_status gives at its end.
THEOREM RunningIsCompleteAlways ==
    ASSUME OneDriver
    PROVE  Spec => []RunningIsComplete
  <1>1. CompleteInv => RunningIsComplete
    BY DEF CompleteInv, EndedComplete, RunningIsComplete, Quiet
  <1>2. CompleteInv /\ [Next]_vars => CompleteInv'
    BY CompleteStep
  <1> QED BY CompleteInit, <1>1, <1>2, PTL DEF Spec

-----------------------------------------------------------------------------
(* Services, prerequisites, and what a row and a status are worth.           *)

\* In Swarm, or gone since a run of the app last looked.
Seen(a) == a \in services \cup gone
Deploys(a, i) == Plan[a][i] = "DeployService"
EndsWell == {"running", "partial"}

\* What the run of one process may claim: a deployment it no longer has to do
\* is there, the one whose answer it holds failed or is there, and neither the
\* ingress's deployment nor a publication can answer for another action.
RunDeployed(p) ==
    LET a == target[p]
    IN  /\ pc[p] \in Started \ {"failing"} =>
              \A i \in Steps(a) : Deploys(a, i) /\ i \notin todo[p] => Seen(a)
        /\ pc[p] = "marking" =>
              \A i \in Steps(a) : Deploys(a, i) /\ Next1(p, i) =>
                  result[p] = "failed" \/ Seen(a)
        /\ pc[p] = "publishing" =>
              \A i \in Steps(a) : Next1(p, i) => ~Deploys(a, i)
        /\ pc[p] = "deploying" => a = Caddy

EndedDeployed ==
    \A a \in ended : /\ status[a] \in EndsWell
                     /\ \E i \in Steps(a) : Deploys(a, i)
                     => Seen(a)

ServiceInv == EndedDeployed /\ \A p \in Process : RunDeployed(p)

AsItWas(q) == Stays(q) /\ result'[q] = result[q]

-----------------------------------------------------------------------------
\* A step that takes no service away is judged by the process that took it.
LEMMA NothingLost ==
    ASSUME ServiceInv, NEW p \in Process, RunDeployed(p)',
           \A q \in Process : q # p => AsItWas(q),
           \A b \in App : Seen(b) => Seen(b)',
           \A b \in ended' : status'[b] \in EndsWell =>
               \/ b \in ended /\ status[b] \in EndsWell
               \/ Seen(b)' \/ \A i \in Steps(b) : ~Deploys(b, i),
           TypeOK, TypeOK'
    PROVE  ServiceInv'
  <1>1. EndedDeployed'
    BY DEF ServiceInv, EndedDeployed, TypeOK, Deploys
  <1>2. ASSUME NEW q \in Process, q # p PROVE RunDeployed(q)'
    <2>1. AsItWas(q) /\ RunDeployed(q) /\ target[q] \in App
      BY <1>2 DEF ServiceInv, TypeOK
    <2>2. \A i \in Steps(target[q]) : Next1(q, i)' = Next1(q, i)
      BY <2>1 DEF AsItWas, Stays, Next1
    <2> QED BY <2>1, <2>2 DEF RunDeployed, AsItWas, Stays, Deploys
  <1> QED BY <1>1, <1>2 DEF ServiceInv

\* A step about one app a, which nobody else drives: a alone is judged.
LEMMA OthersKeep ==
    ASSUME ServiceInv, TypeOK, TypeOK',
           NEW p \in Process, RunDeployed(p)',
           \A q \in Process : q # p => AsItWas(q),
           NEW a \in App,
           \A q \in Process : q # p /\ pc[q] \notin {"idle", "republishing"} =>
               target[q] # a,
           \A b \in App : b # a /\ Seen(b) => Seen(b)',
           ended' = ended \ {a},
           \A b \in App : b # a => status'[b] = status[b]
    PROVE  ServiceInv'
  <1>1. EndedDeployed'
    BY DEF ServiceInv, EndedDeployed, TypeOK, Deploys
  <1>2. ASSUME NEW q \in Process, q # p PROVE RunDeployed(q)'
    <2>1. AsItWas(q) /\ RunDeployed(q) /\ target[q] \in App
      BY <1>2 DEF ServiceInv, TypeOK
    <2>2. \A i \in Steps(target[q]) : Next1(q, i)' = Next1(q, i)
      BY <2>1 DEF AsItWas, Stays, Next1
    <2>3. CASE pc[q] \in {"idle", "republishing"}
      BY <2>1, <2>3 DEF RunDeployed, AsItWas, Stays, Started, Planned
    <2>4. CASE pc[q] \notin {"idle", "republishing"}
      <3>1. Seen(target[q]) => Seen(target[q])'
        BY <1>2, <2>1, <2>4 DEF AsItWas, Stays
      <3> QED BY <2>1, <2>2, <3>1 DEF RunDeployed, AsItWas, Stays, Deploys
    <2> QED BY <2>3, <2>4
  <1> QED BY <1>1, <1>2 DEF ServiceInv

\* A process that is at no action of a run has nothing to claim.
Outside == {"idle", "recording", "planning", "checking", "starting", "failing",
            "forgetting", "republishing"}
LEMMA NoClaim ==
    ASSUME NEW p \in Process, pc'[p] \in Outside
    PROVE  RunDeployed(p)'
  BY DEF RunDeployed, Outside, Started, Planned

\* A process that returns claims nothing, and the others are as they were.
LEMMA ReturnClaimsNothing ==
    ASSUME TypeOK, NEW p \in Process, Return(p)
    PROVE  RunDeployed(p)' /\ \A q \in Process : q # p => AsItWas(q)
  <1>1. pc'[p] = "idle" /\ \A q \in Process : q # p => AsItWas(q)
    BY DEF Return, Goto, TypeOK, AsItWas, Stays
  <1> QED BY <1>1, NoClaim DEF Outside

\* The action a run is at is the one it executes: there is one next action.
LEMMA OneNext ==
    ASSUME NEW a \in App, NEW p \in Process, TypeOK, NEW i \in Steps(a), NEW j \in Steps(a),
           Next1(p, i), Next1(p, j)
    PROVE  i = j
  <1>1. i \in Nat /\ j \in Nat /\ i <= j /\ j <= i
    BY StepsAreNaturals DEF Next1
  <1> QED BY <1>1

\* An action that is not a deployment answers, or hands over to a publication.
LEMMA OtherAction ==
    ASSUME ServiceInv, TypeOK, TypeOK', NEW p \in Process, NEW kinds,
           Executing(p, kinds), "DeployService" \notin kinds,
           pc' = [pc EXCEPT ![p] = "marking"] \/ pc' = [pc EXCEPT ![p] = "publishing"],
           \A q \in Process : q # p => result'[q] = result[q],
           UNCHANGED <<status, services, gone, ended, target, todo, unimpl>>
    PROVE  ServiceInv'
  <1> DEFINE a == target[p]
  <1>1. a \in App /\ RunDeployed(p) /\ pc[p] = "running"
    BY DEF ServiceInv, TypeOK, Executing
  <1>2. PICK i \in Steps(a) : Next1(p, i) /\ Plan[a][i] \in kinds
    BY DEF Executing
  <1>3. \A j \in Steps(a) : Next1(p, j) => ~Deploys(a, j)
    BY <1>1, <1>2, OneNext DEF Deploys
  <1>4. /\ target'[p] = a /\ todo'[p] = todo[p] /\ pc'[p] \in {"marking", "publishing"}
        /\ \A j \in Steps(a) : Next1(p, j)' = Next1(p, j)
        /\ Seen(a)' = Seen(a)
        /\ \A q \in Process : q # p => AsItWas(q)
    BY DEF TypeOK, Next1, Seen, AsItWas, Stays
  <1>5. RunDeployed(p)'
    BY <1>1, <1>3, <1>4 DEF RunDeployed, Started, Planned, Deploys
  <1>6. \A b \in App : Seen(b) => Seen(b)'
    BY DEF Seen
  <1> QED BY <1>4, <1>5, <1>6, NothingLost

-----------------------------------------------------------------------------
\* At the start the ingress, if it is said to be up, is there.
LEMMA ServiceInit == Init => ServiceInv
  BY DEF Init, ServiceInv, EndedDeployed, RunDeployed, Seen, EndsWell, Started, Planned

\* A publication takes no service away, and moves to running only a partial app.
LEMMA PublishKeepsServices ==
    ASSUME ServiceInv, TypeOK, TypeOK', NEW p \in Process, Publish(p)
    PROVE  ServiceInv'
  <1>1. UNCHANGED <<pc, target, todo, unimpl, result, services, ended, gone>>
    BY DEF Publish, PublishStep, PublishBegin, PublishWrite, PublishRecord,
           PublishComplete, local, history
  <1>2. \A b \in App : status'[b] \in EndsWell => status[b] \in EndsWell
    BY DEF Publish, PublishStep, PublishBegin, PublishWrite, PublishRecord,
           PublishComplete, PartialNowRunning, stateVars, TypeOK, PublicationTypeOK,
           EndsWell
  <1>3. /\ \A q \in Process : AsItWas(q)
        /\ \A b \in App : Seen(b)' = Seen(b)
        /\ \A i : Next1(p, i)' = Next1(p, i)
    BY <1>1 DEF AsItWas, Stays, Seen, Next1
  <1>4. RunDeployed(p)'
    BY <1>1, <1>3 DEF ServiceInv, RunDeployed, Deploys, TypeOK
  <1> QED BY <1>1, <1>2, <1>3, <1>4, NothingLost DEF TypeOK

\* A deployment that answers has failed, or its service is there.
LEMMA DeployAnswers ==
    ASSUME ServiceInv, TypeOK, TypeOK', NEW p \in Process,
           ExecuteDeploy(p) \/ DeployIngress(p)
    PROVE  ServiceInv'
  <1> DEFINE a == target[p]
  <1>1. a \in App /\ RunDeployed(p) /\ pc[p] \in {"running", "deploying"}
    BY DEF ServiceInv, TypeOK, ExecuteDeploy, DeployIngress, Executing
  <1>2. /\ UNCHANGED <<status, ended, target, todo, unimpl>>
        /\ \A q \in Process : q # p => pc'[q] = pc[q] /\ result'[q] = result[q]
        /\ pc'[p] \in {"marking", "deploying"}
    BY DEF ExecuteDeploy, DeployIngress, Answer, Goto, unrecorded, unguided, TypeOK
  <1>3. \A b \in App : Seen(b) => Seen(b)'
    BY DEF ExecuteDeploy, DeployIngress, Seen
  <1>4. pc'[p] = "deploying" => a = Caddy
    BY DEF ExecuteDeploy, DeployIngress, Answer, Goto, TypeOK
  <1>5. pc'[p] = "marking" => result'[p] = "failed" \/ Seen(a)'
    <2>1. CASE ExecuteDeploy(p)
      BY <1>1, <2>1 DEF ExecuteDeploy, Answer, Goto, Seen, TypeOK
    <2>2. CASE DeployIngress(p)
      <3>1. a = Caddy
        BY <1>1, <2>2 DEF DeployIngress, RunDeployed
      <3> QED BY <2>2, <3>1 DEF DeployIngress, Answer, Goto, Seen, TypeOK
    <2> QED BY <2>1, <2>2
  <1>6. RunDeployed(p)'
    BY <1>1, <1>2, <1>3, <1>4, <1>5 DEF RunDeployed, Started, Planned, Deploys
  <1>7. \A q \in Process : q # p => AsItWas(q)
    BY <1>2 DEF AsItWas, Stays
  <1> QED BY <1>2, <1>3, <1>6, <1>7, NothingLost

\* Every step of a run, a removal or a republication keeps the account.
LEMMA RunKeepsServices ==
    ASSUME ServiceInv, CompleteInv, TypeOK', OneDriver, NEW p \in Process, Run(p)
    PROVE  ServiceInv'
  <1> DEFINE a == target[p]
  <1>1. TypeOK /\ a \in App /\ RunDeployed(p) /\ pc \in [Process -> PC]
    BY DEF ServiceInv, CompleteInv, TypeOK
  <1> USE DEF unrecorded, undeployed, unpublished, unguided, history, local
  <1>2. CASE RecordApp(p)
    <2>1. /\ pc'[p] = "planning" /\ \A q \in Process : q # p => AsItWas(q)
          /\ \A b \in App : status'[b] \in EndsWell => status[b] \in EndsWell
          /\ \A b \in App : Seen(b) => Seen(b)'
          /\ ended' = ended
      BY <1>1, <1>2 DEF RecordApp, Goto, AsItWas, Stays, EndsWell, Seen, TypeOK,
                        PublicationTypeOK
    <2> QED BY <1>1, <2>1, NoClaim, NothingLost DEF Outside, TypeOK
  <1>3. CASE RecordPlan(p) \/ CheckPrerequisites(p) \/ RepublicationEnds(p)
    <2>1. UNCHANGED <<status, ended, services, gone>>
      BY <1>3 DEF RecordPlan, CheckPrerequisites, RepublicationEnds
    <2>2. \A b \in App : Seen(b) => Seen(b)'
      BY <2>1 DEF Seen
    <2>3. \/ Return(p)
          \/ pc'[p] \in {"checking", "starting"} /\ \A q \in Process : q # p => AsItWas(q)
      BY <1>1, <1>3 DEF RecordPlan, CheckPrerequisites, RepublicationEnds, Goto, AsItWas,
                        Stays
    <2>4. RunDeployed(p)' /\ \A q \in Process : q # p => AsItWas(q)
      BY <1>1, <2>3, ReturnClaimsNothing, NoClaim DEF Outside
    <2> QED BY <1>1, <2>1, <2>2, <2>4, NothingLost
  <1>4. CASE Start(p)
    <2>1. /\ status' = [status EXCEPT ![a] = IF @ = "failed" THEN "installing" ELSE @]
          /\ ended' = ended \ {a}
          /\ pc' = [pc EXCEPT ![p] = "running"] /\ pc[p] = "starting"
          /\ unimpl' = [unimpl EXCEPT ![p] = FALSE]
          /\ UNCHANGED <<services, target, result>>
      BY <1>4 DEF Start, Goto
    <2>0. PICK read : /\ todo' = [todo EXCEPT ![p] = ToExecute(a, read)]
                      /\ gone' = IF "services" \in read THEN gone \ {a}
                                                       ELSE gone \cup ({a} \ services)
      BY <1>4 DEF Start
    <2>2. ASSUME NEW i \in Steps(a), Deploys(a, i), i \notin ToExecute(a, read)
          PROVE  Seen(a)'
      <3>1. CASE "services" \in read
        BY <2>1, <2>2, <3>1 DEF ToExecute, Redeploys, Deploys, Seen
      <3>2. CASE "services" \notin read
        BY <2>0, <2>1, <3>2 DEF Seen
      <3> QED BY <3>1, <3>2
    <2>3. /\ pc'[p] = "running" /\ target'[p] = a /\ todo'[p] = ToExecute(a, read)
          /\ \A q \in Process : q # p => AsItWas(q)
      BY <1>1, <2>0, <2>1 DEF AsItWas, Stays, TypeOK
    <2>4. RunDeployed(p)'
      BY <2>2, <2>3 DEF RunDeployed, Started, Planned, Deploys
    <2>5. \A q \in Process : q # p /\ pc[q] \notin {"idle", "republishing"} => target[q] # a
      BY <2>1, Apart
    <2>6. \A b \in App : b # a => (Seen(b) => Seen(b)') /\ status'[b] = status[b]
      BY <1>1, <2>0, <2>1 DEF Seen, TypeOK, PublicationTypeOK
    <2> QED BY <1>1, <2>1, <2>3, <2>4, <2>5, <2>6, OthersKeep
  <1>5. CASE \/ ExecuteProvision(p) \/ ExecuteResolveDigest(p) \/ ExecuteGuide(p)
             \/ ExecuteWaitHealthy(p) \/ ExecuteConfigureIngress(p)
    <2>1. /\ UNCHANGED <<status, services, gone, ended, target, todo, unimpl>>
          /\ \A q \in Process : q # p => result'[q] = result[q]
          /\ pc' = [pc EXCEPT ![p] = "marking"] \/ pc' = [pc EXCEPT ![p] = "publishing"]
      BY <1>1, <1>5
         DEF ExecuteProvision, ExecuteResolveDigest, ExecuteGuide, ExecuteWaitHealthy,
             ExecuteConfigureIngress, Answer, Goto, TypeOK
    <2>2. \/ Executing(p, {"Provision"}) \/ Executing(p, {"ResolveDigest"})
          \/ Executing(p, GuideKind) \/ Executing(p, {"WaitHealthy"})
          \/ Executing(p, {"ConfigureIngress"})
      BY <1>5 DEF ExecuteProvision, ExecuteResolveDigest, ExecuteGuide,
                  ExecuteWaitHealthy, ExecuteConfigureIngress
    <2>3. "DeployService" \notin GuideKind
      BY DEF GuideKind
    <2> QED BY <1>1, <2>1, <2>2, <2>3, OtherAction
  <1>6. CASE ExecuteDeploy(p) \/ DeployIngress(p)
    BY <1>1, <1>6, DeployAnswers
  <1>7. CASE Publish(p)
    BY <1>1, <1>7, PublishKeepsServices
  <1>8. CASE PublicationAnswered(p)
    <2>1. /\ pc[p] = "publishing" /\ pc' = [pc EXCEPT ![p] = "marking"]
          /\ UNCHANGED <<status, services, gone, ended, target, todo, unimpl>>
          /\ \A q \in Process : q # p => result'[q] = result[q]
      BY <1>1, <1>8 DEF PublicationAnswered, Answer, Goto, TypeOK
    <2>2. /\ pc'[p] = "marking" /\ target'[p] = a /\ todo'[p] = todo[p]
          /\ \A q \in Process : q # p => AsItWas(q)
          /\ \A b \in App : Seen(b)' = Seen(b)
          /\ \A i : Next1(p, i)' = Next1(p, i)
      BY <1>1, <2>1 DEF AsItWas, Stays, Seen, Next1
    <2>3. RunDeployed(p)'
      BY <1>1, <2>1, <2>2 DEF RunDeployed, Deploys, Started, Planned
    <2> QED BY <1>1, <2>1, <2>2, <2>3, NothingLost
  <1>9. CASE Mark(p)
    <2>1. PICK i \in Steps(a) : Next1(p, i) /\ todo' = [todo EXCEPT ![p] = @ \ {i}]
      BY <1>9 DEF Mark
    <2>2. /\ pc[p] = "marking"
          /\ pc' = [pc EXCEPT ![p] = IF result[p] = "failed" THEN "failing" ELSE "running"]
          /\ UNCHANGED <<status, services, gone, ended, target>>
          /\ \A q \in Process : q # p => result'[q] = result[q] /\ unimpl'[q] = unimpl[q]
      BY <1>1, <1>9 DEF Mark, Goto, TypeOK
    <2>3. /\ target'[p] = a /\ todo'[p] = todo[p] \ {i}
          /\ pc'[p] = IF result[p] = "failed" THEN "failing" ELSE "running"
          /\ \A q \in Process : q # p => AsItWas(q)
          /\ \A b \in App : Seen(b)' = Seen(b)
      BY <1>1, <2>1, <2>2 DEF AsItWas, Stays, Seen, TypeOK
    <2>4. ASSUME pc'[p] = "running", NEW j \in Steps(a), Deploys(a, j), j \notin todo'[p]
          PROVE  Seen(a)
      <3>1. CASE j = i
        BY <1>1, <2>1, <2>2, <2>3, <2>4, <3>1 DEF RunDeployed
      <3>2. CASE j # i
        BY <1>1, <2>2, <2>3, <2>4, <3>2 DEF RunDeployed, Started, Planned
      <3> QED BY <3>1, <3>2
    <2>5. RunDeployed(p)'
      BY <1>1, <2>3, <2>4 DEF RunDeployed, Started, Planned, Deploys
    <2> QED BY <1>1, <2>2, <2>3, <2>5, NothingLost
  <1>10. CASE Fail(p) \/ ForgetApp(p)
    <2>1. /\ ended' = ended \cup {a} /\ UNCHANGED <<services, gone>>
          /\ status'[a] \notin EndsWell
          /\ \A b \in App : b # a => status'[b] = status[b]
      BY <1>1, <1>10 DEF Fail, ForgetApp, SetStatus, EndsWell, TypeOK, PublicationTypeOK
    <2>2. \/ Return(p)
          \/ pc'[p] = "republishing" /\ \A q \in Process : q # p => AsItWas(q)
      BY <1>1, <1>10 DEF Fail, ForgetApp, Goto, AsItWas, Stays
    <2>3. RunDeployed(p)' /\ \A q \in Process : q # p => AsItWas(q)
      BY <1>1, <2>2, ReturnClaimsNothing, NoClaim DEF Outside
    <2>4. /\ \A b \in App : Seen(b) => Seen(b)'
          /\ \A b \in ended' : status'[b] \in EndsWell => b \in ended /\ status[b] \in EndsWell
      BY <1>1, <2>1 DEF Seen, TypeOK
    <2> QED BY <1>1, <2>3, <2>4, NothingLost
  <1>11. CASE Finish(p)
    <2>1. /\ ended' = ended \cup {a} /\ UNCHANGED <<services, gone>>
          /\ \A b \in App : b # a => status'[b] = status[b]
          /\ pc[p] = "running" /\ todo[p] = {} /\ Return(p)
      BY <1>1, <1>11 DEF Finish, SetStatus, TypeOK, PublicationTypeOK
    <2>2. Seen(a) \/ \A i \in Steps(a) : ~Deploys(a, i)
      BY <1>1, <2>1 DEF RunDeployed, Started, Planned
    <2>3. \A b \in App : Seen(b)' = Seen(b)
      BY <2>1 DEF Seen
    <2>4. \A b \in ended' : status'[b] \in EndsWell =>
              \/ b \in ended /\ status[b] \in EndsWell
              \/ Seen(b)' \/ \A i \in Steps(b) : ~Deploys(b, i)
      BY <1>1, <2>1, <2>2, <2>3 DEF TypeOK
    <2> QED BY <1>1, <2>1, <2>3, <2>4, ReturnClaimsNothing, NothingLost
  <1> QED BY <1>2, <1>3, <1>4, <1>5, <1>6, <1>7, <1>8, <1>9, <1>10, <1>11 DEF Run

-----------------------------------------------------------------------------
\* So does every other step: a removal is of an app nobody else drives, and a
\* service that vanishes is gone.
LEMMA ServiceStep ==
    ASSUME OneDriver, CompleteInv, ServiceInv, [Next]_vars
    PROVE  ServiceInv'
  <1>1. TypeOK /\ TypeOK'
    BY TypeStep DEF CompleteInv
  <1> USE DEF unrecorded, undeployed, unpublished, unguided, history, local
  <1>2. CASE UNCHANGED vars
    BY <1>2 DEF vars, ServiceInv, EndedDeployed, RunDeployed, Seen, Next1, Deploys
  <1>3. ASSUME NEW p \in Process, Run(p) PROVE ServiceInv'
    BY <1>1, <1>3, RunKeepsServices
  <1>4. ASSUME NEW p \in Process, NEW a \in App,
               Crash(p) \/ Republish(p) \/ BeginInstall(p, a)
        PROVE  ServiceInv'
    <2>1. UNCHANGED <<status, ended, services, gone>>
      BY <1>4 DEF Crash, Republish, BeginInstall
    <2>2. \A b \in App : Seen(b) => Seen(b)'
      BY <2>1 DEF Seen
    <2>3. \/ Return(p)
          \/ /\ pc'[p] \in {"republishing", "recording", "planning"}
             /\ \A q \in Process : q # p => AsItWas(q)
      BY <1>1, <1>4 DEF Crash, Republish, BeginInstall, Goto, AsItWas, Stays, TypeOK
    <2>4. RunDeployed(p)' /\ \A q \in Process : q # p => AsItWas(q)
      BY <1>1, <2>3, ReturnClaimsNothing, NoClaim DEF Outside
    <2> QED BY <1>1, <2>1, <2>2, <2>4, NothingLost
  <1>5. ASSUME NEW p \in Process, NEW a \in App, RemoveServices(p, a) PROVE ServiceInv'
    <2>1. /\ services' = services \ {a} /\ ended' = ended \ {a}
          /\ UNCHANGED <<status, gone>>
          /\ pc[p] = "idle" /\ a \in Drives[p] /\ pc'[p] = "forgetting"
          /\ \A q \in Process : q # p => AsItWas(q)
      BY <1>1, <1>5 DEF RemoveServices, Goto, AsItWas, Stays, TypeOK
    <2>2. \A q \in Process : q # p /\ pc[q] \notin {"idle", "republishing"} => target[q] # a
      BY <2>1 DEF CompleteInv, OwnsTarget, OneDriver
    <2>3. \A b \in App : b # a /\ Seen(b) => Seen(b)'
      BY <2>1 DEF Seen
    <2> QED BY <1>1, <2>1, <2>2, <2>3, NoClaim, OthersKeep DEF Outside
  <1>6. ASSUME NEW a \in App, Vanish(a) \/ Reopen(a) \/ LoseDigest(a) PROVE ServiceInv'
    <2>1. UNCHANGED <<status, ended, pc, target, todo, result>>
      BY <1>6 DEF Vanish, Reopen, LoseDigest
    <2>2. \A b : Seen(b) => Seen(b)'
      BY <1>6 DEF Vanish, Reopen, LoseDigest, Seen
    <2>3. EndedDeployed'
      BY <2>1, <2>2 DEF ServiceInv, EndedDeployed, Deploys
    <2>4. \A q \in Process : RunDeployed(q)'
      BY <2>1, <2>2 DEF ServiceInv, RunDeployed, Deploys, Next1
    <2> QED BY <2>3, <2>4 DEF ServiceInv
  <1> QED BY <1>2, <1>3, <1>4, <1>5, <1>6, PublicationAssumption DEF Next

\* No run claims a service Docker said is gone.  If no app has two drivers, an app
\* whose last operation returned and whose status is running or partial has its
\* service in Swarm, or lost it since that run looked, or Docker did not answer the
\* look: the DeployService step a run skips as done is one whose status was not
\* NotFound when the run began.
THEOREM ServiceBehindStatusAlways ==
    ASSUME OneDriver
    PROVE  Spec => []ServiceBehindStatus
  <1> DEFINE Both == CompleteInv /\ ServiceInv
  <1>1. Init => Both
    BY CompleteInit, ServiceInit
  <1>2. Both /\ [Next]_vars => Both'
    BY CompleteStep, ServiceStep
  <1>3. Both => ServiceBehindStatus
    BY DEF ServiceInv, EndedDeployed, ServiceBehindStatus, Quiet, Seen, EndsWell, Deploys
  <1> QED BY <1>1, <1>2, <1>3, PTL DEF Spec

-----------------------------------------------------------------------------
(* The blocking pre-install steps.                                           *)

\* The app's blocking pre-install steps were found handled, and are unless the re-check
\* opened one again since.
Ready(a) == "PreGuide" \in Guides(a) => "PreGuide" \in handled[a] \/ a \in reopened

\* A run past its prerequisites has them; a removal about to forget the app, its guides
\* included, has taken its service away.
RunReady(p) ==
    /\ pc[p] \in {"starting"} \cup Started => Ready(target[p])
    /\ pc[p] = "deploying" => target[p] = Caddy
    /\ pc[p] = "forgetting" => target[p] \notin services

ReadyInv ==
    /\ \A a \in services : Ready(a)
    /\ \A p \in Process : RunReady(p)

\* At the start no app runs but the ingress, whose steps were handled.
LEMMA ReadyInit == Init => ReadyInv
  BY DEF Init, ReadyInv, RunReady, Ready, Started, Planned

\* A step that forgets no guide, and adds no service but a ready one that nobody removes,
\* is judged by the process that took it.
LEMMA NothingForgotten ==
    ASSUME ReadyInv, TypeOK, NEW p \in Process, RunReady(p)',
           \A q \in Process : q # p => pc'[q] = pc[q] /\ target'[q] = target[q],
           \A b \in App : Ready(b) => Ready(b)',
           \A b \in services' \ services :
               /\ b \in App /\ Ready(b)
               /\ \A q \in Process : q # p /\ pc[q] = "forgetting" => target[q] # b
    PROVE  ReadyInv'
  <1>2. services \subseteq App /\ \A q \in Process : target[q] \in App
    BY DEF TypeOK, PublicationTypeOK
  <1>3. \A b \in services' : Ready(b)'
    BY <1>2 DEF ReadyInv
  <1>4. ASSUME NEW q \in Process, q # p PROVE RunReady(q)'
    BY <1>2, <1>4 DEF ReadyInv, RunReady
  <1> QED BY <1>3, <1>4 DEF ReadyInv

\* A process that returns claims nothing.
LEMMA ReturnReady ==
    ASSUME TypeOK, NEW p \in Process, Return(p)
    PROVE  RunReady(p)' /\ \A q \in Process : q # p => pc'[q] = pc[q] /\ target'[q] = target[q]
  BY DEF Return, Goto, RunReady, Started, Planned, TypeOK

\* Every step of a run keeps it, when no app has two drivers.
LEMMA RunKeepsReady ==
    ASSUME OneDriver, CompleteInv, ReadyInv, NEW p \in Process, Run(p)
    PROVE  ReadyInv'
  <1> USE DEF unrecorded, undeployed, unpublished, unguided, history, local
  <1>0. /\ TypeOK /\ RunReady(p) /\ target[p] \in App
        /\ pc \in [Process -> PC] /\ target \in [Process -> App]
        /\ handled \in [App -> SUBSET GuideKind]
    BY DEF CompleteInv, TypeOK, ReadyInv
  <1>1. ASSUME pc[p] \notin {"idle", "republishing"}, NEW q \in Process, q # p,
               pc[q] \notin {"idle", "republishing"}
        PROVE  target[q] # target[p]
    BY <1>1, Apart
  <1>2. ASSUME UNCHANGED <<services, handled, reopened>>, RunReady(p)',
               \A q \in Process : q # p => pc'[q] = pc[q] /\ target'[q] = target[q]
        PROVE  ReadyInv'
    <2>1. \A b \in App : Ready(b) => Ready(b)'
      BY <1>2 DEF Ready, Guides
    <2> QED BY <1>0, <1>2, <2>1, NothingForgotten
  <1>3. CASE RecordApp(p) \/ RecordPlan(p) \/ RepublicationEnds(p)
    <2>1. UNCHANGED <<services, handled, reopened>>
      BY <1>3 DEF RecordApp, RecordPlan, RepublicationEnds
    <2>2. CASE Return(p)
      BY <1>0, <1>2, <2>1, <2>2, ReturnReady
    <2>3. CASE ~Return(p)
      <3>1. pc' \in {[pc EXCEPT ![p] = "planning"], [pc EXCEPT ![p] = "checking"]}
            /\ target' = target
        BY <1>3, <2>3 DEF RecordApp, RecordPlan, RepublicationEnds, Goto
      <3>2. RunReady(p)'
        BY <1>0, <3>1 DEF RunReady, Started, Planned
      <3> QED BY <1>0, <1>2, <2>1, <3>1, <3>2
    <2> QED BY <2>2, <2>3
  <1>4. CASE CheckPrerequisites(p)
    <2>1. services' = services
      BY <1>4 DEF CheckPrerequisites
    <2>2. CASE UNCHANGED <<handled, reopened>> /\ Return(p)
      BY <1>0, <1>2, <2>1, <2>2, ReturnReady
    <2>3. CASE Handle(target[p], OpenPrerequisites(target[p])) /\ Goto(p, "starting")
               /\ target' = target /\ reopened' = reopened \ {target[p]}
      <3>1. /\ handled'[target[p]] = handled[target[p]] \cup OpenPrerequisites(target[p])
            /\ \A b \in App : b # target[p] => handled'[b] = handled[b]
        BY <1>0, <2>3 DEF Handle
      <3>2. Ready(target[p])'
        BY <2>3, <3>1 DEF Ready, OpenPrerequisites, Guides
      <3>5. \A b \in App : Ready(b) => Ready(b)'
        BY <2>3, <3>1, <3>2 DEF Ready, Guides
      <3>3. /\ pc'[p] = "starting"
            /\ \A q \in Process : q # p => pc'[q] = pc[q] /\ target'[q] = target[q]
        BY <1>0, <2>3 DEF Goto
      <3>4. RunReady(p)'
        BY <2>3, <3>2, <3>3 DEF RunReady
      <3> QED BY <1>0, <2>1, <3>3, <3>4, <3>5, NothingForgotten
    <2> QED BY <1>4, <2>2, <2>3 DEF CheckPrerequisites
  <1>5. CASE ExecuteGuide(p)
    <2>1. /\ UNCHANGED <<services, target>> /\ pc[p] = "running"
          /\ pc' = [pc EXCEPT ![p] = "marking"]
      BY <1>5 DEF ExecuteGuide, Executing, Answer, Goto
    <2>2. UNCHANGED reopened /\ \A b \in App : handled[b] \subseteq handled'[b]
      BY <1>0, <1>5 DEF ExecuteGuide, Handle
    <2>5. \A b \in App : Ready(b) => Ready(b)'
      BY <2>2 DEF Ready, Guides
    <2>3. Ready(target[p]) /\ pc'[p] = "marking"
      BY <1>0, <2>1 DEF RunReady, Started, Planned
    <2>4. RunReady(p)'
      BY <1>0, <2>1, <2>3, <2>5 DEF RunReady
    <2> QED BY <1>0, <2>1, <2>4, <2>5, NothingForgotten
  <1>6. CASE ExecuteDeploy(p) \/ DeployIngress(p)
    <2>1. /\ UNCHANGED <<handled, reopened, target>> /\ pc[p] \in {"running", "deploying"}
          /\ \/ pc' = [pc EXCEPT ![p] = "marking"]
             \/ pc' = [pc EXCEPT ![p] = "deploying"] /\ target[p] = Caddy
      BY <1>6 DEF ExecuteDeploy, DeployIngress, Executing, Answer, Goto
    <2>2. Ready(target[p])
      BY <1>0, <2>1 DEF RunReady, Started, Planned
    <2>3. services' \subseteq services \cup {target[p]}
      BY <1>0, <1>6 DEF ExecuteDeploy, DeployIngress, RunReady
    <2>4. \A q \in Process : q # p /\ pc[q] = "forgetting" => target[q] # target[p]
      BY <1>1, <2>1
    <2>5. RunReady(p)'
      BY <1>0, <2>1, <2>2 DEF RunReady, Ready, Guides, Started, Planned
    <2>6. \A b \in App : Ready(b) => Ready(b)'
      BY <2>1 DEF Ready, Guides
    <2> QED BY <1>0, <2>1, <2>2, <2>3, <2>4, <2>5, <2>6, NothingForgotten
  <1>7. CASE \/ Start(p) \/ ExecuteProvision(p) \/ ExecuteResolveDigest(p)
             \/ ExecuteWaitHealthy(p) \/ ExecuteConfigureIngress(p)
             \/ PublicationAnswered(p) \/ Mark(p)
    <2>1. /\ UNCHANGED <<services, handled, reopened, target>>
          /\ pc[p] \in {"starting", "running", "publishing", "marking"}
          /\ \E l \in {"running", "publishing", "marking", "failing"} :
                pc' = [pc EXCEPT ![p] = l]
      BY <1>7 DEF Start, ExecuteProvision, ExecuteResolveDigest, ExecuteWaitHealthy,
             ExecuteConfigureIngress, PublicationAnswered, Mark, Executing, Answer, Goto
    <2>2. Ready(target[p])
      BY <1>0, <2>1 DEF RunReady, Started, Planned
    <2>3. RunReady(p)'
      BY <1>0, <2>1, <2>2 DEF RunReady, Ready, Guides
    <2> QED BY <1>0, <1>2, <2>1, <2>3
  <1>8. CASE Publish(p)
    <2>1. UNCHANGED <<services, handled, reopened, pc, target>>
      BY <1>8 DEF Publish, PublishStep, PublishBegin, PublishWrite, PublishRecord,
             PublishComplete
    <2> QED BY <2>1 DEF ReadyInv, RunReady, Ready, Guides
  <1>9. CASE Fail(p) \/ Finish(p)
    BY <1>0, <1>2, <1>9, ReturnReady DEF Fail, Finish
  <1>10. CASE ForgetApp(p)
    <2>1. /\ pc[p] = "forgetting" /\ pc' = [pc EXCEPT ![p] = "republishing"]
          /\ handled' = [handled EXCEPT ![target[p]] = {}]
          /\ reopened' = reopened \ {target[p]}
          /\ UNCHANGED <<services, target>>
      BY <1>10 DEF ForgetApp, Goto
    <2>2. target[p] \notin services
      BY <1>0, <2>1 DEF RunReady
    <2>3. \A b \in App : b # target[p] => (Ready(b) <=> Ready(b)')
      BY <1>0, <2>1 DEF Ready, Guides
    <2>4. \A b \in services' : Ready(b)'
      BY <1>0, <2>1, <2>2, <2>3 DEF ReadyInv, TypeOK, PublicationTypeOK
    <2>5. ASSUME NEW q \in Process PROVE RunReady(q)'
      <3>1. CASE q = p
        BY <1>0, <2>1, <3>1 DEF RunReady, Started, Planned
      <3>2. CASE q # p
        <4>1. pc'[q] = pc[q] /\ target'[q] = target[q] /\ target[q] \in App /\ RunReady(q)
          BY <1>0, <2>1, <3>2 DEF ReadyInv
        <4>2. pc[q] \notin {"idle", "republishing"} => target[q] # target[p]
          BY <1>1, <2>1, <3>2
        <4> QED BY <2>1, <2>3, <4>1, <4>2 DEF RunReady, Started, Planned
      <3> QED BY <3>1, <3>2
    <2> QED BY <2>4, <2>5 DEF ReadyInv
  <1> QED BY <1>3, <1>4, <1>5, <1>6, <1>7, <1>8, <1>9, <1>10 DEF Run

\* Every step of every process keeps it, when no app has two drivers.
LEMMA ReadyStep ==
    ASSUME OneDriver, CompleteInv, ReadyInv, [Next]_vars
    PROVE  ReadyInv'
  <1> USE DEF unrecorded, undeployed, unpublished, unguided, history, local
  <1>0. /\ TypeOK /\ pc \in [Process -> PC] /\ target \in [Process -> App]
        /\ handled \in [App -> SUBSET GuideKind]
    BY DEF CompleteInv, TypeOK
  <1>1. CASE UNCHANGED vars
    BY <1>1 DEF vars, ReadyInv, RunReady, Ready, Guides
  <1>2. ASSUME NEW p \in Process, Run(p) PROVE ReadyInv'
    BY <1>2, RunKeepsReady
  <1>3. ASSUME NEW p \in Process, Crash(p) PROVE ReadyInv'
    <2>1. UNCHANGED <<services, handled, reopened>> /\ Return(p)
      BY <1>3 DEF Crash
    <2>2. \A b \in App : Ready(b) => Ready(b)'
      BY <2>1 DEF Ready, Guides
    <2> QED BY <1>0, <2>1, <2>2, ReturnReady, NothingForgotten
  <1>4. ASSUME NEW p \in Process, Republish(p) PROVE ReadyInv'
    <2>1. /\ services' = services /\ pc' = [pc EXCEPT ![p] = "republishing"]
          /\ target' = [target EXCEPT ![p] = Caddy]
      BY <1>4 DEF Republish, Goto
    <2>4. UNCHANGED reopened /\ \A b \in App : handled[b] \subseteq handled'[b]
      BY <1>0, <1>4 DEF Republish, Handle
    <2>2. \A b \in App : Ready(b) => Ready(b)'
      BY <2>4 DEF Ready, Guides
    <2>3. RunReady(p)'
      BY <1>0, <2>1 DEF RunReady, Started, Planned
    <2> QED BY <1>0, <2>1, <2>2, <2>3, NothingForgotten
  <1>5. ASSUME NEW p \in Process, NEW a \in App, BeginInstall(p, a) PROVE ReadyInv'
    <2>1. /\ UNCHANGED <<services, handled, reopened>>
          /\ \E l \in {"recording", "planning"} : pc' = [pc EXCEPT ![p] = l]
          /\ target' = [target EXCEPT ![p] = a]
      BY <1>5 DEF BeginInstall, Goto
    <2>2. RunReady(p)'
      BY <1>0, <2>1 DEF RunReady, Started, Planned
    <2>3. \A b \in App : Ready(b) => Ready(b)'
      BY <2>1 DEF Ready, Guides
    <2> QED BY <1>0, <2>1, <2>2, <2>3, NothingForgotten
  <1>6. ASSUME NEW p \in Process, NEW a \in App, RemoveServices(p, a) PROVE ReadyInv'
    <2>1. /\ services' = services \ {a} /\ UNCHANGED <<handled, reopened>>
          /\ pc' = [pc EXCEPT ![p] = "forgetting"]
          /\ target' = [target EXCEPT ![p] = a]
      BY <1>6 DEF RemoveServices, Goto
    <2>2. RunReady(p)'
      BY <1>0, <2>1 DEF RunReady, Started, Planned
    <2>3. \A b \in App : Ready(b) => Ready(b)'
      BY <2>1 DEF Ready, Guides
    <2> QED BY <1>0, <2>1, <2>2, <2>3, NothingForgotten
  <1>7. ASSUME NEW a \in App, Vanish(a) \/ LoseDigest(a) PROVE ReadyInv'
    <2>1. services' \subseteq services /\ UNCHANGED <<handled, reopened, pc, target>>
      BY <1>7 DEF Vanish, LoseDigest
    <2> QED BY <2>1 DEF ReadyInv, RunReady, Ready, Guides
  <1>8. ASSUME NEW a \in App, Reopen(a) PROVE ReadyInv'
    <2>1. PICK k \in handled[a] :
              /\ handled' = [handled EXCEPT ![a] = handled[a] \ {k}]
              /\ reopened' = IF k = "PreGuide" THEN reopened \cup {a} ELSE reopened
      BY <1>8 DEF Reopen
    <2>2. \A b \in App : Ready(b) => Ready(b)'
      BY <1>0, <2>1 DEF Ready, Guides
    <2>3. UNCHANGED <<services, pc, target>> /\ services \subseteq App
      BY <1>0, <1>8 DEF Reopen, TypeOK, PublicationTypeOK
    <2> QED BY <1>0, <2>2, <2>3 DEF ReadyInv, RunReady
  <1> QED BY <1>1, <1>2, <1>3, <1>4, <1>5, <1>6, <1>7, <1>8 DEF Next

\* Nothing is deployed before the operator's part: if no app has two drivers, an app in
\* Swarm has its blocking pre-install steps handled, also when it was removed and
\* installed again, unless recheck_guides opened one again since a run last found it
\* handled: prerequisites() stops the run before anything is modified.
THEOREM NothingBeforePrerequisitesAlways ==
    ASSUME OneDriver
    PROVE  Spec => []NothingBeforePrerequisites
  <1> DEFINE Both == CompleteInv /\ ReadyInv
  <1>1. Init => Both
    BY CompleteInit, ReadyInit
  <1>2. Both /\ [Next]_vars => Both'
    BY CompleteStep, ReadyStep
  <1>3. Both => NothingBeforePrerequisites
    BY DEF ReadyInv, Ready, NothingBeforePrerequisites
  <1> QED BY <1>1, <1>2, <1>3, PTL DEF Spec

-----------------------------------------------------------------------------
(* What a route's row is worth, over an ingress whose own plan holds no      *)
(* route (catalog/_platform/caddy/manifest.yaml has no `ingress`).           *)

IngressUnrouted == ~HasRoute(Caddy)

\* The action a run is at is its app's route.
OnRoute(p) == \E i \in Steps(target[p]) : /\ Next1(p, i)
                                          /\ Plan[target[p]][i] = "ConfigureIngress"

\* What a publication recorded was served, and so was a route about to be marked done.
Served(p) ==
    /\ stage[p] # "out" => pc[p] \in {"publishing", "republishing"}
    /\ pc[p] = "deploying" => target[p] = Caddy
    /\ stage[p] \in {"record", "complete", "served"} =>
          rendered[p] \subseteq wasServed \cup assumed
    /\ pc[p] = "marking" /\ result[p] = "done" /\ OnRoute(p) =>
          target[p] \in wasServed \cup assumed

ServedInv == DoneRouteWasServed /\ \A p \in Process : Served(p)

\* The process is where it was, with what it had.
Untouched(q) == UNCHANGED <<pc[q], target[q], todo[q], result[q], unimpl[q], stage[q],
                            rendered[q]>>

\* A run is at one action at a time.
LEMMA OneAction ==
    ASSUME TypeOK, NEW p \in Process, NEW kinds, Executing(p, kinds)
    PROVE  OnRoute(p) => "ConfigureIngress" \in kinds
  <1> SUFFICES ASSUME NEW i \in Steps(target[p]), Next1(p, i),
                      Plan[target[p]][i] = "ConfigureIngress"
               PROVE  "ConfigureIngress" \in kinds
    BY DEF OnRoute
  <1>1. PICK j \in Steps(target[p]) : Next1(p, j) /\ Plan[target[p]][j] \in kinds
    BY DEF Executing
  <1>2. i \in todo[p] /\ j \in todo[p] /\ i <= j /\ j <= i
    BY <1>1 DEF Next1
  <1>3. i \in Nat /\ j \in Nat
    BY <1>2 DEF TypeOK
  <1>4. i = j
    BY <1>2, <1>3
  <1> QED BY <1>1, <1>4

\* At the start nothing but the ingress is done, and it has no route.
LEMMA ServedInit == IngressUnrouted /\ Init => ServedInv
  BY DEF Init, ServedInv, Served, DoneRouteWasServed, IngressUnrouted, HasRoute

\* What a process does, it does to itself.
LEMMA RunIsItsOwn ==
    ASSUME TypeOK, NEW p \in Process, Run(p), NEW q \in Process, q # p
    PROVE  Untouched(q)
  <1> USE DEF unpublished, local, Untouched, Goto, Answer
  <1>0. /\ pc \in [Process -> PC] /\ target \in [Process -> App]
        /\ stage \in [Process -> Stage] /\ rendered \in [Process -> SUBSET App]
        /\ result \in [Process -> Result] /\ todo \in [Process -> SUBSET Nat]
        /\ unimpl \in [Process -> BOOLEAN]
    BY DEF TypeOK, PublicationTypeOK
  <1>1. ASSUME Return(p) PROVE Untouched(q)
    BY <1>0, <1>1 DEF Return
  <1>2. CASE RecordApp(p) \/ RecordPlan(p) \/ CheckPrerequisites(p) \/ Start(p)
    BY <1>0, <1>1, <1>2 DEF RecordApp, RecordPlan, CheckPrerequisites, Start
  <1>3. CASE ExecuteProvision(p) \/ ExecuteResolveDigest(p) \/ ExecuteGuide(p)
    BY <1>0, <1>3 DEF ExecuteProvision, ExecuteResolveDigest, ExecuteGuide
  <1>4. CASE ExecuteDeploy(p) \/ DeployIngress(p) \/ ExecuteWaitHealthy(p)
    BY <1>0, <1>4 DEF ExecuteDeploy, DeployIngress, ExecuteWaitHealthy
  <1>5. CASE ExecuteConfigureIngress(p) \/ PublicationAnswered(p) \/ Mark(p)
    BY <1>0, <1>5 DEF ExecuteConfigureIngress, PublicationAnswered, Mark
  <1>6. CASE Publish(p)
    BY <1>0, <1>6 DEF Publish, PublishStep, PublishBegin, PublishWrite, PublishRecord,
           PublishComplete
  <1>7. CASE Fail(p) \/ Finish(p) \/ RepublicationEnds(p)
    BY <1>1, <1>7 DEF Fail, Finish, RepublicationEnds
  <1>8. CASE ForgetApp(p)
    BY <1>0, <1>8 DEF ForgetApp
  <1> QED BY <1>2, <1>3, <1>4, <1>5, <1>6, <1>7, <1>8 DEF Run

\* A step that forgets no app is judged by what it marked and by who took it.
LEMMA ServedAfter ==
    ASSUME ServedInv, DoneRouteWasServed', wasServed \subseteq wasServed',
           assumed \subseteq assumed', NEW p \in Process, Served(p)',
           \A q \in Process : q # p => Untouched(q)
    PROVE  ServedInv'
  <1>1. ASSUME NEW q \in Process, q # p PROVE Served(q)'
    <2>1. Untouched(q) /\ Served(q)
      BY <1>1 DEF ServedInv
    <2>2. OnRoute(q)' => OnRoute(q)
      BY <2>1 DEF OnRoute, Next1, Untouched
    <2> QED BY <2>1, <2>2 DEF Served, Untouched
  <1> QED BY <1>1 DEF ServedInv

\* A step that marks no row and forgets no app.
LEMMA ServedKept ==
    ASSUME ServedInv, UNCHANGED journal, wasServed \subseteq wasServed',
           assumed \subseteq assumed', NEW p \in Process, Served(p)',
           \A q \in Process : q # p => Untouched(q)
    PROVE  ServedInv'
  <1>1. DoneRouteWasServed'
    BY DEF ServedInv, DoneRouteWasServed
  <1> QED BY <1>1, ServedAfter

\* Every step of a run keeps what is served: only the removal of an app takes its routes
\* off, and nobody else has that app in hand but the publications it runs under.
LEMMA RunServes ==
    ASSUME OneDriver, IngressUnrouted, CompleteInv, ServedInv, NEW p \in Process, Run(p)
    PROVE  ServedInv'
  <1> USE DEF unrecorded, undeployed, unpublished, unguided, history, local
  <1>0. /\ TypeOK /\ Served(p) /\ target[p] \in App
        /\ pc \in [Process -> PC] /\ target \in [Process -> App]
        /\ stage \in [Process -> Stage] /\ rendered \in [Process -> SUBSET App]
        /\ result \in [Process -> Result] /\ todo \in [Process -> SUBSET Nat]
    BY DEF ServedInv, CompleteInv, TypeOK, PublicationTypeOK
  <1>o. \A q \in Process : q # p => Untouched(q)
    BY <1>0, RunIsItsOwn
  <1>1. CASE \/ RecordApp(p) \/ RecordPlan(p) \/ CheckPrerequisites(p) \/ Start(p)
             \/ ExecuteConfigureIngress(p) \/ Fail(p) \/ Finish(p) \/ RepublicationEnds(p)
    <2>1. PICK l \in PC \ {"marking", "deploying"} :
              /\ pc' = [pc EXCEPT ![p] = l]
              /\ \/ UNCHANGED <<stage, rendered>> /\ pc[p] \notin {"publishing", "republishing"}
                 \/ stage' = [stage EXCEPT ![p] = "out"]
                 \/ stage' = [stage EXCEPT ![p] = "begin"] /\ l = "publishing"
      BY <1>1 DEF RecordApp, RecordPlan, CheckPrerequisites, Start, Executing, Fail, Finish,
             ExecuteConfigureIngress, RepublicationEnds, Return, Goto, PC
    <2>2. Served(p)'
      BY <1>0, <2>1 DEF Served
    <2>3. CASE ~RecordPlan(p)
      <3>1. UNCHANGED <<journal, wasServed, assumed>>
        BY <1>1, <2>3 DEF RecordApp, CheckPrerequisites, Start, Fail, Finish,
               ExecuteConfigureIngress, RepublicationEnds
      <3> QED BY <2>2, <3>1, <1>o, ServedKept
    <2>4. CASE RecordPlan(p)
      <3>1. /\ UNCHANGED <<wasServed, assumed>>
            /\ \/ journal' = journal
               \/ journal' = [journal EXCEPT ![target[p]] =
                    [i \in Steps(target[p]) |-> IF @[i] = "absent" THEN "pending" ELSE @[i]]]
        BY <2>4 DEF RecordPlan
      <3>2. \A a \in App : \A i \in Steps(a) :
                journal'[a][i] = "done" => journal[a][i] = "done"
        BY <1>0, <3>1 DEF TypeOK, PublicationTypeOK
      <3>3. DoneRouteWasServed'
        BY <3>1, <3>2 DEF ServedInv, DoneRouteWasServed
      <3> QED BY <1>o, <2>2, <3>1, <3>3, ServedAfter
    <2> QED BY <2>3, <2>4
  <1>2. CASE ExecuteProvision(p) \/ ExecuteResolveDigest(p) \/ ExecuteGuide(p)
    <2>1. PICK kinds \in {{"Provision"}, {"ResolveDigest"}, GuideKind} : Executing(p, kinds)
      BY <1>2 DEF ExecuteProvision, ExecuteResolveDigest, ExecuteGuide
    <2>2. ~OnRoute(p) /\ pc[p] = "running"
      BY <2>1, <1>0, OneAction DEF GuideKind, Executing
    <2>3. UNCHANGED <<journal, wasServed, assumed, target, todo, stage, rendered>>
      BY <1>2 DEF ExecuteProvision, ExecuteResolveDigest, ExecuteGuide
    <2>4. ~OnRoute(p)' /\ stage[p] = "out"
      BY <1>0, <2>2, <2>3 DEF OnRoute, Next1, Served
    <2>5. pc'[p] = "marking"
      BY <1>0, <1>2 DEF ExecuteProvision, ExecuteResolveDigest, ExecuteGuide, Answer, Goto
    <2> QED BY <2>3, <2>4, <2>5, <1>o, ServedKept DEF Served
  <1>3. CASE ExecuteDeploy(p) \/ DeployIngress(p)
    <2>1. /\ pc[p] \in {"running", "deploying"}
          /\ UNCHANGED <<journal, assumed, target, todo, stage>>
          /\ wasServed \subseteq wasServed'
      BY <1>3 DEF ExecuteDeploy, DeployIngress, Executing, ingressVars, Take
    <2>2. stage[p] = "out"
      BY <1>0, <2>1 DEF Served
    <2>3. ~OnRoute(p)
      <3>1. CASE ExecuteDeploy(p)
        BY <3>1, <1>0, OneAction DEF ExecuteDeploy
      <3>2. CASE DeployIngress(p)
        BY <1>0, <3>2 DEF DeployIngress, Served, OnRoute, IngressUnrouted, HasRoute
      <3> QED BY <1>3, <3>1, <3>2
    <2>4. pc'[p] = "deploying" => target[p] = Caddy
      BY <1>0, <1>3 DEF ExecuteDeploy, DeployIngress, Answer, Goto
    <2> QED BY <2>1, <2>2, <2>3, <2>4, <1>o, ServedKept DEF Served, OnRoute, Next1
  <1>4. CASE ExecuteWaitHealthy(p)
    <2>1. ~OnRoute(p)
      BY <1>4, <1>0, OneAction DEF ExecuteWaitHealthy
    <2>2. /\ UNCHANGED <<journal, wasServed, target, todo>> /\ pc[p] = "running"
          /\ \/ UNCHANGED <<stage, rendered, assumed>> /\ pc' = [pc EXCEPT ![p] = "marking"]
             \/ /\ pc' = [pc EXCEPT ![p] = "publishing"]
                /\ rendered' = [rendered EXCEPT ![p] = Routes]
                /\ stage' = [stage EXCEPT ![p] = "record"]
                /\ assumed' = assumed \cup (Routes \ wasServed)
      BY <1>4 DEF ExecuteWaitHealthy, Executing, Answer, Goto
    <2>3. ~OnRoute(p)' /\ stage[p] = "out"
      BY <1>0, <2>1, <2>2 DEF OnRoute, Next1, Served
    <2>4. Served(p)'
      BY <1>0, <2>2, <2>3 DEF Served
    <2> QED BY <2>2, <2>4, <1>o, ServedKept
  <1>5. CASE Publish(p)
    <2>1. UNCHANGED <<pc, target, todo, result, assumed>>
          /\ pc[p] \in {"publishing", "republishing"}
      BY <1>5 DEF Publish
    <2>2. CASE PublishBegin(p) \/ PublishWrite(p) \/ PublishRecord(p)
      <3>1. /\ UNCHANGED journal /\ wasServed \subseteq wasServed'
            /\ \/ stage' \in {[stage EXCEPT ![p] = l] : l \in {"unserved", "write", "refused"}}
               \/ stage' = [stage EXCEPT ![p] = "record"] /\ rendered' = rendered
                     /\ rendered[p] \subseteq wasServed'
               \/ stage' = [stage EXCEPT ![p] = "complete"] /\ rendered' = rendered
                     /\ stage[p] = "record"
        BY <2>2 DEF PublishBegin, PublishWrite, PublishRecord, stateVars, ingressVars, Take
      <3>2. Served(p)'
        BY <1>0, <2>1, <3>1 DEF Served
      <3> QED BY <2>1, <3>1, <3>2, <1>o, ServedKept
    <2>3. CASE PublishComplete(p)
      <3>1. /\ stage[p] = "complete" /\ stage' = [stage EXCEPT ![p] = "served"]
            /\ UNCHANGED <<rendered, wasServed>> /\ journal' = RouteRowsDone(rendered[p])
        BY <2>3 DEF PublishComplete, ingressVars
      <3>2. rendered[p] \subseteq wasServed \cup assumed
        BY <1>0, <3>1 DEF Served
      <3>3. \A a \in App : \A i \in Steps(a) :
                journal'[a][i] = "done" => journal[a][i] = "done" \/ a \in rendered[p]
        BY <3>1 DEF RouteRowsDone
      <3>4. DoneRouteWasServed'
        BY <2>1, <3>1, <3>2, <3>3 DEF ServedInv, DoneRouteWasServed
      <3>5. Served(p)'
        BY <1>0, <2>1, <3>1, <3>2 DEF Served
      <3> QED BY <1>o, <2>1, <3>1, <3>4, <3>5, ServedAfter
    <2> QED BY <1>5, <2>2, <2>3 DEF Publish, PublishStep
  <1>6. CASE PublicationAnswered(p)
    <2>1. /\ UNCHANGED <<journal, wasServed, assumed, target, todo>>
          /\ stage[p] \in {"served", "unserved", "refused"}
          /\ pc' = [pc EXCEPT ![p] = "marking"]
          /\ result' = [result EXCEPT ![p] = RouteAnswer(p)]
          /\ stage' = [stage EXCEPT ![p] = "out"]
      BY <1>6 DEF PublicationAnswered, Answer, Goto
    <2>2. RouteAnswer(p) = "done" /\ OnRoute(p) =>
              target[p] \in rendered[p] /\ stage[p] = "served"
      BY <2>1 DEF RouteAnswer, OnRoute, IngressUnrouted, HasRoute
    <2>3. OnRoute(p)' => OnRoute(p)
      BY <2>1 DEF OnRoute, Next1
    <2>4. Served(p)'
      BY <1>0, <2>1, <2>2, <2>3 DEF Served
    <2> QED BY <2>1, <2>4, <1>o, ServedKept
  <1>7. CASE Mark(p)
    <2>1. PICK i \in Steps(target[p]) : Next1(p, i) /\ SetRow(target[p], i, result[p])
      BY <1>7 DEF Mark
    <2>2. /\ pc[p] = "marking" /\ UNCHANGED <<wasServed, assumed, stage>>
          /\ pc' \in {[pc EXCEPT ![p] = l] : l \in {"failing", "running"}}
      BY <1>7 DEF Mark, Goto
    <2>3. \A a \in App : \A j \in Steps(a) : ~(a = target[p] /\ j = i) =>
              journal'[a][j] = journal[a][j]
      BY <1>0, <2>1, SetRowType DEF Result, ActionStatus
    <2>4. journal'[target[p]][i] = "done" => result[p] = "done"
      <3>1. CASE journal[target[p]][i] = "absent"
        BY <1>0, <2>1, <3>1 DEF SetRow, TypeOK, PublicationTypeOK
      <3>2. CASE journal[target[p]][i] # "absent"
        BY <1>0, <2>1, <3>2, SetRowType DEF Result, ActionStatus
      <3> QED BY <3>1, <3>2
    <2>5. DoneRouteWasServed'
      BY <1>0, <2>1, <2>2, <2>3, <2>4 DEF ServedInv, DoneRouteWasServed, Served, OnRoute
    <2>6. Served(p)'
      BY <1>0, <2>2 DEF Served
    <2> QED BY <1>o, <2>2, <2>5, <2>6, ServedAfter
  <1>8. CASE ForgetApp(p)
    <2> DEFINE a == target[p]
    <2>1. /\ journal' = [journal EXCEPT ![a] = [i \in Steps(a) |-> "absent"]]
          /\ wasServed' = wasServed \ {a}
          /\ assumed' = IF Outlives(p, a) THEN assumed \cup {a} ELSE assumed \ {a}
          /\ stage' = [stage EXCEPT ![p] = "begin"]
          /\ pc' = [pc EXCEPT ![p] = "republishing"] /\ pc[p] = "forgetting"
      BY <1>8 DEF ForgetApp, Goto
    <2>2. \A b \in App : \A i \in Steps(b) :
              journal'[b][i] = "done" => journal[b][i] = "done" /\ b # a
      BY <1>0, <2>1 DEF TypeOK, PublicationTypeOK
    <2>3. \A b : b # a /\ b \in wasServed \cup assumed => b \in wasServed' \cup assumed'
      BY <2>1
    <2>4. DoneRouteWasServed'
      BY <2>2, <2>3 DEF ServedInv, DoneRouteWasServed
    <2>5. Served(p)'
      BY <1>0, <2>1 DEF Served
    <2>6. ASSUME NEW q \in Process, q # p PROVE Served(q)'
      <3>1. Untouched(q) /\ Served(q)
        BY <1>o, <2>6 DEF ServedInv
      <3>2. OnRoute(q)' => OnRoute(q)
        BY <3>1 DEF OnRoute, Next1, Untouched
      <3>3. pc[q] = "marking" => target[q] # a
        BY <2>1, <2>6, Apart
      <3>4. ASSUME stage[q] \in {"record", "complete", "served"}
            PROVE  rendered[q] \subseteq wasServed' \cup assumed'
        <4>1. a \in rendered[q] => a \in assumed'
          BY <2>1, <2>6, <3>4 DEF Outlives
        <4>2. rendered[q] \subseteq wasServed \cup assumed
          BY <3>1, <3>4 DEF Served
        <4> HIDE DEF a
        <4> QED BY <2>3, <4>1, <4>2
      <3> QED BY <2>3, <3>1, <3>2, <3>3, <3>4 DEF Served, Untouched
    <2> QED BY <2>4, <2>5, <2>6 DEF ServedInv
  <1> QED BY <1>1, <1>2, <1>3, <1>4, <1>5, <1>6, <1>7, <1>8 DEF Run

\* Every step keeps what is served.
LEMMA ServedStep ==
    ASSUME OneDriver, IngressUnrouted, CompleteInv, ServedInv, [Next]_vars
    PROVE  ServedInv'
  <1> USE DEF unrecorded, undeployed, unpublished, unguided, history, local
  <1>0. /\ pc \in [Process -> PC] /\ stage \in [Process -> Stage]
        /\ target \in [Process -> App] /\ rendered \in [Process -> SUBSET App]
        /\ result \in [Process -> Result] /\ todo \in [Process -> SUBSET Nat]
        /\ unimpl \in [Process -> BOOLEAN]
    BY DEF CompleteInv, TypeOK, PublicationTypeOK
  <1>1. CASE UNCHANGED vars
    BY <1>1 DEF vars, ServedInv, Served, DoneRouteWasServed, OnRoute, Next1
  <1>2. ASSUME NEW p \in Process, Run(p) PROVE ServedInv'
    BY <1>2, RunServes
  <1>3. ASSUME NEW p \in Process, NEW a \in App,
               Crash(p) \/ Republish(p) \/ BeginInstall(p, a) \/ RemoveServices(p, a)
        PROVE  ServedInv'
    <2>1. UNCHANGED <<journal, wasServed, assumed>> /\ Served(p)
      BY <1>3 DEF Crash, Republish, BeginInstall, RemoveServices, ingressVars, ServedInv
    <2>2. PICK l \in PC \ {"marking", "deploying"} :
              /\ pc' = [pc EXCEPT ![p] = l]
              /\ \/ UNCHANGED stage /\ pc[p] = "idle"
                 \/ stage' = [stage EXCEPT ![p] = "out"]
                 \/ stage' = [stage EXCEPT ![p] = "begin"] /\ l = "republishing"
      BY <1>3 DEF Crash, Republish, BeginInstall, RemoveServices, Return, Goto, PC
    <2>3. Served(p)'
      BY <1>0, <2>1, <2>2 DEF Served
    <2>4. \A q \in Process : q # p => Untouched(q)
      BY <1>0, <1>3 DEF Crash, Republish, BeginInstall, RemoveServices, Return, Goto,
             Untouched
    <2> QED BY <2>1, <2>3, <2>4, ServedKept
  <1>4. ASSUME NEW a \in App, Vanish(a) \/ Reopen(a) \/ LoseDigest(a) PROVE ServedInv'
    BY <1>4 DEF Vanish, Reopen, LoseDigest, ingressVars, ServedInv, Served,
           DoneRouteWasServed, OnRoute, Next1
  <1> QED BY <1>1, <1>2, <1>3, <1>4, PublicationAssumption DEF Next

\* A route recorded done was in a file Caddy took: for every set of apps, every plan and
\* every place a process may die at, with any number of processes publishing at once, if
\* no app has two drivers.  Only two kinds of route are taken on a word: those the
\* ingress's own run records once it is healthy, and that of an app removed under a
\* publication that had already served it.
THEOREM DoneRouteWasServedAlways ==
    ASSUME OneDriver, IngressUnrouted
    PROVE  Spec => []DoneRouteWasServed
  <1> DEFINE Both == CompleteInv /\ ServedInv
  <1>1. Init => Both
    BY CompleteInit, ServedInit
  <1>2. Both /\ [Next]_vars => Both'
    BY CompleteStep, ServedStep
  <1>3. Both => DoneRouteWasServed
    BY DEF ServedInv
  <1> QED BY <1>1, <1>2, <1>3, PTL DEF Spec

-----------------------------------------------------------------------------
(* What a partial status is worth.                                           *)

\* An action of a outside todo is unimplemented, or was when its run counted it.
OpenAction(a, S) ==
    \/ \E i \in Steps(a) \ S : journal[a][i] = "unimplemented"
    \/ a \in outrun

\* A run that counted an action as unimplemented can show it.
Open(p) == pc[p] \in Started /\ unimpl[p] => OpenAction(target[p], todo[p])

EndedOpen == \A a \in ended : status[a] = "partial" => OpenAction(a, {})

OpenInv == EndedOpen /\ \A p \in Process : Open(p)

\* At the start no run counts anything and no app is partial.
LEMMA OpenInit == Init => OpenInv
  BY DEF Init, OpenInv, EndedOpen, Open, Started, Planned

\* A step that completes no row and starts no run is judged by the process that took it
\* and by what it says of an app.
LEMMA OpenAfter ==
    ASSUME OpenInv, TypeOK, TypeOK', NEW p \in Process, Open(p)',
           \A q \in Process : q # p => Untouched(q),
           NEW a \in App,
           \A q \in Process : q # p /\ pc[q] \in Started => target[q] # a,
           \A b \in App, S \in SUBSET Nat : b # a /\ OpenAction(b, S) => OpenAction(b, S)',
           \A b \in App : b # a => status'[b] = status[b] /\ (b \in ended' => b \in ended),
           a \in ended' /\ status'[a] = "partial" => OpenAction(a, {})'
    PROVE  OpenInv'
  <1>1. EndedOpen'
    <2> SUFFICES ASSUME NEW b \in ended', status'[b] = "partial" PROVE OpenAction(b, {})'
      BY DEF EndedOpen
    <2>1. b \in App
      BY DEF TypeOK
    <2>2. CASE b # a
      <3>1. OpenAction(b, {})
        BY <2>1, <2>2 DEF OpenInv, EndedOpen
      <3> QED BY <2>1, <2>2, <3>1
    <2> QED BY <2>2
  <1>2. ASSUME NEW q \in Process, q # p PROVE Open(q)'
    <2>1. Untouched(q) /\ Open(q) /\ target[q] \in App /\ todo[q] \in SUBSET Nat
      BY <1>2 DEF OpenInv, TypeOK
    <2>2. PICK b \in App, S \in SUBSET Nat : b = target[q] /\ S = todo[q]
      BY <2>1
    <2>3. pc[q] \in Started /\ OpenAction(b, S) => OpenAction(b, S)'
      BY <1>2, <2>2
    <2>4. target'[q] = b /\ todo'[q] = S /\ pc'[q] = pc[q] /\ unimpl'[q] = unimpl[q]
      BY <2>1, <2>2 DEF Untouched
    <2> QED BY <2>1, <2>2, <2>3, <2>4 DEF Open, OpenAction
  <1> QED BY <1>1, <1>2 DEF OpenInv

\* A step that records nothing.
LEMMA OpenKept ==
    ASSUME OpenInv, TypeOK, UNCHANGED <<status, journal, outrun>>, ended' \subseteq ended,
           NEW p \in Process, Open(p)', \A q \in Process : q # p => Untouched(q)
    PROVE  OpenInv'
  <1>1. \A a, S : OpenAction(a, S)' = OpenAction(a, S)
    BY DEF OpenAction
  <1>2. EndedOpen'
    BY <1>1 DEF OpenInv, EndedOpen
  <1>3. ASSUME NEW q \in Process, q # p PROVE Open(q)'
    BY <1>1, <1>3 DEF OpenInv, Open, Untouched, OpenAction
  <1> QED BY <1>2, <1>3 DEF OpenInv

\* What a publication completes under a run that counted it is outrun; what it leaves
\* partial has a row that is not a route's.
LEMMA PublishKeepsOpen ==
    ASSUME TypeOK, OpenInv, NEW p \in Process, Publish(p)
    PROVE  OpenInv'
  <1>0. /\ UNCHANGED <<pc, target, todo, unimpl, ended>>
        /\ outrun' = outrun \cup Outruns(p)
        /\ \A q \in Process : target[q] \in App
        /\ ended \subseteq App
    BY DEF Publish, local, TypeOK
  <1>1. CASE PublishBegin(p) \/ PublishWrite(p) \/ PublishRecord(p)
    <2>1. UNCHANGED <<status, journal>>
      BY <1>1 DEF PublishBegin, PublishWrite, PublishRecord, stateVars
    <2>2. \A a, S : OpenAction(a, S) => OpenAction(a, S)'
      BY <1>0, <2>1 DEF OpenAction
    <2> QED BY <1>0, <2>1, <2>2 DEF OpenInv, EndedOpen, Open, OpenAction
  <1>2. CASE PublishComplete(p)
    <2>1. /\ stage[p] = "complete"
          /\ journal' = RouteRowsDone(rendered[p]) /\ status' = PartialNowRunning(rendered[p])
      BY <1>2 DEF PublishComplete
    <2>2. ASSUME NEW a \in App, ~(a \in rendered[p] /\ Waited(a)), NEW i \in Steps(a)
          PROVE  journal'[a][i] = journal[a][i]
      BY <2>1, <2>2 DEF RouteRowsDone, Waited
    <2>3. ASSUME NEW a \in ended, status'[a] = "partial" PROVE OpenAction(a, {})'
      <3>1. a \in App /\ status[a] = "partial"
        BY <1>0, <2>1, <2>3 DEF PartialNowRunning
      <3>2. OpenAction(a, {})
        BY <3>1 DEF OpenInv, EndedOpen
      <3>3. CASE a \in rendered[p] /\ Waited(a)
        BY <2>1, <2>3, <3>1, <3>3 DEF PartialNowRunning, OpenAction
      <3>4. CASE ~(a \in rendered[p] /\ Waited(a))
        BY <1>0, <2>2, <3>1, <3>2, <3>4 DEF OpenAction
      <3> QED BY <3>3, <3>4
    <2>4. ASSUME NEW q \in Process PROVE Open(q)'
      <3> SUFFICES ASSUME pc[q] \in Started, unimpl[q]
                   PROVE  OpenAction(target[q], todo[q])'
        BY <1>0 DEF Open, OpenAction
      <3>1. OpenAction(target[q], todo[q]) /\ target[q] \in App
        BY <1>0 DEF OpenInv, Open
      <3>2. CASE target[q] \in rendered[p] /\ Waited(target[q])
        BY <1>0, <2>1, <3>2 DEF Outruns, OpenAction
      <3>3. CASE ~(target[q] \in rendered[p] /\ Waited(target[q]))
        BY <1>0, <2>2, <3>1, <3>3 DEF OpenAction
      <3> QED BY <3>2, <3>3
    <2> QED BY <1>0, <2>3, <2>4 DEF OpenInv, EndedOpen
  <1> QED BY <1>1, <1>2 DEF Publish, PublishStep

\* Every step of a run keeps what partial means.
LEMMA RunKeepsOpen ==
    ASSUME OneDriver, CompleteInv, OpenInv, TypeOK', NEW p \in Process, Run(p)
    PROVE  OpenInv'
  <1> USE DEF unrecorded, undeployed, unpublished, unguided, history, local
  <1>p. PICK a \in App : a = target[p]
    BY DEF CompleteInv, TypeOK
  <1>0. /\ TypeOK /\ Open(p) /\ a \in App /\ ended \subseteq App
        /\ pc \in [Process -> PC] /\ status \in [App -> AppStatus]
        /\ todo \in [Process -> SUBSET Nat] /\ unimpl \in [Process -> BOOLEAN]
        /\ target \in [Process -> App] /\ result[p] \in Result
        /\ journal = [b \in App |-> journal[b]]
    BY DEF CompleteInv, TypeOK, PublicationTypeOK, OpenInv
  <1>o. \A q \in Process : q # p => Untouched(q)
    BY <1>0, RunIsItsOwn
  <1>a. ASSUME pc[p] \notin {"idle", "republishing"}, NEW q \in Process, q # p,
               pc[q] \in Started
        PROVE  target[q] # a
    <2>1. pc[q] \notin {"idle", "republishing"}
      BY <1>a DEF Started, Planned
    <2> QED BY <1>p, <1>a, <2>1, Apart
  <1>r. ASSUME pc'[p] \notin Started PROVE Open(p)'
    BY <1>r DEF Open
  <1>1. CASE RecordApp(p)
    <2>1. /\ pc[p] = "recording" /\ pc'[p] = "planning" /\ UNCHANGED <<journal, ended, outrun>>
          /\ \A b \in App : b # a => status'[b] = status[b]
          /\ status'[a] = "partial" => status[a] = "partial"
      BY <1>0, <1>p, <1>1 DEF RecordApp, Goto
    <2>2. \A b, S : OpenAction(b, S)' = OpenAction(b, S)
      BY <2>1 DEF OpenAction
    <2>3. a \in ended' /\ status'[a] = "partial" => OpenAction(a, {})'
      BY <2>1, <2>2 DEF OpenInv, EndedOpen
    <2>4. Open(p)'
      BY <1>r, <2>1 DEF Started, Planned
    <2> QED BY <1>0, <1>o, <1>a, <2>1, <2>2, <2>3, <2>4, OpenAfter
  <1>2. CASE RecordPlan(p)
    <2>1. /\ pc[p] = "planning" /\ UNCHANGED <<status, ended, outrun>>
          /\ pc'[p] \in {"idle", "checking"}
          /\ \/ journal' = journal
             \/ journal' = [journal EXCEPT ![a] =
                  [i \in Steps(a) |-> IF @[i] = "absent" THEN "pending" ELSE @[i]]]
      BY <1>0, <1>p, <1>2 DEF RecordPlan, Return, Goto
    <2>2. \A b \in App : \A i \in Steps(b) :
              journal[b][i] = "unimplemented" => journal'[b][i] = "unimplemented"
      BY <1>0, <2>1
    <2>3. \A b \in App, S \in SUBSET Nat : OpenAction(b, S) => OpenAction(b, S)'
      BY <2>1, <2>2 DEF OpenAction
    <2>4. a \in ended' /\ status'[a] = "partial" => OpenAction(a, {})'
      BY <1>0, <2>1, <2>3 DEF OpenInv, EndedOpen
    <2>5. Open(p)'
      BY <1>r, <2>1 DEF Started, Planned
    <2> QED BY <1>0, <1>o, <1>a, <2>1, <2>3, <2>4, <2>5, OpenAfter
  <1>3. CASE CheckPrerequisites(p) \/ RepublicationEnds(p)
    <2>1. UNCHANGED <<status, journal, ended, outrun>> /\ pc'[p] \in {"idle", "starting"}
      BY <1>0, <1>3 DEF CheckPrerequisites, RepublicationEnds, Return, Goto
    <2>2. Open(p)'
      BY <1>r, <2>1 DEF Started, Planned
    <2> QED BY <1>0, <1>o, <2>1, <2>2, OpenKept
  <1>4. CASE Start(p)
    <2>1. /\ pc[p] = "starting" /\ ~unimpl'[p] /\ UNCHANGED journal
          /\ ended' = ended \ {a} /\ outrun' = outrun \ {a}
          /\ \A b \in App : b # a => status'[b] = status[b]
      BY <1>0, <1>p, <1>4 DEF Start
    <2>2. \A b \in App, S \in SUBSET Nat : b # a /\ OpenAction(b, S) => OpenAction(b, S)'
      BY <2>1 DEF OpenAction
    <2>3. Open(p)'
      BY <2>1 DEF Open
    <2> QED BY <1>0, <1>o, <1>a, <2>1, <2>2, <2>3, OpenAfter
  <1>5. CASE \/ ExecuteProvision(p) \/ ExecuteResolveDigest(p) \/ ExecuteGuide(p)
             \/ ExecuteDeploy(p) \/ DeployIngress(p) \/ ExecuteWaitHealthy(p)
             \/ ExecuteConfigureIngress(p) \/ PublicationAnswered(p)
    <2>1. /\ UNCHANGED <<status, journal, ended, outrun, target, todo, unimpl>>
          /\ pc[p] \in {"running", "deploying", "publishing"}
      BY <1>5
         DEF ExecuteProvision, ExecuteResolveDigest, ExecuteGuide, ExecuteDeploy,
             DeployIngress, ExecuteWaitHealthy, ExecuteConfigureIngress,
             PublicationAnswered, Executing
    <2>2. pc[p] \in Started
      BY <2>1 DEF Started, Planned
    <2>3. Open(p)'
      BY <1>0, <2>1, <2>2 DEF Open, OpenAction
    <2> QED BY <1>0, <1>o, <2>1, <2>3, OpenKept
  <1>6. CASE Publish(p)
    BY <1>0, <1>6, PublishKeepsOpen
  <1>7. CASE Mark(p)
    <2>1. PICK i \in Steps(a) : /\ Next1(p, i) /\ SetRow(a, i, result[p])
                                /\ todo' = [todo EXCEPT ![p] = @ \ {i}]
      BY <1>7, <1>p DEF Mark
    <2>2. /\ pc[p] = "marking"
          /\ unimpl'[p] = (unimpl[p] \/ result[p] = "unimplemented")
          /\ UNCHANGED <<status, target, ended, outrun>>
      BY <1>0, <1>7 DEF Mark
    <2>3. /\ pc[p] \in Started /\ pc[p] \in Planned
      BY <2>2 DEF Started, Planned
    <2>4. a \notin ended /\ \A j \in Steps(a) : journal[a][j] # "absent"
      BY <1>p, <2>3 DEF CompleteInv, StartedNotEnded, RowsPresent
    <2>5. /\ \A b \in App : b # a => journal'[b] = journal[b]
          /\ \A j \in Steps(a) : j # i => journal'[a][j] = journal[a][j]
          /\ journal'[a][i] = result[p]
      BY <1>0, <2>1, <2>4, SetRowType DEF Result, ActionStatus
    <2>6. todo'[p] = todo[p] \ {i} /\ i \in todo[p] /\ target'[p] = a
      BY <1>0, <1>p, <2>1, <2>2 DEF Next1
    <2>7. ASSUME unimpl'[p], NEW T, T = todo[p] \ {i} PROVE OpenAction(a, T)'
      <3>1. CASE result[p] = "unimplemented"
        BY <2>5, <2>7, <3>1 DEF OpenAction
      <3>2. CASE result[p] # "unimplemented"
        <4>1. OpenAction(a, todo[p])
          BY <1>0, <1>p, <2>2, <2>3, <2>7, <3>2 DEF Open
        <4>2. \A j \in Steps(a) \ todo[p] : j # i /\ journal'[a][j] = journal[a][j]
          BY <2>5, <2>6
        <4> QED BY <2>2, <2>7, <4>1, <4>2 DEF OpenAction
      <3> QED BY <3>1, <3>2
    <2>8. Open(p)'
      BY <2>6, <2>7 DEF Open, OpenAction
    <2>9. \A b \in App, S \in SUBSET Nat : b # a /\ OpenAction(b, S) => OpenAction(b, S)'
      BY <2>2, <2>5 DEF OpenAction
    <2> QED BY <1>0, <1>o, <1>a, <2>2, <2>4, <2>8, <2>9, OpenAfter
  <1>8. CASE Fail(p) \/ Finish(p)
    <2>1. /\ pc'[p] = "idle" /\ UNCHANGED <<journal, outrun>> /\ ended' = ended \cup {a}
          /\ pc[p] \in {"failing", "running"}
          /\ \A b \in App : b # a => status'[b] = status[b]
          /\ status'[a] = "partial" => pc[p] = "running" /\ unimpl[p]
      BY <1>0, <1>p, <1>8 DEF Fail, Finish, FinalStatus, SetStatus, Return, Goto
    <2>2. pc[p] = "running" /\ unimpl[p] => OpenAction(a, {})
      BY <1>0, <1>p DEF Open, OpenAction, Started, Planned
    <2>3. \A b, S : OpenAction(b, S)' = OpenAction(b, S)
      BY <2>1 DEF OpenAction
    <2>4. Open(p)'
      BY <1>r, <2>1 DEF Started, Planned
    <2>5. a \in ended' /\ status'[a] = "partial" => OpenAction(a, {})'
      BY <2>1, <2>2, <2>3
    <2> QED BY <1>0, <1>o, <1>a, <2>1, <2>3, <2>4, <2>5, OpenAfter
  <1>9. CASE ForgetApp(p)
    <2>1. /\ pc'[p] = "republishing" /\ pc[p] = "forgetting" /\ UNCHANGED outrun
          /\ ended' = ended \cup {a} /\ status'[a] = "absent"
          /\ \A b \in App : b # a => status'[b] = status[b] /\ journal'[b] = journal[b]
      BY <1>0, <1>p, <1>9 DEF ForgetApp, Goto
    <2>2. \A b \in App, S \in SUBSET Nat : b # a /\ OpenAction(b, S) => OpenAction(b, S)'
      BY <2>1 DEF OpenAction
    <2>3. Open(p)'
      BY <1>r, <2>1 DEF Started, Planned
    <2> QED BY <1>0, <1>o, <1>a, <2>1, <2>2, <2>3, OpenAfter
  <1> QED BY <1>1, <1>2, <1>3, <1>4, <1>5, <1>6, <1>7, <1>8, <1>9 DEF Run

\* Every step keeps what partial means.
LEMMA OpenStep ==
    ASSUME OneDriver, CompleteInv, OpenInv, [Next]_vars
    PROVE  OpenInv'
  <1> USE DEF unrecorded, undeployed, unpublished, unguided, history, local
  <1>0. /\ TypeOK /\ TypeOK' /\ pc \in [Process -> PC] /\ stage \in [Process -> Stage]
        /\ target \in [Process -> App] /\ rendered \in [Process -> SUBSET App]
        /\ result \in [Process -> Result] /\ todo \in [Process -> SUBSET Nat]
        /\ unimpl \in [Process -> BOOLEAN]
    BY TypeStep DEF CompleteInv, TypeOK, PublicationTypeOK
  <1>1. CASE UNCHANGED vars
    BY <1>1 DEF vars, OpenInv, EndedOpen, Open, OpenAction
  <1>2. ASSUME NEW p \in Process, Run(p) PROVE OpenInv'
    BY <1>0, <1>2, RunKeepsOpen
  <1>3. ASSUME NEW p \in Process, NEW a \in App,
               Crash(p) \/ Republish(p) \/ BeginInstall(p, a) \/ RemoveServices(p, a)
        PROVE  OpenInv'
    <2>1. /\ UNCHANGED <<status, journal, outrun>> /\ ended' \subseteq ended
          /\ pc'[p] \in {"idle", "republishing", "recording", "planning", "forgetting"}
      BY <1>0, <1>3 DEF Crash, Republish, BeginInstall, RemoveServices, Return, Goto
    <2>2. Open(p)'
      BY <2>1 DEF Open, Started, Planned
    <2>3. \A q \in Process : q # p => Untouched(q)
      BY <1>0, <1>3 DEF Crash, Republish, BeginInstall, RemoveServices, Return, Goto,
             Untouched
    <2> QED BY <1>0, <2>1, <2>2, <2>3, OpenKept
  <1>4. ASSUME NEW a \in App, Vanish(a) \/ Reopen(a) \/ LoseDigest(a) PROVE OpenInv'
    BY <1>4 DEF Vanish, Reopen, LoseDigest, OpenInv, EndedOpen, Open, OpenAction
  <1> QED BY <1>1, <1>2, <1>3, <1>4, PublicationAssumption DEF Next

\* "partial" is said only while an action is left unimplemented, so that a later
\* publication has something to move the app on: for every set of apps, every plan and
\* any number of processes publishing at once, if no app has two drivers.  The one way
\* to say it over a finished plan is a publication that completes the app's route after
\* the app's own run counted it and before that run ends.
THEOREM PartialIsOpenAlways ==
    ASSUME OneDriver
    PROVE  Spec => []PartialIsOpen
  <1> DEFINE Both == CompleteInv /\ OpenInv
  <1>1. Init => Both
    BY CompleteInit, OpenInit
  <1>2. Both /\ [Next]_vars => Both'
    BY CompleteStep, OpenStep
  <1>3. Both => PartialIsOpen
    BY DEF OpenInv, EndedOpen, OpenAction, PartialIsOpen, Quiet
  <1> QED BY <1>1, <1>2, <1>3, PTL DEF Spec
=============================================================================
