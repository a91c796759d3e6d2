--------------------------- MODULE UpgradeProofs ---------------------------
(***************************************************************************)
(* What is proved of upgrades and updates for every number of versions and *)
(* images, whatever dies and whatever Swarm rolls back.                    *)
(***************************************************************************)
EXTENDS Upgrade, Integers, TLAPS

\* What Swarm is given is a manifest, and so is what it goes back to.
LEMMA PushType ==
    ASSUME TypeOK, NEW m \in Manifest, Push(m)
    PROVE  /\ service' \in Manifest /\ previous' \in Manifest /\ task' \in Manifest
           /\ rollout' \in {"none", "updating", "completed", "rolledback", "paused"}
  BY DEF TypeOK, Push

\* A process at rest is in its type.
LEMMA IdleType ==
    /\ UpgradeIdle \in UpgradeState
    /\ UpdateIdle \in UpdateState
    /\ ReconcileIdle \in ReconcileState
  <1>1. Fresh \in Manifest
    BY UpgradeAssumption DEF Fresh, Manifest
  <1>2. 1 \in 1 .. MaxImage
    BY UpgradeAssumption
  <1> QED BY <1>1, <1>2 DEF UpgradeIdle, UpdateIdle, ReconcileIdle, UpgradeState,
                            UpdateState, ReconcileState

\* The app as it was installed, running or partial, is well typed.
LEMMA TypeInit == Init => TypeOK
  <1>1. Fresh \in Manifest /\ 1 \in 1 .. MaxSpec /\ 1 \in 1 .. MaxImage
    BY UpgradeAssumption DEF Fresh, Manifest
  <1> QED BY <1>1, IdleType DEF Init, TypeOK

\* What a mark does: the row takes what the action came to and the run goes on or fails,
\* or the row stays pending and the run is over.
LEMMA MarkIs ==
    ASSUME TypeOK, NEW i \in Row, Mark(i)
    PROVE  \E l \in {"failing", "running", "settling"}, b \in BOOLEAN :
              /\ u' = [u EXCEPT !.pc = l, !.unimpl = b]
              /\ l = "failing" <=> u.res = "failed" /\ l # "settling"
              /\ u.unimpl => b
              /\ l # "settling" => /\ u.res = "unimplemented" => b
                                   /\ journal' = [journal EXCEPT ![i] = u.res]
                                   /\ disturbed' = disturbed
              /\ l = "settling" =>
                    /\ journal' = journal
                    /\ disturbed' = disturbed \cup
                          (IF i = Deploy /\ u.res = "done" THEN {"unheard"} ELSE {})
  <1>0. u \in UpgradeState /\ u.unimpl \in BOOLEAN
    BY DEF TypeOK, UpgradeState
  <1>1. CASE journal' = journal /\ u' = [u EXCEPT !.pc = "settling"]
             /\ disturbed' = disturbed \cup
                   (IF i = Deploy /\ u.res = "done" THEN {"unheard"} ELSE {})
    <2>1. u' = [u EXCEPT !.pc = "settling", !.unimpl = u.unimpl]
      BY <1>0, <1>1 DEF UpgradeState
    <2> QED BY <1>0, <1>1, <2>1
  <1>2. CASE /\ journal' = [journal EXCEPT ![i] = u.res]
             /\ u' = [u EXCEPT !.pc = IF u.res = "failed" THEN "failing" ELSE "running",
                               !.unimpl = @ \/ u.res = "unimplemented"]
             /\ disturbed' = disturbed
    <2> DEFINE l == IF u.res = "failed" THEN "failing" ELSE "running"
               b == u.unimpl \/ u.res = "unimplemented"
    <2>1. u' = [u EXCEPT !.pc = l, !.unimpl = b]
      BY <1>2
    <2>2. l \in {"failing", "running"} /\ b \in BOOLEAN /\ (l = "failing" <=> u.res = "failed")
      OBVIOUS
    <2>3. (u.unimpl => b) /\ (u.res = "unimplemented" => b)
      OBVIOUS
    <2> HIDE DEF l, b
    <2>4. l # "settling"
      BY <2>2
    <2> QED BY <1>2, <2>1, <2>2, <2>3, <2>4
  <1> QED BY <1>1, <1>2 DEF Mark

\* What an execution does: it leaves Swarm alone, or gives it the plan's specification,
\* and then either the deployment is done or its answer was lost.
LEMMA ExecuteIs ==
    ASSUME TypeOK, NEW i \in Row, Execute(i)
    PROVE  \/ UNCHANGED <<swarm, disturbed>> /\ (i = Deploy => u'.res = "failed")
           \/ /\ i = Deploy /\ previous' = service /\ service'.spec = u.plan.spec
              /\ u'.res = "done" \/ ~Heard'
  <1>1. u \in UpgradeState
    BY DEF TypeOK
  <1>2. \A res : u' = [u EXCEPT !.pc = "marking", !.res = res] => u'.res = res
    BY <1>1 DEF UpgradeState
  <1>3. CASE UNCHANGED <<swarm, disturbed>> /\ i # Deploy
    BY <1>3
  <1>4. CASE UNCHANGED <<swarm, disturbed>> /\ u' = [u EXCEPT !.pc = "marking", !.res = "failed"]
    BY <1>2, <1>4
  <1>5. CASE /\ i = Deploy
             /\ \E image \in Resolved : Push([spec |-> u.plan.spec, image |-> image])
             /\ \E res \in {"done", "failed"} :
                   /\ u' = [u EXCEPT !.pc = "marking", !.res = res]
                   /\ disturbed' = disturbed \cup (IF res = "failed" THEN {"unheard"} ELSE {})
    <2>1. previous' = service /\ service'.spec = u.plan.spec
      BY <1>5 DEF Push
    <2>2. u'.res = "done" \/ ~Heard'
      BY <1>2, <1>5 DEF Heard
    <2> QED BY <1>5, <2>1, <2>2
  <1> QED BY <1>3, <1>4, <1>5 DEF Execute, Deploy, Wait

\* Every step of the upgrade keeps every variable in its type.
LEMMA UpgradingType ==
    ASSUME TypeOK, ReadUpgrade \/ Upgrading
    PROVE  TypeOK'
  <1>1. ASSUME ReadUpgrade PROVE TypeOK'
    <2>1. NextManifest \in Manifest
      BY DEF NextManifest, Manifest, TypeOK
    <2>2. u' \in UpgradeState
      BY <1>1, <2>1, IdleType DEF ReadUpgrade, TypeOK, UpgradeState
    <2> QED BY <1>1, <2>2 DEF ReadUpgrade, TypeOK, world, releases, state, swarm
  <1>2. ASSUME ReadStatus PROVE TypeOK'
    <2>1. u' \in UpgradeState
      BY <1>2 DEF ReadStatus, TypeOK, UpgradeState
    <2> QED BY <1>2, <2>1 DEF ReadStatus, TypeOK, world, releases, state, swarm
  <1>3. ASSUME FreezeNext PROVE TypeOK'
    <2>1. u' \in UpgradeState /\ u.plan \in Manifest
      BY <1>3 DEF FreezeNext, TypeOK, UpgradeState
    <2> QED BY <1>3, <2>1 DEF FreezeNext, TypeOK, world, releases, swarm
  <1>4. ASSUME ResetPlan \/ RecordPlan PROVE TypeOK'
    <2>1. u' \in UpgradeState
      BY <1>4 DEF ResetPlan, RecordPlan, TypeOK, UpgradeState
    <2> QED BY <1>4, <2>1 DEF ResetPlan, RecordPlan, TypeOK, world, releases, swarm
  <1>5. ASSUME NEW i \in Row, Execute(i) PROVE TypeOK'
    <2>1. \A image \in Resolved : [spec |-> u.plan.spec, image |-> image] \in Manifest
      BY DEF Resolved, Manifest, TypeOK, UpgradeState
    <2>2. /\ service' \in Manifest /\ previous' \in Manifest /\ task' \in Manifest
          /\ rollout' \in {"none", "updating", "completed", "rolledback", "paused"}
      <3>1. CASE UNCHANGED swarm
        BY <3>1 DEF TypeOK, swarm
      <3>2. CASE \E image \in Resolved : Push([spec |-> u.plan.spec, image |-> image])
        BY <2>1, <3>2, PushType
      <3> QED BY <1>5, <3>1, <3>2 DEF Execute
    <2>3. u' \in UpgradeState
      <3>1. PICK res \in {"done", "unimplemented", "failed"} :
                u' = [u EXCEPT !.pc = "marking", !.res = res]
        BY <1>5 DEF Execute
      <3> QED BY <3>1 DEF TypeOK, UpgradeState
    <2>4. UNCHANGED <<releases, missing, state, d, r>>
      BY <1>5 DEF Execute
    <2>5. disturbed' \subseteq disturbed \cup {"unheard"}
      BY <1>5 DEF Execute
    <2> QED BY <2>2, <2>3, <2>4, <2>5 DEF TypeOK, releases, state
  <1>6. ASSUME NEW i \in Row, Mark(i) PROVE TypeOK'
    <2>1. journal' \in [Row -> {"absent", "pending", "done", "unimplemented", "failed"}]
      BY <1>6 DEF Mark, TypeOK, UpgradeState
    <2>2. PICK l \in {"failing", "running", "settling"}, b \in BOOLEAN :
              u' = [u EXCEPT !.pc = l, !.unimpl = b]
      BY <1>6, MarkIs
    <2>3. u' \in UpgradeState
      BY <2>2 DEF TypeOK, UpgradeState
    <2>4. disturbed' \subseteq disturbed \cup {"unheard"} /\ missing' \in BOOLEAN
      BY <1>6 DEF Mark, Provisioned, TypeOK
    <2> QED BY <1>6, <2>1, <2>3, <2>4 DEF Mark, TypeOK, releases, swarm
  <1>7. ASSUME EndRun PROVE TypeOK'
    <2>1. u' \in UpgradeState
      BY <1>7 DEF EndRun, TypeOK, UpgradeState
    <2>2. disturbed' \subseteq disturbed \cup {"unsaid"}
      BY <1>7 DEF EndRun
    <2> QED BY <1>7, <2>1, <2>2 DEF EndRun, FinalStatus, TypeOK, releases, swarm
  <1>8. ASSUME Settle PROVE TypeOK'
    <2>1. u' \in UpgradeState /\ u.kept \in Manifest
      BY <1>8, IdleType DEF Settle, TypeOK, UpgradeState
    <2>2. disturbed' \subseteq disturbed \cup {"unrun"}
      BY <1>8 DEF Settle
    <2> QED BY <1>8, <2>1, <2>2 DEF Settle, TypeOK, releases, swarm
  <1>9. ASSUME RestoreStatus PROVE TypeOK'
    <2>1. u.was \in {"running", "partial", "failed", "installing"}
      BY DEF TypeOK, UpgradeState
    <2> QED BY <1>9, <2>1, IdleType
            DEF RestoreStatus, StatusRestored, TypeOK, world, releases, swarm
  <1> QED BY <1>1, <1>2, <1>3, <1>4, <1>5, <1>6, <1>7, <1>8, <1>9 DEF Upgrading

\* Every step of the update keeps every variable in its type.
LEMMA UpdatingType ==
    ASSUME TypeOK, ReadUpdate \/ Updating
    PROVE  TypeOK'
  <1>1. ASSUME ReadUpdate PROVE TypeOK'
    <2>1. d' \in UpdateState
      BY <1>1, IdleType DEF ReadUpdate, TypeOK, UpdateState
    <2> QED BY <1>1, <2>1 DEF ReadUpdate, TypeOK, world, releases, state, swarm
  <1>2. ASSUME PushImage PROVE TypeOK'
    <2>1. [service EXCEPT !.image = d.to] \in Manifest
      BY DEF Manifest, TypeOK, UpdateState
    <2>2. d' \in UpdateState
      BY <1>2, IdleType DEF PushImage, TypeOK, UpdateState
    <2>3. /\ service' \in Manifest /\ previous' \in Manifest /\ task' \in Manifest
          /\ rollout' \in {"none", "updating", "completed", "rolledback", "paused"}
      BY <1>2, <2>1, PushType DEF PushImage, TypeOK, swarm
    <2> QED BY <1>2, <2>2, <2>3 DEF PushImage, TypeOK, world, releases, state
  <1>3. ASSUME Watch \/ TimeOut PROVE TypeOK'
    <2>1. d' \in {UpdateIdle, d, [d EXCEPT !.pc = "reading"]}
      BY <1>3 DEF Watch, TimeOut
    <2>2. d' \in UpdateState
      BY <2>1, IdleType DEF TypeOK, UpdateState
    <2>3. UNCHANGED <<world, state, swarm, u, r>>
      BY <1>3 DEF Watch, TimeOut
    <2> QED BY <2>2, <2>3 DEF TypeOK, world, releases, state, swarm
  <1>4. ASSUME ReadManifest PROVE TypeOK'
    <2>1. [frozen EXCEPT !.image = d.to] \in Manifest
      BY DEF Manifest, TypeOK, UpdateState
    <2>2. d' \in UpdateState
      BY <1>4, <2>1 DEF ReadManifest, TypeOK, UpdateState
    <2> QED BY <1>4, <2>2 DEF ReadManifest, TypeOK, world, releases, state, swarm
  <1>5. ASSUME FreezeImage PROVE TypeOK'
    <2>1. d' \in UpdateState /\ d.m \in Manifest
      BY <1>5 DEF FreezeImage, TypeOK, UpdateState
    <2> QED BY <1>5, <2>1 DEF FreezeImage, TypeOK, world, releases, swarm
  <1>6. ASSUME JudgeStatus PROVE TypeOK'
    <2>1. d' \in {UpdateIdle, [d EXCEPT !.pc = "ending", !.st = StatusAfterUpdate]}
      BY <1>6 DEF JudgeStatus
    <2>2. StatusAfterUpdate \in {"running", "partial"}
      BY DEF StatusAfterUpdate
    <2>3. d' \in UpdateState
      BY <2>1, <2>2, IdleType DEF TypeOK, UpdateState
    <2> QED BY <1>6, <2>3 DEF JudgeStatus, TypeOK, world, releases, state, swarm
  <1>7. ASSUME SetStatus PROVE TypeOK'
    <2>1. d.st \in {"running", "partial"}
      BY DEF TypeOK, UpdateState
    <2> QED BY <1>7, <2>1, IdleType DEF SetStatus, TypeOK, world, releases, swarm
  <1> QED BY <1>1, <1>2, <1>3, <1>4, <1>5, <1>6, <1>7 DEF Updating

\* Every step of the upgrade, the update, reconciliation, Swarm and the catalog
\* keeps every variable in its type.
LEMMA TypeStep == TypeOK /\ [Next]_vars => TypeOK'
  <1> SUFFICES ASSUME TypeOK, [Next]_vars PROVE TypeOK'
    OBVIOUS
  <1>1. CASE UNCHANGED vars
    BY <1>1 DEF vars, TypeOK
  <1>2. CASE ReadUpgrade \/ Upgrading
    BY <1>2, UpgradingType
  <1>3. CASE ReadUpdate \/ Updating
    BY <1>3, UpdatingType
  <1>4. CASE Observe \/ Detect
    <2>1. r' \in ReconcileState
      BY <1>4, IdleType DEF Observe, Detect, Manifest, TypeOK, ReconcileState
    <2> QED BY <1>4, <2>1 DEF Observe, Detect, TypeOK, world, releases, state, swarm
  <1>5. CASE CorrectImage
    <2>1. [service EXCEPT !.image = r.image] \in Manifest
      BY DEF Manifest, TypeOK, ReconcileState
    <2> QED BY <1>5, <2>1, PushType, IdleType DEF CorrectImage, TypeOK, world, releases, state
  <1>6. CASE Succeed \/ RollBack
    BY <1>6 DEF Succeed, RollBack, TypeOK, world, releases, state
  <1>7. CASE Publish
    BY <1>7, UpgradeAssumption DEF Publish, TypeOK, state, swarm
  <1>8. CASE Crash
    BY <1>8, IdleType DEF Crash, TypeOK, world, releases, state, swarm
  <1> QED BY <1>1, <1>2, <1>3, <1>4, <1>5, <1>6, <1>7, <1>8 DEF Next

\* Every variable always holds what the code can put there, for every number of
\* versions and images, with every process at once and any of them dying.
THEOREM UpgradeTypeCorrect == Spec => []TypeOK
  BY TypeInit, TypeStep, PTL DEF Spec

-----------------------------------------------------------------------------
\* What came across an operation is remembered, but that a plan was not gone through:
\* until one is.
LEMMA DisturbedKept == [Next]_vars => disturbed \ {"unrun"} \subseteq disturbed'
  BY DEF Next, vars, ReadUpgrade, Upgrading, ReadStatus, FreezeNext, ResetPlan, RecordPlan,
         Execute, Mark, EndRun, Settle, RestoreStatus, ReadUpdate, Updating, PushImage,
         Watch, TimeOut, ReadManifest, FreezeImage, JudgeStatus, SetStatus, Observe,
         Detect, CorrectImage, Succeed, RollBack, Publish, Crash, world, releases

\* The versions compared are numbers.
LEMMA SpecsAreNumbers ==
    ASSUME TypeOK
    PROVE  /\ catalog \in Int
           /\ frozen.spec \in Int /\ service.spec \in Int /\ previous.spec \in Int
           /\ u.kept.spec \in Int /\ u.plan.spec \in Int /\ d.m.spec \in Int
  BY UpgradeAssumption DEF TypeOK, Manifest, UpgradeState, UpdateState

\* At the start everything is the version installed.
LEMMA SpecInit == Init => SpecInv
  <1> SUFFICES ASSUME Init PROVE SpecInv
    OBVIOUS
  <1>1. TypeOK
    BY TypeInit
  <1> QED BY <1>1 DEF Init, SpecInv, Exclusive, ReadIsFrozen, Ordered, Frozen,
          PlannedFromFrozen, FrozenIsPlan, KeptNotBehind, Fresh, UpgradeIdle, UpdateIdle

\* Only one row is next.
LEMMA OneNextRow ==
    ASSUME NEW i \in Row, NEW j \in Row, NextRow(i), NextRow(j)
    PROVE  i = j
  BY DEF NextRow, Row

\* A step that changes neither the state nor the upgrade, and gives Swarm no
\* newer specification, is judged by the update alone.
LEMMA SpecsKept ==
    ASSUME SpecInv, TypeOK', UNCHANGED <<frozen, journal, u>>, catalog' >= catalog,
           Heard' => Heard,
           service'.spec \in {service.spec, previous.spec},
           previous'.spec \in {service.spec, previous.spec},
           Exclusive', ReadIsFrozen'
    PROVE  SpecInv'
  <1>1. catalog' \in Int /\ catalog \in Int /\ TypeOK
    BY SpecsAreNumbers, UpgradeAssumption DEF SpecInv, TypeOK
  <1>2. Ordered' /\ PlannedFromFrozen'
    BY <1>1, SpecsAreNumbers DEF SpecInv, Ordered, PlannedFromFrozen
  <1>3. FrozenIsPlan' /\ KeptNotBehind'
    BY DEF SpecInv, FrozenIsPlan, KeptNotBehind, NotPushed, NextRow
  <1> QED BY <1>2, <1>3 DEF SpecInv

\* Every step of an upgrade keeps the state ahead of what Swarm was given.
LEMMA UpgradingSpec ==
    ASSUME OneAtATime, SpecInv, TypeOK', ReadUpgrade \/ Upgrading
    PROVE  SpecInv'
  <1>1. TypeOK
    BY DEF SpecInv
  <1>0. Heard' => Heard
    BY DisturbedKept DEF Heard, Next
  <1>2. ASSUME ReadUpgrade PROVE SpecInv'
    <2>1. d.pc = "idle" /\ d' = d
      BY <1>2 DEF ReadUpgrade, OneAtATime, SpecInv, Exclusive
    <2>2. u'.pc = "planned" /\ u'.kept = frozen /\ u'.plan = NextManifest
      BY <1>2 DEF ReadUpgrade, UpgradeIdle
    <2>3. NextManifest.spec = catalog
      BY <1>1 DEF NextManifest, TypeOK, Manifest
    <2>4. UNCHANGED <<catalog, frozen, journal, service, previous>>
      BY <1>2 DEF ReadUpgrade, world, releases, state, swarm
    <2> QED BY <1>0, <1>1, <2>1, <2>2, <2>3, <2>4, SpecsAreNumbers
            DEF SpecInv, Exclusive, ReadIsFrozen, Ordered, PlannedFromFrozen, Frozen,
                FrozenIsPlan, KeptNotBehind
  <1>3. ASSUME u.pc # "idle", UNCHANGED d PROVE Exclusive' /\ ReadIsFrozen'
    BY <1>3 DEF SpecInv, Exclusive, ReadIsFrozen
  <1>4. ASSUME ReadStatus PROVE SpecInv'
    <2>1. /\ u.pc = "planned" /\ u'.pc = "freezing"
          /\ u'.kept = u.kept /\ u'.plan = u.plan
      BY <1>1, <1>4 DEF ReadStatus, TypeOK, UpgradeState
    <2>2. UNCHANGED <<catalog, frozen, journal, service, previous, d>>
      BY <1>4 DEF ReadStatus, world, releases, state, swarm
    <2> QED BY <1>0, <1>3, <2>1, <2>2
            DEF SpecInv, Ordered, PlannedFromFrozen, Frozen, FrozenIsPlan, KeptNotBehind
  <1>5. ASSUME FreezeNext PROVE SpecInv'
    <2>1. /\ u.pc = "freezing" /\ u'.pc = "resetting"
          /\ u'.kept = u.kept /\ u'.plan = u.plan /\ frozen' = u.plan
      BY <1>1, <1>5 DEF FreezeNext, TypeOK, UpgradeState
    <2>2. UNCHANGED <<catalog, journal, service, previous, d>>
      BY <1>5 DEF FreezeNext, world, releases, swarm
    <2> QED BY <1>0, <1>1, <1>3, <2>1, <2>2, SpecsAreNumbers
            DEF SpecInv, Ordered, PlannedFromFrozen, Frozen, FrozenIsPlan, KeptNotBehind
  <1>6. ASSUME UNCHANGED <<catalog, frozen, service, previous, d, u.kept, u.plan>>,
               u.pc \in Frozen, u'.pc \in Frozen, Heard' /\ NotPushed' => NotPushed
        PROVE  SpecInv'
    BY <1>0, <1>3, <1>6 DEF SpecInv, Ordered, PlannedFromFrozen, Frozen, FrozenIsPlan,
                      KeptNotBehind
  <1>7. ASSUME ResetPlan \/ RecordPlan PROVE SpecInv'
    <2>1. /\ u.pc \in {"resetting", "recording"}
          /\ u'.pc \in {"recording", "running", "settling"}
          /\ u'.kept = u.kept /\ u'.plan = u.plan
      BY <1>1, <1>7 DEF ResetPlan, RecordPlan, TypeOK, UpgradeState
    <2>2. UNCHANGED <<catalog, frozen, service, previous, d>>
      BY <1>7 DEF ResetPlan, RecordPlan, world, releases, swarm
    <2> QED BY <1>6, <2>1, <2>2 DEF Frozen, NotPushed
  <1>8. ASSUME NEW i \in Row, Execute(i) PROVE SpecInv'
    <2>1. /\ u.pc = "running" /\ u'.pc = "marking"
          /\ u'.kept = u.kept /\ u'.plan = u.plan
          /\ NextRow(i)
      BY <1>1, <1>8, ZenonT(40) DEF Execute, TypeOK, UpgradeState
    <2>2. UNCHANGED <<catalog, frozen, journal, d>>
      BY <1>8 DEF Execute, releases, state
    <2>3. journal[Deploy] # "done" => NotPushed
      BY <2>1 DEF NotPushed
    <2>4. ASSUME UNCHANGED swarm PROVE SpecInv'
      BY <1>6, <2>1, <2>2, <2>3, <2>4 DEF Frozen, NotPushed, swarm
    <2>5. ASSUME i = Deploy, u'.res = "done" \/ ~Heard', previous' = service,
                 service'.spec = u.plan.spec
          PROVE  SpecInv'
      <3>1. ~(Heard' /\ NotPushed')
        BY <2>1, <2>2, <2>5 DEF NotPushed, NextRow
      <3>2. u.plan.spec = frozen.spec /\ service'.spec = frozen.spec
        BY <2>1, <2>5 DEF SpecInv, FrozenIsPlan, Frozen
      <3> QED BY <1>0, <1>1, <1>3, <2>1, <2>2, <2>5, <3>1, <3>2, SpecsAreNumbers
              DEF SpecInv, Ordered, PlannedFromFrozen, Frozen, FrozenIsPlan, KeptNotBehind
    <2> QED BY <1>1, <1>8, <2>4, <2>5, ExecuteIs
  <1>9. ASSUME NEW i \in Row, Mark(i) PROVE SpecInv'
    <2>1. /\ u.pc = "marking" /\ u'.pc \in {"failing", "running", "settling"}
          /\ u'.kept = u.kept /\ u'.plan = u.plan
          /\ NextRow(i)
          /\ \/ journal' = [journal EXCEPT ![i] = u.res]
             \/ journal' = journal /\ (i = Deploy /\ u.res = "done" => ~Heard')
      <3>1. PICK l \in {"failing", "running", "settling"}, b \in BOOLEAN :
                /\ u' = [u EXCEPT !.pc = l, !.unimpl = b]
                /\ l # "settling" => journal' = [journal EXCEPT ![i] = u.res]
                /\ l = "settling" =>
                      /\ journal' = journal
                      /\ disturbed' = disturbed \cup
                            (IF i = Deploy /\ u.res = "done" THEN {"unheard"} ELSE {})
        BY <1>1, <1>9, MarkIs
      <3>2. u'.pc = l /\ u'.kept = u.kept /\ u'.plan = u.plan
        BY <1>1, <3>1 DEF TypeOK, UpgradeState
      <3>3. u.pc = "marking" /\ NextRow(i)
        BY <1>9 DEF Mark
      <3> QED BY <3>1, <3>2, <3>3 DEF Heard
    <2>2. UNCHANGED <<catalog, frozen, service, previous, d>>
      BY <1>9 DEF Mark, releases, swarm
    <2>3. Heard' /\ NotPushed' => NotPushed
      <3> SUFFICES ASSUME Heard', NotPushed' PROVE NotPushed
        OBVIOUS
      <3>1. journal'[Deploy] # "done"
        BY <2>1 DEF NotPushed
      <3>2. CASE i = Deploy
        <4>1. journal[Deploy] = "pending" /\ u.res # "done"
          BY <1>1, <2>1, <3>1, <3>2 DEF NextRow, TypeOK, Row, Deploy
        <4> QED BY <4>1 DEF NotPushed
      <3>3. CASE i # Deploy
        <4>1. journal[Deploy] # "done"
          <5>1. journal'[Deploy] = journal[Deploy]
            BY <1>1, <2>1, <3>3 DEF TypeOK, Row, Deploy
          <5> QED BY <3>1, <5>1
        <4>2. ~NextRow(Deploy)
          BY <2>1, <3>3, OneNextRow DEF Row, Deploy
        <4> QED BY <4>1, <4>2 DEF NotPushed
      <3> QED BY <3>2, <3>3
    <2> QED BY <1>6, <2>1, <2>2, <2>3 DEF Frozen
  <1>10. ASSUME EndRun PROVE SpecInv'
    <2>1. /\ u.pc \in {"failing", "running"} /\ u'.pc = "settling"
          /\ u'.kept = u.kept /\ u'.plan = u.plan
      BY <1>1, <1>10 DEF EndRun, TypeOK, UpgradeState
    <2>2. UNCHANGED <<catalog, frozen, journal, service, previous, d>>
      BY <1>10 DEF EndRun, releases, swarm
    <2> QED BY <1>6, <2>1, <2>2 DEF Frozen, NotPushed
  <1>11. ASSUME Settle PROVE SpecInv'
    <2>1. /\ u.pc = "settling" /\ u'.pc \in {"idle", "restoring"}
          /\ frozen' = frozen \/ (frozen' = u.kept /\ journal[Deploy] # "done")
      BY <1>1, <1>11 DEF Settle, Redeployed, UpgradeIdle, TypeOK, UpgradeState
    <2>2. UNCHANGED <<catalog, service, previous, d>>
      BY <1>11 DEF Settle, releases, swarm
    <2>3. /\ u.kept.spec <= frozen.spec
          /\ Heard /\ journal[Deploy] # "done" =>
                u.kept.spec >= service.spec /\ u.kept.spec >= previous.spec
      BY <2>1 DEF SpecInv, FrozenIsPlan, KeptNotBehind, Frozen, NotPushed
    <2>4. Ordered'
      BY <1>0, <1>1, <2>1, <2>2, <2>3, SpecsAreNumbers DEF SpecInv, Ordered
    <2> QED BY <1>3, <2>1, <2>2, <2>4
            DEF SpecInv, PlannedFromFrozen, Frozen, FrozenIsPlan, KeptNotBehind
  <1>12. ASSUME RestoreStatus PROVE SpecInv'
    <2>1. u.pc = "restoring" /\ u'.pc = "idle"
      BY <1>12 DEF RestoreStatus, UpgradeIdle
    <2>2. UNCHANGED <<catalog, frozen, journal, service, previous, d>>
      BY <1>12 DEF RestoreStatus, world, releases, swarm
    <2> QED BY <1>0, <1>3, <2>1, <2>2
            DEF SpecInv, Ordered, PlannedFromFrozen, Frozen, FrozenIsPlan, KeptNotBehind
  <1> QED BY <1>2, <1>4, <1>5, <1>7, <1>8, <1>9, <1>10, <1>11, <1>12 DEF Upgrading

\* Every step of an update leaves the specifications where they were.
LEMMA UpdatingSpec ==
    ASSUME OneAtATime, SpecInv, TypeOK', ReadUpdate \/ Updating
    PROVE  SpecInv'
  <1>1. TypeOK
    BY DEF SpecInv
  <1>0. Heard' => Heard
    BY DisturbedKept DEF Heard, Next
  <1>2. catalog' = catalog /\ UNCHANGED <<journal, u>>
    BY DEF ReadUpdate, Updating, PushImage, Watch, TimeOut, ReadManifest, FreezeImage,
           JudgeStatus, SetStatus, world, releases, state
  <1>3. u.pc = "idle" /\ Updates
    BY DEF SpecInv, Exclusive, OneAtATime, ReadUpdate, Updating, PushImage, Watch,
           TimeOut, ReadManifest, FreezeImage, JudgeStatus, SetStatus
  <1>4. CASE FreezeImage
    <2>1. frozen'.spec = frozen.spec /\ d'.pc = "judging"
      BY <1>1, <1>4 DEF FreezeImage, SpecInv, ReadIsFrozen, TypeOK, UpdateState
    <2>2. UNCHANGED <<service, previous>>
      BY <1>4 DEF FreezeImage, swarm
    <2> QED BY <1>0, <1>2, <1>3, <2>1, <2>2
            DEF SpecInv, Exclusive, ReadIsFrozen, Ordered, PlannedFromFrozen, Frozen,
                FrozenIsPlan, KeptNotBehind
  <1>5. CASE ~FreezeImage
    <2>1. frozen' = frozen
      BY <1>5 DEF ReadUpdate, Updating, PushImage, Watch, TimeOut, ReadManifest,
                  JudgeStatus, SetStatus, state
    <2>2. service'.spec = service.spec /\ previous'.spec \in {service.spec, previous.spec}
      BY <1>1, <1>5 DEF ReadUpdate, Updating, PushImage, Push, Watch, TimeOut,
                        ReadManifest, JudgeStatus, SetStatus, swarm, TypeOK, Manifest
    <2>3. ReadIsFrozen'
      <3>1. CASE ReadManifest
        BY <1>1, <2>1, <3>1 DEF ReadManifest, ReadIsFrozen, TypeOK, Manifest, UpdateState
      <3>2. CASE ~ReadManifest
        <4>0. d \in UpdateState
          BY <1>1 DEF TypeOK
        <4>1. d'.pc # "writing"
          <5>1. CASE ReadUpdate \/ PushImage \/ SetStatus
            <6>1. CASE ReadUpdate
              BY <6>1 DEF ReadUpdate, UpdateIdle
            <6>2. CASE PushImage
              BY <4>0, <6>2 DEF PushImage, UpdateState, UpdateIdle
            <6>3. CASE SetStatus
              BY <6>3 DEF SetStatus, UpdateIdle
            <6> QED BY <5>1, <6>1, <6>2, <6>3
          <5>2. CASE Watch \/ TimeOut
            <6>1. \/ d' \in {UpdateIdle, [d EXCEPT !.pc = "reading"]}
                  \/ d' = d /\ d.pc = "watching"
              BY <5>2 DEF Watch, TimeOut
            <6> QED BY <1>1, <6>1 DEF UpdateIdle, TypeOK, UpdateState
          <5>3. CASE JudgeStatus
            <6>1. CASE d' = UpdateIdle
              BY <6>1 DEF UpdateIdle
            <6>2. CASE d' = [d EXCEPT !.pc = "ending", !.st = StatusAfterUpdate]
              BY <4>0, <6>2 DEF UpdateState
            <6> QED BY <5>3, <6>1, <6>2 DEF JudgeStatus
          <5> QED BY <1>5, <3>2, <5>1, <5>2, <5>3 DEF Updating
        <4> QED BY <4>1 DEF ReadIsFrozen
      <3> QED BY <3>1, <3>2
    <2> QED BY <1>0, <1>1, <1>2, <1>3, <2>1, <2>2, <2>3, SpecsKept, SpecsAreNumbers
            DEF Exclusive
  <1> QED BY <1>4, <1>5

\* Every step of every process, Swarm rolling back and a death included, keeps
\* the argument.
LEMMA SpecStep == OneAtATime /\ SpecInv /\ [Next]_vars => SpecInv'
  <1> SUFFICES ASSUME OneAtATime, SpecInv, [Next]_vars PROVE SpecInv'
    OBVIOUS
  <1>1. TypeOK /\ TypeOK'
    BY TypeStep DEF SpecInv
  <1>0. Heard' => Heard
    BY DisturbedKept DEF Heard
  <1>2. CASE ReadUpgrade \/ Upgrading
    BY <1>1, <1>2, UpgradingSpec
  <1>3. CASE ReadUpdate \/ Updating
    BY <1>1, <1>3, UpdatingSpec
  <1>4. ASSUME UNCHANGED <<frozen, journal, u, d>>, catalog' >= catalog,
               service'.spec \in {service.spec, previous.spec},
               previous'.spec \in {service.spec, previous.spec}
        PROVE  SpecInv'
    <2>1. Exclusive' /\ ReadIsFrozen'
      BY <1>4 DEF SpecInv, Exclusive, ReadIsFrozen
    <2> QED BY <1>0, <1>1, <1>4, <2>1, SpecsKept
  <1>5. CASE UNCHANGED vars
    BY <1>1, <1>4, <1>5, SpecsAreNumbers DEF vars
  <1>6. CASE Observe \/ Detect \/ Succeed \/ Publish
    BY <1>1, <1>4, <1>6, SpecsAreNumbers
       DEF Observe, Detect, Succeed, Publish, world, releases, state, swarm
  <1>7. CASE CorrectImage
    BY <1>1, <1>4, <1>7, SpecsAreNumbers
       DEF CorrectImage, Push, world, releases, state, TypeOK, Manifest
  <1>8. CASE RollBack
    BY <1>1, <1>4, <1>8, SpecsAreNumbers DEF RollBack, world, releases, state
  <1>9. CASE Crash
    <2>1. /\ u' = u \/ u'.pc = "idle"
          /\ d' = d \/ d'.pc = "idle"
      BY <1>9 DEF Crash, UpgradeIdle, UpdateIdle
    <2>2. UNCHANGED <<catalog, frozen, journal, service, previous>>
      BY <1>9 DEF Crash, world, releases, state, swarm
    <2>3. Exclusive' /\ ReadIsFrozen' /\ Ordered'
      BY <1>0, <2>1, <2>2 DEF SpecInv, Exclusive, ReadIsFrozen, Ordered
    <2>4. CASE u' = u
      BY <1>0, <1>1, <2>2, <2>3, <2>4, SpecsKept, SpecsAreNumbers
    <2>5. CASE u'.pc = "idle"
      BY <1>1, <2>3, <2>5
         DEF SpecInv, PlannedFromFrozen, Frozen, FrozenIsPlan, KeptNotBehind
    <2> QED BY <2>1, <2>4, <2>5
  <1> QED BY <1>2, <1>3, <1>5, <1>6, <1>7, <1>8, <1>9 DEF Next

\* The state is never behind Swarm.  If upgrades and updates of the app exclude
\* each other, no service is ever given, or rolled back to, a specification newer
\* than the frozen one, wherever the upgrade stops, fails or dies: the manifest is
\* frozen before the deployment, and settle() puts the old one back only when no
\* deployment was recorded done - which lies only of one Swarm took while its answer,
\* or its row, was lost.
THEOREM StateNeverBehind ==
    ASSUME OneAtATime
    PROVE  Spec => []StateNotBehind
  <1>1. SpecInv => StateNotBehind
    BY DEF SpecInv, Ordered, StateNotBehind
  <1>2. SpecInv /\ [Next]_vars => SpecInv'
    BY SpecStep
  <1> QED BY SpecInit, <1>1, <1>2, PTL DEF Spec

-----------------------------------------------------------------------------
(* What the status says of the plan.                                         *)

\* A failed run is told by the journal, and its status lasts until it is put back; the one
\* put back was not a failure.
FailureTold ==
    "died" \notin disturbed =>
        /\ u.was # "failed"
        /\ u.pc = "failing" => Interrupted
        /\ status = "failed" => \/ u.pc = "settling" /\ Interrupted
                                \/ u.pc = "restoring"

\* What the first row says of the provisioning: done only if nothing is missing, and what
\* the run left unimplemented it remembers.
Provision == 1
ProvisionTold ==
    /\ journal[Provision] = "done" => ~missing
    /\ u.pc \in {"running", "marking"} /\ journal[Provision] = "unimplemented" => u.unimpl

\* A run that stops short says so in a row, or is remembered; a run gone through, and an
\* update that judged, say "running" of nothing that misses something.
Unsaid == disturbed \cap {"died", "unsaid"} # {}
PartialTold ==
    ~Unsaid =>
        /\ u.pc = "failing" => Interrupted
        /\ u.pc = "settling" /\ ~Open /\ missing => status # "running"
        /\ u.pc = "restoring" => Interrupted \/ "unrun" \in disturbed
        /\ u.pc = "idle" /\ ~Interrupted /\ "unrun" \notin disturbed /\ missing =>
              status # "running" /\ journal[Provision] = "unimplemented"
        /\ d.pc = "ending" /\ d.st = "running" /\ "unrun" \notin disturbed => ~missing

\* A deployment ends done or failed.
Deployable ==
    /\ u.pc = "recording" => \A i \in Row : journal[i] = "absent"
    /\ u.pc \in {"running", "marking", "failing", "settling"} =>
          journal[Deploy] # "unimplemented"
    /\ u.pc = "marking" /\ NextRow(Deploy) => u.res # "unimplemented"

\* The service has the specification an upgrade would put back until it is given the new
\* one, and the frozen one otherwise.
Level ==
    disturbed \subseteq {"fought", "unsaid", "unrun"} =>
        service.spec = IF u.pc \in Frozen /\ NotPushed THEN u.kept.spec ELSE frozen.spec

\* What an update saw applied still runs as it is written.
StillApplied ==
    "fought" \notin disturbed /\ d.pc \in {"reading", "writing"} =>
        /\ rollout # "updating"
        /\ task.image = d.to
        /\ d.pc = "writing" => d.m.image = d.to

-----------------------------------------------------------------------------
\* Steps that are not the upgrade's leave it, and its journal, alone.
LEMMA UpgradeAlone ==
    ASSUME [Next]_vars, ~ReadUpgrade, ~Upgrading, ~Crash
    PROVE  /\ UNCHANGED <<journal, u, missing>> /\ (UNCHANGED status \/ SetStatus)
           /\ disturbed \ disturbed' = {} /\ disturbed' \ disturbed \subseteq {"fought", "rolledback"}
  BY DEF Next, vars, ReadUpdate, Updating, PushImage, Watch, TimeOut, ReadManifest,
         FreezeImage, JudgeStatus, SetStatus, Observe, Detect, CorrectImage, Succeed,
         RollBack, Publish, world, releases, state

\* Every step keeps what is told of a failure, whoever else runs.
LEMMA FailureStep == TypeOK /\ FailureTold /\ [Next]_vars => FailureTold'
  <1> SUFFICES ASSUME TypeOK, FailureTold, [Next]_vars, "died" \notin disturbed'
               PROVE  FailureTold'
    BY DEF FailureTold
  <1>0. /\ "died" \notin disturbed /\ u \in UpgradeState
        /\ journal \in [Row -> {"absent", "pending", "done", "unimplemented", "failed"}]
    BY DisturbedKept DEF TypeOK
  <1>1. /\ u.was # "failed"
        /\ u.pc = "failing" => Interrupted
        /\ status = "failed" => \/ u.pc = "settling" /\ Interrupted
                                \/ u.pc = "restoring"
    BY <1>0 DEF FailureTold
  <1>2. CASE ReadUpgrade \/ ReadStatus \/ FreezeNext
    <2>1. u.pc \in {"idle", "planned", "freezing"}
      BY <1>2 DEF ReadUpgrade, ReadStatus, FreezeNext
    <2>2. /\ u'.pc \in {"planned", "freezing", "resetting"}
          /\ u'.was \in {"running", u.was, status}
      BY <1>0, <1>2 DEF ReadUpgrade, ReadStatus, FreezeNext, UpgradeIdle, UpgradeState
    <2>3. UNCHANGED status
      BY <1>2 DEF ReadUpgrade, ReadStatus, FreezeNext, state
    <2> QED BY <1>1, <2>1, <2>2, <2>3 DEF FailureTold
  <1>3. CASE ResetPlan \/ RecordPlan
    <2>1. u.pc \in {"resetting", "recording"}
      BY <1>3 DEF ResetPlan, RecordPlan
    <2>2. u'.pc \in {"recording", "running", "settling"} /\ u'.was = u.was
      BY <1>0, <1>3 DEF ResetPlan, RecordPlan, UpgradeState
    <2>3. status # "failed" /\ status' = status
      BY <1>1, <1>3, <2>1 DEF ResetPlan, RecordPlan
    <2> QED BY <1>1, <2>2, <2>3 DEF FailureTold
  <1>4. ASSUME NEW i \in Row, Execute(i) PROVE FailureTold'
    <2>1. u.pc = "running" /\ UNCHANGED status
      BY <1>4 DEF Execute, state
    <2>2. u'.pc = "marking" /\ u'.was = u.was
      BY <1>0, <1>4 DEF Execute, UpgradeState
    <2> QED BY <1>1, <2>1, <2>2 DEF FailureTold
  <1>5. ASSUME NEW i \in Row, Mark(i) PROVE FailureTold'
    <2>1. u.pc = "marking" /\ UNCHANGED status
      BY <1>5 DEF Mark
    <2>2. PICK l \in {"failing", "running", "settling"}, b \in BOOLEAN :
              /\ u' = [u EXCEPT !.pc = l, !.unimpl = b]
              /\ l = "failing" => u.res = "failed" /\ journal' = [journal EXCEPT ![i] = u.res]
      BY <1>5, MarkIs
    <2>3. u'.pc = l /\ u'.was = u.was
      BY <1>0, <2>2 DEF UpgradeState
    <2>4. l = "failing" => Interrupted'
      BY <1>0, <2>2 DEF Interrupted
    <2> QED BY <1>1, <2>1, <2>2, <2>3, <2>4 DEF FailureTold
  <1>6. CASE EndRun
    <2>1. /\ u.pc \in {"failing", "running"} /\ UNCHANGED journal
          /\ status' = "failed" => u.pc = "failing" \/ status = "failed"
      BY <1>6 DEF EndRun, FinalStatus
    <2>2. u'.pc = "settling" /\ u'.was = u.was
      BY <1>0, <1>6 DEF EndRun, UpgradeState
    <2> QED BY <1>1, <2>1, <2>2 DEF FailureTold, Interrupted
  <1>7. CASE Settle
    <2>1. u.pc = "settling" /\ UNCHANGED <<status, journal>>
      BY <1>7 DEF Settle
    <2>2. CASE Open
      <3>1. u'.pc = "restoring" /\ u'.was = u.was
        BY <1>0, <1>7, <2>2 DEF Settle, UpgradeState
      <3> QED BY <1>1, <3>1 DEF FailureTold
    <2>3. CASE ~Open
      <3>1. u'.pc = "idle" /\ u'.was = "running" /\ ~Interrupted
        BY <1>7, <2>3 DEF Settle, UpgradeIdle, Open, Interrupted
      <3> QED BY <1>1, <2>1, <3>1 DEF FailureTold
    <2> QED BY <2>2, <2>3
  <1>8. CASE RestoreStatus
    BY <1>1, <1>8 DEF RestoreStatus, StatusRestored, UpgradeIdle, FailureTold
  <1>9. CASE ~ReadUpgrade /\ ~Upgrading
    <2>1. ~Crash
      BY DEF Crash
    <2>2. UNCHANGED <<journal, u>> /\ (UNCHANGED status \/ SetStatus)
      BY <1>9, <2>1, UpgradeAlone
    <2>3. status' = "failed" => status = "failed"
      BY <2>2 DEF SetStatus, TypeOK, UpdateState
    <2> QED BY <1>1, <2>2, <2>3 DEF FailureTold, Interrupted
  <1> QED BY <1>2, <1>3, <1>4, <1>5, <1>6, <1>7, <1>8, <1>9 DEF Upgrading

\* An upgrade that returns leaves no app "failed", which has no route: settle() puts the
\* status it had back.  With every process at once, for every number of versions and
\* images, as long as the run itself did not die.
THEOREM RouteAlwaysKept == Spec => []RouteKept
  <1>1. Init => TypeOK /\ FailureTold
    BY TypeInit DEF Init, FailureTold, UpgradeIdle
  <1>2. TypeOK /\ FailureTold /\ [Next]_vars => (TypeOK /\ FailureTold)'
    BY TypeStep, FailureStep
  <1>3. FailureTold => RouteKept
    BY DEF FailureTold, RouteKept, Quiet
  <1> QED BY <1>1, <1>2, <1>3, PTL DEF Spec

-----------------------------------------------------------------------------
\* Every step keeps what the first row says of the provisioning.
LEMMA ProvisionStep == TypeOK /\ Deployable /\ ProvisionTold /\ [Next]_vars => ProvisionTold'
  <1> SUFFICES ASSUME TypeOK, Deployable, ProvisionTold, [Next]_vars PROVE ProvisionTold'
    OBVIOUS
  <1>0. /\ u \in UpgradeState /\ Provision \in Row
        /\ journal \in [Row -> {"absent", "pending", "done", "unimplemented", "failed"}]
    BY DEF TypeOK, Row, Provision
  <1>1. CASE ReadUpgrade \/ ReadStatus \/ FreezeNext \/ Settle \/ RestoreStatus
    <2>1. UNCHANGED <<journal, missing>>
      BY <1>1 DEF ReadUpgrade, ReadStatus, FreezeNext, Settle, RestoreStatus, world, state
    <2>2. u'.pc \notin {"running", "marking"}
      <3>1. CASE ReadUpgrade \/ ReadStatus \/ FreezeNext
        BY <1>0, <3>1 DEF ReadUpgrade, ReadStatus, FreezeNext, UpgradeIdle, UpgradeState
      <3>2. CASE Settle \/ RestoreStatus
        BY <1>0, <3>2 DEF Settle, RestoreStatus, UpgradeIdle, UpgradeState
      <3> QED BY <1>1, <3>1, <3>2
    <2> QED BY <2>1, <2>2 DEF ProvisionTold
  <1>2. CASE ResetPlan \/ RecordPlan
    <2>1. journal'[Provision] \in {"absent", "pending"}
      BY <1>0, <1>2 DEF ResetPlan, RecordPlan, Deployable
    <2> QED BY <2>1 DEF ProvisionTold
  <1>3. ASSUME NEW i \in Row, Execute(i) PROVE ProvisionTold'
    <2>1. u.pc = "running" /\ UNCHANGED <<journal, missing>>
      BY <1>3 DEF Execute, state
    <2>2. u'.unimpl = u.unimpl
      BY <1>0, <1>3 DEF Execute, UpgradeState
    <2> QED BY <2>1, <2>2 DEF ProvisionTold
  <1>4. ASSUME NEW i \in Row, Mark(i) PROVE ProvisionTold'
    <2>1. u.pc = "marking" /\ Provisioned(i) /\ NextRow(i)
      BY <1>4 DEF Mark
    <2>2. PICK l \in {"failing", "running", "settling"}, b \in BOOLEAN :
              /\ u' = [u EXCEPT !.pc = l, !.unimpl = b]
              /\ u.unimpl => b
              /\ l # "settling" => /\ u.res = "unimplemented" => b
                                   /\ journal' = [journal EXCEPT ![i] = u.res]
              /\ l = "settling" => journal' = journal
      BY <1>4, MarkIs
    <2>3. u'.pc = l /\ u'.unimpl = b
      BY <1>0, <2>2 DEF UpgradeState
    <2>4. CASE i = Provision
      <3>1. journal[Provision] = "pending" /\ i \notin {Deploy, Wait}
        BY <2>1, <2>4 DEF NextRow, Provision, Deploy, Wait
      <3>2. u.res = "done" => ~missing'
        BY <2>1, <3>1 DEF Provisioned
      <3>3. l # "settling" => journal'[Provision] = u.res
        BY <1>0, <2>2, <2>4
      <3> QED BY <2>2, <2>3, <3>1, <3>2, <3>3 DEF ProvisionTold
    <2>5. CASE i # Provision
      <3>1. missing' = missing
        BY <2>1, <2>5 DEF Provisioned, Row, Provision, Deploy, Wait
      <3>2. journal'[Provision] = journal[Provision]
        BY <1>0, <2>2, <2>5
      <3> QED BY <2>1, <2>2, <2>3, <3>1, <3>2 DEF ProvisionTold
    <2> QED BY <2>4, <2>5
  <1>5. CASE EndRun
    <2>1. UNCHANGED <<journal, missing>> /\ u'.pc = "settling"
      BY <1>0, <1>5 DEF EndRun, UpgradeState
    <2> QED BY <2>1 DEF ProvisionTold
  <1>6. CASE Crash
    <2>1. UNCHANGED <<journal, missing>> /\ (u' = u \/ u'.pc = "idle")
      BY <1>6 DEF Crash, UpgradeIdle, state
    <2> QED BY <2>1 DEF ProvisionTold
  <1>7. CASE ~ReadUpgrade /\ ~Upgrading /\ ~Crash
    BY <1>7, UpgradeAlone DEF ProvisionTold
  <1> QED BY <1>1, <1>2, <1>3, <1>4, <1>5, <1>6, <1>7 DEF Upgrading

\* Every step keeps what the status says of what is missing.
LEMMA PartialStep ==
    ASSUME SpecInv, Deployable, ProvisionTold, PartialTold, [Next]_vars, SpecInv'
    PROVE  PartialTold'
  <1> SUFFICES ASSUME ~Unsaid' PROVE PartialTold'
    BY DEF PartialTold
  <1>0. /\ ~Unsaid /\ u \in UpgradeState /\ d \in UpdateState /\ Provision \in Row
        /\ journal \in [Row -> {"absent", "pending", "done", "unimplemented", "failed"}]
        /\ u.pc # "idle" => d.pc = "idle"
        /\ u'.pc # "idle" => d'.pc = "idle"
    <2>1. disturbed \ {"unrun"} \subseteq disturbed'
      BY DisturbedKept
    <2>2. ~Unsaid
      BY <2>1 DEF Unsaid
    <2> QED BY <2>2 DEF SpecInv, TypeOK, Exclusive, Row, Provision
  <1>1. /\ u.pc = "failing" => Interrupted
        /\ u.pc = "settling" /\ ~Open /\ missing => status # "running"
        /\ u.pc = "restoring" => Interrupted \/ "unrun" \in disturbed
        /\ u.pc = "idle" /\ ~Interrupted /\ "unrun" \notin disturbed /\ missing =>
              status # "running" /\ journal[Provision] = "unimplemented"
        /\ d.pc = "ending" /\ d.st = "running" /\ "unrun" \notin disturbed => ~missing
    BY <1>0 DEF PartialTold
  <1>2. CASE ReadUpgrade \/ ReadStatus \/ FreezeNext \/ ResetPlan
    <2>1. u'.pc \in {"planned", "freezing", "resetting", "recording"}
      BY <1>0, <1>2 DEF ReadUpgrade, ReadStatus, FreezeNext, ResetPlan, UpgradeIdle,
                        UpgradeState
    <2>2. d'.pc = "idle"
      BY <1>0, <2>1
    <2> QED BY <2>1, <2>2 DEF PartialTold
  <1>3. CASE RecordPlan
    <2>1. Open'
      BY <1>0, <1>3 DEF RecordPlan, Open, Deployable
    <2>2. u'.pc \in {"running", "settling"}
      BY <1>0, <1>3 DEF RecordPlan, UpgradeState
    <2>3. d'.pc = "idle"
      BY <1>0, <2>2
    <2> QED BY <2>1, <2>2, <2>3 DEF PartialTold
  <1>4. ASSUME NEW i \in Row, Execute(i) PROVE PartialTold'
    <2>1. u'.pc = "marking"
      BY <1>0, <1>4 DEF Execute, UpgradeState
    <2>2. d'.pc = "idle"
      BY <1>0, <2>1
    <2> QED BY <2>1, <2>2 DEF PartialTold
  <1>5. ASSUME NEW i \in Row, Mark(i) PROVE PartialTold'
    <2>1. NextRow(i) /\ TypeOK
      BY <1>5 DEF Mark, SpecInv
    <2>2. PICK l \in {"failing", "running", "settling"}, b \in BOOLEAN :
              /\ u' = [u EXCEPT !.pc = l, !.unimpl = b]
              /\ l = "failing" => u.res = "failed" /\ journal' = [journal EXCEPT ![i] = u.res]
              /\ l = "settling" => journal' = journal
      BY <1>5, <2>1, MarkIs
    <2>3. u'.pc = l
      BY <1>0, <2>2 DEF UpgradeState
    <2>4. l = "failing" => Interrupted'
      BY <1>0, <2>2 DEF Interrupted
    <2>5. l = "settling" => Open'
      BY <2>1, <2>2 DEF NextRow, Open
    <2>6. d'.pc = "idle"
      BY <1>0, <2>3
    <2> QED BY <2>2, <2>3, <2>4, <2>5, <2>6 DEF PartialTold
  <1>6. CASE EndRun
    <2>1. UNCHANGED <<journal, missing>> /\ u'.pc = "settling"
      BY <1>0, <1>6 DEF EndRun, UpgradeState
    <2>2. Open' = Open
      BY <2>1 DEF Open
    <2>3. ~Open /\ missing => status' # "running"
      <3> SUFFICES ASSUME ~Open, missing PROVE status' # "running"
        OBVIOUS
      <3>1. ~Interrupted /\ journal[Provision] = "unimplemented"
        BY <1>0 DEF Open, Interrupted, ProvisionTold
      <3>2. u.pc = "running" /\ status' = FinalStatus
        BY <1>1, <1>6, <3>1 DEF EndRun, Unsaid
      <3>3. u.unimpl
        BY <3>1, <3>2 DEF ProvisionTold
      <3> QED BY <3>2, <3>3 DEF FinalStatus
    <2>4. d'.pc = "idle"
      BY <1>0, <2>1
    <2> QED BY <2>1, <2>2, <2>3, <2>4 DEF PartialTold
  <1>7. CASE Settle
    <2>1. u.pc = "settling" /\ UNCHANGED <<status, journal, missing, d>> /\ d.pc = "idle"
      BY <1>0, <1>7 DEF Settle
    <2>2. CASE Open
      <3>1. u'.pc = "restoring" /\ (Interrupted \/ "unrun" \in disturbed')
        BY <1>0, <1>7, <2>2 DEF Settle, UpgradeState
      <3>2. Interrupted' = Interrupted
        BY <2>1 DEF Interrupted
      <3> QED BY <2>1, <3>1, <3>2 DEF PartialTold
    <2>3. CASE ~Open
      <3>1. u'.pc = "idle"
        BY <1>7, <2>3 DEF Settle, UpgradeIdle
      <3>2. missing => status # "running" /\ journal[Provision] = "unimplemented"
        BY <1>0, <1>1, <2>1, <2>3 DEF Open, ProvisionTold
      <3> QED BY <2>1, <3>1, <3>2 DEF PartialTold
    <2> QED BY <2>2, <2>3
  <1>8. CASE RestoreStatus
    <2>1. u.pc = "restoring" /\ UNCHANGED <<journal, disturbed, d>> /\ u'.pc = "idle" /\ d.pc = "idle"
      BY <1>0, <1>8 DEF RestoreStatus, UpgradeIdle, world
    <2>2. Interrupted' = Interrupted
      BY <2>1 DEF Interrupted
    <2> QED BY <1>1, <2>1, <2>2 DEF PartialTold
  <1>9. CASE ~ReadUpgrade /\ ~Upgrading
    <2>1. ~Crash
      BY DEF Crash, Unsaid
    <2>2. /\ UNCHANGED <<journal, u, missing>> /\ (UNCHANGED status \/ SetStatus)
          /\ "unrun" \in disturbed' <=> "unrun" \in disturbed
      BY <1>9, <2>1, UpgradeAlone
    <2>3. Interrupted' = Interrupted /\ Open' = Open
      BY <2>2 DEF Interrupted, Open
    <2>4. d'.pc = "ending" /\ d'.st = "running" /\ "unrun" \notin disturbed => ~missing
      <3>1. CASE JudgeStatus
        <4>1. \/ d' = UpdateIdle
              \/ d' = [d EXCEPT !.pc = "ending", !.st = StatusAfterUpdate] /\ ~Interrupted
          BY <3>1 DEF JudgeStatus, Interrupted
        <4>2. CASE d' = UpdateIdle
          BY <4>2 DEF UpdateIdle
        <4>3. CASE d' = [d EXCEPT !.pc = "ending", !.st = StatusAfterUpdate] /\ ~Interrupted
          <5>1. u.pc = "idle"
            BY <1>0, <3>1 DEF JudgeStatus
          <5>2. d'.st = StatusAfterUpdate
            BY <1>0, <4>3 DEF UpdateState
          <5>3. journal[Provision] = "unimplemented" => StatusAfterUpdate = "partial"
            BY <1>0 DEF StatusAfterUpdate
          <5> QED BY <1>1, <4>3, <5>1, <5>2, <5>3
        <4> QED BY <4>1, <4>2, <4>3
      <3>2. CASE d' = d
        BY <1>1, <3>2
      <3>3. CASE ~JudgeStatus /\ d' # d
        <4>1. ReadUpdate \/ Updating
          BY <1>9, <2>1, <3>3 DEF Next, vars, Observe, Detect, CorrectImage, Succeed,
                                  RollBack, Publish
        <4>2. \/ d' \in {UpdateIdle, [UpdateIdle EXCEPT !.pc = "pushing", !.to = released]}
              \/ d' \in {[d EXCEPT !.pc = l] : l \in {"watching", "reading", "judging"}}
              \/ d' = [d EXCEPT !.pc = "writing", !.m = [frozen EXCEPT !.image = d.to]]
          BY <3>3, <4>1 DEF ReadUpdate, Updating, PushImage, Watch, TimeOut, ReadManifest,
                            FreezeImage, SetStatus
        <4>3. CASE d' = UpdateIdle
          BY <4>3 DEF UpdateIdle
        <4>6. CASE d' = [UpdateIdle EXCEPT !.pc = "pushing", !.to = released]
          BY <4>6 DEF UpdateIdle
        <4>4. CASE d' \in {[d EXCEPT !.pc = l] : l \in {"watching", "reading", "judging"}}
          BY <1>0, <4>4 DEF UpdateState
        <4>5. CASE d' = [d EXCEPT !.pc = "writing", !.m = [frozen EXCEPT !.image = d.to]]
          BY <1>0, <4>5 DEF UpdateState
        <4> QED BY <4>2, <4>3, <4>4, <4>5, <4>6
      <3> QED BY <3>1, <3>2, <3>3
    <2>5. SetStatus => u.pc = "idle" /\ status' = d.st /\ d.pc = "ending" /\ d'.pc = "idle"
      BY <1>0 DEF SetStatus, UpdateIdle
    <2>6. u.pc = "idle" /\ ~Interrupted /\ "unrun" \notin disturbed /\ missing =>
              status' # "running" /\ journal[Provision] = "unimplemented"
      BY <1>1, <2>2, <2>5
    <2>7. u.pc = "settling" => status' = status
      BY <2>2, <2>5
    <2> QED BY <1>1, <2>2, <2>3, <2>4, <2>6, <2>7 DEF PartialTold
  <1> QED BY <1>2, <1>3, <1>4, <1>5, <1>6, <1>7, <1>8, <1>9 DEF Upgrading

\* A deployment ends done or failed, whoever else runs.
LEMMA DeployableStep == TypeOK /\ Deployable /\ [Next]_vars => Deployable'
  <1> SUFFICES ASSUME TypeOK, Deployable, [Next]_vars PROVE Deployable'
    OBVIOUS
  <1>0. /\ u \in UpgradeState /\ Deploy \in Row
        /\ journal \in [Row -> {"absent", "pending", "done", "unimplemented", "failed"}]
    BY DEF TypeOK, Row, Deploy
  <1>1. CASE u'.pc \in {"idle", "planned", "freezing", "resetting", "restoring"}
    BY <1>1 DEF Deployable
  <1>9. CASE ResetPlan
    <2>1. u'.pc = "recording" /\ \A i \in Row : journal'[i] = "absent"
      BY <1>0, <1>9 DEF ResetPlan, UpgradeState
    <2> QED BY <2>1 DEF Deployable
  <1>2. CASE RecordPlan
    <2>1. journal'[Deploy] \in {"absent", "pending"} /\ u'.pc \in {"running", "settling"}
      BY <1>0, <1>2 DEF RecordPlan, UpgradeState, Deployable
    <2> QED BY <2>1 DEF Deployable
  <1>3. ASSUME NEW i \in Row, Execute(i) PROVE Deployable'
    <2>1. u.pc = "running" /\ UNCHANGED journal /\ NextRow(i) /\ u'.pc = "marking"
      BY <1>0, <1>3 DEF Execute, state, UpgradeState
    <2>2. NextRow(Deploy) => i = Deploy
      BY <1>0, <2>1, OneNextRow
    <2>3. i = Deploy => u'.res # "unimplemented"
      BY <1>0, <1>3 DEF Execute, UpgradeState
    <2> QED BY <2>1, <2>2, <2>3 DEF Deployable, NextRow
  <1>4. ASSUME NEW i \in Row, Mark(i) PROVE Deployable'
    <2>1. /\ u.pc = "marking" /\ NextRow(i)
          /\ journal' \in {journal, [journal EXCEPT ![i] = u.res]}
      BY <1>4 DEF Mark
    <2>2. u.res \in {"done", "unimplemented", "failed"} /\ u'.pc \notin {"marking", "recording"}
      <3>1. PICK l \in {"failing", "running", "settling"}, b \in BOOLEAN :
                u' = [u EXCEPT !.pc = l, !.unimpl = b]
        BY <1>4, MarkIs
      <3> QED BY <1>0, <3>1 DEF UpgradeState
    <2>3. journal'[Deploy] # "unimplemented"
      <3>1. CASE i = Deploy
        BY <1>0, <2>1, <2>2, <3>1 DEF Deployable
      <3>2. CASE i # Deploy
        BY <1>0, <2>1, <3>2 DEF Deployable
      <3> QED BY <3>1, <3>2
    <2> QED BY <2>2, <2>3 DEF Deployable
  <1>5. CASE EndRun
    <2>1. u.pc \in {"failing", "running"} /\ UNCHANGED journal /\ u'.pc = "settling"
      BY <1>0, <1>5 DEF EndRun, UpgradeState
    <2> QED BY <2>1 DEF Deployable
  <1>6. CASE ~ReadUpgrade /\ ~Upgrading /\ ~Crash
    <2>1. UNCHANGED <<journal, u>>
      BY <1>6, UpgradeAlone
    <2> QED BY <2>1 DEF Deployable, NextRow
  <1>7. CASE Crash
    <2>1. u' = u \/ u'.pc = "idle"
      BY <1>7 DEF Crash, UpgradeIdle
    <2>2. UNCHANGED journal
      BY <1>7 DEF Crash, state
    <2> QED BY <2>1, <2>2 DEF Deployable, NextRow
  <1>8. CASE ReadUpgrade \/ ReadStatus \/ FreezeNext \/ Settle \/ RestoreStatus
    <2>1. u'.pc \in {"idle", "planned", "freezing", "resetting", "restoring"}
      <3>1. CASE ReadUpgrade \/ ReadStatus \/ FreezeNext
        BY <1>0, <3>1 DEF ReadUpgrade, ReadStatus, FreezeNext, UpgradeIdle, UpgradeState
      <3>2. CASE Settle \/ RestoreStatus
        BY <1>0, <3>2 DEF Settle, RestoreStatus, UpgradeIdle, UpgradeState
      <3> QED BY <1>8, <3>1, <3>2
    <2> QED BY <1>1, <2>1
  <1> QED BY <1>2, <1>3, <1>4, <1>5, <1>6, <1>7, <1>8, <1>9 DEF Upgrading

\* Every step keeps the service level with the manifest, or with the one to put back.
LEMMA LevelStep ==
    ASSUME SpecInv, Deployable, Level, [Next]_vars, SpecInv'
    PROVE  Level'
  <1> SUFFICES ASSUME disturbed' \subseteq {"fought", "unsaid", "unrun"}
               PROVE  Level'
    BY DEF Level
  <1>0. /\ u \in UpgradeState /\ Deploy \in Row /\ service \in Manifest
        /\ journal \in [Row -> {"absent", "pending", "done", "unimplemented", "failed"}]
    BY DEF SpecInv, TypeOK, Row, Deploy
  <1>1. service.spec = IF u.pc \in Frozen /\ NotPushed THEN u.kept.spec ELSE frozen.spec
    BY DisturbedKept DEF Level
  <1>2. CASE ReadUpgrade \/ ReadStatus
    <2>1. u.pc \notin Frozen /\ u'.pc \notin Frozen
      BY <1>0, <1>2 DEF ReadUpgrade, ReadStatus, UpgradeIdle, UpgradeState, Frozen
    <2>2. UNCHANGED <<frozen, service>>
      BY <1>2 DEF ReadUpgrade, ReadStatus, state, swarm
    <2> QED BY <1>1, <2>1, <2>2 DEF Level
  <1>3. CASE FreezeNext
    <2>1. /\ u.pc = "freezing" /\ u'.pc = "resetting" /\ u'.kept = u.kept
          /\ UNCHANGED service
      BY <1>0, <1>3 DEF FreezeNext, swarm, UpgradeState
    <2>2. service.spec = u.kept.spec
      BY <1>1, <2>1 DEF Frozen, SpecInv, PlannedFromFrozen
    <2> QED BY <2>1, <2>2 DEF Level, NotPushed, Frozen
  <1>4. CASE ResetPlan \/ RecordPlan
    <2>1. /\ u.pc \in {"resetting", "recording"} /\ u'.kept = u.kept
          /\ u'.pc \in {"recording", "running", "settling"}
          /\ UNCHANGED service
          /\ u'.pc # "recording" => journal'[Deploy] \in {"absent", "pending"} /\ u'.pc # "marking"
      BY <1>0, <1>4 DEF ResetPlan, RecordPlan, swarm, UpgradeState, Deployable
    <2>2. service.spec = u.kept.spec
      BY <1>1, <2>1 DEF NotPushed, Frozen
    <2>3. NotPushed'
      BY <2>1 DEF NotPushed
    <2> QED BY <2>1, <2>2, <2>3 DEF Level, Frozen
  <1>5. ASSUME NEW i \in Row, Execute(i) PROVE Level'
    <2>1. /\ u.pc = "running" /\ u'.pc = "marking" /\ u'.kept = u.kept /\ NextRow(i)
          /\ UNCHANGED <<frozen, journal>>
      BY <1>0, <1>5 DEF Execute, state, UpgradeState
    <2>2. NextRow(Deploy) => i = Deploy
      BY <1>0, <2>1, OneNextRow
    <2>3. CASE UNCHANGED swarm /\ (i = Deploy => u'.res = "failed")
      <3>1. NotPushed' = NotPushed
        BY <2>1, <2>2, <2>3 DEF NotPushed, NextRow
      <3> QED BY <1>1, <2>1, <2>3, <3>1 DEF Level, Frozen, swarm
    <2>4. CASE i = Deploy /\ u'.res = "done" /\ service'.spec = u.plan.spec
      <3>1. ~NotPushed'
        BY <2>1, <2>4 DEF NotPushed, NextRow
      <3>2. u.plan.spec = frozen.spec
        BY <2>1 DEF SpecInv, FrozenIsPlan, Frozen
      <3> QED BY <2>1, <2>4, <3>1, <3>2 DEF Level
    <2>5. Heard' /\ TypeOK
      BY DEF Heard, SpecInv
    <2> QED BY <1>5, <2>3, <2>4, <2>5, ExecuteIs
  <1>6. ASSUME NEW i \in Row, Mark(i) PROVE Level'
    <2>0. PICK l \in {"failing", "running", "settling"}, b \in BOOLEAN :
              /\ u' = [u EXCEPT !.pc = l, !.unimpl = b]
              /\ l # "settling" => journal' = [journal EXCEPT ![i] = u.res]
              /\ l = "settling" => /\ journal' = journal
                                   /\ disturbed' = disturbed \cup
                                         (IF i = Deploy /\ u.res = "done" THEN {"unheard"} ELSE {})
      BY <1>6, MarkIs DEF SpecInv
    <2>1. /\ u.pc = "marking" /\ u'.pc \in {"failing", "running", "settling"} /\ u'.kept = u.kept
          /\ NextRow(i) /\ UNCHANGED <<frozen, service>>
          /\ \/ journal' = [journal EXCEPT ![i] = u.res]
             \/ journal' = journal /\ (i = Deploy => u.res # "done")
      <3>1. u'.pc = l /\ u'.kept = u.kept
        BY <1>0, <2>0 DEF UpgradeState
      <3>2. u.pc = "marking" /\ NextRow(i) /\ UNCHANGED <<frozen, service>>
        BY <1>6 DEF Mark, swarm
      <3>3. l = "settling" => (i = Deploy => u.res # "done")
        BY <2>0
      <3> QED BY <2>0, <3>1, <3>2, <3>3
    <2>2. NotPushed' = NotPushed
      <3>1. NotPushed' = (journal'[Deploy] # "done")
        BY <2>1 DEF NotPushed
      <3>2. CASE i = Deploy
        <4>1. /\ journal[Deploy] = "pending"
              /\ journal'[Deploy] = "done" <=> u.res = "done"
          BY <1>0, <2>1, <3>2 DEF NextRow
        <4> QED BY <2>1, <3>1, <3>2, <4>1 DEF NotPushed
      <3>3. CASE i # Deploy
        <4>1. ~NextRow(Deploy) /\ journal'[Deploy] = journal[Deploy]
          BY <1>0, <2>1, <3>3, OneNextRow
        <4> QED BY <2>1, <3>1, <4>1 DEF NotPushed
      <3> QED BY <3>2, <3>3
    <2> QED BY <1>1, <2>1, <2>2 DEF Level, Frozen
  <1>7. CASE EndRun
    <2>1. /\ u.pc \in {"failing", "running"} /\ u'.pc = "settling" /\ u'.kept = u.kept
          /\ UNCHANGED <<frozen, journal, service>>
      BY <1>0, <1>7 DEF EndRun, swarm, UpgradeState
    <2>2. NotPushed' = NotPushed
      BY <2>1 DEF NotPushed
    <2> QED BY <1>1, <2>1, <2>2 DEF Level, Frozen
  <1>8. CASE Settle
    <2>1. /\ u.pc = "settling" /\ UNCHANGED service
          /\ u'.pc \in {"idle", "restoring"}
      BY <1>0, <1>8 DEF Settle, swarm, UpgradeIdle, UpgradeState
    <2>2. NotPushed <=> ~Redeployed
      BY <2>1 DEF NotPushed, Redeployed
    <2>3. ~Open => Redeployed
      BY <1>0, <2>1 DEF Open, Redeployed, Deployable
    <2>4. frozen'.spec = service.spec
      BY <1>1, <1>8, <2>1, <2>2, <2>3 DEF Settle, Frozen
    <2> QED BY <2>1, <2>4 DEF Level, Frozen
  <1>9. CASE RestoreStatus
    <2>1. /\ u.pc = "restoring" /\ u'.pc = "idle" /\ UNCHANGED <<frozen, service>>
      BY <1>9 DEF RestoreStatus, swarm, UpgradeIdle
    <2> QED BY <1>1, <2>1 DEF Level, Frozen
  <1>10. CASE ~ReadUpgrade /\ ~Upgrading
    <2>1. ~Crash /\ ~RollBack
      BY DEF Crash, RollBack
    <2>2. UNCHANGED <<journal, u>>
      BY <1>10, <2>1, UpgradeAlone
    <2>3. service'.spec = service.spec
      BY <1>0, <1>10, <2>1 DEF Next, vars, ReadUpdate, Updating, PushImage, Push, Watch,
             TimeOut, ReadManifest, FreezeImage, JudgeStatus, SetStatus, Observe, Detect,
             CorrectImage, Succeed, Publish, swarm, Manifest
    <2>4. frozen'.spec = frozen.spec
      <3>1. CASE FreezeImage
        BY <3>1 DEF FreezeImage, SpecInv, ReadIsFrozen
      <3>2. CASE ~FreezeImage
        BY <1>10, <2>1, <3>2 DEF Next, vars, ReadUpdate, Updating, PushImage, Watch,
               TimeOut, ReadManifest, JudgeStatus, SetStatus, Observe, Detect,
               CorrectImage, Succeed, Publish, state
      <3> QED BY <3>1, <3>2
    <2>5. NotPushed' = NotPushed
      BY <2>2 DEF NotPushed, NextRow
    <2> QED BY <1>1, <2>2, <2>3, <2>4, <2>5 DEF Level
  <1> QED BY <1>2, <1>3, <1>4, <1>5, <1>6, <1>7, <1>8, <1>9, <1>10 DEF Upgrading

\* What an update saw applied runs until it is written: nobody else gives Swarm an order
\* unless reconciliation fights it.
LEMMA StillAppliedStep ==
    ASSUME SpecInv, StillApplied, [Next]_vars, SpecInv'
    PROVE  StillApplied'
  <1> SUFFICES ASSUME "fought" \notin disturbed', d'.pc \in {"reading", "writing"}
               PROVE  StillApplied'
    BY DEF StillApplied
  <1>0. /\ "fought" \notin disturbed /\ d \in UpdateState /\ frozen \in Manifest
        /\ u'.pc = "idle"
    BY DisturbedKept DEF SpecInv, TypeOK, Exclusive
  <1>1. CASE Watch
    <2>1. UNCHANGED swarm /\ (d' \in {UpdateIdle, d} \/ Applied)
      BY <1>1 DEF Watch
    <2>2. d' = [d EXCEPT !.pc = "reading"] /\ Applied
      <3>1. d.pc = "watching" /\ UpdateIdle.pc = "idle"
        BY <1>1 DEF Watch, UpdateIdle
      <3>2. d' \notin {UpdateIdle, d}
        BY <3>1
      <3> QED BY <1>1, <2>1, <3>2 DEF Watch
    <2>3. d'.pc = "reading" /\ d'.to = d.to
      BY <1>0, <2>2 DEF UpdateState
    <2> QED BY <2>1, <2>2, <2>3 DEF StillApplied, Applied, Converged, swarm
  <1>2. CASE ReadManifest
    <2>1. UNCHANGED swarm /\ d.pc = "reading"
      BY <1>2 DEF ReadManifest
    <2>2. d'.pc = "writing" /\ d'.to = d.to /\ d'.m = [frozen EXCEPT !.image = d.to]
      BY <1>0, <1>2 DEF ReadManifest, UpdateState
    <2>3. d'.m.image = d.to
      BY <1>0, <2>2 DEF Manifest
    <2> QED BY <1>0, <2>1, <2>2, <2>3 DEF StillApplied, swarm
  <1>3. CASE d' = d
    <2>1. rollout # "updating" /\ task.image = d.to /\ (d.pc = "writing" => d.m.image = d.to)
      BY <1>0, <1>3 DEF StillApplied
    <2>2. d.pc # "idle"
      BY <1>3
    <2>3. UNCHANGED <<rollout, task>>
      <3>1. ASSUME NEW i \in Row, Execute(i) PROVE FALSE
        BY <1>0, <2>2, <3>1 DEF Execute, SpecInv, Exclusive
      <3>2. ~Succeed /\ ~RollBack /\ ~CorrectImage
        BY <1>0, <2>1, <2>2 DEF Succeed, RollBack, CorrectImage
      <3>3. ~PushImage
        BY <1>3 DEF PushImage
      <3> QED BY <3>1, <3>2, <3>3 DEF Next, vars, ReadUpgrade, Upgrading, ReadStatus,
              FreezeNext, ResetPlan, RecordPlan, Mark, EndRun, Settle, RestoreStatus,
              ReadUpdate, Updating, Watch, TimeOut, ReadManifest, FreezeImage,
              JudgeStatus, SetStatus, Observe, Detect, Publish, Crash, swarm
    <2> QED BY <1>3, <2>1, <2>3 DEF StillApplied
  <1>4. CASE d' # d /\ ~Watch /\ ~ReadManifest
    <2>1. \/ ReadUpdate \/ PushImage \/ TimeOut \/ FreezeImage \/ JudgeStatus \/ SetStatus
          \/ Crash
      BY <1>4 DEF Next, vars, ReadUpgrade, Upgrading, ReadStatus, FreezeNext, ResetPlan,
             RecordPlan, Execute, Mark, EndRun, Settle, RestoreStatus, Updating, Observe,
             Detect, CorrectImage, Succeed, RollBack, Publish
    <2>2. \/ d' = UpdateIdle
          \/ d' = [UpdateIdle EXCEPT !.pc = "pushing", !.to = released]
          \/ d' \in {[d EXCEPT !.pc = l] : l \in {"watching", "judging"}}
          \/ d' = [d EXCEPT !.pc = "ending", !.st = StatusAfterUpdate]
      BY <1>4, <2>1 DEF ReadUpdate, PushImage, TimeOut, FreezeImage, JudgeStatus, SetStatus,
             Crash
    <2>3. d' # UpdateIdle
      BY DEF UpdateIdle
    <2>4. d' # [UpdateIdle EXCEPT !.pc = "pushing", !.to = released]
      BY DEF UpdateIdle
    <2>5. d' \notin {[d EXCEPT !.pc = l] : l \in {"watching", "judging"}}
      BY <1>0 DEF UpdateState
    <2>6. d' # [d EXCEPT !.pc = "ending", !.st = StatusAfterUpdate]
      BY <1>0 DEF UpdateState
    <2> QED BY <2>2, <2>3, <2>4, <2>5, <2>6
  <1> QED BY <1>1, <1>2, <1>3, <1>4

\* Why the frozen manifest and the status are true to what runs: the argument of
\* StateNeverBehind, and what each operation knows of the other's traces.
UpgradeInv == SpecInv /\ ProvisionTold /\ PartialTold /\ Deployable /\ Level /\ StillApplied

\* The argument holds from the start and at every step, if upgrades and updates of the
\* app exclude each other.
LEMMA UpgradeInvHolds ==
    ASSUME OneAtATime
    PROVE  Spec => []UpgradeInv
  <1>1. Init => UpgradeInv
    <2> SUFFICES ASSUME Init PROVE UpgradeInv
      OBVIOUS
    <2>1. u.pc = "idle" /\ d.pc = "idle"
      BY DEF Init, UpgradeIdle, UpdateIdle
    <2>2. ProvisionTold /\ PartialTold
      <3>1. missing <=> status = "partial"
        BY DEF Init
      <3>2. \/ status = "running" /\ journal[1] = "done"
            \/ status = "partial" /\ journal[1] = "unimplemented"
        BY DEF Init, Row
      <3> QED BY <2>1, <3>1, <3>2 DEF ProvisionTold, PartialTold, Provision
    <2>3. Deployable /\ StillApplied
      BY <2>1 DEF Deployable, StillApplied
    <2>4. Level
      BY <2>1 DEF Init, Level, Frozen
    <2> QED BY <2>2, <2>3, <2>4, SpecInit DEF UpgradeInv
  <1>2. UpgradeInv /\ [Next]_vars => UpgradeInv'
    <2> SUFFICES ASSUME UpgradeInv, [Next]_vars PROVE UpgradeInv'
      OBVIOUS
    <2>1. SpecInv /\ SpecInv' /\ TypeOK
      BY SpecStep DEF UpgradeInv, SpecInv
    <2> QED BY <2>1, ProvisionStep, PartialStep, DeployableStep, LevelStep, StillAppliedStep
            DEF UpgradeInv
  <1> QED BY <1>1, <1>2, PTL DEF Spec

\* An app last provisioned short of something is never left "running": the run that left
\* it so says "partial", and so does status_after_update, for every number of versions and
\* images, if upgrades and updates of the app exclude each other - and as long as no run
\* stopped with rows it neither did nor failed, after which an update has no mark to read.
THEOREM PartialAlwaysSaid ==
    ASSUME OneAtATime
    PROVE  Spec => []PartialSaid
  <1>1. UpgradeInv => PartialSaid
    BY DEF UpgradeInv, PartialTold, Unsaid, PartialSaid, Quiet
  <1> QED BY <1>1, UpgradeInvHolds, PTL

\* An upgrade that returned leaves the state on the specification Swarm was given: settle()
\* puts the old manifest back exactly when no deployment was recorded done.
THEOREM FrozenSpecAlwaysRuns ==
    ASSUME OneAtATime
    PROVE  Spec => []FrozenSpecRuns
  <1>1. UpgradeInv => FrozenSpecRuns
    BY DEF UpgradeInv, Level, FrozenSpecRuns, Quiet, Frozen
  <1> QED BY <1>1, UpgradeInvHolds, PTL

\* An update freezes the image that runs as it is frozen, unless reconciliation gave Swarm
\* another order while the update watched.
THEOREM FrozenOnlyAsItRuns ==
    ASSUME OneAtATime
    PROVE  Spec => FrozenAsItRuns
  <1>1. UpgradeInv /\ [Next]_vars =>
          [d.pc = "writing" /\ d'.pc = "judging" /\ "fought" \notin disturbed
             => task.image = frozen'.image]_vars
    <2> SUFFICES ASSUME UpgradeInv, [Next]_vars, d.pc = "writing", d'.pc = "judging",
                        "fought" \notin disturbed
                 PROVE  task.image = frozen'.image
      OBVIOUS
    <2>1. task.image = d.m.image
      BY DEF UpgradeInv, StillApplied
    <2>2. frozen' = d.m
      <3>1. d' # d /\ d' # UpdateIdle
        BY DEF UpdateIdle
      <3> QED BY <3>1 DEF Next, vars, ReadUpgrade, Upgrading, ReadStatus, FreezeNext,
              ResetPlan, RecordPlan, Execute, Mark, EndRun, Settle, RestoreStatus,
              ReadUpdate, Updating, PushImage, Watch, TimeOut, ReadManifest, FreezeImage,
              JudgeStatus, SetStatus, Observe, Detect, CorrectImage, Succeed, RollBack,
              Publish, Crash
    <2> QED BY <2>1, <2>2
  <1> QED BY <1>1, UpgradeInvHolds, PTL DEF Spec, FrozenAsItRuns

=============================================================================
