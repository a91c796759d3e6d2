---------------------------- MODULE HoldsProofs ----------------------------
(***************************************************************************)
(* Services held stopped, for any processes, whatever each is for and      *)
(* whichever are tasks of the daemon, any count of replicas and any bounds.*)
(* As long as operations come one at a time and Docker answers, whatever   *)
(* dies, the hold of the state carries the count decided from one that     *)
(* died to the one that gives it back (HoldOK), and each step of the one   *)
(* at work knows what Swarm is asked for and what is held (StepOK).        *)
(***************************************************************************)
EXTENDS Holds, TLAPS

Held == {"scaling", "waiting", "working", "writing", "giving", "starting", "releasing"}
Stopped == {"waiting", "working", "writing", "giving", "starting"}

\* One operation at a time, and every call answered; a restore may be refused.
OneAtATime == trouble \subseteq {"refused"}

\* At most one process is at work; the operator, the daemon's restart and a correction
\* of reconciliation are alone.
Alone ==
    /\ \A p, q \in Process : pc[p] # "idle" /\ pc[q] # "idle" => p = q
    /\ op # "idle" => NobodyAtWork /\ hold = NoHold /\ pass = "idle" /\ daemon # "releasing"
    /\ daemon # "up" => pass = "idle"
    /\ daemon = "releasing" => NobodyAtWork /\ desired = decided /\ hold.why = "copy"
    /\ pass = "correcting" => NobodyAtWork /\ hold = NoHold
    /\ skips = {}

\* A hold is live and carries the count decided, which Swarm is asked for or is not
\* asked for anything; without one Swarm is asked for the count decided.
HoldOK ==
    /\ hold # NoHold => /\ hold.live /\ hold.count = decided
                        /\ desired \in {0, decided}
    /\ hold = NoHold /\ op # "keeping" => desired = decided
    /\ op = "keeping" => desired = asked

\* What reconciliation read is the count decided, unless the service was held then and
\* whoever held it is gone or holds it still.
PassOK ==
    /\ pass \in {"looking", "judging"} /\ seen # decided /\ hold = NoHold => NobodyAtWork
    /\ pass \in {"judging", "correcting"} => aims = decided

\* What the process at work knows at each of its steps.
StepOK(p) ==
    /\ pc[p] \in Held => hold = [why |-> Job[p], live |-> TRUE, count |-> decided]
    /\ pc[p] \in {"noting", "holding", "scaling"} => count[p] = desired
    /\ pc[p] = "checking" /\ Job[p] # "copy" => count[p] = desired
    /\ pc[p] \in Stopped => count[p] \in {0, decided} /\ desired = 0
    /\ pc[p] \in {"working", "writing"} => ~up
    /\ pc[p] = "starting" => gives[p] = decided
    /\ pc[p] = "releasing" => desired = decided
    /\ pc[p] \in {"writing", "noting"} => Job[p] = "restore"
    /\ pc[p] = "checking" => Job[p] # "encryption"

StepsOK == \A p \in Process : StepOK(p)

\* A volume between two states is held for a restore and nothing is asked of Swarm; who
\* is at work is a restore that has not written, or a copy about to be refused.
HalfOK ==
    half =>
        /\ desired = 0 /\ ~up
        /\ hold.why = "restore"
        /\ \A p \in Process : pc[p] # "idle" =>
              \/ Job[p] = "restore" /\ pc[p] \notin {"giving", "starting", "releasing"}
              \/ Job[p] = "copy" /\ pc[p] = "checking"

Orderly == Alone /\ HoldOK /\ PassOK /\ StepsOK

IInv ==
    /\ TypeOK
    /\ OneAtATime => Orderly
    /\ trouble = {} => HalfOK

-----------------------------------------------------------------------------
(* The types.                                                                *)

\* The larger of two counts is one of them.
LEMMA LargerIs ==
    ASSUME NEW m \in Nat, NEW n \in Nat
    PROVE  /\ Larger(m, n) \in {m, n} /\ Larger(m, n) >= m /\ Larger(m, n) >= n
           /\ m \in {0, n} => Larger(m, n) = n
           /\ n \in {0, m} => Larger(m, n) = m
BY DEF Larger

\* What went wrong is remembered.
LEMMA TroubleKept ==
    /\ Well => /\ OneAtATime' => OneAtATime
               /\ trouble' = {} => trouble = {}
               /\ trouble \subseteq Trouble => trouble' \subseteq Trouble
    /\ \A t : Met(t) => /\ OneAtATime' => OneAtATime /\ t = "refused"
                        /\ trouble' # {}
                        /\ t \in Trouble /\ trouble \subseteq Trouble =>
                              trouble' \subseteq Trouble
<1>1. Well => trouble' = trouble
    BY DEF Well
<1>2. \A t : Met(t) => trouble' = trouble \cup {t}
    BY DEF Met
<1>3. \A t : Met(t) => (OneAtATime' => OneAtATime /\ t = "refused") /\ trouble' # {}
    BY <1>2 DEF OneAtATime
<1>4. \A t : Met(t) => (t \in Trouble /\ trouble \subseteq Trouble =>
                              trouble' \subseteq Trouble)
    BY <1>2
<1>5. Well => (OneAtATime' => OneAtATime)
    BY <1>1 DEF OneAtATime
<1> QED BY <1>1, <1>3, <1>4, <1>5

\* The initial values have their types.
LEMMA TypeInit == Init => TypeOK
<1> SUFFICES ASSUME Init PROVE TypeOK
    OBVIOUS
<1>1. /\ 0 \in 0 .. MaxReplicas /\ Replicas \in 0 .. MaxReplicas
      /\ MaxOps \in 0 .. MaxOps /\ MaxKills \in 0 .. MaxKills
    BY HoldsAssumption
<1> QED BY <1>1 DEF Init, TypeOK, NoHold, PC

\* A step of a process at work keeps the types.
LEMMA TypeOfStep ==
    ASSUME TypeOK, NEW p \in Process, Step(p)
    PROVE  TypeOK'
<1>0. trouble' \subseteq Trouble
  <2>1. {"failed", "refused"} \subseteq Trouble
      BY DEF Trouble
  <2>2. trouble \subseteq Trouble
      BY DEF TypeOK
  <2>3. Well \/ Met("failed") \/ Met("refused")
      BY DEF Step, Check, CountReplicas, Hold, ScaleDown, AwaitStopped, Work, BackUpFirst,
             Write, ReadHolds, ScaleUp, Release
  <2> QED BY <2>1, <2>2, <2>3, TroubleKept
<1> USE DEF TypeOK, PC, Goto, swarm, others, reconciler, operator, budget
<1>1. CASE Check(p)
    BY <1>1, <1>0 DEF Check
<1>2. CASE CountReplicas(p)
    BY <1>2, <1>0 DEF CountReplicas
<1>3. CASE Hold(p)
  <2>1. Larger(hold.count, count[p]) \in 0 .. MaxReplicas
      BY HoldsAssumption DEF Larger
  <2>2. Job[p] \in {"copy", "restore", "encryption"}
      BY HoldsAssumption
  <2> QED BY <1>3, <2>1, <2>2, <1>0 DEF Hold, HeldAfter
<1>4. CASE ScaleDown(p)
    BY <1>4, <1>0, HoldsAssumption DEF ScaleDown
<1>5. CASE AwaitStopped(p)
    BY <1>5, <1>0 DEF AwaitStopped
<1>6. CASE Work(p)
    BY <1>6, <1>0 DEF Work
<1>7. CASE BackUpFirst(p)
  <2>1. half' \in BOOLEAN
      BY <1>7 DEF BackUpFirst
  <2>2. pc' \in [Process -> PC]
      BY <1>7 DEF BackUpFirst
  <2>3. skips' \subseteq Process
      BY <1>7 DEF BackUpFirst
  <2>4. UNCHANGED <<swarm, hold, count, gives, others, budget>>
      BY <1>7 DEF BackUpFirst
  <2> QED BY <1>0, <2>1, <2>2, <2>3, <2>4
<1>8. CASE Write(p)
  <2>1. half' \in BOOLEAN
      BY <1>8 DEF Write
  <2>2. pc' \in [Process -> PC]
      BY <1>8 DEF Write
  <2>3. skips' \subseteq Process
      BY <1>8 DEF Write
  <2>4. UNCHANGED <<swarm, hold, count, gives, others, budget>>
      BY <1>8 DEF Write
  <2> QED BY <1>0, <2>1, <2>2, <2>3, <2>4
<1>9. CASE ReadHolds(p)
  <2>1. Gives(p) \in 0 .. MaxReplicas
      BY HoldsAssumption DEF Larger, Gives
  <2> QED BY <1>9, <2>1, <1>0 DEF ReadHolds
<1>10. CASE ScaleUp(p)
    BY <1>10, <1>0 DEF ScaleUp
<1>11. CASE Release(p)
    BY <1>11, <1>0, HoldsAssumption DEF Release, NoHold
<1> QED BY <1>1, <1>2, <1>3, <1>4, <1>5, <1>6, <1>7, <1>8, <1>9, <1>10, <1>11 DEF Step

\* Every other step keeps the types.
LEMMA TypeOfOthers ==
    ASSUME TypeOK,
           \/ \E p \in Process : Begin(p) \/ Kill(p)
           \/ KillDaemon \/ Serve \/ Reconcile \/ Converge \/ Lapse
           \/ (\E n \in 0 .. MaxReplicas : Ask(n)) \/ Operate
    PROVE  TypeOK'
<1> USE DEF TypeOK, PC, Goto, swarm, others, worker, reconciler, operator, budget, Trouble
<1>1. ASSUME NEW p \in Process, Begin(p) PROVE TypeOK'
    BY <1>1, TroubleKept, HoldsAssumption DEF Begin
<1>2. ASSUME NEW p \in Process, Kill(p) PROVE TypeOK'
    BY <1>2, TroubleKept, HoldsAssumption DEF Kill, Killed
<1>3. CASE KillDaemon
    BY <1>3, TroubleKept, HoldsAssumption DEF KillDaemon, Killed
<1>4. CASE StartDaemon
    BY <1>4, TroubleKept DEF StartDaemon, Started
<1>5. CASE ReleaseInterrupted
    BY <1>5, TroubleKept, HoldsAssumption DEF ReleaseInterrupted, NoHold
<1>6. CASE Reconcile
    BY <1>6, TroubleKept DEF Reconcile, Observe, Look, Judge, Correct
<1>7. CASE Converge
    BY <1>7, TroubleKept DEF Converge
<1>8. CASE Lapse
    BY <1>8, TroubleKept DEF Lapse
<1>9. ASSUME NEW n \in 0 .. MaxReplicas, Ask(n) PROVE TypeOK'
    BY <1>9, TroubleKept, HoldsAssumption DEF Ask
<1>10. CASE Operate
    BY <1>10, TroubleKept DEF Operate, Scale, Keep
<1> QED BY <1>1, <1>2, <1>3, <1>4, <1>5, <1>6, <1>7, <1>8, <1>9, <1>10 DEF Serve

-----------------------------------------------------------------------------
(* One operation at a time: the steps of the process at work.                *)

\* What a step of the one at work leaves as it was.
LEMMA AtWork ==
    ASSUME TypeOK, Orderly, NEW p \in Process, pc[p] # "idle", NEW l \in PC, Goto(p, l),
           UNCHANGED others, skips' = {}, hold' = NoHold => hold = NoHold \/ l = "idle"
    PROVE  /\ Alone' /\ PassOK'
           /\ \A q \in Process \ {p} : StepOK(q)'
           /\ pc'[p] = l /\ op = "idle" /\ op' = "idle" /\ decided' = decided
<1> USE DEF Orderly
<1>1. /\ op = "idle" /\ daemon # "releasing" /\ pass # "correcting"
      /\ \A q \in Process \ {p} : pc[q] = "idle"
    BY DEF Alone, NobodyAtWork, TypeOK
<1>2. pc'[p] = l /\ \A q \in Process \ {p} : pc'[q] = "idle"
    BY <1>1 DEF Goto, TypeOK
<1>3. UNCHANGED <<daemon, pass, seen, aims, decided, op, asked>>
    BY DEF others, reconciler, operator
<1>4. Alone'
    BY <1>1, <1>2, <1>3 DEF Alone
<1>5. PassOK'
  <2>1. l = "idle" => NobodyAtWork'
      BY <1>2 DEF NobodyAtWork
  <2>2. ~NobodyAtWork
      BY DEF NobodyAtWork
  <2> QED BY <1>3, <2>1, <2>2 DEF PassOK
<1>6. \A q \in Process \ {p} : StepOK(q)'
    BY <1>2 DEF StepOK, Held, Stopped
<1> QED BY <1>1, <1>2, <1>3, <1>4, <1>5, <1>6

\* A step of the one at work keeps the order.
LEMMA OrderOfStep ==
    ASSUME TypeOK, OneAtATime => Orderly, OneAtATime', NEW p \in Process, Step(p)
    PROVE  Orderly'
<1> USE DEF swarm
<1>0. Orderly /\ skips = {} /\ StepOK(p) /\ HoldOK
  <2>1. OneAtATime
      BY TroubleKept DEF Step, Check, CountReplicas, Hold, ScaleDown, AwaitStopped, Work,
             BackUpFirst, Write, ReadHolds, ScaleUp, Release
  <2> QED BY <2>1 DEF Orderly, Alone, StepsOK
<1>a. ~Met("failed")
    BY TroubleKept
<1>1. CASE Check(p)
  <2>1. pc[p] = "checking" /\ UNCHANGED <<swarm, hold, count, gives, skips, others>>
      BY <1>1 DEF Check
  <2>2. PICK l \in {"idle", "counting", "noting"} :
           Goto(p, l) /\ (l = "noting" => Job[p] # "copy")
      BY <1>1 DEF Check
  <2>3. Alone' /\ PassOK' /\ (\A q \in Process \ {p} : StepOK(q)') /\ pc'[p] = l
        /\ op' = op /\ decided' = decided /\ asked' = asked
      BY <1>0, <2>1, <2>2, AtWork DEF PC, others, operator
  <2>4. HoldOK'
      BY <1>0, <2>1, <2>3 DEF HoldOK
  <2>5. StepOK(p)'
      BY <1>0, <2>1, <2>2, <2>3, HoldsAssumption DEF StepOK, Held, Stopped
  <2> QED BY <2>3, <2>4, <2>5 DEF Orderly, StepsOK
<1>2. CASE CountReplicas(p)
  <2>1. /\ pc[p] = "counting" /\ UNCHANGED <<swarm, hold, gives, skips, others>>
        /\ count' = [count EXCEPT ![p] = desired]
        /\ Goto(p, IF Job[p] = "restore" THEN "checking" ELSE "holding")
      BY <1>2, <1>a DEF CountReplicas
  <2>2. Alone' /\ PassOK' /\ (\A q \in Process \ {p} : StepOK(q)')
        /\ pc'[p] = (IF Job[p] = "restore" THEN "checking" ELSE "holding")
        /\ op' = op /\ decided' = decided /\ asked' = asked
      BY <1>0, <2>1, AtWork DEF PC, others, operator
  <2>3. HoldOK'
      BY <1>0, <2>1, <2>2 DEF HoldOK
  <2>4. count'[p] = desired
      BY <2>1 DEF TypeOK
  <2>5. StepOK(p)'
      BY <2>1, <2>2, <2>4 DEF StepOK, Held, Stopped
  <2> QED BY <2>2, <2>3, <2>5 DEF Orderly, StepsOK
<1>3. CASE Hold(p)
  <2>1. /\ pc[p] \in {"noting", "holding"} /\ UNCHANGED <<swarm, count, gives, skips, others>>
        /\ hold' = HeldAfter(p)
        /\ Goto(p, IF pc[p] = "noting" THEN "holding" ELSE "scaling")
      BY <1>3 DEF Hold
  <2>2. hold' # NoHold
      BY <2>1 DEF HeldAfter, NoHold
  <2>3. Alone' /\ PassOK' /\ (\A q \in Process \ {p} : StepOK(q)')
        /\ pc'[p] = (IF pc[p] = "noting" THEN "holding" ELSE "scaling")
        /\ op = "idle" /\ op' = op /\ decided' = decided /\ asked' = asked
      BY <1>0, <2>1, <2>2, AtWork DEF PC, others, operator
  <2>4. Larger(hold.count, count[p]) = decided /\ desired \in {0, decided}
    <3>1. hold.count \in Nat /\ count[p] \in Nat /\ decided \in Nat
        BY HoldsAssumption DEF TypeOK
    <3>2. count[p] = desired
        BY <1>0, <2>1 DEF StepOK
    <3>3. CASE hold = NoHold
        BY <1>0, <2>3, <3>1, <3>2, <3>3 DEF HoldOK, NoHold, Larger
    <3>4. CASE hold # NoHold
        BY <1>0, <3>1, <3>2, <3>4 DEF HoldOK, Larger
    <3> QED BY <3>3, <3>4
  <2>5. hold' = [why |-> Job[p], live |-> TRUE, count |-> decided]
      BY <2>1, <2>4 DEF HeldAfter
  <2>6. HoldOK'
      BY <2>1, <2>2, <2>3, <2>4, <2>5 DEF HoldOK
  <2>7. StepOK(p)'
      BY <1>0, <2>1, <2>3, <2>5 DEF StepOK, Held, Stopped
  <2> QED BY <2>3, <2>6, <2>7 DEF Orderly, StepsOK
<1>4. CASE ScaleDown(p)
  <2>1. /\ pc[p] = "scaling" /\ UNCHANGED <<up, hold, count, gives, skips, others>>
        /\ desired' = (IF count[p] > 0 THEN 0 ELSE desired)
        /\ Goto(p, "waiting")
      BY <1>4, <1>a DEF ScaleDown
  <2>2. Alone' /\ PassOK' /\ (\A q \in Process \ {p} : StepOK(q)')
        /\ pc'[p] = "waiting" /\ op = "idle" /\ op' = op /\ decided' = decided
      BY <1>0, <2>1, AtWork DEF PC, others, operator
  <2>3. hold = [why |-> Job[p], live |-> TRUE, count |-> decided] /\ count[p] = desired
      BY <1>0, <2>1 DEF StepOK, Held
  <2>4. hold # NoHold
      BY <2>3 DEF NoHold
  <2>5. desired' = 0 /\ count[p] \in {0, decided}
      BY <1>0, <2>1, <2>3, <2>4, HoldsAssumption DEF HoldOK, TypeOK
  <2>6. HoldOK'
      BY <1>0, <2>1, <2>2, <2>4, <2>5 DEF HoldOK
  <2>7. StepOK(p)'
      BY <2>1, <2>2, <2>3, <2>5 DEF StepOK, Held, Stopped
  <2> QED BY <2>2, <2>6, <2>7 DEF Orderly, StepsOK
<1>5. CASE AwaitStopped(p)
  <2>1. pc[p] = "waiting" /\ UNCHANGED <<swarm, hold, count, gives, skips, others>>
      BY <1>5 DEF AwaitStopped
  <2>2. desired = 0
      BY <1>0, <2>1 DEF StepOK, Stopped
  <2>3. ~up /\ Goto(p, "working")
      BY <1>5, <1>a, <2>2 DEF AwaitStopped
  <2>4. Alone' /\ PassOK' /\ (\A q \in Process \ {p} : StepOK(q)')
        /\ pc'[p] = "working" /\ op' = op /\ decided' = decided /\ asked' = asked
      BY <1>0, <2>1, <2>3, AtWork DEF PC, others, operator
  <2>5. HoldOK'
      BY <1>0, <2>1, <2>4 DEF HoldOK
  <2>6. StepOK(p)'
      BY <1>0, <2>1, <2>3, <2>4 DEF StepOK, Held, Stopped
  <2> QED BY <2>4, <2>5, <2>6 DEF Orderly, StepsOK
<1>6. CASE Work(p) \/ BackUpFirst(p)
  <2>1. pc[p] = "working" /\ UNCHANGED <<swarm, hold, count, gives, skips, others>>
      BY <1>6 DEF Work, BackUpFirst
  <2>2. PICK l \in {"giving", "writing"} :
           Goto(p, l) /\ (l = "writing" => Job[p] = "restore")
      BY <1>6, <1>a DEF Work, BackUpFirst
  <2>3. Alone' /\ PassOK' /\ (\A q \in Process \ {p} : StepOK(q)')
        /\ pc'[p] = l /\ op' = op /\ decided' = decided /\ asked' = asked
      BY <1>0, <2>1, <2>2, AtWork DEF PC, others, operator
  <2>4. HoldOK'
      BY <1>0, <2>1, <2>3 DEF HoldOK
  <2>5. StepOK(p)'
      BY <1>0, <2>1, <2>2, <2>3 DEF StepOK, Held, Stopped
  <2> QED BY <2>3, <2>4, <2>5 DEF Orderly, StepsOK
<1>7. CASE Write(p)
  <2>1. /\ pc[p] = "writing" /\ UNCHANGED <<swarm, hold, count, gives, others>>
        /\ skips' = {}
      BY <1>0, <1>7 DEF Write
  <2>2. PICK l \in {"giving", "idle"} : Goto(p, l)
      BY <1>7 DEF Write
  <2>3. Alone' /\ PassOK' /\ (\A q \in Process \ {p} : StepOK(q)')
        /\ pc'[p] = l /\ op' = op /\ decided' = decided /\ asked' = asked
      BY <1>0, <2>1, <2>2, AtWork DEF PC, others, operator
  <2>4. HoldOK'
      BY <1>0, <2>1, <2>3 DEF HoldOK
  <2>5. StepOK(p)'
      BY <1>0, <2>1, <2>2, <2>3 DEF StepOK, Held, Stopped
  <2> QED BY <2>3, <2>4, <2>5 DEF Orderly, StepsOK
<1>8. CASE ReadHolds(p)
  <2>1. /\ pc[p] = "giving" /\ UNCHANGED <<swarm, hold, count, others>>
        /\ skips' = {} /\ Goto(p, "starting")
        /\ gives' = [gives EXCEPT ![p] = Gives(p)]
      BY <1>0, <1>8 DEF ReadHolds
  <2>2. Alone' /\ PassOK' /\ (\A q \in Process \ {p} : StepOK(q)')
        /\ pc'[p] = "starting" /\ op' = op /\ decided' = decided /\ asked' = asked
      BY <1>0, <2>1, AtWork DEF PC, others, operator
  <2>3. /\ hold = [why |-> Job[p], live |-> TRUE, count |-> decided]
        /\ count[p] \in {0, decided}
      BY <1>0, <2>1 DEF StepOK, Held, Stopped
  <2>4. gives'[p] = decided
    <3>1. decided \in Nat /\ hold.count = decided
        BY <2>3, HoldsAssumption DEF TypeOK
    <3>2. Gives(p) = decided
        BY <2>3, <3>1, LargerIs DEF Gives, Larger
    <3> QED BY <2>1, <3>2 DEF TypeOK
  <2>5. HoldOK'
      BY <1>0, <2>1, <2>2 DEF HoldOK
  <2>6. StepOK(p)'
      BY <1>0, <2>1, <2>2, <2>4 DEF StepOK, Held, Stopped
  <2> QED BY <2>2, <2>5, <2>6 DEF Orderly, StepsOK
<1>9. CASE ScaleUp(p)
  <2>1. /\ pc[p] = "starting" /\ UNCHANGED <<up, hold, count, gives, skips, others>>
        /\ desired' = (IF gives[p] > 0 THEN gives[p] ELSE desired)
        /\ Goto(p, "releasing")
      BY <1>9, <1>a DEF ScaleUp
  <2>2. Alone' /\ PassOK' /\ (\A q \in Process \ {p} : StepOK(q)')
        /\ pc'[p] = "releasing" /\ op = "idle" /\ op' = op /\ decided' = decided
      BY <1>0, <2>1, AtWork DEF PC, others, operator
  <2>3. /\ hold = [why |-> Job[p], live |-> TRUE, count |-> decided]
        /\ gives[p] = decided /\ desired = 0
      BY <1>0, <2>1 DEF StepOK, Held, Stopped
  <2>4. hold # NoHold
      BY <2>3 DEF NoHold
  <2>5. desired' = decided
      BY <2>1, <2>3, HoldsAssumption DEF TypeOK
  <2>6. HoldOK'
      BY <1>0, <2>1, <2>2, <2>4, <2>5 DEF HoldOK
  <2>7. StepOK(p)'
      BY <2>1, <2>2, <2>3, <2>5 DEF StepOK, Held, Stopped
  <2> QED BY <2>2, <2>6, <2>7 DEF Orderly, StepsOK
<1>10. CASE Release(p)
  <2>1. /\ pc[p] = "releasing" /\ UNCHANGED <<swarm, count, gives, skips, others>>
        /\ hold' = NoHold /\ Goto(p, "idle")
      BY <1>10 DEF Release
  <2>2. Alone' /\ PassOK' /\ (\A q \in Process \ {p} : StepOK(q)')
        /\ pc'[p] = "idle" /\ op = "idle" /\ op' = op /\ decided' = decided
      BY <1>0, <2>1, AtWork DEF PC, others, operator
  <2>3. HoldOK'
      BY <1>0, <2>1, <2>2 DEF HoldOK, StepOK
  <2>4. StepOK(p)'
      BY <2>2 DEF StepOK, Held, Stopped
  <2> QED BY <2>2, <2>3, <2>4 DEF Orderly, StepsOK
<1> QED BY <1>1, <1>2, <1>3, <1>4, <1>5, <1>6, <1>7, <1>8, <1>9, <1>10 DEF Step

-----------------------------------------------------------------------------
(* One operation at a time: every other step.                                *)

\* Nothing under way starts orderly.
LEMMA OrderInit == Init => Orderly /\ HalfOK
<1> SUFFICES ASSUME Init PROVE Orderly /\ HalfOK
    OBVIOUS
<1>1. \A p \in Process : pc[p] = "idle"
    BY DEF Init
<1>2. Alone /\ HoldOK /\ PassOK
    BY <1>1 DEF Init, Alone, HoldOK, PassOK, NobodyAtWork
<1>3. StepsOK
    BY <1>1 DEF StepsOK, StepOK, Held, Stopped
<1> QED BY <1>2, <1>3 DEF Init, Orderly, HalfOK

\* A process begins when nothing is under way.
LEMMA OrderOfBegin ==
    ASSUME TypeOK, Orderly, OneAtATime', NEW p \in Process, Begin(p)
    PROVE  Orderly'
<1> USE DEF Orderly
<1>1. /\ UNCHANGED <<desired, up, hold, count, gives, skips, decided, op, asked>>
      /\ UNCHANGED <<daemon, pass, seen, aims>>
      /\ Goto(p, IF Job[p] = "copy" THEN "checking" ELSE "counting")
    BY DEF Begin, swarm, others, reconciler, operator
<1>2. Calm
    BY TroubleKept DEF Begin
<1>3. /\ daemon = "up" /\ pass = "idle" /\ op = "idle"
      /\ \A q \in Process : pc[q] = "idle"
    BY <1>2 DEF Calm, NobodyAtWork
<1>4. /\ pc'[p] = (IF Job[p] = "copy" THEN "checking" ELSE "counting")
      /\ \A q \in Process \ {p} : pc'[q] = "idle"
    BY <1>1, <1>3 DEF Goto, TypeOK
<1>5. Alone'
    BY <1>1, <1>3, <1>4 DEF Alone
<1>6. HoldOK' /\ PassOK'
    BY <1>1, <1>3 DEF HoldOK, PassOK
<1>7. \A q \in Process : StepOK(q)'
    BY <1>1, <1>4 DEF StepOK, Held, Stopped
<1> QED BY <1>5, <1>6, <1>7 DEF StepsOK

\* What dies leaves its hold and what Swarm was asked for; the others stay as they were.
LEMMA OrderOfDeath ==
    ASSUME TypeOK, Orderly, NEW ps \in SUBSET Process, Killed(ps),
           UNCHANGED <<seen, aims>>,
           \/ UNCHANGED <<daemon, pass>>
           \/ daemon' = "down" /\ pass' = "idle"
    PROVE  Orderly'
<1> USE DEF Orderly
<1>1. UNCHANGED <<desired, up, hold, count, gives, decided, op, asked>> /\ skips' = {}
    BY DEF Killed, swarm, operator, Alone
<1>2. \A q \in Process : pc'[q] = pc[q] \/ pc'[q] = "idle"
    BY DEF Killed
<1>3. NobodyAtWork => NobodyAtWork'
    BY <1>2 DEF NobodyAtWork
<1>4. Alone'
  <2>1. \A p, q \in Process : pc'[p] # "idle" /\ pc'[q] # "idle" => p = q
      BY <1>2 DEF Alone
  <2> QED BY <1>1, <1>3, <2>1 DEF Alone
<1>5. HoldOK' /\ PassOK'
    BY <1>1, <1>3 DEF HoldOK, PassOK
<1>6. ASSUME NEW q \in Process PROVE StepOK(q)'
  <2>1. CASE pc'[q] = "idle"
      BY <2>1 DEF StepOK, Held, Stopped
  <2>2. CASE pc'[q] = pc[q]
      BY <1>1, <2>2 DEF StepsOK, StepOK
  <2> QED BY <1>2, <2>1, <2>2
<1> QED BY <1>4, <1>5, <1>6 DEF StepsOK

\* The daemon's start gives back the count the copy it did not finish held.
LEMMA OrderOfServe ==
    ASSUME TypeOK, Orderly, OneAtATime', Serve
    PROVE  Orderly'
<1> USE DEF Orderly
<1>1. CASE ReleaseInterrupted
  <2>1. /\ daemon = "releasing" /\ daemon' = "up" /\ hold' = NoHold
        /\ UNCHANGED <<desired, up, pc, count, gives, skips, pass, seen, aims>>
        /\ UNCHANGED <<decided, op, asked>>
      BY <1>1 DEF ReleaseInterrupted, swarm, worker, reconciler, operator
  <2>2. NobodyAtWork /\ desired = decided /\ op = "idle" /\ pass = "idle"
      BY <2>1 DEF Alone, TypeOK
  <2>3. NobodyAtWork'
      BY <2>1, <2>2 DEF NobodyAtWork
  <2>4. Alone' /\ HoldOK' /\ PassOK'
      BY <2>1, <2>2, <2>3 DEF Alone, HoldOK, PassOK
  <2>5. StepsOK'
      BY <2>3 DEF NobodyAtWork, StepsOK, StepOK, Held, Stopped
  <2> QED BY <2>4, <2>5
<1>2. CASE StartDaemon /\ Interrupted
  <2>1. /\ daemon = "down" /\ daemon' = "releasing" /\ desired' = Started
        /\ NobodyAtWork
        /\ UNCHANGED <<up, hold, pc, count, gives, skips, pass, seen, aims>>
        /\ UNCHANGED <<decided, op, asked>>
      BY <1>2, TroubleKept DEF StartDaemon, worker, reconciler, operator
  <2>2. hold.why = "copy" /\ hold # NoHold
      BY <1>2 DEF Interrupted, NoHold
  <2>3. op = "idle" /\ pass = "idle" /\ hold.count = decided /\ desired \in {0, decided}
      BY <2>1, <2>2 DEF Alone, HoldOK
  <2>4. desired' = decided
      BY <2>1, <2>3, HoldsAssumption DEF Started, TypeOK
  <2>5. NobodyAtWork'
      BY <2>1 DEF NobodyAtWork
  <2>6. Alone' /\ HoldOK' /\ PassOK'
      BY <2>1, <2>2, <2>3, <2>4, <2>5 DEF Alone, HoldOK, PassOK
  <2>7. StepsOK'
      BY <2>5 DEF NobodyAtWork, StepsOK, StepOK, Held, Stopped
  <2> QED BY <2>6, <2>7
<1>3. CASE StartDaemon /\ ~Interrupted
  <2>1. /\ daemon = "down" /\ daemon' = "up"
        /\ UNCHANGED <<desired, up, hold, pc, count, gives, skips, pass, seen, aims>>
        /\ UNCHANGED <<decided, op, asked>>
      BY <1>3 DEF StartDaemon, worker, reconciler, operator
  <2>2. NobodyAtWork' = NobodyAtWork
      BY <2>1 DEF NobodyAtWork
  <2>3. Alone'
      BY <2>1, <2>2 DEF Alone
  <2>4. HoldOK' /\ PassOK' /\ StepsOK'
      BY <2>1, <2>2 DEF HoldOK, PassOK, StepsOK, StepOK
  <2> QED BY <2>3, <2>4
<1> QED BY <1>1, <1>2, <1>3 DEF Serve

\* Reconciliation corrects only what nobody holds and nobody works on.
LEMMA OrderOfReconcile ==
    ASSUME TypeOK, Orderly, OneAtATime', Reconcile
    PROVE  Orderly'
<1> USE DEF Orderly
<1>1. /\ UNCHANGED <<up, hold, pc, count, gives, skips, daemon>>
      /\ UNCHANGED <<decided, op, asked>>
    BY DEF Reconcile, Observe, Look, Judge, Correct, swarm, worker, operator
<1>2. NobodyAtWork' = NobodyAtWork
    BY <1>1 DEF NobodyAtWork
<1>3. CASE Observe
  <2>1. /\ daemon = "up" /\ op = "idle" /\ pass' = "looking" /\ seen' = desired
        /\ desired' = desired
      BY <1>3, TroubleKept DEF Observe, swarm
  <2>2. Alone' /\ HoldOK' /\ PassOK'
      BY <1>1, <1>2, <2>1 DEF Alone, HoldOK, PassOK
  <2>3. StepsOK'
      BY <1>1, <2>1 DEF StepsOK, StepOK
  <2> QED BY <2>2, <2>3
<1>4. CASE Look
  <2>1. /\ pass = "looking" /\ pass' = "judging" /\ aims' = decided
        /\ seen' = seen /\ desired' = desired
      BY <1>4 DEF Look, swarm
  <2>2. Alone' /\ HoldOK' /\ PassOK'
      BY <1>1, <1>2, <2>1 DEF Alone, HoldOK, PassOK
  <2>3. StepsOK'
      BY <1>1, <2>1 DEF StepsOK, StepOK
  <2> QED BY <2>2, <2>3
<1>5. CASE Judge
  <2>1. /\ pass = "judging" /\ pass' = (IF Diverged THEN "correcting" ELSE "idle")
        /\ seen' = seen /\ aims' = aims /\ desired' = desired
      BY <1>5 DEF Judge, swarm
  <2>2. aims = decided
      BY <2>1 DEF PassOK
  <2>3. pass' = "correcting" => hold = NoHold /\ NobodyAtWork
      BY <2>1, <2>2 DEF Diverged, HoldOK, PassOK
  <2>4. Alone' /\ HoldOK' /\ PassOK'
      BY <1>1, <1>2, <2>1, <2>2, <2>3 DEF Alone, HoldOK, PassOK
  <2>5. StepsOK'
      BY <1>1, <2>1 DEF StepsOK, StepOK
  <2> QED BY <2>4, <2>5
<1>6. CASE Correct
  <2>1. /\ pass = "correcting" /\ pass' = "idle" /\ desired' = aims
        /\ seen' = seen /\ aims' = aims
      BY <1>6, TroubleKept DEF Correct
  <2>2. NobodyAtWork /\ hold = NoHold /\ aims = decided /\ op = "idle"
      BY <2>1 DEF Alone, PassOK
  <2>3. Alone' /\ HoldOK' /\ PassOK'
      BY <1>1, <1>2, <2>1, <2>2 DEF Alone, HoldOK, PassOK
  <2>4. StepsOK'
      BY <1>2, <2>2 DEF NobodyAtWork, StepsOK, StepOK, Held, Stopped
  <2> QED BY <2>3, <2>4
<1> QED BY <1>3, <1>4, <1>5, <1>6 DEF Reconcile

\* The operator decides while nothing is held and nobody works.
LEMMA OrderOfOperator ==
    ASSUME TypeOK, Orderly, OneAtATime', Operate \/ \E n \in 0 .. MaxReplicas : Ask(n)
    PROVE  Orderly'
<1> USE DEF Orderly
<1>1. /\ UNCHANGED <<up, hold, pc, count, gives, skips, daemon, pass, seen, aims>>
    BY DEF Operate, Ask, Scale, Keep, swarm, worker, reconciler
<1>2. /\ NobodyAtWork /\ hold = NoHold /\ pass = "idle" /\ daemon # "releasing"
  <2>1. CASE Operate
      BY <2>1 DEF Operate, Scale, Keep, Alone
  <2>2. ASSUME NEW n \in 0 .. MaxReplicas, Ask(n) PROVE Calm /\ hold = NoHold
      BY <2>2, TroubleKept DEF Ask
  <2> QED BY <2>1, <2>2 DEF Calm
<1>3. NobodyAtWork'
    BY <1>1, <1>2 DEF NobodyAtWork
<1>4. HoldOK'
  <2>1. CASE Scale
    <3>1. desired' = asked /\ op' = "keeping" /\ asked' = asked
        BY <2>1, TroubleKept DEF Scale
    <3> QED BY <1>1, <1>2, <3>1 DEF HoldOK
  <2>2. CASE Keep
    <3>1. op = "keeping" /\ decided' = asked /\ desired' = desired /\ op' = "idle"
        BY <2>2, TroubleKept DEF Keep, swarm
    <3> QED BY <1>1, <1>2, <3>1 DEF HoldOK
  <2>3. ASSUME NEW n \in 0 .. MaxReplicas, Ask(n) PROVE HoldOK'
    <3>1. op = "idle" /\ op' = "scaling" /\ UNCHANGED <<desired, decided>>
        BY <2>3 DEF Ask, swarm
    <3> QED BY <1>1, <1>2, <3>1 DEF HoldOK
  <2> QED BY <2>1, <2>2, <2>3 DEF Operate
<1>5. Alone' /\ PassOK'
    BY <1>1, <1>2, <1>3 DEF Alone, PassOK, NobodyAtWork
<1>6. StepsOK'
    BY <1>3 DEF NobodyAtWork, StepsOK, StepOK, Held, Stopped
<1> QED BY <1>4, <1>5, <1>6

\* Swarm following its instruction starts nothing that is stopped.
LEMMA OrderOfConverge ==
    ASSUME TypeOK, Orderly, Converge
    PROVE  Orderly'
<1> USE DEF Orderly
<1>1. /\ UNCHANGED <<desired, hold, pc, count, gives, skips, daemon, pass, seen, aims>>
      /\ UNCHANGED <<decided, op, asked>> /\ up' = (desired > 0)
    BY DEF Converge, worker, others, reconciler, operator
<1>2. NobodyAtWork' = NobodyAtWork
    BY <1>1 DEF NobodyAtWork
<1>3. Alone' /\ HoldOK' /\ PassOK'
    BY <1>1, <1>2 DEF Alone, HoldOK, PassOK
<1>4. desired = 0 => ~up'
  <2>1. desired = 0 => ~(desired > 0)
      OBVIOUS
  <2> QED BY <1>1, <2>1, Zenon
<1>5. StepsOK'
    BY <1>1, <1>4 DEF StepsOK, StepOK, Held, Stopped
<1> QED BY <1>3, <1>5

-----------------------------------------------------------------------------
(* A volume between two states.                                              *)

\* The one restore at work is the only one to write; a copy is refused.
LEMMA HalfOfStep ==
    ASSUME TypeOK, Orderly, HalfOK, trouble' = {}, NEW p \in Process, Step(p)
    PROVE  HalfOK'
<1> USE DEF swarm, Goto
<1>0. /\ StepOK(p) /\ ~Met("failed") /\ ~Met("refused") /\ pc \in [Process -> PC]
      /\ HoldOK /\ hold \in [why : {"none", "copy", "restore", "encryption"},
                             live : BOOLEAN, count : 0 .. MaxReplicas]
    BY TroubleKept DEF Orderly, StepsOK, TypeOK
<1>a. pc[p] # "idle" /\ \A q \in Process \ {p} : pc[q] = "idle"
    BY DEF Step, Check, CountReplicas, Hold, ScaleDown, AwaitStopped, Work, BackUpFirst,
           Write, ReadHolds, ScaleUp, Release, Orderly, Alone
<1>1. CASE BackUpFirst(p)
  <2>1. /\ pc[p] = "working" /\ Job[p] = "restore" /\ UNCHANGED <<desired, up, hold>>
        /\ pc' = [pc EXCEPT ![p] = "writing"]
      BY <1>0, <1>1 DEF BackUpFirst
  <2>2. desired = 0 /\ ~up /\ hold.why = "restore"
      BY <1>0, <2>1 DEF StepOK, Held, Stopped
  <2> QED BY <1>0, <1>a, <2>1, <2>2 DEF HalfOK
<1>2. CASE Write(p)
  <2>1. /\ pc[p] = "writing" /\ UNCHANGED <<desired, up, hold>>
        /\ half' => pc' = [pc EXCEPT ![p] = "idle"]
      BY <1>2 DEF Write
  <2>2. desired = 0 /\ ~up /\ hold.why = "restore"
      BY <1>0, <2>1 DEF StepOK, Held, Stopped
  <2> QED BY <1>0, <1>a, <2>1, <2>2 DEF HalfOK
<1>3. CASE ~BackUpFirst(p) /\ ~Write(p)
  <2>1. half' = half
      BY <1>3 DEF Step, Check, CountReplicas, Hold, ScaleDown, AwaitStopped, Work,
             ReadHolds, ScaleUp, Release
  <2> SUFFICES ASSUME half PROVE HalfOK'
      BY <2>1 DEF HalfOK
  <2>2. /\ desired = 0 /\ ~up /\ hold.why = "restore"
        /\ \/ Job[p] = "restore" /\ pc[p] \notin {"giving", "starting", "releasing"}
           \/ Job[p] = "copy" /\ pc[p] = "checking"
      BY <1>a DEF HalfOK
  <2>3. hold # NoHold /\ hold.live
      BY <1>0, <2>2 DEF HoldOK, NoHold
  <2>4. CASE Check(p)
    <3>1. UNCHANGED <<desired, up, hold>>
        BY <2>4 DEF Check
    <3>2. CASE Job[p] = "copy"
      <4>1. pc' = [pc EXCEPT ![p] = "idle"]
          BY <2>2, <2>3, <2>4, <3>2 DEF Check, Blocked
      <4> QED BY <1>0, <1>a, <2>2, <3>1, <4>1 DEF HalfOK
    <3>3. CASE Job[p] = "restore"
      <4>1. pc' = [pc EXCEPT ![p] = "noting"]
          BY <2>2, <2>3, <2>4, <3>3 DEF Check, Blocked
      <4> QED BY <1>0, <1>a, <2>2, <3>1, <3>3, <4>1 DEF HalfOK
    <3> QED BY <2>2, <3>2, <3>3
  <2>5. CASE CountReplicas(p) \/ AwaitStopped(p)
    <3>1. UNCHANGED <<desired, up, hold>> /\ Job[p] = "restore"
        BY <2>2, <2>5 DEF CountReplicas, AwaitStopped
    <3>2. PICK l \in {"checking", "working"} : pc' = [pc EXCEPT ![p] = l]
        BY <1>0, <2>2, <2>5, <3>1 DEF CountReplicas, AwaitStopped
    <3> QED BY <1>0, <1>a, <2>2, <3>1, <3>2 DEF HalfOK
  <2>6. CASE Hold(p)
    <3>1. UNCHANGED <<desired, up>> /\ Job[p] = "restore" /\ hold' = HeldAfter(p)
        BY <2>2, <2>6 DEF Hold
    <3>2. PICK l \in {"holding", "scaling"} : pc' = [pc EXCEPT ![p] = l]
        BY <2>6 DEF Hold
    <3> QED BY <1>0, <1>a, <2>2, <3>1, <3>2 DEF HalfOK, HeldAfter
  <2>7. CASE ScaleDown(p)
    <3>1. UNCHANGED <<up, hold>> /\ desired' = 0 /\ Job[p] = "restore"
        BY <1>0, <2>2, <2>7 DEF ScaleDown
    <3>2. pc' = [pc EXCEPT ![p] = "waiting"]
        BY <1>0, <2>7 DEF ScaleDown
    <3> QED BY <1>0, <1>a, <2>2, <3>1, <3>2 DEF HalfOK
  <2>8. ~(Work(p) \/ ReadHolds(p) \/ ScaleUp(p) \/ Release(p))
      BY <2>2 DEF Work, ReadHolds, ScaleUp, Release
  <2> QED BY <1>3, <2>4, <2>5, <2>6, <2>7, <2>8 DEF Step
<1> QED BY <1>1, <1>2, <1>3

\* Nobody else asks anything of Swarm for a service held for a restore.
LEMMA HalfOfOthers ==
    ASSUME TypeOK, Orderly, HalfOK, trouble' = {},
           \/ \E p \in Process : Begin(p) \/ Kill(p)
           \/ KillDaemon \/ Serve \/ Reconcile \/ Converge \/ Lapse
           \/ (\E n \in 0 .. MaxReplicas : Ask(n)) \/ Operate
    PROVE  HalfOK'
<1>0. half' = half
    BY DEF Begin, Kill, Killed, KillDaemon, Serve, StartDaemon, ReleaseInterrupted,
           Reconcile, Observe, Look, Judge, Correct, Converge, Lapse, Ask, Operate,
           Scale, Keep
<1> SUFFICES ASSUME half PROVE HalfOK'
    BY <1>0 DEF HalfOK
<1> USE DEF HalfOK, swarm, worker, reconciler, operator, others
<1>a. /\ desired = 0 /\ ~up /\ hold.why = "restore"
      /\ hold # NoHold /\ op = "idle" /\ daemon # "releasing" /\ pass # "correcting"
    BY DEF Orderly, Alone, NoHold
<1>b. \A t : ~Met(t)
    BY TroubleKept
<1>1. ASSUME NEW p \in Process, Begin(p) PROVE HalfOK'
  <2>1. /\ Calm /\ Job[p] # "encryption" /\ UNCHANGED <<desired, up, hold>>
        /\ pc' = [pc EXCEPT ![p] = IF Job[p] = "copy" THEN "checking" ELSE "counting"]
      BY <1>1, <1>a, <1>b DEF Begin, Goto
  <2>2. \A q \in Process : pc[q] = "idle"
      BY <2>1 DEF Calm, NobodyAtWork
  <2>3. Job[p] \in {"copy", "restore"}
      BY <2>1, HoldsAssumption
  <2> QED BY <1>a, <2>1, <2>2, <2>3 DEF TypeOK
<1>2. ASSUME NEW p \in Process, Kill(p) PROVE HalfOK'
    BY <1>2, <1>a DEF Kill, Killed
<1>3. CASE KillDaemon
    BY <1>3, <1>a DEF KillDaemon, Killed
<1>4. CASE Serve
  <2>1. UNCHANGED <<desired, up, hold, pc>>
      BY <1>4, <1>a DEF Serve, StartDaemon, ReleaseInterrupted, Interrupted
  <2> QED BY <1>a, <2>1
<1>5. CASE Reconcile
  <2>1. UNCHANGED <<desired, up, hold, pc>>
      BY <1>5, <1>a DEF Reconcile, Observe, Look, Judge, Correct
  <2> QED BY <1>a, <2>1
<1>6. ~Converge
  <2>1. (desired > 0) = FALSE /\ up = FALSE
      BY <1>a DEF TypeOK
  <2> QED BY <2>1, Zenon DEF Converge
<1>7. ~Lapse
    BY <1>b DEF Lapse
<1>8. ASSUME NEW n \in 0 .. MaxReplicas, Ask(n) PROVE HalfOK'
    BY <1>8, <1>a, <1>b DEF Ask
<1>9. ~Operate
    BY <1>a DEF Operate, Scale, Keep
<1> QED BY <1>1, <1>2, <1>3, <1>4, <1>5, <1>6, <1>7, <1>8, <1>9

-----------------------------------------------------------------------------
\* Every step keeps the invariant.
LEMMA StepKeeps == IInv /\ [Next]_vars => IInv'
<1> SUFFICES ASSUME IInv, [Next]_vars PROVE IInv'
    OBVIOUS
<1> USE DEF IInv
<1>1. CASE UNCHANGED vars
  <2>1. TypeOK'
      BY <1>1 DEF vars, budget, TypeOK
  <2>2. OneAtATime' => Orderly'
      BY <1>1 DEF vars, OneAtATime, Orderly, Alone, HoldOK, PassOK, StepsOK, StepOK,
             NobodyAtWork
  <2>3. trouble' = {} => HalfOK'
      BY <1>1 DEF vars, HalfOK
  <2> QED BY <2>1, <2>2, <2>3
<1>2. ASSUME NEW p \in Process, Step(p) PROVE IInv'
  <2>1. TypeOK'
      BY <1>2, TypeOfStep
  <2>2. OneAtATime' => Orderly'
      BY <1>2, OrderOfStep
  <2>3. ASSUME trouble' = {} PROVE HalfOK'
    <3>1. trouble = {}
        BY <1>2, <2>3, TroubleKept DEF Step, Check, CountReplicas, Hold, ScaleDown,
               AwaitStopped, Work, BackUpFirst, Write, ReadHolds, ScaleUp, Release
    <3>2. Orderly /\ HalfOK
        BY <3>1 DEF OneAtATime
    <3> QED BY <1>2, <2>3, <3>2, HalfOfStep
  <2> QED BY <2>1, <2>2, <2>3
<1>3. ASSUME \/ \E p \in Process : Begin(p) \/ Kill(p)
             \/ KillDaemon \/ Serve \/ Reconcile \/ Converge \/ Lapse
             \/ (\E n \in 0 .. MaxReplicas : Ask(n)) \/ Operate
      PROVE  IInv'
  <2>1. TypeOK'
      BY <1>3, TypeOfOthers
  <2>2. Well \/ \E t : Met(t)
      BY <1>3 DEF Begin, Kill, Killed, KillDaemon, Serve, StartDaemon, ReleaseInterrupted,
             Reconcile, Observe, Look, Judge, Correct, Converge, Lapse, Ask, Operate,
             Scale, Keep
  <2>3. (OneAtATime' => OneAtATime) /\ (trouble' = {} => trouble = {})
      BY <2>2, TroubleKept
  <2>4. ASSUME OneAtATime' PROVE Orderly'
    <3>1. Orderly
        BY <2>3, <2>4
    <3>2. ASSUME NEW p \in Process, Begin(p) PROVE Orderly'
        BY <3>1, <3>2, <2>4, OrderOfBegin
    <3>3. ASSUME NEW p \in Process, Kill(p) PROVE Orderly'
        BY <3>1, <3>3, OrderOfDeath DEF Kill, reconciler
    <3>4. CASE KillDaemon
        BY <3>1, <3>4, OrderOfDeath, HoldsAssumption DEF KillDaemon
    <3>5. ~Lapse
        BY <2>4, TroubleKept DEF Lapse
    <3> QED BY <1>3, <2>4, <3>1, <3>2, <3>3, <3>4, <3>5, OrderOfServe, OrderOfReconcile,
               OrderOfOperator, OrderOfConverge
  <2>5. ASSUME trouble' = {} PROVE HalfOK'
    <3>1. Orderly /\ HalfOK
        BY <2>3, <2>5 DEF OneAtATime
    <3> QED BY <1>3, <2>5, <3>1, HalfOfOthers
  <2> QED BY <2>1, <2>4, <2>5
<1> QED BY <1>1, <1>2, <1>3 DEF Next

\* The invariant holds throughout.
LEMMA Always == Spec => []IInv
<1>1. Init => IInv
    BY TypeInit, OrderInit DEF IInv
<1> QED BY <1>1, StepKeeps, PTL DEF Spec

\* Every variable of the holds keeps its type, and no count above the largest one an
\* operator decided is asked of Swarm, held or given back: hold_services and start take
\* the larger of two counts, never their sum.
THEOREM HoldsTyped == Spec => []TypeOK
<1>1. IInv => TypeOK
    BY DEF IInv
<1> QED BY <1>1, Always, PTL

\* A pass takes no copy of a running service, whatever died before it, as long as
\* operations come one at a time.
THEOREM CopiesAreCold == Spec => []CopiedCold
<1>1. IInv => CopiedCold
    BY DEF IInv, CopiedCold, OneAtATime, Orderly, StepsOK, StepOK
<1> QED BY <1>1, Always, PTL

\* Nothing starts the service on a volume a restore left half written: a copy is refused,
\* restart_interrupted_copies and reconciliation pass a restore's hold by.
THEOREM HalfRestoredStaysDown == Spec => []HalfRestoredLeftAlone
<1>1. IInv => HalfRestoredLeftAlone
    BY DEF IInv, HalfRestoredLeftAlone, HalfOK
<1> QED BY <1>1, Always, PTL

\* start and restart_interrupted_copies give back the count decided, however many of those
\* that held the service died on the way: the hold's count outlives them.
THEOREM GivenBackWhole == Spec => []CountGivenBack
<1>1. IInv => CountGivenBack
    BY DEF IInv, CountGivenBack, OneAtATime, Orderly, HoldOK, Calm
<1> QED BY <1>1, Always, PTL
============================================================================
