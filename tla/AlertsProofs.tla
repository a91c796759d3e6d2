---------------------------- MODULE AlertsProofs ----------------------------
(***************************************************************************)
(* What the daemon takes as said was said, or is kept for the morning, for *)
(* any set of subjects and any number of failures, nights, mutes, refusals *)
(* and restarts.  SaidOrKept alone is not inductive: a release forgets the *)
(* row, so what the row names must have been told by then, and only the    *)
(* revision (SentIsRow, ReleasedWasTold) says that the row forgotten is    *)
(* the row that was sent.                                                  *)
(***************************************************************************)
EXTENDS Alerts, TLAPS

\* A rule not said names nobody, and no data names nobody: hence a notification that
\* does not know (level unknown) never replaces a row that names someone.
NobodyUnnamed ==
    /\ said.level = "none" => said.subjects = {}
    /\ tick.level # "triggered" => tick.subjects = {}

\* A delivery under way read the row as it is, or an older revision of it.
SentIsRow ==
    flush.pc # "idle" =>
        /\ flush.row.revision <= row.revision
        /\ flush.row.revision = row.revision => flush.row = row

\* A row about to be forgotten leaves nobody untold.
ReleasedWasTold ==
    flush.pc = "releasing" /\ flush.row.revision = row.revision =>
        said.subjects \subseteq told \cup hushed

IInv == TypeOK /\ NobodyUnnamed /\ SentIsRow /\ ReleasedWasTold /\ SaidOrKept

\* The names of the levels and their order.
LEMMA Levels ==
    /\ LevelName = {"none", "unknown", "triggered"}
    /\ Rank["none"] = 0 /\ Rank["unknown"] = 1 /\ Rank["triggered"] = 2
BY DEF LevelName, Rank

\* The initial records have their types.
LEMMA Blank ==
    /\ Unsaid \in [level : LevelName, subjects : SUBSET Subject]
    /\ Unsaid.level = "none" /\ Unsaid.subjects = {}
    /\ NoRow \in Rows /\ NoRow.revision = 0 /\ NoRow.names = {}
    /\ TickIdle \in [pc : {"idle", "measuring", "judging"}, muted : BOOLEAN,
                     quiet : BOOLEAN, level : LevelName, subjects : SUBSET Subject]
    /\ TickIdle.level = "none" /\ TickIdle.subjects = {}
    /\ FlushIdle \in [pc : {"idle", "sending", "releasing"}, quiet : BOOLEAN, row : Rows]
    /\ FlushIdle.pc = "idle"
BY Levels DEF Unsaid, NoRow, TickIdle, FlushIdle, Rows

\* The initial states satisfy the invariant.
LEMMA InitOK == Init => IInv
<1> SUFFICES ASSUME Init PROVE IInv
    OBVIOUS
<1>1. TypeOK
    BY Blank DEF Init, TypeOK
<1>2. NobodyUnnamed /\ SentIsRow /\ ReleasedWasTold /\ SaidOrKept
    BY Blank DEF Init, NobodyUnnamed, SentIsRow, ReleasedWasTold, SaidOrKept
<1> QED BY <1>1, <1>2 DEF IInv

\* What a notification said makes of the rule: it names at least its own subjects, and
\* those said before are among them only when no row could name them.
LEMMA SaidAsNames ==
    ASSUME TypeOK, NobodyUnnamed, SaysNow
    PROVE  /\ SaidAs \in [level : LevelName, subjects : SUBSET Subject]
           /\ SaidAs.level # "none" /\ SaidAs.subjects = tick.subjects
<1>1. /\ said.level \in LevelName /\ said.subjects \subseteq Subject
      /\ tick.level \in LevelName \ {"none"} /\ tick.subjects \subseteq Subject
    BY DEF SaysNow, TypeOK
<1>2. tick.level # "triggered" => tick.level = "unknown" /\ said.level = "none"
    BY <1>1, Levels DEF SaysNow, News, NobodyUnnamed
<1>3. SaidAs.subjects = tick.subjects
    BY <1>1, <1>2 DEF SaidAs, NobodyUnnamed
<1>4. SaidAs.level \in LevelName \ {"none"}
    BY <1>1, Levels DEF SaidAs
<1> QED
    BY <1>1, <1>3, <1>4 DEF SaidAs

\* The evaluation, when it says nothing, adds to what it takes as said only what a
\* mute hushed.
LEMMA QuietStep == IInv /\ JudgeQuietly => IInv'
<1> SUFFICES ASSUME IInv, JudgeQuietly PROVE IInv'
    OBVIOUS
<1> USE DEF IInv
<1>1. /\ said' \in [level : LevelName, subjects : SUBSET Subject]
      /\ said'.level = "none" => said'.subjects = {}
      /\ \/ said'.subjects \subseteq said.subjects
         \/ said'.subjects = tick.subjects
  <2>1. CASE tick.level = "none"
      BY <2>1, Blank DEF JudgeQuietly
  <2>2. CASE tick.level = "triggered" /\ said # Unsaid
    <3>1. said' = [said EXCEPT !.subjects = tick.subjects]
        BY <2>2 DEF JudgeQuietly
    <3>2. said.level # "none"
        BY <2>2 DEF NobodyUnnamed, Unsaid, TypeOK
    <3> QED BY <3>1, <3>2 DEF TypeOK
  <2>3. CASE ~(tick.level = "none") /\ ~(tick.level = "triggered" /\ said # Unsaid)
      BY <2>3 DEF JudgeQuietly, TypeOK, NobodyUnnamed
  <2> QED BY <2>1, <2>2, <2>3
<1>2. said'.subjects \subseteq said.subjects \cup Hushed
  <2>1. CASE tick.muted
      BY <1>1, <2>1 DEF Hushed
  <2>2. CASE ~tick.muted /\ tick.level # "none"
      BY <1>1, <2>2 DEF JudgeQuietly, News
  <2>3. CASE tick.level = "none"
      BY <2>3, Blank DEF JudgeQuietly
  <2> QED BY <2>1, <2>2, <2>3
<1>3. /\ told' = told \cap said'.subjects
      /\ hushed' = (hushed \cup Hushed) \cap said'.subjects
      /\ tick' = TickIdle /\ UNCHANGED <<world, left, row, flush>>
    BY DEF JudgeQuietly
<1>4. TypeOK'
    BY <1>1, <1>3, Blank DEF TypeOK, world, Hushed
<1>5. NobodyUnnamed' /\ SentIsRow'
    BY <1>1, <1>3, Blank DEF NobodyUnnamed, SentIsRow
<1>6. ReleasedWasTold' /\ SaidOrKept'
    BY <1>2, <1>3 DEF ReleasedWasTold, SaidOrKept
<1> QED BY <1>4, <1>5, <1>6

\* A notification ntfy takes names every subject it takes as said.
LEMMA SendStep == IInv /\ Send => IInv'
<1> SUFFICES ASSUME IInv, Send PROVE IInv'
    OBVIOUS
<1> USE DEF IInv
<1>1. /\ said' = SaidAs /\ tick' = TickIdle
      /\ told' = (told \cup tick.subjects) \cap said'.subjects
      /\ hushed' = (hushed \ tick.subjects) \cap said'.subjects
      /\ UNCHANGED <<world, left, row, flush>>
      /\ SaysNow
    BY DEF Send
<1>2. TypeOK'
    BY <1>1, SaidAsNames, Blank DEF TypeOK, world
<1>3. NobodyUnnamed' /\ SentIsRow' /\ ReleasedWasTold' /\ SaidOrKept'
    BY <1>1, SaidAsNames, Blank DEF NobodyUnnamed, SentIsRow, ReleasedWasTold, SaidOrKept
<1> QED BY <1>2, <1>3

\* A notification held names every subject it takes as said, under a revision no
\* delivery has read.
LEMMA HoldStep == IInv /\ Hold => IInv'
<1> SUFFICES ASSUME IInv, Hold PROVE IInv'
    OBVIOUS
<1> USE DEF IInv
<1>1. /\ said' = SaidAs /\ tick' = TickIdle /\ row' = RowReplaced
      /\ told' = told \cap said'.subjects
      /\ hushed' = (hushed \ tick.subjects) \cap said'.subjects
      /\ UNCHANGED <<world, left, flush>>
      /\ SaysNow
    BY DEF Hold
<1>2. /\ row' \in Rows /\ row'.revision = row.revision + 1 /\ row'.names = tick.subjects
      /\ row.revision \in Nat
    BY <1>1 DEF RowReplaced, TypeOK, Rows
<1>3. TypeOK'
    BY <1>1, <1>2, SaidAsNames, Blank DEF TypeOK, world
<1>4. NobodyUnnamed' /\ SaidOrKept'
    BY <1>1, <1>2, SaidAsNames, Blank DEF NobodyUnnamed, SaidOrKept
<1>5. flush.row.revision \in Nat
    BY DEF TypeOK, Rows
<1>6. SentIsRow' /\ ReleasedWasTold'
    BY <1>1, <1>2, <1>5 DEF SentIsRow, ReleasedWasTold
<1> QED BY <1>3, <1>4, <1>6

\* The delivery: what it sends is the row, and what it forgets is what it sent.
LEMMA FlushStep == IInv /\ DeliverHeld => IInv'
<1> SUFFICES ASSUME IInv, DeliverHeld PROVE IInv'
    OBVIOUS
<1> USE DEF IInv
<1>0. flush.row.revision \in Nat /\ row.revision \in Nat
    BY DEF TypeOK, Rows
<1>1. CASE ReadHeld
  <2>1. TypeOK'
      BY <1>1 DEF ReadHeld, TypeOK, world, history
  <2>2. NobodyUnnamed' /\ SentIsRow' /\ ReleasedWasTold' /\ SaidOrKept'
      BY <1>0, <1>1 DEF ReadHeld, NobodyUnnamed, SentIsRow, ReleasedWasTold, SaidOrKept,
                        history
  <2> QED BY <2>1, <2>2
<1>2. CASE Deliver
  <2>1. /\ flush' = [flush EXCEPT !.pc = "releasing"] /\ flush.pc = "sending"
        /\ told' = (told \cup flush.row.names) \cap said.subjects
        /\ UNCHANGED <<world, left, said, row, tick, hushed>>
      BY <1>2 DEF Deliver
  <2>2. flush'.pc = "releasing" /\ flush'.row = flush.row
      BY <2>1 DEF TypeOK
  <2>3. TypeOK'
      BY <2>1 DEF TypeOK, world
  <2>4. NobodyUnnamed' /\ SentIsRow' /\ SaidOrKept'
      BY <2>1, <2>2 DEF NobodyUnnamed, SentIsRow, SaidOrKept
  <2>5. ReleasedWasTold'
      BY <2>1, <2>2 DEF ReleasedWasTold, SentIsRow, SaidOrKept
  <2> QED BY <2>3, <2>4, <2>5
<1>3. CASE KeepHeld \/ StillHeld
  <2>1. flush' = FlushIdle /\ UNCHANGED <<world, said, row, tick, history>>
      BY <1>3 DEF KeepHeld, StillHeld
  <2>2. TypeOK'
      BY <2>1, Blank DEF TypeOK, world, history
  <2>3. NobodyUnnamed' /\ SentIsRow' /\ ReleasedWasTold' /\ SaidOrKept'
      BY <2>1, Blank DEF NobodyUnnamed, SentIsRow, ReleasedWasTold, SaidOrKept, history
  <2> QED BY <2>2, <2>3
<1>4. CASE Release
  <2>1. /\ flush' = FlushIdle /\ flush.pc = "releasing" /\ row' = Released
        /\ UNCHANGED <<world, left, said, tick, history>>
      BY <1>4 DEF Release
  <2>2. TypeOK'
      BY <2>1, Blank DEF TypeOK, world, history, Released
  <2>3. SaidOrKept'
      BY <2>1 DEF SaidOrKept, ReleasedWasTold, Released, history
  <2>4. NobodyUnnamed' /\ SentIsRow' /\ ReleasedWasTold'
      BY <2>1, Blank DEF NobodyUnnamed, SentIsRow, ReleasedWasTold, history
  <2> QED BY <2>2, <2>3, <2>4
<1> QED BY <1>1, <1>2, <1>3, <1>4 DEF DeliverHeld

\* Every step keeps the invariant.
LEMMA NextOK == IInv /\ [Next]_vars => IInv'
<1> SUFFICES ASSUME IInv, [Next]_vars PROVE IInv'
    OBVIOUS
<1> USE DEF IInv
<1>1. CASE Tick
  <2>1. /\ tick' = [TickIdle EXCEPT !.pc = "measuring", !.muted = muted, !.quiet = quiet]
        /\ UNCHANGED <<world, left, said, row, flush, history>>
      BY <1>1 DEF Tick
  <2>2. TypeOK'
      BY <2>1, Blank DEF TypeOK, world, history
  <2>3. NobodyUnnamed'
      BY <2>1 DEF NobodyUnnamed, TickIdle
  <2>4. SentIsRow' /\ ReleasedWasTold' /\ SaidOrKept'
      BY <2>1 DEF SentIsRow, ReleasedWasTold, SaidOrKept, history
  <2> QED BY <2>2, <2>3, <2>4
<1>2. CASE Measure
  <2>1. /\ tick' = [tick EXCEPT !.pc = "judging", !.level = Level, !.subjects = Breaching]
        /\ UNCHANGED <<world, left, said, row, flush, history>>
      BY <1>2 DEF Measure
  <2>2. /\ Level \in LevelName /\ Breaching \subseteq Subject
        /\ Level # "triggered" => Breaching = {}
      BY Levels DEF Level, Breaching, TypeOK
  <2>3. TypeOK'
      BY <2>1, <2>2 DEF TypeOK, world, history
  <2>4. NobodyUnnamed'
      BY <2>1, <2>2 DEF NobodyUnnamed, TypeOK
  <2>5. SentIsRow' /\ ReleasedWasTold' /\ SaidOrKept'
      BY <2>1 DEF SentIsRow, ReleasedWasTold, SaidOrKept, history
  <2> QED BY <2>3, <2>4, <2>5
<1>3. CASE Refused
  <2>1. tick' = TickIdle /\ said' = said /\ UNCHANGED <<world, row, flush, history>>
      BY <1>3 DEF Refused, SaidStill
  <2>2. TypeOK'
      BY <2>1, Blank DEF TypeOK, world, history
  <2>3. NobodyUnnamed' /\ SentIsRow' /\ ReleasedWasTold' /\ SaidOrKept'
      BY <2>1, Blank DEF NobodyUnnamed, SentIsRow, ReleasedWasTold, SaidOrKept, history
  <2> QED BY <2>2, <2>3
<1>4. CASE Restart
  <2>1. /\ said' = Unsaid /\ tick' = TickIdle /\ flush' = FlushIdle
        /\ told' = {} /\ hushed' = {} /\ UNCHANGED <<world, row>>
      BY <1>4 DEF Restart
  <2>2. TypeOK'
      BY <2>1, Blank DEF TypeOK, world
  <2>3. NobodyUnnamed' /\ SentIsRow' /\ ReleasedWasTold' /\ SaidOrKept'
      BY <2>1, Blank DEF NobodyUnnamed, SentIsRow, ReleasedWasTold, SaidOrKept
  <2> QED BY <2>2, <2>3
<1>5. CASE \/ \E s \in Subject : Fail(s) \/ Recover(s)
           \/ Blind \/ See \/ Mute \/ Unmute \/ Night \/ Morning
           \/ UNCHANGED vars
  <2>1. UNCHANGED <<said, row, tick, flush, history>>
      BY <1>5 DEF Fail, Recover, Blind, See, Mute, Unmute, Night, Morning, vars, history
  <2>2. failing' \subseteq Subject
      BY <1>5 DEF Fail, Recover, Blind, See, Mute, Unmute, Night, Morning, vars, TypeOK
  <2>3. {blind, muted, quiet, urgent}' \subseteq BOOLEAN
      BY <1>5 DEF Fail, Recover, Blind, See, Mute, Unmute, Night, Morning, vars, TypeOK
  <2>4. TypeOK'
      BY <2>1, <2>2, <2>3 DEF TypeOK, history
  <2>5. NobodyUnnamed' /\ SentIsRow' /\ ReleasedWasTold' /\ SaidOrKept'
      BY <2>1 DEF NobodyUnnamed, SentIsRow, ReleasedWasTold, SaidOrKept, history
  <2> QED BY <2>4, <2>5
<1> QED
    BY <1>1, <1>2, <1>3, <1>4, <1>5, QuietStep, SendStep, HoldStep, FlushStep
    DEF Next, Evaluate

\* The invariant holds in every state the two loops reach.
LEMMA Invariance == Spec => []IInv
BY InitOK, NextOK, PTL DEF Spec

\* Every variable of the two loops keeps its type, and a notification held in the state
\* has a revision of its own.
THEOREM AlertsTyped == Spec => []TypeOK
<1>1. IInv => TypeOK
    BY DEF IInv
<1> QED BY <1>1, Invariance, PTL

\* Whatever the evaluation loop remembers as said was said, is held for the morning, or
\* began under a mute: hold_notification and release_held_notification lose nothing
\* between them, however a delivery, a replacement, a refusal and a restart interleave.
THEOREM NothingForgotten == Spec => []SaidOrKept
<1>1. IInv => SaidOrKept
    BY DEF IInv
<1> QED BY <1>1, Invariance, PTL
=============================================================================
