------------------------------- MODULE Alerts -------------------------------
(***************************************************************************)
(* Telling someone: the daemon evaluates its alert rules every minute      *)
(* (crates/hlb-privd/src/daemon/alerts.rs) and says what is news through   *)
(* ntfy; what quiet hours hold back is kept in the state and delivered in  *)
(* the morning by another loop (crates/hlb-privd/src/daemon/notify.rs).    *)
(*                                                                         *)
(* One rule with a label: some subjects cross its threshold.  Both loops   *)
(* wait between their steps for VictoriaMetrics, for ntfy and for the      *)
(* state; meanwhile subjects fail and recover, someone mutes the rule,     *)
(* night falls, ntfy is out, the daemon restarts.                          *)
(***************************************************************************)
EXTENDS Naturals, FiniteSets

CONSTANTS
    Subject,        \* what the rule's label names: apps, nodes
    MaxChange,      \* bound: times a subject fails or recovers, or the scrape dies
    MaxNight,       \* bound: nights
    MaxMute,        \* bound: mutes
    MaxRefusal,     \* bound: notifications ntfy or the state refuse
    MaxRestart      \* bound: restarts of the daemon

ASSUME AlertsAssumption ==
    {MaxChange, MaxNight, MaxMute, MaxRefusal, MaxRestart} \subseteq Nat

VARIABLES
    failing,    \* the subjects past the threshold
    blind,      \* does the query answer nothing, or an error?
    muted,      \* is the rule muted?
    quiet,      \* are these quiet hours?
    urgent,     \* is the rule critical, so that quiet hours do not hold it?
    left,       \* what is left of each bound
    said,       \* AlertLoop.said for the rule; its level "none" without one
    row,        \* the rule's row of held_notifications; revision 0 without one
    tick,       \* where the evaluation stands, and what it read
    flush,      \* where the delivery stands, and what it read
    told,       \* history: subjects a notification named since the rule said them
    hushed      \* history: subjects the rule took as said while it was muted

vars == <<failing, blind, muted, quiet, urgent, left, said, row, tick, flush, told,
          hushed>>
world == <<failing, blind, muted, quiet, urgent>>
history == <<told, hushed>>

Rank == [none |-> 0, unknown |-> 1, triggered |-> 2]
Unsaid == [level |-> "none", subjects |-> {}]
NoRow == [revision |-> 0, names |-> {}, level |-> "none"]
TickIdle == [pc |-> "idle", muted |-> FALSE, quiet |-> FALSE, level |-> "none",
             subjects |-> {}]
FlushIdle == [pc |-> "idle", quiet |-> FALSE, row |-> NoRow]

Spend(b) == left[b] > 0 /\ left' = [left EXCEPT ![b] = @ - 1]

Init ==
    /\ failing = {} /\ blind = FALSE /\ muted = FALSE
    /\ quiet \in BOOLEAN /\ urgent \in BOOLEAN
    /\ left = [change |-> MaxChange, night |-> MaxNight, mute |-> MaxMute,
               refusal |-> MaxRefusal, restart |-> MaxRestart]
    /\ said = Unsaid /\ row = NoRow
    /\ tick = TickIdle /\ flush = FlushIdle
    /\ told = {} /\ hushed = {}

-----------------------------------------------------------------------------
\* tick(): the hour and the mutes are read first.
Tick ==
    /\ tick.pc = "idle"
    /\ tick' = [TickIdle EXCEPT !.pc = "measuring", !.muted = muted, !.quiet = quiet]
    /\ UNCHANGED <<world, left, said, row, flush, history>>

\* judge() and breaching(): no data is unknown, never well.
Level == CASE blind -> "unknown"
           [] ~blind /\ failing # {} -> "triggered"
           [] ~blind /\ failing = {} -> "none"
Breaching == IF blind THEN {} ELSE failing

Measure ==
    /\ tick.pc = "measuring"
    /\ tick' = [tick EXCEPT !.pc = "judging", !.level = Level, !.subjects = Breaching]
    /\ UNCHANGED <<world, left, said, row, flush, history>>

\* News: a rule not said, a level above the one said, a subject not named.
News ==
    \/ Rank[tick.level] > Rank[said.level]
    \/ ~(tick.subjects \subseteq said.subjects)

\* What is not to be said now: a rule that is well is forgotten, its return being news;
\* otherwise the subjects that recovered are, and under a mute those that did not.
Hushed == IF tick.muted THEN tick.subjects \ said.subjects ELSE {}
JudgeQuietly ==
    /\ tick.pc = "judging"
    /\ tick.level = "none" \/ tick.muted \/ ~News
    /\ said' = CASE tick.level = "none" -> Unsaid
                 [] tick.level = "triggered" /\ said # Unsaid ->
                       [said EXCEPT !.subjects = tick.subjects]
                 [] OTHER -> said
    /\ hushed' = (hushed \cup Hushed) \cap said'.subjects
    /\ told' = told \cap said'.subjects
    /\ tick' = TickIdle
    /\ UNCHANGED <<world, left, row, flush>>

\* said.insert(): the highest level said, and the subjects named - all of them.
SaidAs ==
    [level |-> IF Rank[tick.level] >= Rank[said.level] THEN tick.level ELSE said.level,
     subjects |-> IF tick.level = "triggered" THEN tick.subjects
                                              ELSE said.subjects \cup tick.subjects]

SaysNow == tick.pc = "judging" /\ tick.level # "none" /\ ~tick.muted /\ News
Held(q, level) == q /\ ~(urgent /\ level = "triggered")

\* say(): ntfy takes the notification, or quiet hours hold it.
Send ==
    /\ SaysNow /\ ~Held(tick.quiet, tick.level)
    /\ said' = SaidAs
    /\ told' = (told \cup tick.subjects) \cap said'.subjects
    /\ hushed' = (hushed \ tick.subjects) \cap said'.subjects
    /\ tick' = TickIdle
    /\ UNCHANGED <<world, left, row, flush>>

\* hold_notification: a newer one replaces the row, under its next revision.
RowAppended == [revision |-> row.revision, names |-> tick.subjects, level |-> tick.level]
RowReplaced ==
    [revision |-> row.revision + 1, names |-> tick.subjects, level |-> tick.level]
Hold ==
    /\ SaysNow /\ Held(tick.quiet, tick.level)
    /\ row' = RowReplaced
    /\ said' = SaidAs
    /\ told' = told \cap said'.subjects
    /\ hushed' = (hushed \ tick.subjects) \cap said'.subjects
    /\ tick' = TickIdle
    /\ UNCHANGED <<world, left, flush>>

\* ntfy refuses, or the state could not keep it: the next pass tries again.
SaidIfRefused == SaidAs
SaidStill == said
Refused ==
    /\ SaysNow
    /\ Spend("refusal")
    /\ said' = SaidStill
    /\ tick' = TickIdle
    /\ UNCHANGED <<world, row, flush, history>>

-----------------------------------------------------------------------------
\* flush(): the held notifications are read, each sent, then that version forgotten.
ReadHeld ==
    /\ flush.pc = "idle"
    /\ row # NoRow
    /\ flush' = [pc |-> "sending", quiet |-> quiet, row |-> row]
    /\ UNCHANGED <<world, left, said, row, tick, history>>

Deliver ==
    /\ flush.pc = "sending"
    /\ ~Held(flush.quiet, flush.row.level)
    /\ told' = (told \cup flush.row.names) \cap said.subjects
    /\ flush' = [flush EXCEPT !.pc = "releasing"]
    /\ UNCHANGED <<world, left, said, row, tick, hushed>>

\* Quiet hours go on, or ntfy refuses: kept for the next pass.
KeepHeld ==
    /\ flush.pc = "sending"
    /\ \/ Held(flush.quiet, flush.row.level) /\ UNCHANGED left
       \/ ~Held(flush.quiet, flush.row.level) /\ Spend("refusal")
    /\ flush' = FlushIdle
    /\ UNCHANGED <<world, said, row, tick, history>>

\* release_held_notification: the revision sent, and no other.
ReleasedAny == NoRow
Released == IF row.revision = flush.row.revision THEN NoRow ELSE row
Release ==
    /\ flush.pc = "releasing"
    /\ row' = Released
    /\ flush' = FlushIdle
    /\ UNCHANGED <<world, left, said, tick, history>>

\* Sent, and the state could not forget it: it is sent again at the next pass.
StillHeld ==
    /\ flush.pc = "releasing"
    /\ Spend("refusal")
    /\ flush' = FlushIdle
    /\ UNCHANGED <<world, said, row, tick, history>>

-----------------------------------------------------------------------------
Fail(s) ==
    /\ s \notin failing /\ Spend("change")
    /\ failing' = failing \cup {s}
    /\ UNCHANGED <<blind, muted, quiet, urgent, said, row, tick, flush, history>>

Recover(s) ==
    /\ s \in failing /\ Spend("change")
    /\ failing' = failing \ {s}
    /\ UNCHANGED <<blind, muted, quiet, urgent, said, row, tick, flush, history>>

\* The scrape, or the target, dies; it comes back.
Blind ==
    /\ ~blind /\ Spend("change")
    /\ blind' = TRUE
    /\ UNCHANGED <<failing, muted, quiet, urgent, said, row, tick, flush, history>>
See ==
    /\ blind
    /\ blind' = FALSE
    /\ UNCHANGED <<failing, muted, quiet, urgent, left, said, row, tick, flush, history>>

\* mute_alert; unmute_alert, or its deadline.
Mute ==
    /\ ~muted /\ Spend("mute")
    /\ muted' = TRUE
    /\ UNCHANGED <<failing, blind, quiet, urgent, said, row, tick, flush, history>>
Unmute ==
    /\ muted
    /\ muted' = FALSE
    /\ UNCHANGED <<failing, blind, quiet, urgent, left, said, row, tick, flush, history>>

Night ==
    /\ ~quiet /\ Spend("night")
    /\ quiet' = TRUE
    /\ UNCHANGED <<failing, blind, muted, urgent, said, row, tick, flush, history>>
Morning ==
    /\ quiet
    /\ quiet' = FALSE
    /\ UNCHANGED <<failing, blind, muted, urgent, left, said, row, tick, flush, history>>

\* What was said was in memory, what is held is in the state.
Restart ==
    /\ Spend("restart")
    /\ said' = Unsaid
    /\ tick' = TickIdle /\ flush' = FlushIdle
    /\ told' = {} /\ hushed' = {}
    /\ UNCHANGED <<world, row>>

Evaluate == Tick \/ Measure \/ JudgeQuietly \/ Send \/ Hold
DeliverHeld == ReadHeld \/ Deliver \/ KeepHeld \/ Release \/ StillHeld

Next ==
    \/ Evaluate \/ Refused
    \/ DeliverHeld
    \/ \E s \in Subject : Fail(s) \/ Recover(s)
    \/ Blind \/ See \/ Mute \/ Unmute \/ Night \/ Morning \/ Restart

\* Both loops pass again and again; a night ends, a mute has a deadline, and the
\* scrape comes back.
Spec ==
    /\ Init /\ [][Next]_vars
    /\ WF_vars(Evaluate) /\ WF_vars(Release)
    /\ WF_vars(ReadHeld) /\ WF_vars(Deliver \/ KeepHeld)
    /\ WF_vars(Morning) /\ WF_vars(Unmute) /\ WF_vars(See)

-----------------------------------------------------------------------------
LevelName == DOMAIN Rank
Rows == [revision : Nat, names : SUBSET Subject, level : LevelName]

\* Every variable holds what the code can put there, and a notification held has a
\* revision of its own.
TypeOK ==
    /\ failing \subseteq Subject
    /\ {blind, muted, quiet, urgent} \subseteq BOOLEAN
    /\ said \in [level : LevelName, subjects : SUBSET Subject]
    /\ row \in Rows /\ (row.revision = 0 <=> row = NoRow)
    /\ tick \in [pc : {"idle", "measuring", "judging"}, muted : BOOLEAN,
                 quiet : BOOLEAN, level : LevelName, subjects : SUBSET Subject]
    /\ flush \in [pc : {"idle", "sending", "releasing"}, quiet : BOOLEAN, row : Rows]
    /\ told \subseteq Subject /\ hushed \subseteq Subject

\* What the daemon takes as said was said, or is held for the morning: a version
\* replaced while it was being delivered is not forgotten with it, a refusal is no
\* saying, and only a mute keeps a failure from someone.
SaidOrKept == said.subjects \subseteq told \cup row.names \cup hushed

\* A subject that goes on failing is told to someone, again after each time the daemon
\* restarts, whatever ntfy refuses and however the nights fall - unless it began under
\* a mute.
FailureTold ==
    \A s \in Subject : <>[](s \in failing) => []<>(s \in told \cup hushed)
=============================================================================
