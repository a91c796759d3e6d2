------------------------------ MODULE Mandate ------------------------------
(***************************************************************************)
(* What a passkey promises (the header of crates/hlb-privd/src/confirm.rs):*)
(* one presented for a set of intents lets each of them act once, and      *)
(* nothing else act at all.  A mandate is what may still be done under a   *)
(* confirmation.  It is given once, only shrinks, and an intent that acts  *)
(* leaves it: whatever the daemon does with tables, codes and restarts is  *)
(* below this level.                                                       *)
(***************************************************************************)
CONSTANTS Confirmation, Intent

VARIABLES
    given,      \* the confirmations begun
    mandate,    \* mandate[c]: the intents that may still act under c
    acted       \* the pairs <<c, i>> that acted

vars == <<given, mandate, acted>>

Init ==
    /\ given = {}
    /\ mandate = [c \in Confirmation |-> {}]
    /\ acted = {}

\* A confirmation is begun for some intents; others may lapse to make room.
Give(c) ==
    /\ c \notin given
    /\ given' = given \cup {c}
    /\ \A d \in Confirmation \ {c} : mandate'[d] \subseteq mandate[d]
    /\ acted' = acted

\* An intent acts: it was in the mandate and is not any more.
Act(c, i) ==
    /\ i \in mandate[c]
    /\ mandate' = [mandate EXCEPT ![c] = @ \ {i}]
    /\ acted' = acted \cup {<<c, i>>}
    /\ given' = given

\* Refused, expired, dropped for room or forgotten by a restart.
Withdraw ==
    /\ \A c \in Confirmation : mandate'[c] \subseteq mandate[c]
    /\ UNCHANGED <<given, acted>>

Next ==
    \/ \E c \in Confirmation : Give(c)
    \/ \E c \in Confirmation, i \in Intent : Act(c, i)
    \/ Withdraw

Spec == Init /\ [][Next]_vars
============================================================================
