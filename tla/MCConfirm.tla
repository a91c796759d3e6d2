----------------------------- MODULE MCConfirm -----------------------------
(***************************************************************************)
(* A small instance of Confirm: two intents, one of them a device only its *)
(* owner may confirm, and two accounts.                                    *)
(***************************************************************************)
EXTENDS Confirm, TLC

CONSTANTS remove, device, ana

MCOwner == [i \in Intent |-> IF i = device THEN ana ELSE None]
MCSymmetry == Permutations(Process) \cup Permutations(Confirmation)
============================================================================
