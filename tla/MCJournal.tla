----------------------------- MODULE MCJournal -----------------------------
(***************************************************************************)
(* A small instance of Journal: two sorts of actions, so that a plan of    *)
(* three holds one of them twice, one of the sorts a route, and two runs   *)
(* at once.                                                                *)
(***************************************************************************)
EXTENDS Journal

MCSymmetry == Permutations(Process)
=============================================================================
