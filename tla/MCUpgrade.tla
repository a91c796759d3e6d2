----------------------------- MODULE MCUpgrade -----------------------------
(***************************************************************************)
(* Small instances of Upgrade: its constants are numbers and choices, so   *)
(* each configuration gives them directly.                                 *)
(***************************************************************************)
EXTENDS Upgrade
============================================================================
