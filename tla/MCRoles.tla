------------------------------ MODULE MCRoles ------------------------------
(***************************************************************************)
(* Small instances of Roles: its constants are sets and bounds, so each    *)
(* configuration gives them directly.                                      *)
(***************************************************************************)
EXTENDS Roles, TLC

\* Nothing tells two people apart but what they hold.
PersonSymmetry == Permutations(Person)
============================================================================
