---------------------------- MODULE MCSelfUpdate ----------------------------
(***************************************************************************)
(* Three releases, of which the second ships migrations and the third      *)
(* more.                                                                   *)
(***************************************************************************)
EXTENDS SelfUpdate

MCShips == <<1, 3, 4>>
=============================================================================
