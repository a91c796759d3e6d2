------------------------------ MODULE MCAlerts ------------------------------
(***************************************************************************)
(* Small instances of Alerts: its constants are a set and bounds, so each  *)
(* configuration gives them directly.                                      *)
(***************************************************************************)
EXTENDS Alerts
=============================================================================
