----------------------------- MODULE MCGroupRun -----------------------------
(* The instances of GroupRun for TLC. *)
EXTENDS GroupRun
=============================================================================
