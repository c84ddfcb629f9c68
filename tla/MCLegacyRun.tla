----------------------------- MODULE MCLegacyRun -----------------------------
(* main.py on three channels. *)
EXTENDS LegacyRun
==============================================================================
