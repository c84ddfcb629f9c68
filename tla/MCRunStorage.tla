---------------------------- MODULE MCRunStorage ----------------------------
(* The instances of RunStorage for TLC. *)
EXTENDS RunStorage
=============================================================================
