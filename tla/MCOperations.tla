---------------------------- MODULE MCOperations ----------------------------
(* The operations on two positions and a cycle of two repetitions. *)
EXTENDS Operations
=============================================================================
