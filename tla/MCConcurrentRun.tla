-------------------------- MODULE MCConcurrentRun --------------------------
(* Instances of ConcurrentRun for TLC. *)
EXTENDS ConcurrentRun

TwoGroupsThenOne == <<2, 1>>   \* the first worker owns two groups, the second one
============================================================================
