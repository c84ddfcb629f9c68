--------------------------- MODULE MCSamplingLoop ---------------------------
(* The instance of SamplingLoop for TLC. *)
EXTENDS SamplingLoop
=============================================================================
