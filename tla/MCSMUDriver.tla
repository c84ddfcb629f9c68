---------------------------- MODULE MCSMUDriver ----------------------------
(* The instance of SMUDriver for TLC. *)
EXTENDS SMUDriver
============================================================================
