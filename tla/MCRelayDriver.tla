--------------------------- MODULE MCRelayDriver ---------------------------
(* The instances of RelayDriver for TLC. *)
EXTENDS RelayDriver
============================================================================
