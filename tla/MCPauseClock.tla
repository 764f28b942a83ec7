---------------------------- MODULE MCPauseClock ----------------------------
(* Instance of PauseClock for TLC. *)
EXTENDS PauseClock, TLC
=============================================================================
