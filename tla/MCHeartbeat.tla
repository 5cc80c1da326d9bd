---------------------------- MODULE MCHeartbeat ----------------------------
(* Small instances of Heartbeat for TLC. *)
EXTENDS Heartbeat

CONSTANTS a, b, k1, k2, k3, k4
=============================================================================
