---------------------------- MODULE MCColdBackup ----------------------------
(* A small instance of ColdBackup for TLC: a thread pulls, another one pulls *)
(* or shows the state.                                                       *)
EXTENDS ColdBackup

CONSTANTS p1, p2
=============================================================================
