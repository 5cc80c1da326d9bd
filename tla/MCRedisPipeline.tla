--------------------------- MODULE MCRedisPipeline ---------------------------
(* Small instances of RedisPipeline for TLC. *)
EXTENDS RedisPipeline, TLC

CONSTANTS a, b, r1, r2, flushAll, ping, promotion, auth, select, slaveof

MCSetup == <<auth, select>>
MCSelect == <<select>>
MCSlaveof == <<slaveof>>
MCEmpty == <<>>

MCSymmetry == Permutations(Callers) \cup Permutations(Requests)
=============================================================================
