------------------------------ MODULE HotStandby ------------------------------
(***************************************************************************)
(* What the routing table of a slice promises the front-end clients while  *)
(* its Redis fail and come back (redisDown and initRedisProxyClient,       *)
(* redisproxy/RedisProxyClient.java).  One of the two Redis is the master  *)
(* at any time.  Writes go to it or nowhere, and reads have the other one. *)
(* The mastership changes hands only by taking the writes away from the    *)
(* master.  They are then given to the other Redis, once no reads are sent *)
(* to it any more.                                                         *)
(***************************************************************************)
CONSTANTS
  Redis,      \* the Redis of the slice
  NoRedis

VARIABLES
  master,     \* the Redis that is to have the writes
  writes,     \* where writes are sent, or NoRedis
  reads       \* where reads are sent, or NoRedis (then they go with the writes)

vars == <<master, writes, reads>>

Init == master \in Redis /\ writes = NoRedis /\ reads = NoRedis

ServeWrites ==
  /\ writes = NoRedis /\ reads # master
  /\ writes' = master
  /\ UNCHANGED <<master, reads>>

ServeReads ==
  /\ reads = NoRedis
  /\ reads' \in Redis \ {master}
  /\ UNCHANGED <<master, writes>>

StopReads ==
  /\ reads # NoRedis
  /\ reads' = NoRedis
  /\ UNCHANGED <<master, writes>>

\* The other Redis is to have the writes.  Reads may still go to it.
MasterDown ==
  /\ writes = master
  /\ writes' = NoRedis
  /\ master' \in Redis \ {master}
  /\ UNCHANGED reads

Next == ServeWrites \/ ServeReads \/ StopReads \/ MasterDown

Spec == Init /\ [][Next]_vars
=============================================================================
