--------------------------- MODULE FailoverProofs ---------------------------
(* Theorems about Failover, for every value of its constants: the types in     *)
(* every case, and what the routing table, the flags and the Redis have to do  *)
(* with each other when failures and SELECTs meet a healthy slice only (Calm): *)
(* invariants, and that the failover is a hot standby.                         *)
EXTENDS Failover, SequenceTheorems, FiniteSetTheorems, TLAPS

-----------------------------------------------------------------------------
(* Type correctness, with the types of the locals.                           *)

Links == {"connecting", "failed", "open", "broken", "closed"}
ClientType == [redis : Redis, db : Databases, link : Links, connected : BOOLEAN]
CallType == [redis : Redis, db : Databases, check : BOOLEAN]
FrameType ==
  [redis : Redis \cup {NoRedis}, down : Nat, slaves : Nat, calls : Seq(CallType),
   found : Nat, made : Nat, next : Nat]

CallSteps == {"call", "new", "put"}
OwnSteps == {"slaveof", "initDatabase"}
CriticalSteps == {"declare", "remove", "removeSlave", "promote", "putMaster", "demote", "promotePeer"}
LateSteps == {"close", "restart", "ssh"}

\* The steps of each kind of thread.
StepsOf(th) ==
  IF th \in Selectors THEN {"idle"} \cup CallSteps
  ELSE IF th = Heart THEN {"idle", "reconnect", "clear"} \cup CallSteps
  ELSE {"idle"} \cup CallSteps \cup OwnSteps \cup CriticalSteps \cup LateSteps

\* The locals that a step of th reads.
FrameOK(th) ==
  /\ at[th] \in StepsOf(th)
  /\ at[th] = "idle" => frame[th] = NoFrame /\ \A n \in Databases : selectLock[n] # th
  /\ at[th] \in {"new", "put"} => frame[th].calls # <<>>
  /\ at[th] = "put" => frame[th].made \in DOMAIN clients /\ frame[th].found \in 0 .. Len(maps)
  /\ at[th] \in OwnSteps \cup CriticalSteps \cup LateSteps => frame[th].redis \in Redis
  /\ at[th] \in {"removeSlave", "promote", "putMaster", "demote", "promotePeer", "close"} =>
       frame[th].down \in DOMAIN maps
  /\ at[th] \in {"promote", "putMaster"} => frame[th].slaves \in DOMAIN maps
  /\ th # Heart => frame[th].next = 0
  /\ at[th] = "reconnect" => frame[th].next # 0

DataOK ==
  /\ isMaster \in [Redis -> BOOLEAN]
  /\ table \in [BOOLEAN -> 0 .. Len(maps)]
  /\ maps \in Seq([Databases -> 0 .. Len(clients)])
  /\ clients \in Seq(ClientType) /\ Len(clients) <= MaxClients
  /\ server \in [Redis -> {"up", "hung", "dead"}]
  /\ role \in [Redis -> {"master", "slave"}]
  /\ vip \in BOOLEAN /\ remoteRuns \in BOOLEAN
  /\ reconnect \in Seq(Redis) /\ failures \in 0 .. MaxFailures

ThreadsOK ==
  /\ at \in [Threads -> Steps] /\ frame \in [Threads -> FrameType]
  /\ selectLock \in [Databases -> Selectors \cup {NoThread}]
  /\ \A th \in Threads : FrameOK(th)

Types == DataOK /\ ThreadsOK

LEMMA ThreadKinds ==
  /\ Heart \in Threads /\ Selectors \subseteq Threads /\ Heart \notin Selectors
  /\ \A c \in Clients : /\ Loop(c) \in Threads /\ Timer(c) \in Threads
                        /\ Loop(c) \notin Selectors /\ Timer(c) \notin Selectors
                        /\ Loop(c) # Heart /\ Timer(c) # Heart
  /\ \A c, d \in Clients : Loop(c) # Timer(d)
  /\ NoThread \notin Threads
BY ThreadsAssumption DEF Threads, Loop, Timer

LEMMA Constants ==
  /\ Local \in Redis /\ Remote \in Redis /\ Local # Remote /\ NoRedis \notin Redis
  /\ \A h \in Redis : Peer(h) \in Redis /\ Peer(h) # h /\ (h = Local \/ h = Remote)
  /\ 0 \in Databases /\ Databases \subseteq Nat
  /\ MaxFailures \in Nat /\ MaxClients \in Nat
BY RedisAssumption, DatabasesAssumption, BoundsAssumption DEF Redis, Peer

LEMMA NoFrameType ==
  /\ NoFrame \in FrameType
  /\ NoFrame.next = 0 /\ NoFrame.found = 0 /\ NoFrame.calls = <<>>
BY EmptySeq DEF NoFrame, FrameType

\* The frames that the actions start from NoFrame.
LEMMA NewFrames ==
  /\ \A q \in Seq(CallType) :
       /\ [NoFrame EXCEPT !.calls = q] \in FrameType
       /\ [NoFrame EXCEPT !.calls = q].calls = q
       /\ [NoFrame EXCEPT !.calls = q].next = 0
       /\ [NoFrame EXCEPT !.calls = q].found = 0
  /\ \A h \in Redis :
       /\ [NoFrame EXCEPT !.redis = h] \in FrameType
       /\ [NoFrame EXCEPT !.redis = h].redis = h
       /\ [NoFrame EXCEPT !.redis = h].next = 0
       /\ [NoFrame EXCEPT !.redis = h].calls = <<>>
  /\ \A n \in Nat :
       /\ [NoFrame EXCEPT !.next = n] \in FrameType
       /\ [NoFrame EXCEPT !.next = n].next = n
       /\ [NoFrame EXCEPT !.next = n].calls = <<>>
  /\ \A q \in Seq(CallType), n \in Nat :
       /\ [NoFrame EXCEPT !.calls = q, !.next = n] \in FrameType
       /\ [NoFrame EXCEPT !.calls = q, !.next = n].calls = q
       /\ [NoFrame EXCEPT !.calls = q, !.next = n].next = n
<1>1. <<>> \in Seq(CallType)
  BY EmptySeq
<1> QED BY <1>1 DEF NoFrame, FrameType

\* ... and those they make from an earlier one.
LEMMA NextFrames ==
  ASSUME NEW f \in FrameType
  PROVE  /\ f.calls \in Seq(CallType)
         /\ \A q \in Seq(CallType) :
              LET g == [f EXCEPT !.calls = q] IN
              /\ g \in FrameType /\ g.calls = q /\ g.next = f.next /\ g.redis = f.redis
         /\ \A q \in Seq(CallType) :
              LET g == [f EXCEPT !.calls = q, !.found = 0, !.made = 0] IN
              /\ g \in FrameType /\ g.calls = q /\ g.next = f.next /\ g.redis = f.redis
         /\ \A m \in Nat, c \in Nat :
              LET g == [f EXCEPT !.found = m, !.made = c] IN
              /\ g \in FrameType /\ g.calls = f.calls /\ g.next = f.next
              /\ g.found = m /\ g.made = c
         /\ \A m \in Nat :
              LET g == [f EXCEPT !.down = m] IN
              /\ g \in FrameType /\ g.calls = f.calls /\ g.next = f.next
              /\ g.redis = f.redis /\ g.down = m
         /\ \A m \in Nat :
              LET g == [f EXCEPT !.slaves = m] IN
              /\ g \in FrameType /\ g.calls = f.calls /\ g.next = f.next
              /\ g.redis = f.redis /\ g.down = f.down /\ g.slaves = m
BY DEF FrameType

LEMMA CallTyped ==
  ASSUME NEW h \in Redis, NEW n \in Databases, NEW b \in BOOLEAN
  PROVE  /\ Call(h, n, b) \in CallType
         /\ Call(h, n, b).redis = h /\ Call(h, n, b).db = n /\ Call(h, n, b).check = b
         /\ <<Call(h, n, b)>> \in Seq(CallType) /\ <<Call(h, n, b)>> # <<>>
         /\ Len(<<Call(h, n, b)>>) = 1 /\ <<Call(h, n, b)>>[1] = Call(h, n, b)
<1>1. Call(h, n, b) \in CallType
  BY DEF Call, CallType
<1> QED BY <1>1 DEF Call

-----------------------------------------------------------------------------
(* Nothing shrinks, and a client stays that of its Redis and database.        *)

Evolves ==
  /\ Len(clients) <= Len(clients') /\ Len(maps) <= Len(maps')
  /\ \A c \in DOMAIN clients : /\ c \in DOMAIN clients'
                               /\ clients'[c].redis = clients[c].redis
                               /\ clients'[c].db = clients[c].db

LEMMA Domains ==
  ASSUME DataOK
  PROVE  /\ Len(clients) \in Nat /\ DOMAIN clients = 1 .. Len(clients) /\ 0 \notin DOMAIN clients
         /\ Len(maps) \in Nat /\ DOMAIN maps = 1 .. Len(maps)
         /\ Len(reconnect) \in Nat /\ DOMAIN reconnect = 1 .. Len(reconnect)
         /\ DOMAIN clients \subseteq Clients
         /\ \A c \in DOMAIN clients : clients[c] \in ClientType
         /\ \A m \in DOMAIN maps : maps[m] \in [Databases -> 0 .. Len(clients)]
         /\ \A i \in DOMAIN reconnect : reconnect[i] \in Redis
         /\ \A r \in BOOLEAN : table[r] \in 0 .. Len(maps)
         /\ \A h \in Redis : MapOf(h) \in 0 .. Len(maps)
<1>1. /\ Len(clients) \in Nat /\ DOMAIN clients = 1 .. Len(clients)
      /\ Len(maps) \in Nat /\ DOMAIN maps = 1 .. Len(maps)
      /\ Len(reconnect) \in Nat /\ DOMAIN reconnect = 1 .. Len(reconnect)
  BY LenProperties DEF DataOK
<1>2. DOMAIN clients \subseteq Clients
  BY <1>1, Constants DEF DataOK, Clients
<1>3. /\ \A c \in DOMAIN clients : clients[c] \in ClientType
      /\ \A m \in DOMAIN maps : maps[m] \in [Databases -> 0 .. Len(clients)]
      /\ \A i \in DOMAIN reconnect : reconnect[i] \in Redis
  BY <1>1, ElementOfSeq DEF DataOK
<1>4. /\ \A r \in BOOLEAN : table[r] \in 0 .. Len(maps)
      /\ \A h \in Redis : MapOf(h) \in 0 .. Len(maps)
  BY DEF DataOK, MapOf
<1> QED BY <1>1, <1>2, <1>3, <1>4

\* Data that a step changes one at a time.
LEMMA SameData ==
  ASSUME DataOK, UNCHANGED <<maps, clients>>,
         isMaster' \in [Redis -> BOOLEAN], table' \in [BOOLEAN -> 0 .. Len(maps)],
         server' \in [Redis -> {"up", "hung", "dead"}], role' \in [Redis -> {"master", "slave"}],
         vip' \in BOOLEAN, remoteRuns' \in BOOLEAN,
         reconnect' \in Seq(Redis), failures' \in 0 .. MaxFailures
  PROVE  DataOK' /\ Evolves
BY Domains DEF DataOK, Evolves

LEMMA ClientsData ==
  ASSUME DataOK, UNCHANGED <<maps, isMaster, table, vip, remoteRuns>>,
         clients' \in Seq(ClientType), Len(clients') = Len(clients),
         \A c \in DOMAIN clients : clients'[c].redis = clients[c].redis /\ clients'[c].db = clients[c].db,
         server' \in [Redis -> {"up", "hung", "dead"}], role' \in [Redis -> {"master", "slave"}],
         reconnect' \in Seq(Redis), failures' \in 0 .. MaxFailures
  PROVE  DataOK' /\ Evolves
<1>1. DOMAIN clients' = DOMAIN clients
  BY LenProperties DEF DataOK
<1> QED BY <1>1, Domains DEF DataOK, Evolves

\* A step that changes links and flags of clients.
LEMMA Relinked ==
  ASSUME DataOK, NEW new \in [DOMAIN clients -> ClientType]
  PROVE  new \in Seq(ClientType) /\ Len(new) = Len(clients) /\ DOMAIN new = DOMAIN clients
<1>1. DOMAIN clients = 1 .. Len(clients) /\ Len(clients) \in Nat
  BY Domains
<1>2. new \in [1 .. Len(clients) -> ClientType]
  BY <1>1
<1> QED BY <1>1, <1>2

LEMMA LinkOpened ==
  ASSUME DataOK, NEW c \in DOMAIN clients
  PROVE  LET new == [clients EXCEPT ![c].link = "open", ![c].connected = TRUE] IN
         /\ new \in [DOMAIN clients -> ClientType]
         /\ new[c].redis = clients[c].redis /\ new[c].db = clients[c].db
         /\ new[c].link = "open" /\ new[c].connected = TRUE
         /\ \A d \in DOMAIN clients : d # c => new[d] = clients[d]
         /\ \A d \in DOMAIN clients : new[d].redis = clients[d].redis /\ new[d].db = clients[d].db
<1>1. /\ \A d \in DOMAIN clients : clients[d] \in ClientType
      /\ DOMAIN clients = 1 .. Len(clients)
  BY Domains
<1>2. clients \in [DOMAIN clients -> ClientType]
  BY <1>1, Domains DEF DataOK
<1> QED BY <1>2 DEF ClientType, Links

LEMMA LinkClosed ==
  ASSUME DataOK, NEW c \in DOMAIN clients
  PROVE  LET new == [clients EXCEPT ![c].link = "closed", ![c].connected = FALSE] IN
         /\ new \in [DOMAIN clients -> ClientType]
         /\ new[c].redis = clients[c].redis /\ new[c].db = clients[c].db
         /\ new[c].link = "closed" /\ new[c].connected = FALSE
         /\ \A d \in DOMAIN clients : d # c => new[d] = clients[d]
         /\ \A d \in DOMAIN clients : new[d].redis = clients[d].redis /\ new[d].db = clients[d].db
<1>1. /\ \A d \in DOMAIN clients : clients[d] \in ClientType
      /\ DOMAIN clients = 1 .. Len(clients)
  BY Domains
<1>2. clients \in [DOMAIN clients -> ClientType]
  BY <1>1, Domains DEF DataOK
<1> QED BY <1>2 DEF ClientType, Links

LEMMA LinkOnly ==
  ASSUME DataOK, NEW c \in DOMAIN clients, NEW l \in Links
  PROVE  LET new == [clients EXCEPT ![c].link = l] IN
         /\ new \in [DOMAIN clients -> ClientType]
         /\ new[c].redis = clients[c].redis /\ new[c].db = clients[c].db
         /\ new[c].link = l /\ new[c].connected = clients[c].connected
         /\ \A d \in DOMAIN clients : d # c => new[d] = clients[d]
         /\ \A d \in DOMAIN clients : new[d].redis = clients[d].redis /\ new[d].db = clients[d].db
<1>1. \A d \in DOMAIN clients : clients[d] \in ClientType
  BY Domains
<1>2. clients \in [DOMAIN clients -> ClientType]
  BY <1>1, Domains DEF DataOK
<1> QED BY <1>2 DEF ClientType

LEMMA FlagOnly ==
  ASSUME DataOK, NEW c \in DOMAIN clients, NEW b \in BOOLEAN
  PROVE  LET new == [clients EXCEPT ![c].connected = b] IN
         /\ new \in [DOMAIN clients -> ClientType]
         /\ new[c].redis = clients[c].redis /\ new[c].db = clients[c].db
         /\ new[c].link = clients[c].link /\ new[c].connected = b
         /\ \A d \in DOMAIN clients : d # c => new[d] = clients[d]
         /\ \A d \in DOMAIN clients : new[d].redis = clients[d].redis /\ new[d].db = clients[d].db
<1>1. \A d \in DOMAIN clients : clients[d] \in ClientType
  BY Domains
<1>2. clients \in [DOMAIN clients -> ClientType]
  BY <1>1, Domains DEF DataOK
<1> QED BY <1>2 DEF ClientType

LEMMA UnlinkedType ==
  ASSUME DataOK, NEW h \in Redis
  PROVE  /\ Unlinked(h) \in [DOMAIN clients -> ClientType]
         /\ \A c \in DOMAIN clients :
              /\ Unlinked(h)[c].redis = clients[c].redis /\ Unlinked(h)[c].db = clients[c].db
              /\ Unlinked(h)[c].connected = clients[c].connected
              /\ Unlinked(h)[c].link = IF clients[c].redis = h /\ clients[c].link = "open"
                                         THEN "broken" ELSE clients[c].link
<1>1. \A d \in DOMAIN clients : clients[d] \in ClientType
  BY Domains
<1> QED BY <1>1 DEF Unlinked, ClientType, Links

-----------------------------------------------------------------------------
(* The threads after a step of one of them.                                   *)

LEMMA GotoStep ==
  ASSUME ThreadsOK, NEW th \in Threads, NEW s \in Steps, NEW f \in FrameType, Goto(th, s, f)
  PROVE  /\ at' \in [Threads -> Steps] /\ frame' \in [Threads -> FrameType]
         /\ at'[th] = s /\ frame'[th] = f
         /\ \A t \in Threads : t # th => at'[t] = at[t] /\ frame'[t] = frame[t]
BY DEF ThreadsOK, Goto

LEMMA OtherFrame ==
  ASSUME ThreadsOK, DataOK, DataOK', Evolves, NEW t \in Threads,
         at'[t] = at[t], frame'[t] = frame[t],
         \A n \in Databases : selectLock'[n] = t => selectLock[n] = t
  PROVE  FrameOK(t)'
<1>1. /\ FrameOK(t) /\ Len(maps) \in Nat /\ Len(maps') \in Nat
      /\ DOMAIN maps = 1 .. Len(maps) /\ DOMAIN maps' = 1 .. Len(maps')
      /\ DOMAIN clients \subseteq DOMAIN clients'
  BY LenProperties DEF ThreadsOK, Evolves, DataOK
<1>2. DOMAIN maps \subseteq DOMAIN maps' /\ 0 .. Len(maps) \subseteq 0 .. Len(maps')
  BY <1>1 DEF Evolves
<1> QED BY <1>1, <1>2 DEF FrameOK, StepsOf

LEMMA ThreadStep ==
  ASSUME Types, DataOK', Evolves, NEW th \in Threads, NEW s \in Steps, NEW f \in FrameType,
         Goto(th, s, f), FrameOK(th)',
         selectLock' \in [Databases -> Selectors \cup {NoThread}],
         \A t \in Threads : t # th =>
           \A n \in Databases : selectLock'[n] = t => selectLock[n] = t
  PROVE  Types' /\ Evolves
<1>1. /\ at' \in [Threads -> Steps] /\ frame' \in [Threads -> FrameType]
      /\ \A t \in Threads : t # th => at'[t] = at[t] /\ frame'[t] = frame[t]
  BY GotoStep DEF Types
<1>2. \A t \in Threads : t # th => FrameOK(t)'
  BY <1>1, OtherFrame DEF Types
<1> QED BY <1>1, <1>2 DEF Types, ThreadsOK

LEMMA SameThreads ==
  ASSUME Types, DataOK', Evolves, UNCHANGED threadVars
  PROVE  Types' /\ Evolves
<1>1. UNCHANGED <<at, frame, selectLock>>
  BY DEF threadVars
<1>2. \A t \in Threads : FrameOK(t)'
  BY <1>1, OtherFrame DEF Types
<1> QED BY <1>1, <1>2 DEF Types, ThreadsOK

\* A thread that no select lock can be held by.
LEMMA NoLock ==
  ASSUME ThreadsOK, NEW th \in Threads, th \notin Selectors, UNCHANGED selectLock
  PROVE  \A n \in Databases : selectLock[n] # th /\ selectLock'[n] # th
BY ThreadKinds DEF ThreadsOK

LEMMA StepSets ==
  ASSUME ThreadsOK, NEW th \in Threads
  PROVE  /\ at[th] \in OwnSteps \cup CriticalSteps \cup LateSteps => th \notin Selectors /\ th # Heart
         /\ at[th] \in {"reconnect", "clear"} => th = Heart
         /\ StepsOf(th) \subseteq Steps /\ at[th] \in StepsOf(th)
         /\ "idle" \in StepsOf(th) /\ CallSteps \subseteq StepsOf(th)
         /\ th \notin Selectors /\ th # Heart => StepsOf(th) = Steps \ {"reconnect", "clear"}
BY ThreadKinds DEF ThreadsOK, FrameOK, StepsOf, Steps, CallSteps, OwnSteps, CriticalSteps, LateSteps

\* A thread of a client ends its work.
LEMMA ReturnTypes ==
  ASSUME Types, DataOK', Evolves, NEW th \in Threads, th \notin Selectors, Return(th),
         UNCHANGED selectLock
  PROVE  Types' /\ Evolves
<1>1. Goto(th, "idle", NoFrame) /\ "idle" \in Steps /\ NoFrame \in FrameType
  BY NoFrameType DEF Return, Steps
<1>2. at'[th] = "idle" /\ frame'[th] = NoFrame
  BY <1>1, GotoStep DEF Types
<1>3. FrameOK(th)'
  BY <1>2, NoLock, NoFrameType DEF Types, FrameOK, StepsOf, OwnSteps, CriticalSteps, LateSteps
<1> QED BY <1>1, <1>3, ThreadStep DEF Types, ThreadsOK

LEMMA CheckTypes ==
  ASSUME Types, NEW th \in Threads, Check(th)
  PROVE  Types' /\ Evolves
<1> DEFINE q == frame[th].calls
<1>1. at[th] = "call" /\ q # <<>> /\ UNCHANGED <<selectLock, maps, clients>>
  BY DEF Check, routeVars
<1>2. DataOK' /\ Evolves
  BY SameData DEF Check, routeVars, serverVars, nodeVars, Types, DataOK
<1>3. frame[th] \in FrameType /\ FrameOK(th)
  BY DEF Types, ThreadsOK
<1>4. q \in Seq(CallType)
  BY <1>3, NextFrames
<1>5. CASE Goto(th, "call", [frame[th] EXCEPT !.calls = Tail(@)])
  <2>1. Tail(q) \in Seq(CallType)
    BY <1>1, <1>4, HeadTailProperties
  <2> DEFINE f == [frame[th] EXCEPT !.calls = Tail(q)]
  <2>2. f \in FrameType /\ f.next = frame[th].next /\ Goto(th, "call", f) /\ "call" \in Steps
    BY <1>3, <1>5, <2>1, NextFrames DEF Steps
  <2> HIDE DEF f
  <2>3. at'[th] = "call" /\ frame'[th] = f
    BY <2>2, GotoStep DEF Types
  <2>4. FrameOK(th)'
    BY <1>1, <1>3, <2>2, <2>3
       DEF FrameOK, StepsOf, CallSteps, OwnSteps, CriticalSteps, LateSteps
  <2> QED BY <1>1, <1>2, <2>2, <2>4, ThreadStep DEF Types, ThreadsOK
<1>6. CASE Goto(th, "new", frame[th])
  <2>1. at'[th] = "new" /\ frame'[th] = frame[th] /\ "new" \in Steps
    BY <1>3, <1>6, GotoStep DEF Types, Steps
  <2>2. FrameOK(th)'
    BY <1>1, <1>3, <2>1
       DEF FrameOK, StepsOf, CallSteps, OwnSteps, CriticalSteps, LateSteps
  <2> QED BY <1>1, <1>2, <1>3, <1>6, <2>1, <2>2, ThreadStep DEF Types, ThreadsOK
<1> QED BY <1>5, <1>6 DEF Check

\* The client that is made.
LEMMA NewClientData ==
  ASSUME Types, NEW th \in Threads, NewClient(th)
  PROVE  LET k == Head(frame[th].calls) IN
         /\ k \in CallType /\ frame[th].calls # <<>> /\ frame[th].calls \in Seq(CallType)
         /\ DataOK' /\ Evolves /\ Len(clients') = Len(clients) + 1
         /\ DOMAIN clients' = DOMAIN clients \cup {Len(clients')}
         /\ Len(clients') \notin DOMAIN clients
         /\ \A c \in DOMAIN clients : clients'[c] = clients[c]
         /\ clients'[Len(clients')] = [redis |-> k.redis, db |-> k.db,
                                       link |-> "connecting", connected |-> FALSE]
         /\ UNCHANGED maps
<1> DEFINE k == Head(frame[th].calls)
           new == [redis |-> k.redis, db |-> k.db, link |-> "connecting", connected |-> FALSE]
<1>1. frame[th].calls \in Seq(CallType) /\ frame[th].calls # <<>>
  BY NextFrames DEF Types, ThreadsOK, FrameOK, NewClient
<1>2. k \in CallType
  BY <1>1, HeadTailProperties
<1>3. new \in ClientType
  BY <1>2 DEF CallType, ClientType, Links
<1>4. clients' = Append(clients, new) /\ Len(clients) < MaxClients
  BY DEF NewClient
<1> HIDE DEF new, k
<1>5. /\ clients' \in Seq(ClientType) /\ Len(clients') = Len(clients) + 1
      /\ \A c \in 1 .. Len(clients) : clients'[c] = clients[c]
      /\ clients'[Len(clients) + 1] = new
      /\ DOMAIN clients' = 1 .. Len(clients) + 1
      /\ Len(clients) \in Nat /\ DOMAIN clients = 1 .. Len(clients)
  BY <1>3, <1>4, AppendProperties, LenProperties DEF Types, DataOK
<1>6. UNCHANGED <<isMaster, table, maps, server, role, vip, remoteRuns, reconnect, failures>>
  BY DEF NewClient, routeVars, serverVars, nodeVars
<1>7. Len(clients') <= MaxClients /\ Len(clients) <= Len(clients')
  BY <1>4, <1>5, Constants
<1>8. maps \in Seq([Databases -> 0 .. Len(clients')])
  <2>1. [Databases -> 0 .. Len(clients)] \subseteq [Databases -> 0 .. Len(clients')]
    BY <1>5
  <2> QED BY <2>1, SeqMonotonic DEF Types, DataOK
<1>9. DataOK'
  BY <1>5, <1>6, <1>7, <1>8 DEF Types, DataOK
<1>10. Evolves
  BY <1>5, <1>6, <1>7, Domains DEF Evolves, Types
<1>11. DOMAIN clients' = DOMAIN clients \cup {Len(clients')} /\ Len(clients') \notin DOMAIN clients
  BY <1>5
<1> QED BY <1>1, <1>2, <1>5, <1>6, <1>9, <1>10, <1>11 DEF new, k

LEMMA NewClientTypes ==
  ASSUME Types, NEW th \in Threads, NewClient(th)
  PROVE  Types' /\ Evolves
<1> DEFINE k == Head(frame[th].calls)
           f == [frame[th] EXCEPT !.found = MapOf(k.redis), !.made = Len(clients')]
<1>1. /\ k \in CallType /\ frame[th].calls # <<>> /\ DataOK' /\ Evolves
      /\ Len(clients') \in DOMAIN clients' /\ UNCHANGED maps
  BY NewClientData
<1>2. /\ frame[th] \in FrameType /\ FrameOK(th)
      /\ MapOf(k.redis) \in 0 .. Len(maps) /\ Len(maps) \in Nat /\ Len(clients') \in Nat
  <2>1. k.redis \in Redis
    BY <1>1 DEF CallType
  <2> QED BY <1>1, <2>1, Domains, LenProperties DEF Types, ThreadsOK, DataOK
<1>3. /\ f \in FrameType /\ f.calls = frame[th].calls /\ f.next = frame[th].next
      /\ f.found = MapOf(k.redis) /\ f.made = Len(clients')
  <2> DEFINE m == MapOf(k.redis)
             c == Len(clients')
  <2>1. m \in Nat /\ c \in Nat
    BY <1>2
  <2> HIDE DEF m, c
  <2>2. LET g == [frame[th] EXCEPT !.found = m, !.made = c] IN
        g \in FrameType /\ g.calls = frame[th].calls /\ g.next = frame[th].next /\ g.found = m /\ g.made = c
    BY <1>2, <2>1 DEF FrameType
  <2> QED BY <2>2 DEF m, c
<1>4. Goto(th, "put", f) /\ "put" \in Steps /\ UNCHANGED selectLock
  BY DEF NewClient, Steps
<1> HIDE DEF f
<1>5. at'[th] = "put" /\ frame'[th] = f
  BY <1>3, <1>4, GotoStep DEF Types
<1>6. FrameOK(th)'
  BY <1>1, <1>2, <1>3, <1>5 DEF FrameOK, StepsOf, CallSteps, OwnSteps, CriticalSteps, LateSteps
<1> QED BY <1>1, <1>3, <1>4, <1>6, ThreadStep DEF Types, ThreadsOK

\* The maps after the client is put.
LEMMA PutClientData ==
  ASSUME Types, NEW th \in Threads, PutClient(th)
  PROVE  LET k == Head(frame[th].calls)
             f == frame[th].found
             c == frame[th].made
             m == IF f # 0 THEN f ELSE Len(maps') IN
         /\ k \in CallType /\ frame[th].calls # <<>> /\ frame[th].calls \in Seq(CallType)
         /\ c \in DOMAIN clients /\ f \in 0 .. Len(maps)
         /\ DataOK' /\ Evolves /\ UNCHANGED <<clients, isMaster>>
         /\ m \in DOMAIN maps' /\ m # 0
         /\ \A x \in DOMAIN maps : maps'[x] = IF x = f THEN [maps[x] EXCEPT ![k.db] = c] ELSE maps[x]
         /\ f # 0 => UNCHANGED table /\ DOMAIN maps' = DOMAIN maps
         /\ f = 0 => /\ table' = [table EXCEPT ![isMaster[k.redis]] = m]
                     /\ m \notin DOMAIN maps /\ DOMAIN maps' = DOMAIN maps \cup {m}
                     /\ maps'[m] = [n \in Databases |-> IF n = k.db THEN c ELSE 0]
<1> DEFINE k == Head(frame[th].calls)
           f == frame[th].found
           c == frame[th].made
           M == [Databases -> 0 .. Len(clients)]
<1>1. frame[th].calls \in Seq(CallType) /\ frame[th].calls # <<>>
  BY NextFrames DEF Types, ThreadsOK, FrameOK, PutClient
<1>2. k \in CallType /\ k.db \in Databases /\ k.redis \in Redis
  <2>1. k \in CallType
    BY <1>1, HeadTailProperties
  <2> QED BY <2>1 DEF CallType
<1>3. c \in DOMAIN clients /\ f \in 0 .. Len(maps) /\ c \in 0 .. Len(clients)
  <2>1. c \in DOMAIN clients /\ f \in 0 .. Len(maps)
    BY DEF Types, ThreadsOK, FrameOK, PutClient
  <2> QED BY <2>1, Domains DEF Types
<1>4. UNCHANGED <<isMaster, clients, server, role, vip, remoteRuns, reconnect, failures>>
  BY DEF PutClient, serverVars, nodeVars
<1>5. /\ maps \in Seq(M) /\ Len(maps) \in Nat /\ DOMAIN maps = 1 .. Len(maps)
      /\ \A x \in DOMAIN maps : maps[x] \in M
  BY Domains DEF Types, DataOK
<1> HIDE DEF k, f, c, M
<1>6. CASE f # 0
  <2>1. maps' = [maps EXCEPT ![f] = [maps[f] EXCEPT ![k.db] = c]] /\ UNCHANGED table
    BY <1>6 DEF PutClient, k, f, c
  <2>2. f \in DOMAIN maps
    BY <1>3, <1>5, <1>6
  <2>3. [maps[f] EXCEPT ![k.db] = c] \in M
    BY <1>3, <1>5, <2>2 DEF M
  <2>4. maps' \in [1 .. Len(maps) -> M]
    BY <1>5, <2>1, <2>3
  <2>5. maps' \in Seq(M) /\ Len(maps') = Len(maps) /\ DOMAIN maps' = DOMAIN maps
    BY <1>5, <2>4
  <2>6. \A x \in DOMAIN maps : maps'[x] = IF x = f THEN [maps[x] EXCEPT ![k.db] = c] ELSE maps[x]
    BY <1>5, <2>1
  <2>7. DataOK'
    BY <1>4, <2>1, <2>5 DEF Types, DataOK, M
  <2>8. Evolves
    BY <1>4, <1>5, <2>5, Domains DEF Evolves, Types
  <2> QED BY <1>1, <1>2, <1>3, <1>4, <1>6, <2>1, <2>2, <2>5, <2>6, <2>7, <2>8 DEF k, f, c
<1>7. CASE f = 0
  <2> DEFINE new == [n \in Databases |-> IF n = k.db THEN c ELSE 0]
  <2>1. maps' = Append(maps, new) /\ table' = [table EXCEPT ![isMaster[k.redis]] = Len(maps')]
    BY <1>7 DEF PutClient, k, f, c
  <2>2. new \in M
    BY <1>3, <1>5, Domains DEF M, Types
  <2> HIDE DEF new
  <2>3. /\ maps' \in Seq(M) /\ Len(maps') = Len(maps) + 1
        /\ \A x \in 1 .. Len(maps) : maps'[x] = maps[x]
        /\ maps'[Len(maps) + 1] = new /\ DOMAIN maps' = 1 .. Len(maps) + 1
    BY <1>5, <2>1, <2>2, AppendProperties, LenProperties
  <2>4. table' \in [BOOLEAN -> 0 .. Len(maps')]
    BY <1>2, <1>5, <2>1, <2>3 DEF Types, DataOK
  <2>5. DataOK'
    BY <1>4, <2>3, <2>4 DEF Types, DataOK, M
  <2>6. Evolves
    BY <1>4, <1>5, <2>3, Domains DEF Evolves, Types
  <2>7. DOMAIN maps' = DOMAIN maps \cup {Len(maps')} /\ Len(maps') \notin DOMAIN maps
        /\ Len(maps') # 0 /\ f \notin DOMAIN maps
    BY <1>5, <1>7, <2>3
  <2> QED BY <1>1, <1>2, <1>3, <1>4, <1>5, <1>7, <2>1, <2>3, <2>5, <2>6, <2>7 DEF k, f, c, new
<1> QED BY <1>6, <1>7

LEMMA PutClientTypes ==
  ASSUME Types, NEW th \in Threads, PutClient(th)
  PROVE  Types' /\ Evolves
<1> DEFINE q == frame[th].calls
           f == [frame[th] EXCEPT !.calls = Tail(q), !.found = 0, !.made = 0]
<1>1. q \in Seq(CallType) /\ q # <<>> /\ DataOK' /\ Evolves
  BY PutClientData
<1>2. frame[th] \in FrameType /\ FrameOK(th) /\ Tail(q) \in Seq(CallType) /\ at[th] = "put"
  BY <1>1, HeadTailProperties DEF Types, ThreadsOK, PutClient
<1>3. f \in FrameType /\ f.next = frame[th].next
  BY <1>2, NextFrames
<1>4. Goto(th, "call", f) /\ "call" \in Steps /\ UNCHANGED selectLock
  BY DEF PutClient, Steps
<1> HIDE DEF f
<1>5. at'[th] = "call" /\ frame'[th] = f
  BY <1>3, <1>4, GotoStep DEF Types
<1>6. FrameOK(th)'
  BY <1>2, <1>3, <1>5 DEF FrameOK, StepsOf, CallSteps, OwnSteps, CriticalSteps, LateSteps
<1> QED BY <1>1, <1>3, <1>4, <1>6, ThreadStep DEF Types, ThreadsOK

LEMMA CallsDoneTypes ==
  ASSUME Types, NEW th \in Threads, CallsDone(th)
  PROVE  Types' /\ Evolves
<1>1. at[th] = "call" /\ frame[th] \in FrameType /\ FrameOK(th)
  BY DEF Types, ThreadsOK, CallsDone
<1>2. DataOK' /\ Evolves
  BY SameData DEF CallsDone, routeVars, serverVars, nodeVars, Types, DataOK
<1>3. selectLock' = [n \in Databases |-> IF selectLock[n] = th THEN NoThread ELSE selectLock[n]]
  BY DEF CallsDone
<1>4. /\ selectLock' \in [Databases -> Selectors \cup {NoThread}]
      /\ \A n \in Databases : selectLock'[n] # th
      /\ \A t \in Threads : \A n \in Databases : selectLock'[n] = t => selectLock[n] = t
  BY <1>3, ThreadKinds DEF Types, ThreadsOK
<1>5. CASE frame[th].next # 0
  <2>1. Goto(th, "reconnect", frame[th]) /\ "reconnect" \in Steps /\ th = Heart
    BY <1>1, <1>5 DEF CallsDone, Steps, FrameOK
  <2>2. at'[th] = "reconnect" /\ frame'[th] = frame[th]
    BY <1>1, <2>1, GotoStep DEF Types
  <2>3. FrameOK(th)'
    BY <1>5, <2>1, <2>2, ThreadKinds DEF FrameOK, StepsOf, OwnSteps, CriticalSteps, LateSteps
  <2> QED BY <1>1, <1>2, <1>4, <2>1, <2>3, ThreadStep
<1>6. CASE frame[th].next = 0
  <2>1. Goto(th, "idle", NoFrame) /\ "idle" \in Steps
    BY <1>6 DEF CallsDone, Return, Steps
  <2>2. at'[th] = "idle" /\ frame'[th] = NoFrame
    BY <2>1, GotoStep, NoFrameType DEF Types
  <2>3. FrameOK(th)'
    BY <1>4, <2>2, NoFrameType DEF FrameOK, StepsOf, OwnSteps, CriticalSteps, LateSteps
  <2> QED BY <1>2, <1>4, <2>1, <2>3, NoFrameType, ThreadStep
<1> QED BY <1>5, <1>6

LEMMA SelectTypes ==
  ASSUME Types, NEW th \in Selectors, NEW n \in Databases, Select(th, n)
  PROVE  Types' /\ Evolves
<1> DEFINE q == <<Call(Local, n, TRUE), Call(Remote, n, TRUE)>>
           f == [NoFrame EXCEPT !.calls = q]
<1>1. q \in Seq(CallType)
  BY Constants DEF Call, CallType
<1>2. f \in FrameType /\ f.next = 0 /\ Goto(th, "call", f) /\ "call" \in Steps /\ th \in Threads
  BY <1>1, NewFrames, ThreadKinds DEF Select, Steps
<1>3. DataOK' /\ Evolves
  BY SameData DEF Select, routeVars, serverVars, nodeVars, Types, DataOK
<1> HIDE DEF f
<1>4. at'[th] = "call" /\ frame'[th] = f
  BY <1>2, GotoStep DEF Types
<1>5. FrameOK(th)'
  BY <1>2, <1>4 DEF FrameOK, StepsOf, CallSteps, OwnSteps, CriticalSteps, LateSteps
<1>6. /\ selectLock' \in [Databases -> Selectors \cup {NoThread}]
      /\ \A t \in Threads : t # th => \A d \in Databases : selectLock'[d] = t => selectLock[d] = t
  BY DEF Select, Types, ThreadsOK
<1> QED BY <1>2, <1>3, <1>5, <1>6, ThreadStep

\* A thread of a client goes on.
LEMMA WorkTypes ==
  ASSUME Types, DataOK', Evolves, NEW th \in Threads, th \notin Selectors, th # Heart,
         NEW s \in Steps \ {"idle", "put", "reconnect", "clear"}, NEW f \in FrameType,
         Goto(th, s, f), UNCHANGED selectLock, f.next = 0,
         s = "new" => f.calls # <<>>,
         s \in OwnSteps \cup CriticalSteps \cup LateSteps => f.redis \in Redis,
         s \in {"removeSlave", "promote", "putMaster", "demote", "promotePeer", "close"} =>
           f.down \in DOMAIN maps',
         s \in {"promote", "putMaster"} => f.slaves \in DOMAIN maps'
  PROVE  Types' /\ Evolves
<1>1. at'[th] = s /\ frame'[th] = f
  BY GotoStep DEF Types
<1>2. s \in StepsOf(th)
  BY StepSets DEF Types
<1>3. FrameOK(th)'
  BY <1>1, <1>2 DEF FrameOK, StepsOf
<1> QED BY <1>3, ThreadStep DEF Types, ThreadsOK

\* What is known of a thread of a client that is at work.
LEMMA WorkFrame ==
  ASSUME Types, NEW th \in Threads, at[th] \in OwnSteps \cup CriticalSteps \cup LateSteps
  PROVE  /\ th \notin Selectors /\ th # Heart
         /\ frame[th] \in FrameType /\ frame[th].next = 0 /\ frame[th].redis \in Redis
         /\ Peer(frame[th].redis) \in Redis
         /\ at[th] \in {"removeSlave", "promote", "putMaster", "demote", "promotePeer", "close"} =>
              frame[th].down \in DOMAIN maps
         /\ at[th] \in {"promote", "putMaster"} => frame[th].slaves \in DOMAIN maps
BY StepSets, Constants DEF Types, ThreadsOK, FrameOK

LEMMA SameAll ==
  ASSUME Types,
         UNCHANGED <<maps, clients, isMaster, table, server, role, vip, remoteRuns, reconnect, failures>>
  PROVE  DataOK' /\ Evolves
BY SameData DEF Types, DataOK

\* Only links and flags of clients change.
LEMMA ClientChange ==
  ASSUME Types, NEW new \in [DOMAIN clients -> ClientType], clients' = new,
         \A c \in DOMAIN clients : new[c].redis = clients[c].redis /\ new[c].db = clients[c].db,
         UNCHANGED <<maps, isMaster, table, vip, remoteRuns, reconnect>>,
         server' \in [Redis -> {"up", "hung", "dead"}], role' \in [Redis -> {"master", "slave"}],
         failures' \in 0 .. MaxFailures
  PROVE  DataOK' /\ Evolves /\ DOMAIN clients' = DOMAIN clients
<1>1. new \in Seq(ClientType) /\ Len(new) = Len(clients) /\ DOMAIN new = DOMAIN clients
  BY Relinked DEF Types
<1> QED BY <1>1, ClientsData DEF Types, DataOK

LEMMA ConnectedTypes ==
  ASSUME Types, NEW c \in DOMAIN clients, Connected(c)
  PROVE  Types' /\ Evolves
<1> DEFINE new == [clients EXCEPT ![c].link = "open", ![c].connected = TRUE]
           th == Loop(c)
           f == [NoFrame EXCEPT !.redis = clients[c].redis]
<1>1. /\ new \in [DOMAIN clients -> ClientType]
      /\ \A d \in DOMAIN clients : new[d].redis = clients[d].redis /\ new[d].db = clients[d].db
  BY LinkOpened DEF Types
<1>2. clients' = new
  BY DEF Connected
<1> HIDE DEF new
<1>3. DataOK' /\ Evolves
  BY <1>1, <1>2, ClientChange DEF Connected, routeVars, serverVars, nodeVars, Types, DataOK
<1>4. th \in Threads /\ th \notin Selectors /\ th # Heart /\ clients[c].redis \in Redis
  BY ThreadKinds, Domains DEF Types, ClientType
<1>5. CASE clients[c].db = 0
  <2>1. f \in FrameType /\ f.redis \in Redis /\ f.next = 0
    BY <1>4, NewFrames
  <2>2. Goto(th, "slaveof", f) /\ UNCHANGED selectLock
    BY <1>5 DEF Connected
  <2>3. "slaveof" \in Steps \ {"idle", "put", "reconnect", "clear"}
    BY DEF Steps
  <2> HIDE DEF th, f
  <2> QED BY <1>3, <1>4, <2>1, <2>2, <2>3, WorkTypes DEF CriticalSteps, LateSteps
<1>6. CASE clients[c].db # 0
  BY <1>3, <1>6, SameThreads DEF Connected, threadVars
<1> QED BY <1>5, <1>6

LEMMA ConnectFailedTypes ==
  ASSUME Types, NEW c \in DOMAIN clients, ConnectFailed(c)
  PROVE  Types' /\ Evolves
<1> DEFINE new == [clients EXCEPT ![c].link = "failed"]
<1>1. /\ new \in [DOMAIN clients -> ClientType]
      /\ \A d \in DOMAIN clients : new[d].redis = clients[d].redis /\ new[d].db = clients[d].db
  <2>1. DataOK /\ "failed" \in Links
    BY DEF Types, Links
  <2> QED BY <2>1, LinkOnly
<1>2. clients' = new
  BY DEF ConnectFailed
<1> HIDE DEF new
<1>3. DataOK' /\ Evolves
  BY <1>1, <1>2, ClientChange DEF ConnectFailed, routeVars, serverVars, nodeVars, Types, DataOK
<1> QED BY <1>3, SameThreads DEF ConnectFailed

LEMMA ReassignType ==
  ASSUME DataOK, NEW c, NEW h \in Redis, NEW r \in {"master", "slave"}, Reassign(c, h, r)
  PROVE  role' \in [Redis -> {"master", "slave"}]
BY DEF Reassign, DataOK

LEMMA SendSlaveofTypes ==
  ASSUME Types, NEW c \in DOMAIN clients, SendSlaveof(c)
  PROVE  Types' /\ Evolves
<1> DEFINE th == Loop(c)
<1>1. th \in Threads /\ at[th] = "slaveof"
  BY ThreadKinds, Domains DEF Types, SendSlaveof
<1>2. /\ th \notin Selectors /\ th # Heart
      /\ frame[th] \in FrameType /\ frame[th].next = 0 /\ frame[th].redis \in Redis
  BY <1>1, WorkFrame DEF OwnSteps
<1>3. role' \in [Redis -> {"master", "slave"}]
  BY <1>2, ReassignType DEF SendSlaveof, Types, DataOK
<1>4. DataOK' /\ Evolves
  BY <1>3, SameData DEF SendSlaveof, routeVars, nodeVars, Types, DataOK
<1>5. /\ Goto(th, "initDatabase", frame[th]) /\ UNCHANGED selectLock
      /\ "initDatabase" \in Steps \ {"idle", "put", "reconnect", "clear"}
  BY DEF SendSlaveof, Steps
<1> HIDE DEF th
<1> QED BY <1>1, <1>2, <1>4, <1>5, WorkTypes DEF CriticalSteps, LateSteps

LEMMA FunctionIsSeq ==
  ASSUME NEW S, NEW n \in Nat, NEW q \in [1 .. n -> S]
  PROVE  q \in Seq(S)
OBVIOUS

\* The calls that InitDatabase makes: the databases of a map, in any order.
SlaveCalls(h, order) == [k \in DOMAIN order |-> Call(h, order[k], FALSE)]

LEMMA Orders ==
  ASSUME NEW S \in SUBSET Databases, NEW order \in Bijection(1 .. Cardinality(S), S),
         NEW h \in Redis
  PROVE  LET q == SlaveCalls(h, order) IN
         /\ q \in Seq(CallType)
         /\ \A k \in DOMAIN q : q[k].redis = h /\ q[k].db \in S /\ ~q[k].check
<1>1. Cardinality(S) \in Nat
  BY DatabasesAssumption, FS_Subset, FS_CardinalityType
<1>2. order \in [1 .. Cardinality(S) -> S]
  BY DEF Bijection, Injection
<1> DEFINE n == Cardinality(S)
           q == SlaveCalls(h, order)
<1>3. \A k \in DOMAIN q : q[k] \in CallType /\ q[k].redis = h /\ q[k].db \in S /\ ~q[k].check
  BY <1>2 DEF Call, CallType, SlaveCalls
<1>4. q \in [1 .. n -> CallType]
  BY <1>2, <1>3 DEF SlaveCalls
<1>5. n \in Nat
  BY <1>1
<1> HIDE DEF n
<1>6. q \in Seq(CallType)
  BY <1>4, <1>5, FunctionIsSeq
<1> QED BY <1>3, <1>6

LEMMA InitDatabaseTypes ==
  ASSUME Types, NEW c \in DOMAIN clients, InitDatabase(c)
  PROVE  Types' /\ Evolves
<1> DEFINE th == Loop(c)
           h == frame[th].redis
           numbers == IF isMaster[h] \/ table[TRUE] = 0 THEN {}
                      ELSE {n \in Databases \ {0} : maps[table[TRUE]][n] # 0}
<1>1. th \in Threads /\ at[th] = "initDatabase"
  BY ThreadKinds, Domains DEF Types, InitDatabase
<1>2. th \notin Selectors /\ th # Heart /\ h \in Redis
  BY <1>1, WorkFrame DEF OwnSteps
<1>3. numbers \in SUBSET Databases
  OBVIOUS
<1>4. PICK order \in Bijection(1 .. Cardinality(numbers), numbers) :
        Goto(th, "call", [NoFrame EXCEPT !.calls = [k \in DOMAIN order |-> Call(h, order[k], FALSE)]])
  BY DEF InitDatabase
<1> HIDE DEF numbers, h
<1>5. SlaveCalls(h, order) \in Seq(CallType)
  BY <1>2, <1>3, <1>4, Orders
<1> DEFINE q == SlaveCalls(h, order)
<1> DEFINE f == [NoFrame EXCEPT !.calls = q]
<1>6. Goto(th, "call", f)
  BY <1>4 DEF SlaveCalls
<1>7. f \in FrameType /\ f.next = 0
  BY <1>5, NewFrames
<1>8. DataOK' /\ Evolves /\ UNCHANGED selectLock
  BY SameAll DEF InitDatabase, routeVars, serverVars, nodeVars
<1>9. "call" \in Steps \ {"idle", "put", "reconnect", "clear"}
  BY DEF Steps
<1> HIDE DEF f, th
<1> QED BY <1>1, <1>2, <1>6, <1>7, <1>8, <1>9, WorkTypes
        DEF OwnSteps, CriticalSteps, LateSteps

LEMMA ChannelInactiveTypes ==
  ASSUME Types, NEW c \in DOMAIN clients, ChannelInactive(c)
  PROVE  Types' /\ Evolves
<1> DEFINE th == Loop(c)
           f == [NoFrame EXCEPT !.redis = clients[c].redis]
<1>1. th \in Threads /\ th \notin Selectors /\ th # Heart /\ clients[c].redis \in Redis
  BY ThreadKinds, Domains DEF Types, ClientType
<1>2. f \in FrameType /\ f.redis \in Redis /\ f.next = 0
  BY <1>1, NewFrames
<1>3. "remove" \in Steps \ {"idle", "put", "reconnect", "clear"}
  BY DEF Steps
<1>4. UNCHANGED <<selectLock, maps, isMaster, table, vip, remoteRuns, reconnect>>
      /\ server' \in [Redis -> {"up", "hung", "dead"}] /\ role' \in [Redis -> {"master", "slave"}]
      /\ failures' \in 0 .. MaxFailures
  BY DEF ChannelInactive, routeVars, serverVars, nodeVars, Types, DataOK
<1>5. CASE clients[c].db = 0 /\ clients[c].connected
  <2> DEFINE new == [clients EXCEPT ![c].link = "closed", ![c].connected = FALSE]
  <2>1. /\ new \in [DOMAIN clients -> ClientType]
        /\ \A d \in DOMAIN clients : new[d].redis = clients[d].redis /\ new[d].db = clients[d].db
    BY LinkClosed DEF Types
  <2>2. clients' = new /\ Goto(th, "remove", f)
    BY <1>5 DEF ChannelInactive
  <2> HIDE DEF new, th, f
  <2>3. DataOK' /\ Evolves
    BY <1>4, <2>1, <2>2, ClientChange
  <2> QED BY <1>1, <1>2, <1>3, <1>4, <2>2, <2>3, WorkTypes
  DEF OwnSteps, CriticalSteps, LateSteps
<1>6. CASE ~(clients[c].db = 0 /\ clients[c].connected)
  <2> DEFINE new == [clients EXCEPT ![c].link = "closed"]
  <2>1. /\ new \in [DOMAIN clients -> ClientType]
        /\ \A d \in DOMAIN clients : new[d].redis = clients[d].redis /\ new[d].db = clients[d].db
    <3>1. DataOK /\ "closed" \in Links
      BY DEF Types, Links
    <3> QED BY <3>1, LinkOnly
  <2>2. clients' = new /\ UNCHANGED <<at, frame>>
    BY <1>6 DEF ChannelInactive
  <2> HIDE DEF new, th, f
  <2>3. DataOK' /\ Evolves
    BY <1>4, <2>1, <2>2, ClientChange
  <2> QED BY <1>4, <2>2, <2>3, SameThreads DEF threadVars
<1> QED BY <1>5, <1>6

LEMMA TimerTypes ==
  ASSUME Types, NEW c \in DOMAIN clients, TimerStep(c)
  PROVE  Types' /\ Evolves
<1> DEFINE th == Timer(c)
<1>1. th \in Threads /\ th \notin Selectors /\ th # Heart /\ clients[c].redis \in Redis
  BY ThreadKinds, Domains DEF Types, ClientType
<1>2. /\ "declare" \in Steps \ {"idle", "put", "reconnect", "clear"}
      /\ "remove" \in Steps \ {"idle", "put", "reconnect", "clear"}
  BY DEF Steps
<1>3. CASE TimerLate(c)
  <2> DEFINE f == [NoFrame EXCEPT !.redis = clients[c].redis]
  <2>1. f \in FrameType /\ f.redis \in Redis /\ f.next = 0
    BY <1>1, NewFrames
  <2>2. Goto(th, "declare", f) /\ UNCHANGED selectLock /\ DataOK' /\ Evolves
    BY <1>3, SameAll DEF TimerLate, routeVars, serverVars, nodeVars
  <2> HIDE DEF th, f
  <2> QED BY <1>1, <1>2, <2>1, <2>2, WorkTypes
  DEF OwnSteps, CriticalSteps, LateSteps
<1>4. CASE TimerDeclare(c)
  <2> DEFINE new == [clients EXCEPT ![c].connected = FALSE]
  <2>1. /\ new \in [DOMAIN clients -> ClientType]
        /\ \A d \in DOMAIN clients : new[d].redis = clients[d].redis /\ new[d].db = clients[d].db
    BY FlagOnly DEF Types
  <2>2. clients' = new /\ Goto(th, "remove", frame[th]) /\ UNCHANGED selectLock
    BY <1>4 DEF TimerDeclare
  <2> HIDE DEF new
  <2>3. DataOK' /\ Evolves
    BY <1>4, <2>1, <2>2, ClientChange DEF TimerDeclare, routeVars, serverVars, nodeVars, Types, DataOK
  <2>4. frame[th] \in FrameType /\ frame[th].next = 0 /\ frame[th].redis \in Redis
    BY <1>1, <1>4, WorkFrame DEF TimerDeclare, CriticalSteps
  <2> HIDE DEF th
  <2> QED BY <1>1, <1>2, <2>2, <2>3, <2>4, WorkTypes
  DEF OwnSteps, CriticalSteps, LateSteps
<1> QED BY <1>3, <1>4 DEF TimerStep

-----------------------------------------------------------------------------
(* redisDown keeps the types.                                                 *)

LEMMA RemoveTypes ==
  ASSUME Types, NEW th \in Threads, RemoveDown(th) \/ RemoveSlave(th)
  PROVE  Types' /\ Evolves
<1> DEFINE h == frame[th].redis
<1>1. at[th] \in {"remove", "removeSlave"}
  BY DEF RemoveDown, RemoveSlave
<1>2. /\ th \notin Selectors /\ th # Heart /\ h \in Redis
      /\ frame[th] \in FrameType /\ frame[th].next = 0
      /\ at[th] = "removeSlave" => frame[th].down \in DOMAIN maps
  BY <1>1, WorkFrame DEF CriticalSteps
<1>3. \A s \in {"removeSlave", "promote", "demote"} : s \in Steps \ {"idle", "put", "reconnect", "clear"}
  BY DEF Steps
<1>4. UNCHANGED selectLock
  BY DEF RemoveDown, RemoveSlave
<1>5. DataOK' /\ Evolves
  <2>1. table' \in [BOOLEAN -> 0 .. Len(maps)]
    <3>1. 0 \in 0 .. Len(maps)
      BY Domains DEF Types
    <3> QED BY <3>1 DEF RemoveDown, RemoveSlave, Types, DataOK
  <2> QED BY <2>1, SameData DEF RemoveDown, RemoveSlave, serverVars, nodeVars, Types, DataOK
<1>6. /\ MapOf(h) \in 0 .. Len(maps) /\ table[FALSE] \in 0 .. Len(maps) /\ table[FALSE] \in Nat
      /\ table[FALSE] # 0 => table[FALSE] \in DOMAIN maps
      /\ DOMAIN maps = 1 .. Len(maps) /\ Len(maps) \in Nat
      /\ DOMAIN maps' = DOMAIN maps
  <2>1. /\ MapOf(h) \in 0 .. Len(maps) /\ table[FALSE] \in 0 .. Len(maps)
        /\ DOMAIN maps = 1 .. Len(maps) /\ Len(maps) \in Nat
    BY <1>2, Domains DEF Types
  <2>2. maps' = maps
    BY DEF RemoveDown, RemoveSlave
  <2> DEFINE m == table[FALSE]
  <2>3. m \in 0 .. Len(maps)
    BY <2>1
  <2> HIDE DEF m
  <2>4. m \in Nat /\ (m # 0 => m \in DOMAIN maps)
    BY <2>1, <2>3
  <2> QED BY <2>1, <2>2, <2>4 DEF m
<1>7. CASE RemoveDown(th)
  <2> DEFINE f == [frame[th] EXCEPT !.down = MapOf(h)]
  <2>1. CASE MapOf(h) = 0
    BY <1>2, <1>4, <1>5, <1>7, <2>1, ReturnTypes DEF RemoveDown
  <2>2. CASE MapOf(h) # 0
    <3>1. MapOf(h) \in Nat /\ MapOf(h) \in DOMAIN maps
      BY <1>6, <2>2
    <3>2. f \in FrameType /\ f.redis \in Redis /\ f.next = 0 /\ f.down \in DOMAIN maps
      <4> DEFINE m == MapOf(h)
      <4>1. m \in Nat /\ m \in DOMAIN maps
        BY <3>1
      <4> HIDE DEF m
      <4>2. LET g == [frame[th] EXCEPT !.down = m] IN
            g \in FrameType /\ g.redis = h /\ g.next = frame[th].next /\ g.down = m
        BY <1>2, <4>1 DEF FrameType
      <4> QED BY <1>2, <4>1, <4>2 DEF m
    <3>3. Goto(th, "removeSlave", f)
      BY <1>7, <2>2 DEF RemoveDown
    <3> HIDE DEF f, h
    <3> QED BY <1>2, <1>3, <1>4, <1>5, <1>6, <3>2, <3>3, WorkTypes DEF OwnSteps, LateSteps
  <2> QED BY <2>1, <2>2
<1>8. CASE RemoveSlave(th)
  <2>1. frame[th].down \in DOMAIN maps
    BY <1>2, <1>8 DEF RemoveSlave
  <2>2. CASE isMaster[h]
    <3> DEFINE f == [frame[th] EXCEPT !.slaves = table[FALSE]]
               m == table[FALSE]
    <3>1. /\ f \in FrameType /\ f.redis \in Redis /\ f.next = 0 /\ f.down \in DOMAIN maps
          /\ f.slaves = table[FALSE]
      <4>1. m \in Nat
        BY <1>6
      <4> HIDE DEF m
      <4>2. LET g == [frame[th] EXCEPT !.slaves = m] IN
            /\ g \in FrameType /\ g.redis = h /\ g.next = frame[th].next /\ g.down = frame[th].down
            /\ g.slaves = m
        BY <1>2, <4>1 DEF FrameType
      <4> QED BY <1>2, <2>1, <4>2 DEF m
    <3>2. CASE table[FALSE] = 0
      <4>1. Goto(th, "demote", f)
        BY <1>8, <2>2, <3>2 DEF RemoveSlave
      <4> HIDE DEF f, h
      <4> QED BY <1>2, <1>3, <1>4, <1>5, <1>6, <3>1, <4>1, WorkTypes DEF OwnSteps, LateSteps
    <3>3. CASE table[FALSE] # 0
      <4>1. Goto(th, "promote", f)
        BY <1>8, <2>2, <3>3 DEF RemoveSlave
      <4>2. f.slaves \in DOMAIN maps
        <5> HIDE DEF f
        <5> QED BY <1>6, <3>1, <3>3
      <4> HIDE DEF f, h
      <4> QED BY <1>2, <1>3, <1>4, <1>5, <1>6, <3>1, <4>1, <4>2, WorkTypes DEF OwnSteps, LateSteps
    <3> QED BY <3>2, <3>3
  <2>3. CASE ~isMaster[h]
    <3>1. Goto(th, "demote", frame[th])
      BY <1>8, <2>3 DEF RemoveSlave
    <3> HIDE DEF h
    <3> QED BY <1>2, <1>3, <1>4, <1>5, <1>6, <2>1, <3>1, WorkTypes DEF OwnSteps, LateSteps, h
  <2> QED BY <2>2, <2>3
<1> QED BY <1>7, <1>8

\* The steps that go on with the same locals.
LEMMA DownTypes ==
  ASSUME Types, NEW th \in Threads,
         Promote(th) \/ PutMaster(th) \/ Demote(th) \/ PromotePeer(th)
  PROVE  Types' /\ Evolves
<1> DEFINE h == frame[th].redis
<1>1. at[th] \in {"promote", "putMaster", "demote", "promotePeer"}
  BY DEF Promote, PutMaster, Demote, PromotePeer
<1>2. /\ th \notin Selectors /\ th # Heart /\ h \in Redis /\ Peer(h) \in Redis
      /\ frame[th] \in FrameType /\ frame[th].next = 0
      /\ frame[th].down \in DOMAIN maps
      /\ at[th] \in {"promote", "putMaster"} => frame[th].slaves \in DOMAIN maps
  BY <1>1, WorkFrame DEF CriticalSteps
<1>3. /\ "putMaster" \in Steps \ {"idle", "put", "reconnect", "clear"}
      /\ "demote" \in Steps \ {"idle", "put", "reconnect", "clear"}
      /\ "promotePeer" \in Steps \ {"idle", "put", "reconnect", "clear"}
      /\ "close" \in Steps \ {"idle", "put", "reconnect", "clear"}
  BY DEF Steps
<1>4. UNCHANGED selectLock /\ UNCHANGED maps
  BY DEF Promote, PutMaster, Demote, PromotePeer, routeVars
<1>5. CASE Promote(th)
  <2> DEFINE c == maps[frame[th].slaves][0]
  <2>1. role' \in [Redis -> {"master", "slave"}]
    <3>1. c # 0 => c \in DOMAIN clients
      <4>1. maps[frame[th].slaves] \in [Databases -> 0 .. Len(clients)]
        BY <1>2, <1>5, Domains DEF Types, Promote
      <4> QED BY <4>1, Domains, Constants DEF Types
    <3>2. c # 0 => clients[c].redis \in Redis
      BY <3>1, Domains DEF Types, ClientType
    <3>3. CASE role' = role
      BY <3>3 DEF Types, DataOK
    <3>4. CASE c # 0 /\ Reassign(c, clients[c].redis, "master")
      BY <3>2, <3>4, ReassignType DEF Types
    <3> QED BY <1>5, <3>3, <3>4 DEF Promote
  <2>2. DataOK' /\ Evolves
    BY <1>5, <2>1, SameData DEF Promote, routeVars, nodeVars, Types, DataOK
  <2>3. CASE Return(th)
    BY <1>2, <1>4, <2>2, <2>3, ReturnTypes
  <2>4. CASE Goto(th, "putMaster", frame[th])
    <3>1. frame[th].slaves \in DOMAIN maps
      BY <1>2, <1>5 DEF Promote
    <3> QED BY <1>2, <1>3, <1>4, <2>2, <2>4, <3>1, WorkTypes DEF OwnSteps, LateSteps
  <2> QED BY <1>5, <2>3, <2>4 DEF Promote
<1>6. CASE PutMaster(th)
  <2>1. table' \in [BOOLEAN -> 0 .. Len(maps)]
    <3>1. frame[th].slaves \in 0 .. Len(maps)
      BY <1>2, <1>6, Domains DEF PutMaster, Types
    <3> QED BY <1>6, <3>1 DEF PutMaster, Types, DataOK
  <2>2. DataOK' /\ Evolves
    BY <1>6, <2>1, SameData DEF PutMaster, serverVars, nodeVars, Types, DataOK
  <2>3. Goto(th, "demote", frame[th])
    BY <1>6 DEF PutMaster
  <2> QED BY <1>2, <1>3, <1>4, <2>2, <2>3, WorkTypes DEF OwnSteps, LateSteps
<1>7. CASE Demote(th)
  <2>1. isMaster' \in [Redis -> BOOLEAN]
    BY <1>7 DEF Demote, Types, DataOK
  <2>2. DataOK' /\ Evolves
    BY <1>7, <2>1, SameData DEF Demote, serverVars, nodeVars, Types, DataOK
  <2>3. Goto(th, "promotePeer", frame[th])
    BY <1>7 DEF Demote
  <2> QED BY <1>2, <1>3, <1>4, <2>2, <2>3, WorkTypes DEF OwnSteps, LateSteps
<1>8. CASE PromotePeer(th)
  <2>1. isMaster' \in [Redis -> BOOLEAN]
    BY <1>8 DEF PromotePeer, Types, DataOK
  <2>2. DataOK' /\ Evolves
    BY <1>8, <2>1, SameData DEF PromotePeer, serverVars, nodeVars, Types, DataOK
  <2>3. Goto(th, "close", frame[th])
    BY <1>8 DEF PromotePeer
  <2> QED BY <1>2, <1>3, <1>4, <2>2, <2>3, WorkTypes DEF OwnSteps, LateSteps
<1> QED BY <1>5, <1>6, <1>7, <1>8

\* The clients after CloseDown: only links change, from connecting to failed and
\* from open to broken.
LEMMA ClosedClients ==
  ASSUME Types, NEW th \in Threads, CloseDown(th)
  PROVE  /\ clients' \in [DOMAIN clients -> ClientType]
         /\ \A c \in DOMAIN clients :
              /\ clients'[c].redis = clients[c].redis /\ clients'[c].db = clients[c].db
              /\ clients'[c].connected = clients[c].connected
              /\ \/ clients'[c].link = clients[c].link
                 \/ /\ \E n \in Databases : maps[frame[th].down][n] = c
                    /\ \/ clients[c].link = "open" /\ clients'[c].link = "broken"
                       \/ clients[c].link # "open" /\ clients'[c].link = "failed"
         /\ Goto(th, "restart", frame[th]) \/ Return(th)
<1>1. \A c \in DOMAIN clients : clients[c] \in ClientType
  BY Domains DEF Types
<1>2. clients \in [DOMAIN clients -> ClientType]
  BY <1>1, Domains DEF Types, DataOK
<1>3. CASE ~vip
  BY <1>2, <1>3 DEF CloseDown
<1>4. CASE vip
  <2> DEFINE downClients == maps[frame[th].down]
             null == {n \in Databases : /\ downClients[n] # 0
                                        /\ clients[downClients[n]].link \in {"connecting", "failed"}}
             upTo(c) == \E n \in Databases : downClients[n] = c /\ \A u \in null : n <= u
  <2>1. clients' = [c \in DOMAIN clients |->
                     [clients[c] EXCEPT !.link =
                        IF ~upTo(c) \/ @ \in {"closed", "broken"} THEN @
                        ELSE IF @ = "open" THEN "broken" ELSE "failed"]]
    BY <1>4 DEF CloseDown
  <2>2. \A c \in DOMAIN clients : upTo(c) => \E n \in Databases : downClients[n] = c
    OBVIOUS
  <2>3. Goto(th, "restart", frame[th]) \/ Return(th)
    BY <1>4 DEF CloseDown
  <2> HIDE DEF upTo, null
  <2>4. \A c \in DOMAIN clients :
          clients'[c] = [clients[c] EXCEPT !.link =
                        IF ~upTo(c) \/ @ \in {"closed", "broken"} THEN @
                        ELSE IF @ = "open" THEN "broken" ELSE "failed"]
    BY <2>1
  <2>5. DOMAIN clients' = DOMAIN clients /\ clients' = [c \in DOMAIN clients |-> clients'[c]]
    BY <2>1
  <2>6. ASSUME NEW c \in DOMAIN clients
        PROVE  /\ clients'[c] \in ClientType
               /\ clients'[c].redis = clients[c].redis /\ clients'[c].db = clients[c].db
               /\ clients'[c].connected = clients[c].connected
               /\ \/ clients'[c].link = clients[c].link
                  \/ /\ \E n \in Databases : maps[frame[th].down][n] = c
                     /\ \/ clients[c].link = "open" /\ clients'[c].link = "broken"
                        \/ clients[c].link # "open" /\ clients'[c].link = "failed"
    <3>1. /\ clients[c] \in ClientType
          /\ clients'[c] = [clients[c] EXCEPT !.link = clients'[c].link]
          /\ \/ clients'[c].link = clients[c].link
             \/ upTo(c) /\ clients[c].link = "open" /\ clients'[c].link = "broken"
             \/ upTo(c) /\ clients[c].link # "open" /\ clients'[c].link = "failed"
      BY <1>1, <2>4 DEF ClientType
    <3>2. clients'[c].link \in Links
      BY <3>1 DEF ClientType, Links
    <3> QED BY <2>2, <3>1, <3>2 DEF ClientType
  <2> QED BY <2>3, <2>5, <2>6
<1> QED BY <1>3, <1>4

LEMMA CloseDownTypes ==
  ASSUME Types, NEW th \in Threads, CloseDown(th)
  PROVE  Types' /\ Evolves
<1>1. at[th] = "close" /\ UNCHANGED selectLock
  BY DEF CloseDown
<1>2. /\ th \notin Selectors /\ th # Heart /\ frame[th].redis \in Redis
      /\ frame[th] \in FrameType /\ frame[th].next = 0
  BY <1>1, WorkFrame DEF LateSteps
<1>3. DataOK' /\ Evolves
  <2>1. PICK new \in [DOMAIN clients -> ClientType] : clients' = new
    BY ClosedClients
  <2>2. \A c \in DOMAIN clients : new[c].redis = clients[c].redis /\ new[c].db = clients[c].db
    BY <2>1, ClosedClients
  <2> QED BY <2>1, <2>2, ClientChange DEF CloseDown, routeVars, serverVars, nodeVars, Types, DataOK
<1>4. CASE Goto(th, "restart", frame[th])
  <2>1. "restart" \in Steps \ {"idle", "put", "reconnect", "clear"}
    BY DEF Steps
  <2> QED BY <1>1, <1>2, <1>3, <1>4, <2>1, WorkTypes DEF OwnSteps, CriticalSteps
<1>5. CASE Return(th)
  BY <1>1, <1>2, <1>3, <1>5, ReturnTypes
<1> QED BY <1>4, <1>5, ClosedClients

LEMMA RebootTypes ==
  ASSUME Types, NEW h \in Redis, Reboot(h) \/ UNCHANGED <<clients, server, role>>,
         UNCHANGED <<isMaster, table, maps, vip, remoteRuns, failures>>,
         reconnect' \in Seq(Redis)
  PROVE  DataOK' /\ Evolves /\ DOMAIN clients' = DOMAIN clients
<1>1. CASE Reboot(h)
  <2>1. /\ server' \in [Redis -> {"up", "hung", "dead"}]
        /\ role' \in [Redis -> {"master", "slave"}]
    BY <1>1 DEF Reboot, Types, DataOK
  <2> DEFINE new == Unlinked(h)
  <2>2. /\ new \in [DOMAIN clients -> ClientType]
        /\ \A c \in DOMAIN clients : new[c].redis = clients[c].redis /\ new[c].db = clients[c].db
    BY UnlinkedType DEF Types
  <2>3. clients' = new
    BY <1>1 DEF Reboot
  <2> HIDE DEF new
  <2>4. new \in Seq(ClientType) /\ Len(new) = Len(clients) /\ DOMAIN new = DOMAIN clients
    BY <2>2, Relinked DEF Types
  <2> QED BY <2>1, <2>2, <2>3, <2>4, ClientsData DEF Types, DataOK
<1>2. CASE UNCHANGED <<clients, server, role>>
  BY <1>2, SameData DEF Types, DataOK
<1> QED BY <1>1, <1>2

LEMMA RestartTypes ==
  ASSUME Types, NEW th \in Threads, RestartRedis(th) \/ Ssh(th)
  PROVE  Types' /\ Evolves
<1> DEFINE h == frame[th].redis
           q == <<Call(h, 0, FALSE)>>
           f == [NoFrame EXCEPT !.calls = q]
<1>1. at[th] \in {"restart", "ssh"} /\ UNCHANGED selectLock
  BY DEF RestartRedis, Ssh
<1>2. /\ th \notin Selectors /\ th # Heart /\ h \in Redis
      /\ frame[th] \in FrameType /\ frame[th].next = 0
  BY <1>1, WorkFrame DEF LateSteps
<1>3. \A s \in {"new", "ssh"} : s \in Steps \ {"idle", "put", "reconnect", "clear"}
  BY DEF Steps
<1>4. q \in Seq(CallType) /\ q # <<>>
  BY <1>2, CallTyped, Constants
<1>5. f \in FrameType /\ f.calls = q /\ f.next = 0
  <2> HIDE DEF q
  <2> QED BY <1>4, NewFrames
<1>6. reconnect' \in Seq(Redis)
  <2>1. CASE RestartRedis(th)
    BY <2>1 DEF RestartRedis, nodeVars, Types, DataOK
  <2>2. CASE Ssh(th)
    <3>1. reconnect' = reconnect \/ reconnect' = Append(reconnect, h)
      BY <2>2 DEF Ssh
    <3>2. reconnect \in Seq(Redis) /\ h \in Redis
      BY <1>2 DEF Types, DataOK
    <3> HIDE DEF h
    <3> QED BY <3>1, <3>2, AppendProperties
  <2> QED BY <2>1, <2>2
<1>7. DataOK' /\ Evolves
  <2>1. Reboot(h) \/ UNCHANGED <<clients, server, role>>
    BY DEF RestartRedis, Ssh, serverVars
  <2>2. UNCHANGED <<isMaster, table, maps, vip, remoteRuns, failures>>
    BY DEF RestartRedis, Ssh, routeVars, nodeVars
  <2> HIDE DEF h
  <2> QED BY <1>2, <1>6, <2>1, <2>2, RebootTypes
<1>8. Goto(th, "new", f) \/ Goto(th, "ssh", frame[th]) \/ Return(th)
  BY DEF RestartRedis, Ssh
<1>9. CASE Goto(th, "new", f)
  <2> HIDE DEF f, q
  <2> QED BY <1>1, <1>2, <1>3, <1>4, <1>5, <1>7, <1>9, WorkTypes
      DEF OwnSteps, CriticalSteps, LateSteps
<1>10. CASE Goto(th, "ssh", frame[th])
  BY <1>1, <1>2, <1>3, <1>7, <1>10, WorkTypes DEF OwnSteps, CriticalSteps
<1>11. CASE Return(th)
  BY <1>1, <1>2, <1>7, <1>11, ReturnTypes
<1> QED BY <1>8, <1>9, <1>10, <1>11

-----------------------------------------------------------------------------
(* The heartbeat client and the failures keep them.                           *)

LEMMA HeartTypes ==
  ASSUME Types, RemoteUp \/ Reconnect \/ ClearReconnect
  PROVE  Types' /\ Evolves
<1>1. /\ Heart \in Threads /\ Heart \notin Selectors /\ UNCHANGED selectLock
      /\ frame[Heart] \in FrameType /\ frame[Heart].next \in Nat
  BY ThreadKinds DEF RemoteUp, Reconnect, ClearReconnect, Types, ThreadsOK, FrameType
<1>2. \A n \in Databases : selectLock[n] # Heart
  BY <1>1, NoLock DEF Types
<1>3. DataOK' /\ Evolves
  <2>1. <<>> \in Seq(Redis)
    BY EmptySeq
  <2> QED BY <2>1, SameData DEF RemoteUp, Reconnect, ClearReconnect, routeVars, serverVars, nodeVars,
                                Types, DataOK
<1>4. CASE RemoteUp
  <2> DEFINE f == [NoFrame EXCEPT !.next = 1]
  <2>1. f \in FrameType /\ f.next = 1
    BY NewFrames
  <2>2. Goto(Heart, "reconnect", f) /\ "reconnect" \in Steps
    BY <1>4 DEF RemoteUp, Steps
  <2> HIDE DEF f
  <2>3. at'[Heart] = "reconnect" /\ frame'[Heart] = f
    BY <1>1, <2>1, <2>2, GotoStep DEF Types
  <2>4. FrameOK(Heart)'
    BY <1>1, <2>1, <2>3 DEF FrameOK, StepsOf, OwnSteps, CriticalSteps, LateSteps
  <2> QED BY <1>1, <1>3, <2>1, <2>2, <2>4, ThreadStep DEF Types, ThreadsOK
<1>5. CASE Reconnect
  <2> DEFINE i == frame[Heart].next
             q == <<Call(reconnect[i], 0, FALSE)>>
             f == [NoFrame EXCEPT !.calls = q, !.next = i + 1]
  <2>1. FrameOK(Heart) /\ at[Heart] = "reconnect"
    BY <1>1, <1>5 DEF Types, ThreadsOK, Reconnect
  <2>2. i \in Nat /\ i # 0
    BY <1>1, <2>1 DEF FrameOK
  <2>3. CASE i <= Len(reconnect)
    <3>1. reconnect[i] \in Redis
      BY <2>2, <2>3, Domains DEF Types
    <3>2. q \in Seq(CallType) /\ q # <<>>
      BY <3>1, CallTyped, Constants
    <3>3. Goto(Heart, "new", f) /\ "new" \in Steps
      BY <1>5, <2>3 DEF Reconnect, Steps
    <3>4. f \in FrameType /\ f.calls = q /\ f.next = i + 1
      <4> DEFINE j == i + 1
      <4>1. j \in Nat
        BY <2>2
      <4> HIDE DEF q, j
      <4>2. LET g == [NoFrame EXCEPT !.calls = q, !.next = j] IN
            g \in FrameType /\ g.calls = q /\ g.next = j
        BY <3>2, <4>1, NewFrames
      <4> QED BY <4>2 DEF j
    <3> HIDE DEF f, q
    <3>5. at'[Heart] = "new" /\ frame'[Heart] = f
      BY <1>1, <3>3, <3>4, GotoStep DEF Types
    <3>6. FrameOK(Heart)'
      BY <1>1, <3>2, <3>4, <3>5 DEF FrameOK, StepsOf, CallSteps, OwnSteps, CriticalSteps, LateSteps
    <3> QED BY <1>1, <1>3, <3>3, <3>4, <3>6, ThreadStep DEF Types, ThreadsOK
  <2>4. CASE ~(i <= Len(reconnect))
    <3>1. Goto(Heart, "clear", NoFrame) /\ "clear" \in Steps
      BY <1>5, <2>4 DEF Reconnect, Steps
    <3>2. at'[Heart] = "clear" /\ frame'[Heart] = NoFrame
      BY <1>1, <3>1, NoFrameType, GotoStep DEF Types
    <3>3. FrameOK(Heart)'
      BY <1>1, <3>2, NoFrameType DEF FrameOK, StepsOf, OwnSteps, CriticalSteps, LateSteps
    <3> QED BY <1>1, <1>3, <3>1, <3>3, NoFrameType, ThreadStep DEF Types, ThreadsOK
  <2> QED BY <2>3, <2>4
<1>6. CASE ClearReconnect
  BY <1>1, <1>3, <1>6, ReturnTypes DEF ClearReconnect
<1> QED BY <1>4, <1>5, <1>6

LEMMA FailureTypes ==
  ASSUME Types,
         \/ RemoteRestarts \/ RemoteDown
         \/ \E h \in Redis : Crash(h) \/ Hang(h)
         \/ \E c \in DOMAIN clients : LinkBreaks(c)
  PROVE  Types' /\ Evolves
<1>1. UNCHANGED threadVars /\ UNCHANGED <<isMaster, table, maps, reconnect>>
  BY DEF RemoteRestarts, RemoteDown, Crash, Hang, LinkBreaks, routeVars, nodeVars
<1>2. failures' \in 0 .. MaxFailures
  BY Constants DEF RemoteRestarts, RemoteDown, Crash, Hang, LinkBreaks, Fails, Types, DataOK
<1>3. DataOK' /\ Evolves
  <2>1. CASE RemoteRestarts
    BY <1>1, <1>2, <2>1, RebootTypes, Constants DEF RemoteRestarts, nodeVars, Types, DataOK
  <2>2. CASE RemoteDown
    BY <1>1, <1>2, <2>2, SameData DEF RemoteDown, serverVars, routeVars, Types, DataOK
  <2>3. ASSUME NEW h \in Redis, Crash(h)
        PROVE  DataOK' /\ Evolves
    <3> DEFINE new == Unlinked(h)
    <3>1. /\ new \in [DOMAIN clients -> ClientType]
          /\ \A c \in DOMAIN clients : new[c].redis = clients[c].redis /\ new[c].db = clients[c].db
      BY UnlinkedType DEF Types
    <3>2. clients' = new /\ server' \in [Redis -> {"up", "hung", "dead"}]
      BY <2>3 DEF Crash, Types, DataOK
    <3> HIDE DEF new
    <3> QED BY <1>1, <1>2, <2>3, <3>1, <3>2, ClientChange DEF Crash, nodeVars, Types, DataOK
  <2>4. ASSUME NEW h \in Redis, Hang(h)
        PROVE  DataOK' /\ Evolves
    BY <1>1, <1>2, <2>4, SameData DEF Hang, nodeVars, Types, DataOK
  <2>5. ASSUME NEW c \in DOMAIN clients, LinkBreaks(c)
        PROVE  DataOK' /\ Evolves
    <3> DEFINE new == [clients EXCEPT ![c].link = "broken"]
    <3>1. /\ new \in [DOMAIN clients -> ClientType]
          /\ \A d \in DOMAIN clients : new[d].redis = clients[d].redis /\ new[d].db = clients[d].db
      <4>1. DataOK /\ "broken" \in Links
        BY DEF Types, Links
      <4> QED BY <4>1, LinkOnly
    <3>2. clients' = new
      BY <2>5 DEF LinkBreaks
    <3> HIDE DEF new
    <3> QED BY <1>1, <1>2, <2>5, <3>1, <3>2, ClientChange DEF LinkBreaks, nodeVars, serverVars, Types, DataOK
  <2> QED BY <2>1, <2>2, <2>3, <2>4, <2>5
<1> QED BY <1>1, <1>3, SameThreads

LEMMA TypesStep ==
  ASSUME Types, [Next]_vars
  PROVE  Types' /\ Evolves
<1>1. ASSUME NEW th \in Threads, InitClient(th)
      PROVE  Types' /\ Evolves
  BY <1>1, CheckTypes, NewClientTypes, PutClientTypes, CallsDoneTypes DEF InitClient
<1>2. ASSUME NEW th \in Threads, RedisDown(th)
      PROVE  Types' /\ Evolves
  BY <1>2, RemoveTypes, DownTypes, CloseDownTypes, RestartTypes DEF RedisDown
<1>3. ASSUME NEW th \in Selectors, NEW n \in Databases, Select(th, n)
      PROVE  Types' /\ Evolves
  BY <1>3, SelectTypes
<1>4. ASSUME NEW c \in DOMAIN clients, LoopStep(c) \/ TimerStep(c) \/ LinkBreaks(c)
      PROVE  Types' /\ Evolves
  BY <1>4, ConnectedTypes, ConnectFailedTypes, SendSlaveofTypes, InitDatabaseTypes,
     ChannelInactiveTypes, TimerTypes, FailureTypes DEF LoopStep
<1>5. CASE RemoteUp \/ Reconnect \/ ClearReconnect
  BY <1>5, HeartTypes
<1>6. CASE RemoteRestarts \/ RemoteDown \/ \E h \in Redis : Crash(h) \/ Hang(h)
  BY <1>6, FailureTypes
<1>7. CASE UNCHANGED vars
  BY <1>7, SameAll, SameThreads DEF vars, routeVars, serverVars, nodeVars
<1> QED BY <1>1, <1>2, <1>3, <1>4, <1>5, <1>6, <1>7 DEF Next

LEMMA TypesInit ==
  ASSUME Init
  PROVE  Types
<1> DEFINE q == <<Call(Local, 0, TRUE), Call(Remote, 0, TRUE)>>
           f == [NoFrame EXCEPT !.calls = q]
<1>1. q \in Seq(CallType)
  BY Constants DEF Call, CallType
<1>2. f \in FrameType /\ f.next = 0
  BY <1>1, NewFrames
<1>3. /\ <<>> \in Seq(Redis) /\ <<>> \in Seq(ClientType) /\ <<>> \in Seq([Databases -> 0 .. Len(clients)])
      /\ Len(<<>>) = 0
  BY EmptySeq
<1>4. DataOK
  BY <1>3, Constants, SwitchesAssumption DEF Init, DataOK
<1>5. \A th \in Threads :
        /\ at[th] = IF th = Heart THEN "call" ELSE "idle"
        /\ frame[th] = IF th = Heart THEN f ELSE NoFrame
  BY DEF Init
<1>6. /\ at \in [Threads -> Steps] /\ selectLock \in [Databases -> Selectors \cup {NoThread}]
      /\ \A n \in Databases : selectLock[n] = NoThread
  BY DEF Init, Steps
<1>7. frame \in [Threads -> FrameType]
  <2>1. frame = [th \in Threads |-> IF th = Heart THEN f ELSE NoFrame]
    BY DEF Init
  <2> HIDE DEF f
  <2> QED BY <1>2, <2>1, NoFrameType
<1> HIDE DEF f
<1>8. \A th \in Threads : FrameOK(th)
  BY <1>2, <1>5, <1>6, NoFrameType, ThreadKinds
     DEF FrameOK, StepsOf, CallSteps, OwnSteps, CriticalSteps, LateSteps
<1> QED BY <1>4, <1>6, <1>7, <1>8 DEF Types, ThreadsOK

\* Every variable of the routing table, the clients and the threads that work on
\* them keeps its type: what a thread of redisDown or initRedisProxyClient has read
\* is still a map and a client there are, whatever the others did in between.
THEOREM FailoverTypes == Spec => []TypeOK
<1>1. Types => TypeOK
  BY DEF Types, DataOK, ThreadsOK, FrameOK, TypeOK, ClientType, Links
<1>2. Spec => []Types
  BY TypesInit, TypesStep, PTL DEF Spec
<1> QED BY <1>1, <1>2, PTL

-----------------------------------------------------------------------------
(* The maps.                                                                  *)

\* Map m is one of clients of h, each for its database, and not empty.
Owned(m, h) ==
  /\ \E n \in Databases : maps[m][n] # 0
  /\ \A n \in Databases : maps[m][n] # 0 =>
       clients[maps[m][n]].redis = h /\ clients[maps[m][n]].db = n

\* What a thread has of a Redis, it has of the Redis it is about.
Kept(th) ==
  /\ at[th] \notin CallSteps => frame[th].calls = <<>>
  /\ at[th] = "put" =>
       /\ clients[frame[th].made].redis = Head(frame[th].calls).redis
       /\ clients[frame[th].made].db = Head(frame[th].calls).db
       /\ frame[th].found # 0 => Owned(frame[th].found, Head(frame[th].calls).redis)
  /\ at[th] \in {"removeSlave", "promote", "putMaster", "demote", "promotePeer", "close"} =>
       Owned(frame[th].down, frame[th].redis)
  /\ at[th] \in {"promote", "putMaster"} => Owned(frame[th].slaves, Peer(frame[th].redis))

Owners ==
  /\ \A m \in DOMAIN maps : \E h \in Redis : Owned(m, h)
  /\ \A th \in Threads : Kept(th)

-----------------------------------------------------------------------------
(* At most one client of database 0 for each Redis, or someone who will open  *)
(* one: the event loops and timers that report a Redis, and the failed        *)
(* restarts.                                                                  *)

Alive(c) == clients[c].db = 0 /\ (clients[c].link = "connecting" \/ clients[c].connected)
LiveClients(h) == {c \in DOMAIN clients : Alive(c) /\ clients[c].redis = h}

\* Call i of thread th opens a client of database 0 of h.  At "put" the client of
\* the first call is made.
Opens(h, th, i) ==
  /\ i \in DOMAIN frame[th].calls /\ (at[th] = "put" => i # 1)
  /\ frame[th].calls[i].redis = h /\ frame[th].calls[i].db = 0
OpenCalls(h) == {x \in (Threads \ Selectors) \X Nat : Opens(h, x[1], x[2])}

\* Thread th is in redisDown for h, its client no longer connected.
Downs(h, th) == at[th] \in (CriticalSteps \ {"declare"}) \cup LateSteps /\ frame[th].redis = h
DownThreads(h) == {th \in Threads : Downs(h, th)}

\* The entries that the heartbeat client has still to go through.
Reopenings(h) ==
  {i \in DOMAIN reconnect : reconnect[i] = h /\ at[Heart] # "clear" /\ i >= frame[Heart].next}

Lone(S) == \A x, y \in S : x = y
Alone(A, B, C, D) ==
  /\ Lone(A) /\ Lone(B) /\ Lone(C) /\ Lone(D)
  /\ A = {} \/ (B = {} /\ C = {} /\ D = {})
  /\ B = {} \/ (C = {} /\ D = {})
  /\ C = {} \/ D = {}

Unique == \A h \in Redis :
  Alone(LiveClients(h), OpenCalls(h), DownThreads(h), Reopenings(h))

-----------------------------------------------------------------------------
(* The phases of a slice in which failures and SELECTs meet a healthy one     *)
(* only.                                                                      *)

Pending(c) == clients[c].db = 0 /\ clients[c].link = "connecting"
Suspect(c) ==
  /\ clients[c].db = 0 /\ clients[c].connected
  /\ clients[c].link # "open" \/ server[clients[c].redis] # "up"

\* The table and the flags agree.
Right ==
  /\ isMaster[Local] # isMaster[Remote]
  /\ \A h \in Redis : table[isMaster[h]] # 0 => Owned(table[isMaster[h]], h)

\* The heartbeat client in its loop, with nothing to do in it.
AtRest(th) == at[th] = "idle" \/ (th = Heart /\ at[th] \in {"reconnect", "clear"})

\* Connections are opened, after the start or a redisDown that has changed the table.
Opening ==
  /\ \A c \in DOMAIN clients : ~Suspect(c)
  /\ \A th \in Selectors : at[th] = "idle"
  /\ \A th \in Threads : at[th] \notin CriticalSteps
  /\ Right

\* What a SELECT does: it finds the clients of database 0.
Selecting(th) ==
  /\ \A k \in DOMAIN frame[th].calls : frame[th].calls[k].check
  /\ at[th] \in {"new", "put"} => Head(frame[th].calls).db # 0
  /\ at[th] = "put" => frame[th].found # 0

\* Threads of front-end clients are in their SELECT.
Serving ==
  /\ \A c \in DOMAIN clients : ~Suspect(c) /\ ~Pending(c)
  /\ \A th \in Threads \ Selectors : AtRest(th)
  /\ \A th \in Selectors : Selecting(th)
  /\ \A r \in BOOLEAN : Lookup(r, 0) # 0
  /\ reconnect = <<>>
  /\ Right

\* The Redis h has failed.  Nobody works but the thread that reports it, and the
\* other Redis is connected.
Calmed(h) ==
  /\ \A c \in DOMAIN clients : ~Pending(c) /\ (clients[c].redis # h => ~Suspect(c))
  /\ reconnect = <<>>

\* ... nobody has noticed yet,
Unnoticed(h) ==
  /\ Calmed(h) /\ Right
  /\ \A th \in Threads : AtRest(th)

\* ... or th is in redisDown.
Shape(h, th) ==
  /\ at[th] = "declare" =>
       /\ Right /\ \E c \in Clients : th = Timer(c)
       /\ \A c \in LiveClients(h) : th = Timer(c) /\ clients[c].link = "open"
  /\ at[th] = "remove" => Right
  /\ at[th] = "removeSlave" => Right /\ table[isMaster[h]] = 0
  /\ at[th] \in {"promote", "putMaster"} =>
       isMaster[h] /\ ~isMaster[Peer(h)] /\ \A r \in BOOLEAN : table[r] = 0
  /\ at[th] = "demote" => /\ isMaster[Local] # isMaster[Remote] /\ table[FALSE] = 0
                          /\ table[TRUE] # 0 => Owned(table[TRUE], Peer(h))
  /\ at[th] = "promotePeer" => /\ ~isMaster[h] /\ table[FALSE] = 0
                               /\ table[TRUE] # 0 => Owned(table[TRUE], Peer(h))

Reporting(h, th) ==
  /\ Calmed(h)
  /\ at[th] \in CriticalSteps /\ frame[th].redis = h
  /\ \A t \in Threads \ {th} : AtRest(t)
  /\ Shape(h, th)

Phases ==
  \/ Opening \/ Serving
  \/ \E h \in Redis : Unnoticed(h) \/ \E th \in Threads : Reporting(h, th)

Inv == Types /\ Owners /\ Unique /\ Phases

-----------------------------------------------------------------------------
(* Owners, in a step of one thread.                                           *)

Only(th) == \A t \in Threads : t # th => at'[t] = at[t] /\ frame'[t] = frame[t]

\* Owned and Kept after the step, of a map and of locals from before it.
OwnedThen(m, h) ==
  /\ \E n \in Databases : maps'[m][n] # 0
  /\ \A n \in Databases : maps'[m][n] # 0 =>
       clients'[maps'[m][n]].redis = h /\ clients'[maps'[m][n]].db = n
KeptThen(s, f) ==
  /\ s \notin CallSteps => f.calls = <<>>
  /\ s = "put" =>
       /\ clients'[f.made].redis = Head(f.calls).redis
       /\ clients'[f.made].db = Head(f.calls).db
       /\ f.found # 0 => OwnedThen(f.found, Head(f.calls).redis)
  /\ s \in {"removeSlave", "promote", "putMaster", "demote", "promotePeer", "close"} =>
       OwnedThen(f.down, f.redis)
  /\ s \in {"promote", "putMaster"} => OwnedThen(f.slaves, Peer(f.redis))
MapsKept == \A m \in DOMAIN maps, h \in Redis : Owned(m, h) => OwnedThen(m, h)

LEMMA OwnedIs ==
  ASSUME NEW m, NEW h
  PROVE  OwnedThen(m, h) <=> Owned(m, h)'
BY DEF OwnedThen, Owned

LEMMA KeptIs ==
  ASSUME NEW th \in Threads, KeptThen(at'[th], frame'[th])
  PROVE  Kept(th)'
BY DEF KeptThen, OwnedThen, Kept, Owned

LEMMA OneOwner ==
  ASSUME NEW m, NEW g, NEW h, Owned(m, g), Owned(m, h)
  PROVE  g = h
BY DEF Owned

LEMMA MapEntries ==
  ASSUME DataOK, NEW m \in DOMAIN maps, NEW n \in Databases, maps[m][n] # 0
  PROVE  maps[m][n] \in DOMAIN clients
<1>1. maps[m] \in [Databases -> 0 .. Len(clients)] /\ DOMAIN clients = 1 .. Len(clients) /\ Len(clients) \in Nat
  BY Domains
<1>2. maps[m][n] \in 0 .. Len(clients)
  BY <1>1
<1> QED BY <1>1, <1>2

LEMMA OwnedStays ==
  ASSUME Types, Evolves, NEW m \in DOMAIN maps, NEW h, maps'[m] = maps[m], Owned(m, h)
  PROVE  OwnedThen(m, h)
<1>1. \A n \in Databases : maps[m][n] # 0 =>
        clients'[maps[m][n]].redis = h /\ clients'[maps[m][n]].db = n
  BY MapEntries DEF Types, Evolves, Owned
<1> QED BY <1>1 DEF Owned, OwnedThen

LEMMA SameMaps ==
  ASSUME Types, Evolves, maps' = maps
  PROVE  MapsKept
BY OwnedStays DEF MapsKept

LEMMA OtherKept ==
  ASSUME Types, Evolves, MapsKept, NEW t \in Threads, Kept(t),
         at'[t] = at[t], frame'[t] = frame[t]
  PROVE  Kept(t)'
<1> DEFINE f == frame[t]
<1>1. FrameOK(t) /\ f \in FrameType
  BY DEF Types, ThreadsOK
<1>2. at[t] = "put" =>
        /\ clients'[f.made].redis = Head(f.calls).redis
        /\ clients'[f.made].db = Head(f.calls).db
        /\ f.found # 0 => OwnedThen(f.found, Head(f.calls).redis)
  <2> SUFFICES ASSUME at[t] = "put"
               PROVE  /\ clients'[f.made].redis = Head(f.calls).redis
                      /\ clients'[f.made].db = Head(f.calls).db
                      /\ f.found # 0 => OwnedThen(f.found, Head(f.calls).redis)
    OBVIOUS
  <2>1. /\ f.made \in DOMAIN clients /\ f.found \in 0 .. Len(maps) /\ f.calls # <<>>
        /\ clients[f.made].redis = Head(f.calls).redis /\ clients[f.made].db = Head(f.calls).db
        /\ f.found # 0 => Owned(f.found, Head(f.calls).redis)
    BY <1>1 DEF FrameOK, Kept
  <2>2. clients[f.made].redis \in Redis /\ (f.found # 0 => f.found \in DOMAIN maps)
    BY <2>1, Domains DEF Types, ClientType
  <2>3. clients'[f.made].redis = clients[f.made].redis /\ clients'[f.made].db = clients[f.made].db
    BY <2>1 DEF Evolves
  <2> QED BY <2>1, <2>2, <2>3 DEF MapsKept
<1>3. at[t] \in {"removeSlave", "promote", "putMaster", "demote", "promotePeer", "close"} =>
        OwnedThen(f.down, f.redis)
  BY WorkFrame DEF CriticalSteps, LateSteps, Kept, MapsKept
<1>4. at[t] \in {"promote", "putMaster"} => OwnedThen(f.slaves, Peer(f.redis))
  BY WorkFrame DEF CriticalSteps, Kept, MapsKept
<1>5. KeptThen(at[t], f)
  BY <1>2, <1>3, <1>4 DEF KeptThen, Kept
<1> QED BY <1>5, KeptIs

LEMMA OwnersStep ==
  ASSUME Types, Evolves, Owners, MapsKept, NEW th \in Threads, Only(th),
         \A m \in DOMAIN maps' \ DOMAIN maps : \E h \in Redis : OwnedThen(m, h),
         KeptThen(at'[th], frame'[th])
  PROVE  Owners'
<1>1. \A t \in Threads : Kept(t)'
  BY KeptIs, OtherKept DEF Only, Owners
<1>2. \A m \in DOMAIN maps' : \E h \in Redis : OwnedThen(m, h)
  BY DEF Owners, MapsKept
<1>3. \A m \in DOMAIN maps' : \E h \in Redis : Owned(m, h)'
  BY <1>2, OwnedIs
<1> QED BY <1>1, <1>3 DEF Owners

LEMMA OwnersSame ==
  ASSUME Types, Evolves, Owners, maps' = maps, UNCHANGED <<at, frame>>
  PROVE  Owners'
<1>1. MapsKept
  BY SameMaps
<1>2. \A t \in Threads : Kept(t)'
  BY <1>1, OtherKept DEF Owners
<1>3. \A m \in DOMAIN maps' : \E h \in Redis : Owned(m, h)'
  BY <1>1, OwnedIs DEF Owners, MapsKept
<1> QED BY <1>2, <1>3 DEF Owners

LEMMA RightStays ==
  ASSUME Types, MapsKept, UNCHANGED <<isMaster, table>>, Right
  PROVE  Right'
<1>1. \A h \in Redis : table[isMaster[h]] # 0 => OwnedThen(table[isMaster[h]], h)
  BY Domains DEF Right, MapsKept, Types, MapOf
<1>2. \A h \in Redis : table'[isMaster'[h]] # 0 => OwnedThen(table'[isMaster'[h]], h)
  BY <1>1
<1> QED BY <1>2 DEF OwnedThen, Owned, Right

-----------------------------------------------------------------------------
(* Unique, in a step of one thread.                                           *)

LEMMA CallFacts ==
  ASSUME NEW h
  PROVE  /\ \A t \in Threads \ Selectors, i \in Nat : Opens(h, t, i) => <<t, i>> \in OpenCalls(h)
         /\ \A x \in OpenCalls(h) : /\ x = <<x[1], x[2]>> /\ Opens(h, x[1], x[2])
                                    /\ x[1] \in Threads /\ x[1] \notin Selectors /\ x[2] \in Nat
BY DEF OpenCalls

\* Who holds one thing holds everything of that Redis.
LEMMA Holders ==
  ASSUME Unique, NEW h \in Redis
  PROVE  /\ \A c \in LiveClients(h) :
              /\ LiveClients(h) = {c} /\ OpenCalls(h) = {} /\ DownThreads(h) = {}
              /\ Reopenings(h) = {}
         /\ \A x \in OpenCalls(h) :
              /\ LiveClients(h) = {} /\ OpenCalls(h) = {x} /\ DownThreads(h) = {}
              /\ Reopenings(h) = {}
         /\ \A t \in DownThreads(h) :
              /\ LiveClients(h) = {} /\ OpenCalls(h) = {} /\ DownThreads(h) = {t}
              /\ Reopenings(h) = {}
         /\ \A i \in Reopenings(h) :
              /\ LiveClients(h) = {} /\ OpenCalls(h) = {} /\ DownThreads(h) = {}
              /\ Reopenings(h) = {i}
<1> DEFINE A == LiveClients(h)
           B == OpenCalls(h)
           C == DownThreads(h)
           D == Reopenings(h)
<1>1. Alone(A, B, C, D)
  BY DEF Unique
<1> HIDE DEF A, B, C, D
<1>2. /\ \A x \in A : A = {x} /\ B = {} /\ C = {} /\ D = {}
      /\ \A x \in B : A = {} /\ B = {x} /\ C = {} /\ D = {}
      /\ \A x \in C : A = {} /\ B = {} /\ C = {x} /\ D = {}
      /\ \A x \in D : A = {} /\ B = {} /\ C = {} /\ D = {x}
  BY <1>1 DEF Alone, Lone
<1> QED BY <1>2 DEF A, B, C, D

LEMMA AloneShrinks ==
  ASSUME NEW A, NEW B, NEW C, NEW D, Alone(A, B, C, D),
         NEW A1 \in SUBSET A, NEW B1 \in SUBSET B, NEW C1 \in SUBSET C, NEW D1 \in SUBSET D
  PROVE  Alone(A1, B1, C1, D1)
BY DEF Alone, Lone

\* What the other threads hold.
LEMMA Elsewhere ==
  ASSUME NEW th \in Threads, Only(th), NEW h
  PROVE  /\ \A x \in OpenCalls(h)' : x[1] # th => x \in OpenCalls(h)
         /\ \A t \in DownThreads(h)' : t # th => t \in DownThreads(h)
<1>1. \A t \in Threads : \A i : t # th /\ Opens(h, t, i)' => Opens(h, t, i)
  BY DEF Only, Opens
<1>2. \A t \in Threads : t # th /\ Downs(h, t)' => Downs(h, t)
  BY DEF Only, Downs
<1> QED BY <1>1, <1>2 DEF OpenCalls, DownThreads

LEMMA EntriesStay ==
  ASSUME Types, reconnect' = reconnect, NEW th \in Threads, Only(th),
         th = Heart => at'[th] = "clear" \/ (at[th] # "clear" /\ frame'[th].next >= frame[th].next),
         frame' \in [Threads -> FrameType],
         NEW h
  PROVE  Reopenings(h)' \subseteq Reopenings(h)
<1>1. /\ Heart \in Threads /\ frame[Heart].next \in Nat /\ frame'[Heart].next \in Nat
  BY ThreadKinds DEF Types, ThreadsOK, FrameType
<1>2. ASSUME NEW i \in Reopenings(h)'
      PROVE  i \in Reopenings(h)
  <2>1. i \in DOMAIN reconnect /\ reconnect[i] = h /\ at'[Heart] # "clear" /\ i >= frame'[Heart].next
    BY <1>2 DEF Reopenings
  <2>2. CASE th = Heart
    <3>1. i \in Nat
      BY <2>1, Domains DEF Types
    <3>2. at[Heart] # "clear" /\ i >= frame[Heart].next
      BY <1>1, <2>1, <2>2, <3>1
    <3> QED BY <2>1, <3>2 DEF Reopenings
  <2>3. CASE th # Heart
    BY <1>1, <2>1, <2>3 DEF Reopenings, Only
  <2> QED BY <2>2, <2>3
<1> QED BY <1>2

\* A step of a thread that opens and takes nothing.
LEMMA UniqueStep ==
  ASSUME Types, Types', Unique, NEW th \in Threads, Only(th), NEW h \in Redis,
         LiveClients(h)' \subseteq LiveClients(h),
         th \notin Selectors => \A i \in Nat : Opens(h, th, i)' => Opens(h, th, i),
         Downs(h, th)' => Downs(h, th),
         reconnect' = reconnect,
         th = Heart => at'[th] = "clear" \/ (at[th] # "clear" /\ frame'[th].next >= frame[th].next)
  PROVE  Alone(LiveClients(h), OpenCalls(h), DownThreads(h), Reopenings(h))'
<1>1. OpenCalls(h)' \subseteq OpenCalls(h)
  <2>1. ASSUME NEW x \in OpenCalls(h)', x[1] = th
        PROVE  x \in OpenCalls(h)
    <3>1. x = <<th, x[2]>> /\ Opens(h, th, x[2])' /\ th \notin Selectors /\ x[2] \in Nat
      BY <2>1 DEF OpenCalls
    <3>2. Opens(h, th, x[2])
      BY <3>1
    <3> QED BY <3>1, <3>2, CallFacts
  <2> QED BY <2>1, Elsewhere
<1>2. DownThreads(h)' \subseteq DownThreads(h)
  <2>1. th \in DownThreads(h)' => th \in DownThreads(h)
    BY DEF DownThreads
  <2> QED BY <2>1, Elsewhere
<1>3. Reopenings(h)' \subseteq Reopenings(h)
  BY EntriesStay DEF Types, ThreadsOK
<1>4. Alone(LiveClients(h), OpenCalls(h), DownThreads(h), Reopenings(h))
  BY DEF Unique
<1> DEFINE A == LiveClients(h)
           B == OpenCalls(h)
           C == DownThreads(h)
           D == Reopenings(h)
<1>5. A' \subseteq A /\ B' \subseteq B /\ C' \subseteq C /\ D' \subseteq D /\ Alone(A, B, C, D)
  BY <1>1, <1>2, <1>3, <1>4
<1> HIDE DEF A, B, C, D
<1>6. Alone(A', B', C', D')
  BY <1>5, AloneShrinks
<1> QED BY <1>6 DEF A, B, C, D

-----------------------------------------------------------------------------
(* Clients that a step does not make live, suspect or pending.                *)

Quieter ==
  /\ DOMAIN clients' = DOMAIN clients
  /\ \A c \in DOMAIN clients : /\ clients'[c].redis = clients[c].redis
                               /\ Alive(c)' => Alive(c)
                               /\ Suspect(c)' => Suspect(c)
                               /\ Pending(c)' => Pending(c)

LEMMA SameClients ==
  ASSUME clients' = clients, server' = server
  PROVE  Quieter
BY DEF Quieter, Alive, Suspect, Pending

LEMMA QuieterLive ==
  ASSUME Quieter, NEW h
  PROVE  LiveClients(h)' \subseteq LiveClients(h)
BY DEF Quieter, LiveClients

LEMMA UniqueSame ==
  ASSUME Types, Unique, Quieter, UNCHANGED <<at, frame, reconnect>>
  PROVE  Unique'
<1>1. ASSUME NEW h \in Redis
      PROVE  Alone(LiveClients(h), OpenCalls(h), DownThreads(h), Reopenings(h))'
  <2>1. LiveClients(h)' \subseteq LiveClients(h)
    BY QuieterLive
  <2>2. OpenCalls(h)' = OpenCalls(h) /\ DownThreads(h)' = DownThreads(h) /\ Reopenings(h)' = Reopenings(h)
    BY DEF OpenCalls, Opens, DownThreads, Downs, Reopenings
  <2>3. Alone(LiveClients(h), OpenCalls(h), DownThreads(h), Reopenings(h))
    BY DEF Unique
  <2> DEFINE A == LiveClients(h)
             B == OpenCalls(h)
             C == DownThreads(h)
             D == Reopenings(h)
  <2>4. A' \subseteq A /\ B' = B /\ C' = C /\ D' = D /\ Alone(A, B, C, D)
    BY <2>1, <2>2, <2>3
  <2> HIDE DEF A, B, C, D
  <2>5. Alone(A', B', C', D')
    BY <2>4, AloneShrinks
  <2> QED BY <2>5 DEF A, B, C, D
<1> QED BY <1>1 DEF Unique

-----------------------------------------------------------------------------
(* The phase that a thread at work tells.                                     *)

LEMMA WorkPhase ==
  ASSUME Types, Phases, NEW th \in Threads, th \notin Selectors, ~AtRest(th), at[th] \notin CriticalSteps
  PROVE  Opening
<1>1. ~Serving
  BY DEF Serving
<1>2. ASSUME NEW h \in Redis, Unnoticed(h)
      PROVE  FALSE
  BY <1>2 DEF Unnoticed
<1>3. ASSUME NEW h \in Redis, NEW t \in Threads, Reporting(h, t)
      PROVE  FALSE
  BY <1>3 DEF Reporting
<1> QED BY <1>1, <1>2, <1>3 DEF Phases

LEMMA SelectPhase ==
  ASSUME Types, Phases, NEW th \in Selectors, at[th] # "idle"
  PROVE  Serving
<1>1. th # Heart /\ th \in Threads /\ ~AtRest(th) /\ at[th] \notin CriticalSteps
  BY ThreadKinds, StepSets DEF AtRest, Types
<1>2. ~Opening
  BY DEF Opening
<1>3. ASSUME NEW h \in Redis, Unnoticed(h)
      PROVE  FALSE
  BY <1>1, <1>3 DEF Unnoticed
<1>4. ASSUME NEW h \in Redis, NEW t \in Threads, Reporting(h, t)
      PROVE  FALSE
  BY <1>1, <1>4 DEF Reporting
<1> QED BY <1>2, <1>3, <1>4 DEF Phases

LEMMA ReportPhase ==
  ASSUME Types, Phases, NEW th \in Threads, at[th] \in CriticalSteps
  PROVE  frame[th].redis \in Redis /\ Reporting(frame[th].redis, th)
<1>1. th # Heart /\ th \notin Selectors /\ ~AtRest(th)
  BY StepSets DEF AtRest, Types, CriticalSteps
<1>2. ~Opening /\ ~Serving
  BY <1>1 DEF Opening, Serving
<1>3. ASSUME NEW h \in Redis, Unnoticed(h)
      PROVE  FALSE
  BY <1>1, <1>3 DEF Unnoticed
<1>4. ASSUME NEW h \in Redis, NEW t \in Threads, Reporting(h, t)
      PROVE  t = th /\ h = frame[th].redis
  BY <1>1, <1>4 DEF Reporting
<1> QED BY <1>2, <1>3, <1>4 DEF Phases

\* What is held while th reports h.
LEMMA Reported ==
  ASSUME Types, Owners, Unique, NEW h \in Redis, NEW th \in Threads, Reporting(h, th)
  PROVE  /\ \A g \in Redis : OpenCalls(g) = {} /\ Reopenings(g) = {}
         /\ \A g \in Redis : DownThreads(g) \subseteq (IF g = h THEN {th} ELSE {})
         /\ at[th] # "declare" => LiveClients(h) = {} /\ \A c \in DOMAIN clients : ~Suspect(c)
         /\ th \notin Selectors /\ th # Heart /\ frame[th].calls = <<>>
         /\ \A t \in Selectors : at[t] = "idle"
         /\ \A t \in Threads : t # th => at[t] \notin CriticalSteps
<1>1. th # Heart /\ th \notin Selectors /\ ~AtRest(th) /\ at[th] \in CriticalSteps
  BY StepSets DEF AtRest, Types, CriticalSteps, Reporting
<1>2. \A t \in Threads : at[t] \notin CallSteps /\ frame[t].calls = <<>>
  BY <1>1 DEF Reporting, AtRest, Owners, Kept, CallSteps, CriticalSteps
<1>3. \A g \in Redis : OpenCalls(g) = {}
  <2>1. \A t \in Threads : DOMAIN frame[t].calls = {}
    BY <1>2
  <2> QED BY <2>1 DEF OpenCalls, Opens
<1>4. \A g \in Redis : Reopenings(g) = {}
  <2>1. DOMAIN reconnect = {}
    BY DEF Reporting, Calmed
  <2> QED BY <2>1 DEF Reopenings
<1>5. \A g \in Redis : \A t \in DownThreads(g) : t = th /\ g = h
  BY DEF DownThreads, Downs, Reporting, AtRest, CriticalSteps, LateSteps
<1>6. ASSUME at[th] # "declare"
      PROVE  LiveClients(h) = {} /\ \A c \in DOMAIN clients : ~Suspect(c)
  <2>1. th \in DownThreads(h)
    BY <1>1, <1>6 DEF DownThreads, Downs, Reporting
  <2>2. LiveClients(h) = {}
    BY <2>1, Holders
  <2> QED BY <2>2 DEF Reporting, Calmed, Suspect, LiveClients, Alive
<1>7. /\ \A t \in Selectors : at[t] = "idle"
      /\ \A t \in Threads : t # th => at[t] \notin CriticalSteps
  BY <1>1, ThreadKinds DEF Reporting, AtRest, CriticalSteps
<1> QED BY <1>1, <1>2, <1>3, <1>4, <1>5, <1>6, <1>7

-----------------------------------------------------------------------------
(* The phases, from one step to the next.                                     *)

LEMMA PhaseQuiet ==
  ASSUME Types, Evolves, Phases, Quieter, UNCHANGED <<at, frame, isMaster, table, maps, reconnect>>,
         \/ \A t \in Threads : at[t] # "declare"
         \/ \A c \in DOMAIN clients : Alive(c)' => clients'[c].link = clients[c].link
  PROVE  Phases'
<1>1. MapsKept
  BY SameMaps
<1>2. Right => Right'
  BY <1>1, RightStays
<1>3. \A c \in DOMAIN clients' :
        /\ c \in DOMAIN clients /\ clients'[c].redis = clients[c].redis
        /\ (Suspect(c)' => Suspect(c)) /\ (Pending(c)' => Pending(c))
  BY DEF Quieter
<1>4. ASSUME Opening
      PROVE  Opening'
  BY <1>2, <1>3, <1>4 DEF Opening
<1>5. ASSUME Serving
      PROVE  Serving'
  BY <1>2, <1>3, <1>5 DEF Serving, Lookup, AtRest, Selecting
<1>6. ASSUME NEW h \in Redis, Calmed(h)
      PROVE  Calmed(h)'
  BY <1>3, <1>6 DEF Calmed
<1>7. ASSUME NEW h \in Redis, Unnoticed(h)
      PROVE  Unnoticed(h)'
  BY <1>2, <1>6, <1>7 DEF Unnoticed, AtRest
<1>8. ASSUME NEW h \in Redis, NEW th \in Threads, Reporting(h, th)
      PROVE  Reporting(h, th)'
  <2>1. Peer(h) \in Redis
    BY Constants
  <2> DEFINE m == table[TRUE]
  <2>2. m # 0 /\ Owned(m, Peer(h)) => OwnedThen(m, Peer(h))
    <3>1. m \in 0 .. Len(maps) /\ DOMAIN maps = 1 .. Len(maps) /\ Len(maps) \in Nat
      BY Domains DEF Types
    <3> HIDE DEF m
    <3>2. m # 0 => m \in DOMAIN maps
      BY <3>1
    <3> QED BY <1>1, <2>1, <3>2 DEF MapsKept
  <2>3. table'[TRUE] # 0 /\ Owned(table[TRUE], Peer(h)) => Owned(table[TRUE], Peer(h))'
    BY <2>2 DEF OwnedThen, Owned
  <2>4. LiveClients(h)' \subseteq LiveClients(h)
    BY QuieterLive
  <2>5. at[th] = "declare" => \A c \in LiveClients(h)' : clients'[c].link = clients[c].link
    BY DEF LiveClients, Quieter
  <2>6. Shape(h, th)'
    <3>1. CASE at[th] = "declare"
      BY <1>2, <1>8, <2>4, <2>5, <3>1 DEF Reporting, Shape
    <3>2. CASE at[th] \in {"demote", "promotePeer"}
      BY <1>8, <2>3, <3>2 DEF Reporting, Shape
    <3>3. CASE at[th] \notin {"declare", "demote", "promotePeer"}
      BY <1>2, <1>8, <3>3 DEF Reporting, Shape
    <3> QED BY <3>1, <3>2, <3>3
  <2> QED BY <1>6, <1>8, <2>6 DEF Reporting, AtRest
<1> QED BY <1>4, <1>5, <1>7, <1>8 DEF Phases

LEMMA OpeningStep ==
  ASSUME Types, MapsKept, Opening, NEW th \in Threads, Only(th),
         th \in Selectors => at'[th] = "idle", at'[th] \notin CriticalSteps,
         \A c \in DOMAIN clients' : ~Suspect(c)', UNCHANGED <<isMaster, table>>
  PROVE  Phases'
<1>1. Right'
  BY RightStays DEF Opening
<1> QED BY <1>1, ThreadKinds DEF Opening, Only, Phases

LEMMA ServingStep ==
  ASSUME Types, MapsKept, Serving, NEW th \in Selectors, Only(th), Selecting(th)',
         \A c \in DOMAIN clients' : ~Suspect(c)' /\ ~Pending(c)',
         \A r \in BOOLEAN : Lookup(r, 0)' # 0,
         UNCHANGED <<isMaster, table, reconnect>>
  PROVE  Phases'
<1>1. Right'
  BY RightStays DEF Serving
<1>2. \A t \in Threads \ Selectors : AtRest(t)'
  BY DEF Serving, Only, AtRest
<1>3. \A t \in Selectors : Selecting(t)'
  BY ThreadKinds DEF Serving, Only, Selecting
<1> QED BY <1>1, <1>2, <1>3 DEF Serving, Phases

\* The heartbeat client with nothing to do.
LEMMA RestStep ==
  ASSUME Types, Evolves, Phases, Only(Heart), AtRest(Heart), AtRest(Heart)',
         UNCHANGED <<isMaster, table, maps, clients, server>>,
         reconnect' = reconnect \/ reconnect' = <<>>
  PROVE  Phases'
<1>1. MapsKept
  BY SameMaps
<1>2. Right => Right'
  BY <1>1, RightStays
<1>3. \A t \in Threads : AtRest(t) => AtRest(t)'
  BY DEF Only, AtRest
<1>4. \A c : (Suspect(c)' => Suspect(c)) /\ (Pending(c)' => Pending(c))
  BY DEF Suspect, Pending
<1>5. Heart \notin Selectors /\ Heart \in Threads
  BY ThreadKinds
<1>6. ASSUME Opening
      PROVE  Opening'
  <2>1. at'[Heart] \notin CriticalSteps
    BY DEF AtRest, CriticalSteps
  <2> QED BY <1>2, <1>4, <1>5, <1>6, <2>1, ThreadKinds DEF Opening, Only
<1>7. ASSUME Serving
      PROVE  Serving'
  <2>1. \A t \in Selectors : Selecting(t)'
    BY <1>5, <1>7, ThreadKinds DEF Serving, Selecting, Only
  <2>2. \A r \in BOOLEAN : Lookup(r, 0)' # 0
    BY <1>7 DEF Serving, Lookup
  <2> QED BY <1>2, <1>3, <1>4, <1>7, <2>1, <2>2 DEF Serving
<1>8. ASSUME NEW h \in Redis, Calmed(h)
      PROVE  Calmed(h)'
  BY <1>4, <1>8 DEF Calmed
<1>9. ASSUME NEW h \in Redis, Unnoticed(h)
      PROVE  Unnoticed(h)'
  BY <1>2, <1>3, <1>8, <1>9 DEF Unnoticed
<1>10. ASSUME NEW h \in Redis, NEW th \in Threads, Reporting(h, th)
       PROVE  Reporting(h, th)'
  <2>1. th # Heart
    BY <1>10, StepSets DEF Reporting, Types
  <2>2. at'[th] = at[th] /\ frame'[th] = frame[th]
    BY <2>1 DEF Only
  <2>3. LiveClients(h)' = LiveClients(h)
    BY DEF LiveClients, Alive
  <2>4. \A g \in Redis : Owned(table[TRUE], g)' <=> Owned(table[TRUE], g)
    BY DEF Owned
  <2>5. Peer(h) \in Redis
    BY Constants
  <2>6. Shape(h, th)'
    BY <1>2, <1>10, <2>2, <2>3, <2>4, <2>5 DEF Reporting, Shape
  <2> QED BY <1>3, <1>8, <1>10, <2>2, <2>6 DEF Reporting
<1> QED BY <1>6, <1>7, <1>9, <1>10 DEF Phases

\* redisDown goes on.
LEMMA ReportStep ==
  ASSUME NEW h \in Redis, NEW th \in Threads, Reporting(h, th), Only(th),
         at'[th] \in CriticalSteps, frame'[th].redis = h, Shape(h, th)', Calmed(h)'
  PROVE  Phases'
<1>1. \A t \in Threads \ {th} : AtRest(t)'
  BY DEF Reporting, Only, AtRest
<1>2. Reporting(h, th)'
  BY <1>1 DEF Reporting
<1> QED BY <1>2 DEF Phases

LEMMA CalmedStays ==
  ASSUME NEW h, Calmed(h), UNCHANGED <<clients, server, reconnect>>
  PROVE  Calmed(h)'
BY DEF Calmed, Pending, Suspect

\* redisDown has made its last change of the table or ends early.
LEMMA ReportEnds ==
  ASSUME Types, Owners, Unique, NEW h \in Redis, NEW th \in Threads, Reporting(h, th), Only(th),
         at[th] # "declare", at'[th] \notin CriticalSteps, UNCHANGED <<clients, server>>, Right'
  PROVE  Phases'
<1>1. /\ \A c \in DOMAIN clients : ~Suspect(c)
      /\ th \notin Selectors
      /\ \A t \in Selectors : at[t] = "idle"
      /\ \A t \in Threads : t # th => at[t] \notin CriticalSteps
  BY Reported
<1>2. \A c \in DOMAIN clients' : ~Suspect(c)'
  BY <1>1 DEF Suspect
<1>3. /\ \A t \in Selectors : at'[t] = "idle"
      /\ \A t \in Threads : at'[t] \notin CriticalSteps
  BY <1>1, ThreadKinds DEF Only
<1> QED BY <1>2, <1>3 DEF Opening, Phases

-----------------------------------------------------------------------------
(* initRedisProxyClient keeps the invariant.                                  *)

\* The first call leaves the locals.
LEMMA CallsShift ==
  ASSUME NEW th \in Threads, NEW q \in Seq(CallType), q # <<>>, frame[th].calls = q,
         at'[th] = "call", frame'[th].calls = Tail(q), NEW h
  PROVE  /\ \A i \in Nat : Opens(h, th, i)' => i + 1 \in Nat /\ i + 1 # 1 /\ Opens(h, th, i + 1)
<1>1. \A i \in DOMAIN Tail(q) : i \in Nat /\ i # 0 /\ i + 1 \in DOMAIN q /\ Tail(q)[i] = q[i + 1]
  BY HeadTailProperties, LenProperties
<1> QED BY <1>1 DEF Opens

LEMMA ShiftedCalls ==
  ASSUME Types, Types', Unique, NEW th \in Threads, Only(th), NEW q \in Seq(CallType), q # <<>>,
         frame[th].calls = q, at[th] \in {"call", "put"},
         at'[th] = "call", frame'[th].calls = Tail(q), frame'[th].next = frame[th].next,
         Quieter, reconnect' = reconnect
  PROVE  Unique'
<1>1. ASSUME NEW h \in Redis
      PROVE  Alone(LiveClients(h), OpenCalls(h), DownThreads(h), Reopenings(h))'
  <2>1. LiveClients(h)' \subseteq LiveClients(h)
    BY QuieterLive
  <2>2. DownThreads(h)' \subseteq DownThreads(h)
    <3>1. th \notin DownThreads(h)'
      BY DEF DownThreads, Downs, CriticalSteps, LateSteps
    <3> QED BY <3>1, Elsewhere
  <2>3. Reopenings(h)' \subseteq Reopenings(h)
    <3>1. frame[th].next \in Nat
      BY DEF Types, ThreadsOK, FrameType
    <3> QED BY <3>1, EntriesStay DEF Types, ThreadsOK
  <2>4. \A x \in OpenCalls(h)' : \/ x[1] # th /\ x \in OpenCalls(h)
                                 \/ x = <<th, x[2]>> /\ x[2] \in Nat /\ <<th, x[2] + 1>> \in OpenCalls(h)
    <3>1. ASSUME NEW x \in OpenCalls(h)', x[1] = th
          PROVE  x = <<th, x[2]>> /\ x[2] \in Nat /\ <<th, x[2] + 1>> \in OpenCalls(h)
      <4>1. x = <<th, x[2]>> /\ Opens(h, th, x[2])' /\ th \notin Selectors /\ x[2] \in Nat
        BY <3>1 DEF OpenCalls
      <4> DEFINE i == x[2] + 1
      <4>2. i \in Nat /\ Opens(h, th, i)
        BY <4>1, CallsShift
      <4> HIDE DEF i
      <4>3. <<th, i>> \in OpenCalls(h)
        BY <4>1, <4>2, CallFacts
      <4> QED BY <4>1, <4>3 DEF i
    <3> QED BY <3>1, Elsewhere
  <2>5. Alone(LiveClients(h), OpenCalls(h), DownThreads(h), Reopenings(h))
    BY DEF Unique
  <2>6. Lone(OpenCalls(h)')
    <3>1. ASSUME NEW x \in OpenCalls(h)', NEW y \in OpenCalls(h)'
          PROVE  x = y
      <4>1. \A u, v \in OpenCalls(h) : u = v
        BY <2>5 DEF Alone, Lone
      <4>0. /\ \/ x[1] # th /\ x \in OpenCalls(h)
               \/ x = <<th, x[2]>> /\ x[2] \in Nat /\ <<th, x[2] + 1>> \in OpenCalls(h)
            /\ \/ y[1] # th /\ y \in OpenCalls(h)
               \/ y = <<th, y[2]>> /\ y[2] \in Nat /\ <<th, y[2] + 1>> \in OpenCalls(h)
        BY <2>4
      <4>2. CASE x[1] # th /\ y[1] # th
        BY <4>0, <4>1, <4>2
      <4>3. CASE x[1] = th /\ y[1] = th
        <5>1. <<th, x[2] + 1>> = <<th, y[2] + 1>> /\ x[2] \in Nat /\ y[2] \in Nat
          BY <4>0, <4>1, <4>3
        <5>2. x[2] = y[2]
          BY <5>1
        <5> QED BY <4>0, <4>3, <5>2
      <4>4. CASE x[1] = th /\ y[1] # th
        <5>1. <<th, x[2] + 1>> = y
          BY <4>0, <4>1, <4>4
        <5> QED BY <4>4, <5>1
      <4>5. CASE x[1] # th /\ y[1] = th
        <5>1. x = <<th, y[2] + 1>>
          BY <4>0, <4>1, <4>5
        <5> QED BY <4>5, <5>1
      <4> QED BY <4>2, <4>3, <4>4, <4>5
    <3> QED BY <3>1 DEF Lone
  <2>7. OpenCalls(h)' # {} => OpenCalls(h) # {}
    BY <2>4
  <2> DEFINE A == LiveClients(h)
             B == OpenCalls(h)
             C == DownThreads(h)
             D == Reopenings(h)
  <2>8. A' \subseteq A /\ Lone(B') /\ (B' # {} => B # {}) /\ C' \subseteq C /\ D' \subseteq D /\ Alone(A, B, C, D)
    BY <2>1, <2>2, <2>3, <2>5, <2>6, <2>7
  <2> HIDE DEF A, B, C, D
  <2>9. Alone(A', B', C', D')
    BY <2>8 DEF Alone, Lone
  <2> QED BY <2>9 DEF A, B, C, D
<1> QED BY <1>1 DEF Unique

LEMMA CheckInv ==
  ASSUME Inv, Types', Evolves, NEW th \in Threads, Check(th)
  PROVE  Owners' /\ Unique' /\ Phases'
<1> DEFINE f == frame[th]
           q == f.calls
           k == Head(q)
<1>1. /\ at[th] = "call" /\ q # <<>> /\ f \in FrameType /\ ~AtRest(th)
      /\ UNCHANGED <<isMaster, table, maps, clients, server, reconnect>>
  BY DEF Check, routeVars, serverVars, nodeVars, Inv, Types, ThreadsOK, AtRest
<1>2. q \in Seq(CallType) /\ Tail(q) \in Seq(CallType) /\ k \in CallType
  BY <1>1, NextFrames, HeadTailProperties
<1>3. /\ MapsKept /\ Quieter /\ DOMAIN maps' = DOMAIN maps
      /\ \A c : (Suspect(c)' => Suspect(c)) /\ (Pending(c)' => Pending(c))
  BY <1>1, SameMaps, SameClients DEF Inv, Suspect, Pending
<1>4. CASE Goto(th, "call", [frame[th] EXCEPT !.calls = Tail(@)])
  <2> DEFINE g == [f EXCEPT !.calls = Tail(q)]
  <2>1. g \in FrameType /\ g.calls = Tail(q) /\ g.next = f.next /\ Goto(th, "call", g) /\ "call" \in Steps
    <3>1. Goto(th, "call", g) /\ "call" \in Steps
      BY <1>4 DEF Steps
    <3> DEFINE r == Tail(q)
    <3>2. r \in Seq(CallType)
      BY <1>2
    <3> HIDE DEF r
    <3>3. LET e == [f EXCEPT !.calls = r] IN e \in FrameType /\ e.calls = r /\ e.next = f.next
      BY <1>1, <3>2 DEF FrameType
    <3> QED BY <3>1, <3>3 DEF r
  <2> HIDE DEF g
  <2>2. Only(th) /\ at'[th] = "call" /\ frame'[th] = g
    BY <2>1, GotoStep DEF Only, Inv, Types
  <2>3. Owners'
    <3>1. KeptThen("call", g)
      BY DEF KeptThen, CallSteps
    <3> QED BY <1>3, <2>2, <3>1, OwnersStep DEF Inv
  <2>4. Unique'
    BY <1>1, <1>2, <1>3, <2>1, <2>2, ShiftedCalls DEF Inv
  <2>5. Phases'
    <3>1. CASE th \in Selectors
      <4>1. Serving
        BY <1>1, <3>1, SelectPhase DEF Inv
      <4>2. \A i \in DOMAIN Tail(q) : i + 1 \in DOMAIN q /\ Tail(q)[i] = q[i + 1]
        BY <1>1, <1>2, HeadTailProperties, LenProperties
      <4>3. Selecting(th)'
        BY <2>1, <2>2, <3>1, <4>1, <4>2 DEF Selecting, Serving
      <4> QED BY <1>1, <1>3, <2>2, <3>1, <4>1, <4>3, ServingStep DEF Inv, Serving, Lookup
    <3>2. CASE th \notin Selectors
      <4>1. Opening
        BY <1>1, <3>2, WorkPhase DEF Inv, CriticalSteps
      <4> QED BY <1>1, <1>3, <2>2, <3>2, <4>1, OpeningStep DEF Inv, Opening, CriticalSteps
    <3> QED BY <3>1, <3>2
  <2> QED BY <2>3, <2>4, <2>5
<1>5. CASE Goto(th, "new", frame[th]) /\ ~(k.check /\ Lookup(isMaster[k.redis], k.db) # 0)
  <2>1. Goto(th, "new", f) /\ "new" \in Steps
    BY <1>5 DEF Steps
  <2>2. Only(th) /\ at'[th] = "new" /\ frame'[th] = f
    BY <1>1, <2>1, GotoStep DEF Only, Inv, Types
  <2>3. Owners'
    <3>1. KeptThen("new", f)
      BY DEF KeptThen, CallSteps
    <3> QED BY <1>3, <2>2, <3>1, OwnersStep DEF Inv
  <2>4. Unique'
    <3>1. ASSUME NEW h \in Redis
          PROVE  Alone(LiveClients(h), OpenCalls(h), DownThreads(h), Reopenings(h))'
      <4>1. \A i : Opens(h, th, i)' => Opens(h, th, i)
        BY <1>1, <2>2 DEF Opens
      <4>2. ~Downs(h, th)'
        BY <2>2 DEF Downs, CriticalSteps, LateSteps
      <4>3. f.next \in Nat
        BY <1>1 DEF FrameType
      <4>4. LiveClients(h)' \subseteq LiveClients(h)
        BY <1>3, QuieterLive
      <4> QED BY <1>1, <2>2, <4>1, <4>2, <4>3, <4>4, UniqueStep DEF Inv
    <3> QED BY <3>1 DEF Unique
  <2>5. Phases'
    <3>1. CASE th \in Selectors
      <4>1. Serving
        BY <1>1, <3>1, SelectPhase DEF Inv
      <4>2. k.check
        <5>1. q[1] = k /\ 1 \in DOMAIN q
          BY <1>1, <1>2, HeadTailProperties, LenProperties
        <5> QED BY <3>1, <4>1, <5>1 DEF Serving, Selecting
      <4>3. k.db # 0
        <5>1. isMaster[k.redis] \in BOOLEAN
          BY <1>2 DEF Inv, Types, DataOK, CallType
        <5> QED BY <1>5, <4>1, <4>2, <5>1 DEF Serving
      <4>4. Selecting(th)'
        BY <2>2, <3>1, <4>1, <4>3 DEF Selecting, Serving
      <4> QED BY <1>1, <1>3, <2>2, <3>1, <4>1, <4>4, ServingStep DEF Inv, Serving, Lookup
    <3>2. CASE th \notin Selectors
      <4>1. Opening
        BY <1>1, <3>2, WorkPhase DEF Inv, CriticalSteps
      <4> QED BY <1>1, <1>3, <2>2, <3>2, <4>1, OpeningStep DEF Inv, Opening, CriticalSteps
    <3> QED BY <3>1, <3>2
  <2> QED BY <2>3, <2>4, <2>5
<1> QED BY <1>4, <1>5 DEF Check

LEMMA NewClientInv ==
  ASSUME Inv, Types', Evolves, NEW th \in Threads, NewClient(th)
  PROVE  Owners' /\ Unique' /\ Phases'
<1> DEFINE f == frame[th]
           q == f.calls
           k == Head(q)
           m == MapOf(k.redis)
<1>0. PICK c : c = Len(clients')
  OBVIOUS
<1> DEFINE g == [f EXCEPT !.found = m, !.made = c]
<1>1. /\ k \in CallType /\ q # <<>> /\ q \in Seq(CallType)
      /\ DOMAIN clients' = DOMAIN clients \cup {c} /\ c \notin DOMAIN clients
      /\ \A d \in DOMAIN clients : clients'[d] = clients[d]
      /\ clients'[c] = [redis |-> k.redis, db |-> k.db, link |-> "connecting", connected |-> FALSE]
      /\ maps' = maps
  BY <1>0, NewClientData DEF Inv
<1>2. /\ at[th] = "new" /\ f \in FrameType /\ ~AtRest(th)
      /\ UNCHANGED <<isMaster, table, server, reconnect>>
      /\ k.redis \in Redis /\ k.db \in Databases
  BY <1>1 DEF NewClient, routeVars, serverVars, nodeVars, Inv, Types, ThreadsOK, AtRest, CallType
<1>3. m \in 0 .. Len(maps) /\ Len(maps) \in Nat /\ DOMAIN maps = 1 .. Len(maps) /\ c \in Nat
  BY <1>0, <1>2, Domains, LenProperties DEF Inv, Types, DataOK
<1>4. g \in FrameType /\ g.calls = q /\ g.next = f.next /\ g.found = m /\ g.made = c
  <2>1. m \in Nat
    BY <1>3
  <2> HIDE DEF m
  <2> QED BY <1>2, <1>3, <2>1 DEF FrameType
<1>5. Goto(th, "put", g) /\ "put" \in Steps
  BY <1>0 DEF NewClient, Steps
<1>6. MapsKept /\ DOMAIN maps' = DOMAIN maps
  BY <1>1, SameMaps DEF Inv
<1> HIDE DEF g
<1>7. Only(th) /\ at'[th] = "put" /\ frame'[th] = g
  BY <1>4, <1>5, GotoStep DEF Only, Inv, Types
<1>8. Serving \/ (Opening /\ th \notin Selectors)
  BY <1>2, SelectPhase, WorkPhase DEF Inv, CriticalSteps
<1>9. Owners'
  <2>1. m # 0 => Owned(m, k.redis)
    BY <1>2, <1>8 DEF Serving, Opening, Right, MapOf
  <2>2. m # 0 => m \in DOMAIN maps
    BY <1>3
  <2>3. m # 0 => OwnedThen(m, k.redis)
    BY <1>2, <1>6, <2>1, <2>2 DEF MapsKept
  <2>4. KeptThen("put", g)
    BY <1>1, <1>4, <2>3 DEF KeptThen, CallSteps
  <2> QED BY <1>6, <1>7, <2>4, OwnersStep DEF Inv
<1>10. /\ \A d \in DOMAIN clients : /\ Alive(d)' <=> Alive(d)
                                    /\ Suspect(d)' <=> Suspect(d)
                                    /\ Pending(d)' <=> Pending(d)
       /\ ~Suspect(c)' /\ (Pending(c)' => k.db = 0) /\ (Alive(c)' => k.db = 0)
  BY <1>1, <1>2 DEF Alive, Suspect, Pending
<1>11. \A h \in Redis : \A i : Opens(h, th, i)' => Opens(h, th, i) /\ i # 1
  BY <1>2, <1>4, <1>7 DEF Opens
<1>12. \A h \in Redis : ~Downs(h, th)'
  BY <1>7 DEF Downs, CriticalSteps, LateSteps
<1>13. f.next \in Nat
  BY <1>2 DEF FrameType
<1>14. Unique'
  <2>1. ASSUME NEW h \in Redis
        PROVE  Alone(LiveClients(h), OpenCalls(h), DownThreads(h), Reopenings(h))'
    <3>1. CASE k.db # 0 \/ k.redis # h
      <4>1. LiveClients(h)' \subseteq LiveClients(h)
        BY <1>1, <1>10, <3>1 DEF LiveClients
      <4> QED BY <1>2, <1>4, <1>7, <1>11, <1>12, <1>13, <4>1, UniqueStep DEF Inv
    <3>2. CASE k.db = 0 /\ k.redis = h
      <4>1. th \notin Selectors
        BY <1>2, <3>2, SelectPhase DEF Inv, Serving, Selecting
      <4>2. <<th, 1>> \in OpenCalls(h)
        <5>1. q[1] = k /\ 1 \in DOMAIN q
          BY <1>1, HeadTailProperties, LenProperties
        <5>2. Opens(h, th, 1)
          BY <1>2, <3>2, <5>1 DEF Opens
        <5> QED BY <4>1, <5>2, CallFacts
      <4>3. /\ LiveClients(h) = {} /\ OpenCalls(h) = {<<th, 1>>} /\ DownThreads(h) = {}
            /\ Reopenings(h) = {}
        BY <4>2, Holders DEF Inv
      <4>4. \A d \in LiveClients(h)' : d = c
        BY <1>1, <1>10, <4>3 DEF LiveClients
      <4>5. OpenCalls(h)' = {}
        <5>1. ASSUME NEW x \in OpenCalls(h)'
              PROVE  FALSE
          <6>1. x = <<x[1], x[2]>> /\ Opens(h, x[1], x[2])'
            BY <5>1 DEF OpenCalls
          <6>2. CASE x[1] = th
            <7>1. x[1] \in Threads /\ x[1] \notin Selectors /\ x[2] \in Nat
              BY <5>1 DEF OpenCalls
            <7>2. Opens(h, th, x[2]) /\ x[2] # 1
              BY <1>11, <6>1, <6>2
            <7>3. <<th, x[2]>> \in OpenCalls(h)
              BY <4>1, <7>1, <7>2, CallFacts
            <7> QED BY <4>3, <7>2, <7>3
          <6>3. CASE x[1] # th
            BY <1>7, <4>3, <5>1, <6>3, Elsewhere
          <6> QED BY <6>2, <6>3
        <5> QED BY <5>1
      <4>6. DownThreads(h)' = {}
        <5>1. th \notin DownThreads(h)'
          BY <1>12 DEF DownThreads
        <5> QED BY <1>7, <4>3, <5>1, Elsewhere
      <4>7. Reopenings(h)' = {}
        BY <1>2, <1>4, <1>7, <1>13, <4>3, EntriesStay DEF Inv, Types, ThreadsOK
      <4> QED BY <4>4, <4>5, <4>6, <4>7 DEF Alone, Lone
    <3> QED BY <3>1, <3>2
  <2> QED BY <2>1 DEF Unique
<1>15. Phases'
  <2>1. CASE th \in Selectors
    <3>1. Serving
      BY <1>2, <2>1, SelectPhase DEF Inv
    <3>2. k.db # 0
      BY <1>2, <2>1, <3>1 DEF Serving, Selecting
    <3>3. m # 0
      BY <1>2, <3>1 DEF Serving, Lookup, MapOf, Inv, Types, DataOK
    <3>4. Selecting(th)'
      BY <1>4, <1>7, <2>1, <3>1, <3>2, <3>3 DEF Selecting, Serving
    <3>5. \A d \in DOMAIN clients' : ~Suspect(d)' /\ ~Pending(d)'
      BY <1>1, <1>10, <3>1, <3>2 DEF Serving
    <3>6. \A r \in BOOLEAN : Lookup(r, 0)' # 0
      BY <1>1, <1>2, <3>1 DEF Serving, Lookup
    <3> QED BY <1>2, <1>6, <1>7, <2>1, <3>1, <3>4, <3>5, <3>6, ServingStep DEF Inv
  <2>2. CASE th \notin Selectors
    <3>1. Opening
      BY <1>2, <2>2, WorkPhase DEF Inv, CriticalSteps
    <3>2. \A d \in DOMAIN clients' : ~Suspect(d)'
      BY <1>1, <1>10, <3>1 DEF Opening
    <3> QED BY <1>2, <1>6, <1>7, <2>2, <3>1, <3>2, OpeningStep DEF Inv, CriticalSteps
  <2> QED BY <2>1, <2>2
<1> QED BY <1>9, <1>14, <1>15

LEMMA PutClientInv ==
  ASSUME Inv, Types', Evolves, NEW th \in Threads, PutClient(th)
  PROVE  Owners' /\ Unique' /\ Phases'
<1> DEFINE e == frame[th]
           q == e.calls
           k == Head(q)
           f == e.found
           c == e.made
           g == [e EXCEPT !.calls = Tail(q), !.found = 0, !.made = 0]
<1>0. PICK m : m = IF f # 0 THEN f ELSE Len(maps')
  OBVIOUS
<1>1. /\ k \in CallType /\ q # <<>> /\ q \in Seq(CallType)
      /\ c \in DOMAIN clients /\ f \in 0 .. Len(maps)
      /\ UNCHANGED <<clients, isMaster>>
      /\ m \in DOMAIN maps' /\ m # 0
      /\ \A x \in DOMAIN maps : maps'[x] = IF x = f THEN [maps[x] EXCEPT ![k.db] = c] ELSE maps[x]
      /\ f # 0 => UNCHANGED table /\ DOMAIN maps' = DOMAIN maps
      /\ f = 0 => /\ table' = [table EXCEPT ![isMaster[k.redis]] = m]
                  /\ m \notin DOMAIN maps /\ DOMAIN maps' = DOMAIN maps \cup {m}
                  /\ maps'[m] = [n \in Databases |-> IF n = k.db THEN c ELSE 0]
  BY <1>0, PutClientData DEF Inv
<1>2. /\ at[th] = "put" /\ e \in FrameType /\ ~AtRest(th)
      /\ UNCHANGED <<server, reconnect>>
      /\ k.redis \in Redis /\ k.db \in Databases
  BY <1>1 DEF PutClient, serverVars, nodeVars, Inv, Types, ThreadsOK, AtRest, CallType
<1>3. /\ g \in FrameType /\ g.calls = Tail(q) /\ g.next = e.next
      /\ Goto(th, "call", g) /\ "call" \in Steps
  <2>1. Goto(th, "call", g) /\ "call" \in Steps
    BY DEF PutClient, Steps
  <2> DEFINE r == Tail(q)
  <2>2. r \in Seq(CallType)
    BY <1>1, HeadTailProperties
  <2> HIDE DEF r
  <2>3. LET x == [e EXCEPT !.calls = r, !.found = 0, !.made = 0] IN
        x \in FrameType /\ x.calls = r /\ x.next = e.next
    BY <1>2, <2>2 DEF FrameType
  <2> QED BY <2>1, <2>3 DEF r
<1>4. /\ clients[c].redis = k.redis /\ clients[c].db = k.db /\ c # 0
      /\ f # 0 => Owned(f, k.redis)
  BY <1>1, <1>2, Domains DEF Inv, Types, Owners, Kept
<1> HIDE DEF g
<1>5. Only(th) /\ at'[th] = "call" /\ frame'[th] = g
  BY <1>3, GotoStep DEF Only, Inv, Types
<1>6. Quieter /\ \A d : (Suspect(d)' => Suspect(d)) /\ (Pending(d)' => Pending(d))
  BY <1>1, <1>2, SameClients DEF Suspect, Pending
<1>7. OwnedThen(m, k.redis)
  <2>1. CASE f # 0
    <3>1. m = f /\ m \in DOMAIN maps /\ maps'[m] = [maps[m] EXCEPT ![k.db] = c]
      BY <1>0, <1>1, <2>1
    <3>2. maps[m] \in [Databases -> 0 .. Len(clients)]
      BY <3>1, Domains DEF Inv, Types
    <3>3. /\ maps'[m][k.db] = c
          /\ \A n \in Databases : n # k.db => maps'[m][n] = maps[m][n]
      BY <1>2, <3>1, <3>2
    <3>4. \A n \in Databases : maps[m][n] # 0 =>
            clients[maps[m][n]].redis = k.redis /\ clients[maps[m][n]].db = n
      BY <1>4, <2>1, <3>1 DEF Owned
    <3> QED BY <1>1, <1>2, <1>4, <3>3, <3>4 DEF OwnedThen
  <2>2. CASE f = 0
    BY <1>1, <1>2, <1>4, <2>2 DEF OwnedThen
  <2> QED BY <2>1, <2>2
<1>8. MapsKept
  <2>1. ASSUME NEW x \in DOMAIN maps, NEW h \in Redis, Owned(x, h)
        PROVE  OwnedThen(x, h)
    <3>1. CASE x = f
      <4>1. f # 0
        BY <3>1, Domains DEF Inv, Types
      <4>2. Owned(f, h) /\ Owned(f, k.redis)
        BY <1>4, <2>1, <3>1, <4>1
      <4>3. h = k.redis
        BY <4>2, OneOwner
      <4> QED BY <1>0, <1>7, <3>1, <4>1, <4>3
    <3>2. CASE x # f
      <4>1. maps'[x] = maps[x]
        BY <1>1, <3>2
      <4> QED BY <2>1, <4>1, OwnedStays DEF Inv
    <3> QED BY <3>1, <3>2
  <2> QED BY <2>1 DEF MapsKept
<1>9. Owners'
  <2>1. KeptThen("call", g)
    BY DEF KeptThen, CallSteps
  <2>2. \A x \in DOMAIN maps' \ DOMAIN maps : x = m
    BY <1>1
  <2> QED BY <1>2, <1>5, <1>7, <1>8, <2>1, <2>2, OwnersStep DEF Inv
<1>10. Unique'
  BY <1>1, <1>2, <1>3, <1>5, <1>6, ShiftedCalls DEF Inv
<1>11. Phases'
  <2>1. CASE th \in Selectors
    <3>1. Serving
      BY <1>2, <2>1, SelectPhase DEF Inv
    <3>2. f # 0 /\ k.db # 0 /\ UNCHANGED table
      BY <1>1, <1>2, <2>1, <3>1 DEF Serving, Selecting
    <3>3. \A i \in DOMAIN Tail(q) : i + 1 \in DOMAIN q /\ Tail(q)[i] = q[i + 1]
      BY <1>1, HeadTailProperties, LenProperties
    <3>4. Selecting(th)'
      BY <1>3, <1>5, <2>1, <3>1, <3>3 DEF Selecting, Serving
    <3>5. \A r \in BOOLEAN : Lookup(r, 0)' # 0
      <4>1. ASSUME NEW r \in BOOLEAN
            PROVE  Lookup(r, 0)' # 0
        <5> DEFINE x == table[r]
        <5>1. x # 0 /\ maps[x][0] # 0
          BY <3>1 DEF Serving, Lookup
        <5>2. x \in DOMAIN maps /\ maps[x] \in [Databases -> 0 .. Len(clients)]
          BY <5>1, Domains DEF Inv, Types
        <5>3. maps'[x][0] = maps[x][0]
          BY <1>1, <3>2, <5>2, Constants
        <5> QED BY <3>2, <5>1, <5>3 DEF Lookup
      <4> QED BY <4>1
    <3> QED BY <1>1, <1>2, <1>5, <1>6, <1>8, <2>1, <3>1, <3>2, <3>4, <3>5, ServingStep DEF Inv, Serving
  <2>2. CASE th \notin Selectors
    <3>1. Opening
      BY <1>2, <2>2, WorkPhase DEF Inv, CriticalSteps
    <3>2. \A d \in DOMAIN clients' : ~Suspect(d)'
      BY <1>1, <1>6, <3>1 DEF Opening
    <3>3. CASE f # 0
      BY <1>1, <1>5, <1>8, <2>2, <3>1, <3>2, <3>3, OpeningStep DEF Inv, CriticalSteps
    <3>4. CASE f = 0
      <4>1. /\ \A h \in Redis : isMaster[h] \in BOOLEAN
            /\ \A h \in Redis : h # k.redis => isMaster[h] # isMaster[k.redis]
        BY <1>2, <3>1, Constants DEF Opening, Right, Inv, Types, DataOK, Redis
      <4>2. \A h \in Redis : table'[isMaster[h]] = IF h = k.redis THEN m ELSE table[isMaster[h]]
        <5> DEFINE r == isMaster[k.redis]
        <5>1. table \in [BOOLEAN -> 0 .. Len(maps)] /\ r \in BOOLEAN
          BY <1>2, <4>1 DEF Inv, Types, DataOK
        <5>2. table' = [table EXCEPT ![r] = m]
          BY <1>1, <3>4
        <5> HIDE DEF r
        <5>3. \A b \in BOOLEAN : table'[b] = IF b = r THEN m ELSE table[b]
          BY <5>1, <5>2
        <5>4. \A h \in Redis : isMaster[h] \in BOOLEAN /\ (isMaster[h] = r <=> h = k.redis)
          BY <4>1 DEF r
        <5> QED BY <5>3, <5>4
      <4>3. ASSUME NEW h \in Redis, table'[isMaster[h]] # 0
            PROVE  OwnedThen(table'[isMaster[h]], h)
        <5>1. CASE h = k.redis
          BY <1>7, <4>2, <5>1
        <5>2. CASE h # k.redis
          <6>1. table'[isMaster[h]] = table[isMaster[h]] /\ table[isMaster[h]] # 0
            BY <4>2, <4>3, <5>2
          <6>2. table[isMaster[h]] \in DOMAIN maps
            BY <4>1, <6>1, Domains DEF Inv, Types
          <6> QED BY <1>8, <3>1, <6>1, <6>2 DEF Opening, Right, MapsKept
        <5> QED BY <5>1, <5>2
      <4>4. Right'
        BY <1>1, <3>1, <4>3 DEF Opening, Right, OwnedThen, Owned
      <4>5. /\ \A t \in Selectors : at'[t] = "idle"
            /\ \A t \in Threads : at'[t] \notin CriticalSteps
        BY <1>5, <2>2, <3>1, ThreadKinds DEF Opening, Only, CriticalSteps
      <4> QED BY <3>2, <4>4, <4>5 DEF Opening, Phases
    <3> QED BY <3>3, <3>4
  <2> QED BY <2>1, <2>2
<1> QED BY <1>9, <1>10, <1>11

\* A step that only moves a thread of a client on while connections are opened.
LEMMA CallsDoneInv ==
  ASSUME Inv, Types', Evolves, NEW th \in Threads, CallsDone(th)
  PROVE  Owners' /\ Unique' /\ Phases'
<1> DEFINE f == frame[th]
<1>1. /\ at[th] = "call" /\ f.calls = <<>> /\ f \in FrameType /\ ~AtRest(th) /\ f.next \in Nat
      /\ UNCHANGED <<isMaster, table, maps, clients, server, reconnect>>
  BY DEF CallsDone, routeVars, serverVars, nodeVars, Inv, Types, ThreadsOK, AtRest, FrameType
<1>2. PICK s \in {"idle", "reconnect"}, g \in FrameType :
        /\ Goto(th, s, g) /\ g.calls = <<>> /\ g.next = f.next
        /\ th \in Selectors => s = "idle"
  <2>1. th \in Selectors => f.next = 0
    BY ThreadKinds DEF Inv, Types, ThreadsOK, FrameOK
  <2> QED BY <1>1, <2>1, NoFrameType DEF CallsDone, Return
<1>3. Only(th) /\ at'[th] = s /\ frame'[th] = g
  <2>1. s \in Steps
    BY <1>2 DEF Steps
  <2> QED BY <1>2, <2>1, GotoStep DEF Only, Inv, Types
<1>4. /\ MapsKept /\ Quieter /\ DOMAIN maps' = DOMAIN maps
      /\ \A c : (Suspect(c)' => Suspect(c)) /\ (Pending(c)' => Pending(c))
  BY <1>1, SameMaps, SameClients DEF Inv, Suspect, Pending
<1>5. Owners'
  <2>1. KeptThen(s, g)
    BY <1>2 DEF KeptThen
  <2> QED BY <1>3, <1>4, <2>1, OwnersStep DEF Inv
<1>6. Unique'
  <2>1. ASSUME NEW h \in Redis
        PROVE  Alone(LiveClients(h), OpenCalls(h), DownThreads(h), Reopenings(h))'
    <3>1. \A i : ~Opens(h, th, i)'
      BY <1>2, <1>3 DEF Opens
    <3>2. ~Downs(h, th)'
      BY <1>3 DEF Downs, CriticalSteps, LateSteps
    <3>3. LiveClients(h)' \subseteq LiveClients(h)
      BY <1>4, QuieterLive
    <3> QED BY <1>1, <1>2, <1>3, <3>1, <3>2, <3>3, UniqueStep DEF Inv
  <2> QED BY <2>1 DEF Unique
<1>7. Phases'
  <2>1. CASE th \in Selectors
    <3>1. Serving
      BY <1>1, <2>1, SelectPhase DEF Inv
    <3>2. Selecting(th)'
      BY <1>2, <1>3, <2>1 DEF Selecting
    <3> QED BY <1>1, <1>3, <1>4, <2>1, <3>1, <3>2, ServingStep DEF Inv, Serving, Lookup
  <2>2. CASE th \notin Selectors
    <3>1. Opening
      BY <1>1, <2>2, WorkPhase DEF Inv, CriticalSteps
    <3> QED BY <1>1, <1>3, <1>4, <2>2, <3>1, OpeningStep DEF Inv, Opening, CriticalSteps
  <2> QED BY <2>1, <2>2
<1> QED BY <1>5, <1>6, <1>7

\* A slice that is settled: each Redis has one client of database 0, which is
\* connected and in the map of its role.
LEMMA SettledFacts ==
  ASSUME Inv, Settled
  PROVE  /\ Right /\ reconnect = <<>>
         /\ \A h \in Redis :
              /\ Lookup(isMaster[h], 0) \in DOMAIN clients
              /\ LiveClients(h) = {Lookup(isMaster[h], 0)}
              /\ clients[Lookup(isMaster[h], 0)].redis = h
              /\ clients[Lookup(isMaster[h], 0)].db = 0
              /\ clients[Lookup(isMaster[h], 0)].connected
              /\ clients[Lookup(isMaster[h], 0)].link = "open"
              /\ server[h] = "up"
         /\ \A c \in DOMAIN clients : ~Suspect(c) /\ ~Pending(c)
         /\ \A c \in DOMAIN clients :
              clients[c].db = 0 /\ clients[c].connected =>
                c = Lookup(isMaster[clients[c].redis], 0) /\ clients[c].redis \in Redis
<1>1. Right
  <2>1. ASSUME NEW h \in Redis, NEW th \in Threads, Reporting(h, th)
        PROVE  FALSE
    <3>1. th \notin Selectors /\ at[th] # "idle"
      BY <2>1, StepSets DEF Reporting, Inv, Types, CriticalSteps
    <3> QED BY <3>1 DEF Settled
  <2> QED BY <2>1 DEF Inv, Phases, Opening, Serving, Unnoticed
<1>2. ASSUME NEW h \in Redis
      PROVE  LET c == Lookup(isMaster[h], 0) IN
             /\ c \in DOMAIN clients /\ LiveClients(h) = {c} /\ Reopenings(h) = {}
             /\ clients[c].redis = h /\ clients[c].db = 0 /\ clients[c].connected
             /\ clients[c].link = "open" /\ server[h] = "up"
  <2> DEFINE r == isMaster[h]
             m == table[r]
             c == maps[m][0]
  <2>1. r \in BOOLEAN
    BY DEF Inv, Types, DataOK
  <2>2. /\ m # 0 /\ c # 0 /\ c = Lookup(r, 0) /\ clients[c].connected /\ clients[c].link = "open"
        /\ server[h] = "up"
    BY <2>1 DEF Settled, Lookup
  <2>3. m \in DOMAIN maps
    BY <2>1, <2>2, Domains DEF Inv, Types
  <2>4. c \in DOMAIN clients
    BY <2>2, <2>3, MapEntries, Constants DEF Inv, Types
  <2>5. clients[c].redis = h /\ clients[c].db = 0
    BY <1>1, <2>2, Constants DEF Right, Owned
  <2>6. c \in LiveClients(h)
    BY <2>2, <2>4, <2>5 DEF LiveClients, Alive
  <2> QED BY <2>2, <2>4, <2>5, <2>6, Holders DEF Inv
<1>3. ASSUME NEW c \in DOMAIN clients, Alive(c)
      PROVE  /\ clients[c].redis \in Redis /\ c = Lookup(isMaster[clients[c].redis], 0)
             /\ ~Suspect(c) /\ ~Pending(c)
  <2> DEFINE h == clients[c].redis
  <2>1. h \in Redis
    BY Domains DEF Inv, Types, ClientType
  <2>2. c \in LiveClients(h)
    BY <1>3 DEF LiveClients
  <2>3. c = Lookup(isMaster[h], 0)
    BY <1>2, <2>1, <2>2
  <2> QED BY <1>2, <2>1, <2>3 DEF Suspect, Pending
<1>4. reconnect = <<>>
  <2>1. at[Heart] = "idle" /\ frame[Heart].next = 0
    BY ThreadKinds, NoFrameType DEF Settled, Inv, Types, ThreadsOK, FrameOK
  <2>2. \A i \in DOMAIN reconnect : i \in Nat /\ reconnect[i] \in Redis
    BY Domains DEF Inv, Types
  <2>3. \A i \in DOMAIN reconnect : i \in Reopenings(reconnect[i])
    BY <2>1, <2>2 DEF Reopenings
  <2>4. DOMAIN reconnect = {}
    BY <1>2, <2>2, <2>3
  <2> QED BY <2>4, EmptySeq, LenProperties DEF Inv, Types, DataOK
<1> QED BY <1>1, <1>2, <1>3, <1>4 DEF Alive, Suspect, Pending

LEMMA SelectInv ==
  ASSUME Calm, Inv, Types', Evolves, NEW th \in Selectors, NEW n \in Databases, Select(th, n)
  PROVE  Owners' /\ Unique' /\ Phases'
<1> DEFINE q == <<Call(Local, n, TRUE), Call(Remote, n, TRUE)>>
           f == [NoFrame EXCEPT !.calls = q]
<1>1. q \in Seq(CallType) /\ \A i \in DOMAIN q : q[i].check
  <2>1. Call(Local, n, TRUE).check /\ Call(Remote, n, TRUE).check
    BY DEF Call
  <2>2. Call(Local, n, TRUE) \in CallType /\ Call(Remote, n, TRUE) \in CallType
    BY CallTyped, Constants
  <2> DEFINE a == Call(Local, n, TRUE)
             b == Call(Remote, n, TRUE)
  <2>3. a \in CallType /\ b \in CallType /\ a.check /\ b.check /\ q = <<a, b>>
    BY <2>1, <2>2
  <2> HIDE DEF a, b, q
  <2> QED BY <2>3
<1>2. f \in FrameType /\ f.calls = q /\ f.next = 0
  <2> HIDE DEF q
  <2> QED BY <1>1, NewFrames
<1>3. Goto(th, "call", f) /\ "call" \in Steps /\ th \in Threads /\ Settled /\ th # Heart
  BY ThreadKinds DEF Select, Steps
<1> HIDE DEF f
<1>4. Only(th) /\ at'[th] = "call" /\ frame'[th] = f
  BY <1>2, <1>3, GotoStep DEF Only, Inv, Types
<1>5. UNCHANGED <<isMaster, table, maps, clients, server, reconnect>>
  BY DEF Select, routeVars, serverVars, nodeVars
<1>6. /\ MapsKept /\ Quieter /\ DOMAIN maps' = DOMAIN maps
      /\ \A c : (Suspect(c)' => Suspect(c)) /\ (Pending(c)' => Pending(c))
  BY <1>5, SameMaps, SameClients DEF Inv, Suspect, Pending
<1>7. Owners'
  <2>1. KeptThen("call", f)
    BY DEF KeptThen, CallSteps
  <2> QED BY <1>3, <1>4, <1>6, <2>1, OwnersStep DEF Inv
<1>8. Unique'
  <2>1. ASSUME NEW h \in Redis
        PROVE  Alone(LiveClients(h), OpenCalls(h), DownThreads(h), Reopenings(h))'
    <3>1. ~Downs(h, th)'
      BY <1>4 DEF Downs, CriticalSteps, LateSteps
    <3>2. LiveClients(h)' \subseteq LiveClients(h)
      BY <1>6, QuieterLive
    <3> QED BY <1>3, <1>4, <1>5, <3>1, <3>2, UniqueStep DEF Inv
  <2> QED BY <2>1 DEF Unique
<1>9. Serving
  <2>1. \A t \in Threads \ Selectors : AtRest(t)
    BY <1>3 DEF Settled, AtRest
  <2>2. \A r \in BOOLEAN : Lookup(r, 0) # 0
    BY <1>3 DEF Settled
  <2>3. \A t \in Selectors : Selecting(t)
    <3>1. CASE \E t \in Selectors : at[t] # "idle"
      BY <3>1, SelectPhase DEF Inv, Serving
    <3>2. CASE \A t \in Selectors : at[t] = "idle"
      <4>1. \A t \in Selectors : frame[t].calls = <<>>
        BY <3>2, ThreadKinds DEF Inv, Owners, Kept, CallSteps
      <4> QED BY <3>2, <4>1 DEF Selecting
    <3> QED BY <3>1, <3>2
  <2> QED BY <1>3, <2>1, <2>2, <2>3, SettledFacts DEF Serving
<1>10. Phases'
  <2>1. Selecting(th)'
    BY <1>1, <1>2, <1>4 DEF Selecting
  <2> QED BY <1>4, <1>5, <1>6, <1>9, <2>1, ServingStep DEF Inv, Serving, Lookup
<1> QED BY <1>7, <1>8, <1>10

-----------------------------------------------------------------------------
(* The event loops and the timers keep it.                                    *)

LEMMA QuietInv ==
  ASSUME Inv, Types', Evolves, Quieter,
         UNCHANGED <<at, frame, isMaster, table, maps, reconnect>>,
         \/ \A t \in Threads : at[t] # "declare"
         \/ \A c \in DOMAIN clients : Alive(c)' => clients'[c].link = clients[c].link
  PROVE  Owners' /\ Unique' /\ Phases'
BY OwnersSame, UniqueSame, PhaseQuiet DEF Inv

\* A thread of a client goes on while connections are opened.
LEMMA WorkInv ==
  ASSUME Inv, Types', Evolves, NEW th \in Threads, th \notin Selectors, th # Heart, Opening,
         Only(th), KeptThen(at'[th], frame'[th]), at'[th] \notin CriticalSteps,
         \A h \in Redis : (\A i \in Nat : Opens(h, th, i)' => Opens(h, th, i)) /\ (Downs(h, th)' => Downs(h, th)),
         Quieter, UNCHANGED <<isMaster, table, maps, reconnect>>
  PROVE  Owners' /\ Unique' /\ Phases'
<1>1. MapsKept /\ DOMAIN maps' = DOMAIN maps
  BY SameMaps DEF Inv
<1>2. Owners'
  BY <1>1, OwnersStep DEF Inv
<1>3. Unique'
  <2>1. ASSUME NEW h \in Redis
        PROVE  Alone(LiveClients(h), OpenCalls(h), DownThreads(h), Reopenings(h))'
    BY QuieterLive, UniqueStep DEF Inv
  <2> QED BY <2>1 DEF Unique
<1>4. \A c \in DOMAIN clients' : ~Suspect(c)'
  BY DEF Quieter, Opening
<1>5. Phases'
  BY <1>1, <1>4, OpeningStep DEF Inv
<1> QED BY <1>2, <1>3, <1>5

LEMMA LoopThreads ==
  ASSUME Types, Owners, NEW c \in DOMAIN clients
  PROVE  /\ Loop(c) \in Threads /\ Loop(c) \notin Selectors /\ Loop(c) # Heart
         /\ Timer(c) \in Threads /\ Timer(c) \notin Selectors /\ Timer(c) # Heart
         /\ c \in Clients /\ clients[c] \in ClientType /\ clients[c].redis \in Redis
         /\ \A d \in Clients : Loop(c) # Timer(d) /\ (Timer(c) = Timer(d) => c = d)
         /\ at[Loop(c)] = "idle" => frame[Loop(c)].calls = <<>>
         /\ at[Timer(c)] = "idle" => frame[Timer(c)].calls = <<>>
<1>1. c \in Clients /\ clients[c] \in ClientType
  BY Domains DEF Types
<1>2. clients[c].redis \in Redis
  BY <1>1 DEF ClientType
<1>3. \A d \in Clients : Timer(c) = Timer(d) => c = d
  BY DEF Timer
<1> QED BY <1>1, <1>2, <1>3, ThreadKinds DEF Owners, Kept, CallSteps

LEMMA ConnectedInv ==
  ASSUME Inv, Types', Evolves, NEW c \in DOMAIN clients, Connected(c)
  PROVE  Owners' /\ Unique' /\ Phases'
<1> DEFINE th == Loop(c)
           new == [clients EXCEPT ![c].link = "open", ![c].connected = TRUE]
           f == [NoFrame EXCEPT !.redis = clients[c].redis]
<1>1. /\ th \in Threads /\ th \notin Selectors /\ th # Heart /\ clients[c].redis \in Redis
      /\ at[th] = "idle" /\ frame[th].calls = <<>>
  BY LoopThreads DEF Inv, Connected
<1>2. /\ new[c].redis = clients[c].redis /\ new[c].db = clients[c].db
      /\ new[c].link = "open" /\ new[c].connected
      /\ DOMAIN new = DOMAIN clients
      /\ \A d \in DOMAIN clients : d # c => new[d] = clients[d]
  BY LinkOpened DEF Inv, Types
<1>3. /\ clients' = new /\ clients[c].link = "connecting" /\ server[clients[c].redis] = "up"
      /\ UNCHANGED <<isMaster, table, maps, server, reconnect>>
  BY DEF Connected, routeVars, serverVars, nodeVars
<1> HIDE DEF new
<1>4. Quieter
  BY <1>2, <1>3 DEF Quieter, Alive, Suspect, Pending
<1>5. CASE clients[c].db = 0
  <2>1. Opening
    <3>1. Pending(c)
      BY <1>3, <1>5 DEF Pending
    <3> QED BY <3>1 DEF Inv, Phases, Serving, Unnoticed, Reporting, Calmed
  <2>2. f \in FrameType /\ f.calls = <<>> /\ Goto(th, "slaveof", f) /\ "slaveof" \in Steps
    BY <1>1, <1>5, NewFrames DEF Connected, Steps
  <2> HIDE DEF f, th
  <2>3. Only(th) /\ at'[th] = "slaveof" /\ frame'[th] = f
    BY <1>1, <2>2, GotoStep DEF Only, Inv, Types
  <2>4. KeptThen(at'[th], frame'[th])
    BY <2>2, <2>3 DEF KeptThen
  <2>5. \A h \in Redis : (\A i \in Nat : ~Opens(h, th, i)') /\ ~Downs(h, th)'
    BY <2>2, <2>3 DEF Opens, Downs, CriticalSteps, LateSteps
  <2> QED BY <1>1, <1>3, <1>4, <2>1, <2>3, <2>4, <2>5, WorkInv DEF CriticalSteps
<1>6. CASE clients[c].db # 0
  <2>1. UNCHANGED <<at, frame>>
    BY <1>6 DEF Connected
  <2>2. \A d \in DOMAIN clients : Alive(d)' => clients'[d].link = clients[d].link
    BY <1>2, <1>3, <1>6 DEF Alive
  <2> QED BY <1>3, <1>4, <2>1, <2>2, QuietInv
<1> QED BY <1>5, <1>6

LEMMA ConnectFailedInv ==
  ASSUME Inv, Types', Evolves, NEW c \in DOMAIN clients, ConnectFailed(c)
  PROVE  Owners' /\ Unique' /\ Phases'
<1> DEFINE new == [clients EXCEPT ![c].link = "failed"]
<1>1. /\ new[c].redis = clients[c].redis /\ new[c].db = clients[c].db
      /\ new[c].link = "failed" /\ new[c].connected = clients[c].connected
      /\ DOMAIN new = DOMAIN clients
      /\ \A d \in DOMAIN clients : d # c => new[d] = clients[d]
  <2>1. DataOK /\ "failed" \in Links
    BY DEF Inv, Types, Links
  <2> QED BY <2>1, LinkOnly
<1>2. /\ clients' = new /\ clients[c].link = "connecting"
      /\ UNCHANGED <<at, frame, isMaster, table, maps, server, reconnect>>
  BY DEF ConnectFailed, routeVars, serverVars, nodeVars, threadVars
<1> HIDE DEF new
<1>3. Quieter
  <2>1. Suspect(c)' => Suspect(c)
    BY <1>1, <1>2 DEF Suspect
  <2> QED BY <1>1, <1>2, <2>1 DEF Quieter, Alive, Suspect, Pending
<1>4. \/ \A t \in Threads : at[t] # "declare"
      \/ \A d \in DOMAIN clients : Alive(d)' => clients'[d].link = clients[d].link
  <2>1. CASE Pending(c)
    <3>1. Opening
      BY <2>1 DEF Inv, Phases, Serving, Unnoticed, Reporting, Calmed
    <3> QED BY <3>1 DEF Opening, CriticalSteps
  <2>2. CASE ~Pending(c)
    BY <1>1, <1>2, <2>2 DEF Alive, Pending
  <2> QED BY <2>1, <2>2
<1> QED BY <1>2, <1>3, <1>4, QuietInv

LEMMA SetUpInv ==
  ASSUME Inv, Types', Evolves, NEW c \in DOMAIN clients, SendSlaveof(c) \/ InitDatabase(c)
  PROVE  Owners' /\ Unique' /\ Phases'
<1> DEFINE th == Loop(c)
           h == frame[th].redis
           numbers == IF isMaster[h] \/ table[TRUE] = 0 THEN {}
                      ELSE {n \in Databases \ {0} : maps[table[TRUE]][n] # 0}
<1>1. /\ th \in Threads /\ th \notin Selectors /\ th # Heart
      /\ at[th] \in OwnSteps /\ ~AtRest(th)
  BY LoopThreads DEF Inv, SendSlaveof, InitDatabase, OwnSteps, AtRest
<1>2. h \in Redis /\ frame[th] \in FrameType /\ frame[th].calls = <<>>
  BY <1>1, WorkFrame DEF Inv, OwnSteps, CallSteps, Owners, Kept
<1>3. /\ Opening
      /\ UNCHANGED <<isMaster, table, maps, clients, server, reconnect>>
  <2>1. Opening
    BY <1>1, WorkPhase DEF Inv, OwnSteps, CriticalSteps
  <2> QED BY <2>1 DEF SendSlaveof, InitDatabase, routeVars, serverVars, nodeVars
<1>4. Quieter
  BY <1>3, SameClients
<1>5. PICK s \in {"initDatabase", "call"}, g \in FrameType :
        /\ Goto(th, s, g)
        /\ s = "initDatabase" => g.calls = <<>>
        /\ \A i \in DOMAIN g.calls : g.calls[i].db # 0
  <2>1. CASE SendSlaveof(c)
    BY <1>2, <2>1 DEF SendSlaveof
  <2>2. CASE InitDatabase(c)
    <3>1. numbers \in SUBSET Databases /\ 0 \notin numbers
      OBVIOUS
    <3>2. PICK order \in Bijection(1 .. Cardinality(numbers), numbers) :
            Goto(th, "call", [NoFrame EXCEPT !.calls = [k \in DOMAIN order |-> Call(h, order[k], FALSE)]])
      BY <2>2 DEF InitDatabase
    <3> HIDE DEF numbers, h
    <3> DEFINE q == SlaveCalls(h, order)
               g == [NoFrame EXCEPT !.calls = q]
    <3>3. q \in Seq(CallType) /\ \A i \in DOMAIN q : q[i].db # 0
      BY <1>2, <3>1, <3>2, Orders
    <3>4. Goto(th, "call", g)
      BY <3>2 DEF SlaveCalls
    <3> HIDE DEF q, th
    <3>5. g \in FrameType /\ g.calls = q
      BY <3>3, NewFrames
    <3> HIDE DEF g
    <3> QED BY <3>3, <3>4, <3>5
  <2> QED BY <2>1, <2>2
<1> HIDE DEF th
<1>6. Only(th) /\ at'[th] = s /\ frame'[th] = g
  <2>1. s \in Steps
    BY DEF Steps
  <2> QED BY <1>1, <1>5, <2>1, GotoStep DEF Only, Inv, Types
<1>7. KeptThen(at'[th], frame'[th])
  BY <1>5, <1>6 DEF KeptThen, CallSteps
<1>8. \A x \in Redis : (\A i \in Nat : ~Opens(x, th, i)') /\ ~Downs(x, th)'
  BY <1>5, <1>6 DEF Opens, Downs, CriticalSteps, LateSteps
<1> QED BY <1>1, <1>3, <1>4, <1>6, <1>7, <1>8, WorkInv DEF CriticalSteps

-----------------------------------------------------------------------------
(* A Redis is reported.                                                       *)

\* Who sees that a Redis is down is the first, or the timer that has just seen it.
LEMMA SuspectPhase ==
  ASSUME Inv, NEW c \in DOMAIN clients, Suspect(c)
  PROVE  \/ Unnoticed(clients[c].redis)
         \/ at[Timer(c)] = "declare" /\ clients[c].link = "open"
<1> DEFINE h == clients[c].redis
<1>1. ~Opening /\ ~Serving
  BY DEF Opening, Serving
<1>2. ASSUME NEW g \in Redis, Unnoticed(g)
      PROVE  Unnoticed(h)
  BY <1>2 DEF Unnoticed, Calmed
<1>3. ASSUME NEW g \in Redis, NEW th \in Threads, Reporting(g, th)
      PROVE  at[Timer(c)] = "declare" /\ clients[c].link = "open"
  <2>1. g = h
    BY <1>3 DEF Reporting, Calmed
  <2>2. c \in LiveClients(g)
    BY <2>1 DEF LiveClients, Alive, Suspect
  <2>3. at[th] = "declare"
    BY <1>3, <2>2, Reported DEF Inv
  <2> QED BY <1>3, <2>2, <2>3 DEF Reporting, Shape
<1> QED BY <1>1, <1>2, <1>3 DEF Inv, Phases

\* Thread th takes the Redis h, which nobody else has.
LEMMA Takes ==
  ASSUME Types, Types', NEW th \in Threads, th # Heart, Only(th), NEW h \in Redis,
         LiveClients(h)' = {}, OpenCalls(h) = {}, \A i : ~Opens(h, th, i)',
         DownThreads(h) \subseteq {th}, Reopenings(h) = {}, reconnect' = reconnect
  PROVE  Alone(LiveClients(h), OpenCalls(h), DownThreads(h), Reopenings(h))'
<1>1. OpenCalls(h)' = {}
  <2>1. ASSUME NEW x \in OpenCalls(h)'
        PROVE  FALSE
    <3>1. x[1] # th
      BY <2>1 DEF OpenCalls
    <3> QED BY <2>1, <3>1, Elsewhere
  <2> QED BY <2>1
<1>2. \A t \in DownThreads(h)' : t = th
  BY Elsewhere
<1>3. Reopenings(h)' = {}
  BY EntriesStay DEF Types, ThreadsOK
<1> QED BY <1>1, <1>2, <1>3 DEF Alone, Lone

LEMMA ChannelInactiveInv ==
  ASSUME Inv, Types', Evolves, NEW c \in DOMAIN clients, ChannelInactive(c)
  PROVE  Owners' /\ Unique' /\ Phases'
<1>0. PICK h : h = clients[c].redis
  OBVIOUS
<1> DEFINE th == Loop(c)
<1>1. /\ th \in Threads /\ th \notin Selectors /\ th # Heart /\ h \in Redis
      /\ at[th] = "idle" /\ frame[th].calls = <<>>
  BY <1>0, LoopThreads DEF Inv, ChannelInactive
<1>2. /\ clients[c].link = "broken"
      /\ UNCHANGED <<isMaster, table, maps, server, reconnect>>
  BY DEF ChannelInactive, routeVars, serverVars, nodeVars
<1>3. CASE clients[c].db = 0 /\ clients[c].connected
  <2> DEFINE new == [clients EXCEPT ![c].link = "closed", ![c].connected = FALSE]
             f == [NoFrame EXCEPT !.redis = h]
  <2>1. /\ new[c].redis = clients[c].redis /\ new[c].db = clients[c].db
        /\ new[c].link = "closed" /\ ~new[c].connected
        /\ DOMAIN new = DOMAIN clients
        /\ \A d \in DOMAIN clients : d # c => new[d] = clients[d]
    BY LinkClosed DEF Inv, Types
  <2>2. clients' = new /\ Goto(th, "remove", f) /\ "remove" \in Steps
    BY <1>0, <1>3 DEF ChannelInactive, Steps
  <2>3. f \in FrameType /\ f.calls = <<>> /\ f.redis = h
    BY <1>1, NewFrames
  <2> HIDE DEF new, f
  <2>4. Only(th) /\ at'[th] = "remove" /\ frame'[th] = f
    BY <1>1, <2>2, <2>3, GotoStep DEF Only, Inv, Types
  <2>5. Suspect(c) /\ c \in LiveClients(h)
    BY <1>0, <1>2, <1>3 DEF Suspect, LiveClients, Alive
  <2>6. Unnoticed(h)
    BY <1>0, <1>2, <2>5, SuspectPhase
  <2>7. Quieter /\ ~Alive(c)'
    BY <1>2, <2>1, <2>2 DEF Quieter, Alive, Suspect, Pending
  <2>8. MapsKept /\ DOMAIN maps' = DOMAIN maps
    BY <1>2, SameMaps DEF Inv
  <2>9. Owners'
    <3>1. KeptThen("remove", f)
      BY <2>3 DEF KeptThen
    <3> QED BY <1>1, <2>4, <2>8, <3>1, OwnersStep DEF Inv
  <2>10. Unique'
    <3>1. \A g, i : ~Opens(g, th, i)'
      BY <2>3, <2>4 DEF Opens
    <3>2. ASSUME NEW g \in Redis
          PROVE  Alone(LiveClients(g), OpenCalls(g), DownThreads(g), Reopenings(g))'
      <4>1. CASE g = h
        <5>1. /\ LiveClients(h) = {c} /\ OpenCalls(h) = {} /\ DownThreads(h) = {}
              /\ Reopenings(h) = {}
          BY <1>1, <2>5, Holders DEF Inv
        <5>2. LiveClients(h)' = {}
          <6>1. \A d \in LiveClients(h)' : d = c /\ Alive(d)'
            BY <2>7, <5>1, QuieterLive DEF LiveClients
          <6> QED BY <2>7, <6>1
        <5> QED BY <1>1, <1>2, <2>4, <3>1, <4>1, <5>1, <5>2, Takes DEF Inv
      <4>2. CASE g # h
        <5>1. ~Downs(g, th)'
          BY <2>3, <2>4, <4>2 DEF Downs
        <5> QED BY <1>1, <1>2, <2>4, <2>7, <3>1, <5>1, UniqueStep, QuieterLive DEF Inv
      <4> QED BY <4>1, <4>2
    <3> QED BY <3>2 DEF Unique
  <2>11. Phases'
    <3>1. Calmed(h)'
      <4>1. Calmed(h)
        BY <2>6 DEF Unnoticed
      <4>2. \A d \in DOMAIN clients' :
              /\ d \in DOMAIN clients /\ clients'[d].redis = clients[d].redis
              /\ (Suspect(d)' => Suspect(d)) /\ (Pending(d)' => Pending(d))
        BY <2>7 DEF Quieter
      <4> QED BY <1>2, <4>1, <4>2 DEF Calmed
    <3>2. Right'
      BY <1>2, <2>6, <2>8, RightStays DEF Unnoticed, Inv
    <3>3. \A t \in Threads \ {th} : AtRest(t)'
      BY <2>4, <2>6 DEF Unnoticed, Only, AtRest
    <3>4. Shape(h, th)'
      BY <2>4, <3>2 DEF Shape
    <3>5. Reporting(h, th)'
      BY <2>3, <2>4, <3>1, <3>3, <3>4 DEF Reporting, CriticalSteps
    <3> QED BY <1>1, <3>5 DEF Phases
  <2> QED BY <2>9, <2>10, <2>11
<1>4. CASE ~(clients[c].db = 0 /\ clients[c].connected)
  <2> DEFINE new == [clients EXCEPT ![c].link = "closed"]
  <2>1. /\ new[c].redis = clients[c].redis /\ new[c].db = clients[c].db
        /\ new[c].link = "closed" /\ new[c].connected = clients[c].connected
        /\ DOMAIN new = DOMAIN clients
        /\ \A d \in DOMAIN clients : d # c => new[d] = clients[d]
    <3>1. DataOK /\ "closed" \in Links
      BY DEF Inv, Types, Links
    <3> QED BY <3>1, LinkOnly
  <2>2. clients' = new /\ UNCHANGED <<at, frame>>
    BY <1>4 DEF ChannelInactive
  <2> HIDE DEF new
  <2>3. Quieter
    BY <1>2, <1>4, <2>1, <2>2 DEF Quieter, Alive, Suspect, Pending
  <2>4. \A d \in DOMAIN clients : Alive(d)' => clients'[d].link = clients[d].link
    BY <1>2, <1>4, <2>1, <2>2 DEF Alive
  <2> QED BY <1>2, <2>2, <2>3, <2>4, QuietInv
<1> QED BY <1>3, <1>4

LEMMA TimerLateInv ==
  ASSUME Inv, Types', Evolves, NEW c \in DOMAIN clients, TimerLate(c)
  PROVE  Owners' /\ Unique' /\ Phases'
<1>0. PICK h : h = clients[c].redis
  OBVIOUS
<1> DEFINE th == Timer(c)
           f == [NoFrame EXCEPT !.redis = h]
<1>1. /\ th \in Threads /\ th \notin Selectors /\ th # Heart /\ h \in Redis
      /\ at[th] = "idle" /\ frame[th].calls = <<>> /\ c \in Clients
  BY <1>0, LoopThreads DEF Inv, TimerLate
<1>2. /\ clients[c].link = "open" /\ clients[c].db = 0 /\ clients[c].connected
      /\ server[h] = "hung"
      /\ UNCHANGED <<isMaster, table, maps, clients, server, reconnect>>
      /\ Goto(th, "declare", f) /\ "declare" \in Steps
  BY <1>0 DEF TimerLate, routeVars, serverVars, nodeVars, Steps
<1>3. f \in FrameType /\ f.calls = <<>> /\ f.redis = h
  BY <1>1, NewFrames
<1> HIDE DEF f
<1>4. Only(th) /\ at'[th] = "declare" /\ frame'[th] = f
  BY <1>1, <1>2, <1>3, GotoStep DEF Only, Inv, Types
<1>5. Suspect(c) /\ c \in LiveClients(h)
  BY <1>0, <1>2 DEF Suspect, LiveClients, Alive
<1>6. Unnoticed(h)
  BY <1>0, <1>1, <1>5, SuspectPhase
<1>7. MapsKept /\ DOMAIN maps' = DOMAIN maps /\ Quieter
  BY <1>2, SameMaps, SameClients DEF Inv
<1>8. Owners'
  <2>1. KeptThen("declare", f)
    BY <1>3 DEF KeptThen
  <2> QED BY <1>1, <1>4, <1>7, <2>1, OwnersStep DEF Inv
<1>9. Unique'
  <2>1. \A g, i : ~Opens(g, th, i)'
    BY <1>3, <1>4 DEF Opens
  <2>2. \A g : ~Downs(g, th)'
    BY <1>4 DEF Downs, CriticalSteps, LateSteps
  <2>3. ASSUME NEW g \in Redis
        PROVE  Alone(LiveClients(g), OpenCalls(g), DownThreads(g), Reopenings(g))'
    BY <1>1, <1>2, <1>4, <1>7, <2>1, <2>2, UniqueStep, QuieterLive DEF Inv
  <2> QED BY <2>3 DEF Unique
<1>10. Phases'
  <2>1. Calmed(h)'
    BY <1>2, <1>6, CalmedStays DEF Unnoticed
  <2>2. Right'
    BY <1>2, <1>6, <1>7, RightStays DEF Unnoticed, Inv
  <2>3. \A t \in Threads \ {th} : AtRest(t)'
    BY <1>4, <1>6 DEF Unnoticed, Only, AtRest
  <2>4. \A d \in LiveClients(h)' : d = c
    BY <1>1, <1>5, <1>7, QuieterLive, Holders DEF Inv
  <2>5. Shape(h, th)'
    BY <1>1, <1>2, <1>4, <2>2, <2>4 DEF Shape
  <2>6. Reporting(h, th)'
    BY <1>3, <1>4, <2>1, <2>3, <2>5 DEF Reporting, CriticalSteps
  <2> QED BY <1>1, <2>6 DEF Phases
<1> QED BY <1>8, <1>9, <1>10

LEMMA TimerDeclareInv ==
  ASSUME Inv, Types', Evolves, NEW c \in DOMAIN clients, TimerDeclare(c)
  PROVE  Owners' /\ Unique' /\ Phases'
<1> DEFINE th == Timer(c)
           new == [clients EXCEPT ![c].connected = FALSE]
<1>0. PICK h : h = frame[th].redis
  OBVIOUS
<1>1. /\ th \in Threads /\ th \notin Selectors /\ th # Heart /\ at[th] = "declare"
      /\ c \in Clients
  BY LoopThreads DEF Inv, TimerDeclare
<1>2. /\ h \in Redis /\ Reporting(h, th) /\ frame[th] \in FrameType /\ frame[th].calls = <<>>
  BY <1>0, <1>1, ReportPhase DEF Inv, CriticalSteps, CallSteps, Owners, Kept, Types, ThreadsOK
<1>3. /\ new[c].redis = clients[c].redis /\ new[c].db = clients[c].db
      /\ new[c].link = clients[c].link /\ ~new[c].connected
      /\ DOMAIN new = DOMAIN clients
      /\ \A d \in DOMAIN clients : d # c => new[d] = clients[d]
  BY FlagOnly DEF Inv, Types
<1>4. /\ clients' = new /\ Goto(th, "remove", frame[th]) /\ "remove" \in Steps
      /\ UNCHANGED <<isMaster, table, maps, server, reconnect>>
  BY DEF TimerDeclare, routeVars, serverVars, nodeVars, Steps
<1> HIDE DEF new
<1>5. Only(th) /\ at'[th] = "remove" /\ frame'[th] = frame[th]
  BY <1>1, <1>2, <1>4, GotoStep DEF Only, Inv, Types
<1>6. Quieter
  BY <1>3, <1>4 DEF Quieter, Alive, Suspect, Pending
<1>7. MapsKept /\ DOMAIN maps' = DOMAIN maps
  BY <1>4, SameMaps DEF Inv
<1>8. Right /\ \A d \in LiveClients(h) : d = c
  <2>1. Right /\ \A d \in LiveClients(h) : th = Timer(d)
    BY <1>1, <1>2 DEF Reporting, Shape
  <2>2. \A d : th = Timer(d) => d = c
    BY DEF Timer
  <2> QED BY <2>1, <2>2
<1>9. Calmed(h)'
  <2>1. \A d \in DOMAIN clients' :
          /\ d \in DOMAIN clients /\ clients'[d].redis = clients[d].redis
          /\ (Suspect(d)' => Suspect(d)) /\ (Pending(d)' => Pending(d))
    BY <1>6 DEF Quieter
  <2> QED BY <1>2, <1>4, <2>1 DEF Calmed, Reporting
<1>10. LiveClients(h)' = {}
  <2>1. ASSUME NEW d \in LiveClients(h)'
        PROVE  FALSE
    <3>1. d = c /\ Alive(d)'
      BY <1>6, <1>8, QuieterLive DEF LiveClients
    <3>2. Pending(c)' /\ c \in DOMAIN clients'
      BY <1>3, <1>4, <3>1 DEF Alive, Pending
    <3> QED BY <1>9, <3>2 DEF Calmed
  <2> QED BY <2>1
<1>11. Owners'
  <2>1. KeptThen("remove", frame[th])
    BY <1>2 DEF KeptThen
  <2> QED BY <1>1, <1>5, <1>7, <2>1, OwnersStep DEF Inv
<1>12. Unique'
  <2>1. \A g, i : ~Opens(g, th, i)'
    BY <1>2, <1>5 DEF Opens
  <2>2. ASSUME NEW g \in Redis
        PROVE  Alone(LiveClients(g), OpenCalls(g), DownThreads(g), Reopenings(g))'
    <3>1. CASE g = h
      <4>1. OpenCalls(h) = {} /\ DownThreads(h) \subseteq {th} /\ Reopenings(h) = {}
        BY <1>1, <1>2, Reported DEF Inv
      <4> QED BY <1>1, <1>2, <1>4, <1>5, <1>10, <2>1, <3>1, <4>1, Takes DEF Inv
    <3>2. CASE g # h
      <4>1. ~Downs(g, th)'
        BY <1>0, <1>5, <3>2 DEF Downs
      <4> QED BY <1>1, <1>4, <1>5, <1>6, <2>1, <4>1, UniqueStep, QuieterLive DEF Inv
    <3> QED BY <3>1, <3>2
  <2> QED BY <2>2 DEF Unique
<1>13. Phases'
  <2>1. Right'
    BY <1>4, <1>7, <1>8, RightStays DEF Inv
  <2>2. Shape(h, th)'
    BY <1>5, <2>1 DEF Shape
  <2> QED BY <1>0, <1>1, <1>2, <1>5, <1>9, <2>2, ReportStep DEF CriticalSteps
<1> QED BY <1>11, <1>12, <1>13

-----------------------------------------------------------------------------
(* redisDown keeps it.                                                        *)

LEMMA OwnedSame ==
  ASSUME UNCHANGED <<maps, clients>>
  PROVE  \A m, h : Owned(m, h)' <=> Owned(m, h)
BY DEF Owned

\* Thread th of redisDown goes on with its changes, or has made or given up the rest.
LEMMA DownStepInv ==
  ASSUME Inv, Types', Evolves, NEW h \in Redis, NEW th \in Threads, Reporting(h, th),
         at[th] # "declare", NEW s, NEW f, at'[th] = s, frame'[th] = f, Only(th),
         UNCHANGED <<maps, clients, server, reconnect>>,
         KeptThen(s, f), f.calls = <<>>, s = "idle" \/ f.redis = h,
         s \in CriticalSteps => f.redis = h /\ Shape(h, th)',
         s \notin CriticalSteps => Right'
  PROVE  Owners' /\ Unique' /\ Phases'
<1>1. MapsKept /\ DOMAIN maps' = DOMAIN maps /\ Quieter
  BY SameMaps, SameClients DEF Inv
<1>2. Owners'
  BY <1>1, OwnersStep DEF Inv
<1>3. Unique'
  <2>1. \A g, i : ~Opens(g, th, i)'
    BY DEF Opens
  <2>2. \A g : Downs(g, th)' => Downs(g, th)
    BY DEF Downs, Reporting, CriticalSteps, LateSteps
  <2>3. th # Heart
    BY Reported DEF Inv
  <2>4. ASSUME NEW g \in Redis
        PROVE  Alone(LiveClients(g), OpenCalls(g), DownThreads(g), Reopenings(g))'
    BY <1>1, <2>1, <2>2, <2>3, UniqueStep, QuieterLive DEF Inv
  <2> QED BY <2>4 DEF Unique
<1>4. Phases'
  <2>1. CASE s \in CriticalSteps
    <3>1. Calmed(h)'
      BY CalmedStays DEF Reporting
    <3> QED BY <2>1, <3>1, ReportStep
  <2>2. CASE s \notin CriticalSteps
    BY <2>2, ReportEnds DEF Inv
  <2> QED BY <2>1, <2>2
<1> QED BY <1>2, <1>3, <1>4

LEMMA DownFacts ==
  ASSUME Inv, NEW th \in Threads, at[th] \in CriticalSteps
  PROVE  LET h == frame[th].redis IN
         /\ h \in Redis /\ Peer(h) \in Redis /\ Peer(h) # h /\ Reporting(h, th)
         /\ frame[th] \in FrameType /\ frame[th].calls = <<>>
         /\ isMaster \in [Redis -> BOOLEAN] /\ table \in [BOOLEAN -> 0 .. Len(maps)]
         /\ \A g \in Redis : g = h \/ g = Peer(h)
         /\ (isMaster[Local] # isMaster[Remote]) <=> (isMaster[h] # isMaster[Peer(h)])
         /\ 0 \in 0 .. Len(maps)
<1>1. frame[th].redis \in Redis /\ Reporting(frame[th].redis, th)
  BY ReportPhase DEF Inv
<1>2. frame[th] \in FrameType /\ frame[th].calls = <<>>
  BY DEF Inv, Types, ThreadsOK, Owners, Kept, CriticalSteps, CallSteps
<1>3. \A h \in Redis : /\ Peer(h) \in Redis /\ Peer(h) # h /\ \A g \in Redis : g = h \/ g = Peer(h)
                       /\ (isMaster[Local] # isMaster[Remote]) <=> (isMaster[h] # isMaster[Peer(h)])
  BY Constants DEF Redis, Peer
<1>4. 0 \in 0 .. Len(maps)
  BY Domains DEF Inv, Types
<1> QED BY <1>1, <1>2, <1>3, <1>4 DEF Inv, Types, DataOK

LEMMA RemoveDownInv ==
  ASSUME Inv, Types', Evolves, NEW th \in Threads, RemoveDown(th)
  PROVE  Owners' /\ Unique' /\ Phases'
<1>0. PICK h : h = frame[th].redis
  OBVIOUS
<1>1. /\ at[th] = "remove" /\ at[th] \in CriticalSteps
      /\ UNCHANGED <<isMaster, maps, clients, server, reconnect>>
      /\ table' = [table EXCEPT ![isMaster[h]] = 0]
  BY <1>0 DEF RemoveDown, CriticalSteps, serverVars, nodeVars
<1>2. /\ h \in Redis /\ Reporting(h, th) /\ frame[th] \in FrameType /\ frame[th].calls = <<>>
      /\ isMaster \in [Redis -> BOOLEAN] /\ table \in [BOOLEAN -> 0 .. Len(maps)]
      /\ 0 \in 0 .. Len(maps)
  BY <1>0, <1>1, DownFacts
<1>3. Right
  BY <1>1, <1>2 DEF Reporting, Shape
<1>4. Right' /\ table'[isMaster'[h]] = 0
  <2>1. \A g \in Redis : table'[isMaster[g]] # 0 => table'[isMaster[g]] = table[isMaster[g]]
    BY <1>1, <1>2
  <2>2. table'[isMaster[h]] = 0
    BY <1>1, <1>2
  <2> QED BY <1>1, <1>3, <2>1, <2>2, OwnedSame DEF Right
<1>5. CASE MapOf(h) = 0
  <2>1. Goto(th, "idle", NoFrame) /\ "idle" \in Steps
    BY <1>0, <1>5 DEF RemoveDown, Return, Steps
  <2>2. Only(th) /\ at'[th] = "idle" /\ frame'[th] = NoFrame
    BY <2>1, GotoStep, NoFrameType DEF Only, Inv, Types
  <2>3. KeptThen("idle", NoFrame)
    BY NoFrameType DEF KeptThen
  <2>4. "idle" \notin CriticalSteps
    BY DEF CriticalSteps
  <2> QED BY <1>1, <1>2, <1>4, <2>2, <2>3, <2>4, DownStepInv, NoFrameType
<1>6. CASE MapOf(h) # 0
  <2>1. PICK m : m = MapOf(h)
    OBVIOUS
  <2> DEFINE f == [frame[th] EXCEPT !.down = m]
  <2>2. m \in 0 .. Len(maps) /\ m \in DOMAIN maps /\ m \in Nat
    BY <1>2, <1>6, <2>1, Domains DEF Inv, Types
  <2>3. f \in FrameType /\ f.calls = <<>> /\ f.redis = h /\ f.down = m
    BY <1>0, <1>2, <2>2 DEF FrameType
  <2>4. Goto(th, "removeSlave", f) /\ "removeSlave" \in Steps
    BY <1>0, <1>6, <2>1 DEF RemoveDown, Steps
  <2> HIDE DEF f
  <2>5. Only(th) /\ at'[th] = "removeSlave" /\ frame'[th] = f
    BY <2>3, <2>4, GotoStep DEF Only, Inv, Types
  <2>6. KeptThen("removeSlave", f)
    <3>1. Owned(m, h)
      BY <1>2, <1>3, <1>6, <2>1 DEF Right, MapOf
    <3>2. OwnedThen(m, h)
      BY <1>1, <1>2, <2>2, <3>1, OwnedStays DEF Inv
    <3> QED BY <2>3, <3>2 DEF KeptThen
  <2>7. Shape(h, th)'
    BY <1>4, <2>5 DEF Shape
  <2>8. "removeSlave" \in CriticalSteps
    BY DEF CriticalSteps
  <2> QED BY <1>1, <1>2, <2>3, <2>5, <2>6, <2>7, <2>8, DownStepInv
<1> QED BY <1>5, <1>6

LEMMA RemoveSlaveInv ==
  ASSUME Inv, Types', Evolves, NEW th \in Threads, RemoveSlave(th)
  PROVE  Owners' /\ Unique' /\ Phases'
<1>0. PICK h : h = frame[th].redis
  OBVIOUS
<1>1. /\ at[th] = "removeSlave" /\ at[th] \in CriticalSteps
      /\ UNCHANGED <<isMaster, maps, clients, server, reconnect>>
  BY <1>0 DEF RemoveSlave, CriticalSteps, serverVars, nodeVars
<1>2. /\ h \in Redis /\ Reporting(h, th) /\ frame[th] \in FrameType /\ frame[th].calls = <<>>
      /\ isMaster \in [Redis -> BOOLEAN] /\ table \in [BOOLEAN -> 0 .. Len(maps)]
      /\ 0 \in 0 .. Len(maps) /\ Peer(h) \in Redis
      /\ \A g \in Redis : g = h \/ g = Peer(h)
      /\ (isMaster[Local] # isMaster[Remote]) <=> (isMaster[h] # isMaster[Peer(h)])
  BY <1>0, <1>1, DownFacts
<1>3. Right /\ table[isMaster[h]] = 0 /\ isMaster[h] # isMaster[Peer(h)]
  BY <1>1, <1>2 DEF Reporting, Shape, Right
<1>4. PICK m : m = table[isMaster[Peer(h)]]
  OBVIOUS
<1>5. m \in 0 .. Len(maps) /\ m \in Nat /\ (m # 0 => m \in DOMAIN maps)
  BY <1>2, <1>4, Domains DEF Inv, Types
<1>6. m # 0 => Owned(m, Peer(h)) /\ OwnedThen(m, Peer(h))
  <2>1. m # 0 => Owned(m, Peer(h))
    BY <1>2, <1>3, <1>4 DEF Right
  <2> QED BY <1>1, <1>2, <1>5, <2>1, OwnedStays DEF Inv
<1>7. /\ Owned(frame[th].down, h) /\ OwnedThen(frame[th].down, h)
      /\ frame[th].down \in DOMAIN maps
  <2>1. Owned(frame[th].down, h) /\ frame[th].down \in DOMAIN maps
    BY <1>0, <1>1, WorkFrame DEF Inv, Owners, Kept
  <2> QED BY <1>1, <1>2, <2>1, OwnedStays DEF Inv
<1>8. CASE isMaster[h]
  <2>1. isMaster[Peer(h)] = FALSE /\ m = table[FALSE] /\ table[TRUE] = 0
    BY <1>2, <1>3, <1>4, <1>8
  <2> DEFINE f == [frame[th] EXCEPT !.slaves = m]
             s == IF m = 0 THEN "demote" ELSE "promote"
  <2>2. f \in FrameType /\ f.calls = <<>> /\ f.redis = h /\ f.down = frame[th].down /\ f.slaves = m
    BY <1>0, <1>2, <1>5 DEF FrameType
  <2>3. /\ Goto(th, s, f) /\ s \in Steps /\ s \in CriticalSteps
        /\ table' = [table EXCEPT ![FALSE] = 0]
    BY <1>0, <1>8, <2>1 DEF RemoveSlave, Steps, CriticalSteps
  <2>4. \A r \in BOOLEAN : table'[r] = 0
    BY <1>2, <2>1, <2>3
  <2> HIDE DEF f
  <2>5. Only(th) /\ at'[th] = s /\ frame'[th] = f
    BY <2>2, <2>3, GotoStep DEF Only, Inv, Types
  <2>6. KeptThen(s, f)
    BY <1>6, <1>7, <2>2 DEF KeptThen
  <2>7. Shape(h, th)'
    BY <1>1, <1>2, <1>3, <1>8, <2>1, <2>4, <2>5 DEF Shape
  <2> HIDE DEF s
  <2> QED BY <1>1, <1>2, <2>2, <2>3, <2>5, <2>6, <2>7, DownStepInv
<1>9. CASE ~isMaster[h]
  <2>1. isMaster[Peer(h)] = TRUE /\ m = table[TRUE] /\ table[FALSE] = 0
    BY <1>2, <1>3, <1>4, <1>9
  <2>2. Goto(th, "demote", frame[th]) /\ "demote" \in Steps /\ table' = table
    BY <1>0, <1>9 DEF RemoveSlave, Steps
  <2>3. Only(th) /\ at'[th] = "demote" /\ frame'[th] = frame[th]
    BY <1>2, <2>2, GotoStep DEF Only, Inv, Types
  <2>4. KeptThen("demote", frame[th])
    BY <1>0, <1>2, <1>7 DEF KeptThen
  <2>5. Owned(m, Peer(h))' <=> Owned(m, Peer(h))
    BY <1>1, OwnedSame
  <2>6. Shape(h, th)'
    <3>1. isMaster'[Local] # isMaster'[Remote] /\ table'[FALSE] = 0
      BY <1>1, <1>2, <1>3, <2>1, <2>2
    <3>2. table'[TRUE] # 0 => Owned(table[TRUE], Peer(h))'
      BY <1>6, <2>1, <2>2, OwnedSame, <1>1
    <3> QED BY <2>3, <3>1, <3>2 DEF Shape
  <2>7. "demote" \in CriticalSteps
    BY DEF CriticalSteps
  <2> QED BY <1>0, <1>1, <1>2, <2>3, <2>4, <2>6, <2>7, DownStepInv
<1> QED BY <1>8, <1>9

LEMMA PromoteInv ==
  ASSUME Inv, Types', Evolves, NEW th \in Threads, Promote(th) \/ PutMaster(th)
  PROVE  Owners' /\ Unique' /\ Phases'
<1>0. PICK h : h = frame[th].redis
  OBVIOUS
<1>1. /\ at[th] \in {"promote", "putMaster"} /\ at[th] \in CriticalSteps
      /\ UNCHANGED <<isMaster, maps, clients, server, reconnect>>
  BY DEF Promote, PutMaster, CriticalSteps, serverVars, routeVars, nodeVars
<1>2. /\ h \in Redis /\ Reporting(h, th) /\ frame[th] \in FrameType /\ frame[th].calls = <<>>
      /\ isMaster \in [Redis -> BOOLEAN] /\ table \in [BOOLEAN -> 0 .. Len(maps)]
      /\ Peer(h) \in Redis
      /\ (isMaster[Local] # isMaster[Remote]) <=> (isMaster[h] # isMaster[Peer(h)])
  BY <1>0, <1>1, DownFacts
<1>3. isMaster[h] /\ ~isMaster[Peer(h)] /\ \A r \in BOOLEAN : table[r] = 0
  BY <1>1, <1>2 DEF Reporting, Shape
<1>4. PICK m : m = frame[th].slaves
  OBVIOUS
<1>5. /\ Owned(frame[th].down, h) /\ OwnedThen(frame[th].down, h)
      /\ Owned(m, Peer(h)) /\ OwnedThen(m, Peer(h)) /\ Owned(m, Peer(h))'
  <2>1. /\ Owned(frame[th].down, h) /\ frame[th].down \in DOMAIN maps
        /\ Owned(m, Peer(h)) /\ m \in DOMAIN maps
    BY <1>0, <1>1, <1>4, WorkFrame DEF Inv, Owners, Kept
  <2> QED BY <1>1, <1>2, <2>1, OwnedStays, OwnedSame DEF Inv
<1>6. CASE Promote(th)
  <2>1. UNCHANGED table
    BY <1>6 DEF Promote, routeVars
  <2>2. CASE Return(th)
    <3>1. Goto(th, "idle", NoFrame) /\ "idle" \in Steps /\ "idle" \notin CriticalSteps
      BY <2>2 DEF Return, Steps, CriticalSteps
    <3>2. Only(th) /\ at'[th] = "idle" /\ frame'[th] = NoFrame
      BY <3>1, GotoStep, NoFrameType DEF Only, Inv, Types
    <3>3. KeptThen("idle", NoFrame)
      BY NoFrameType DEF KeptThen
    <3>4. Right'
      BY <1>1, <1>2, <1>3, <2>1 DEF Right
    <3>5. at[th] # "declare"
      BY <1>1
    <3> QED BY <1>1, <1>2, <3>1, <3>2, <3>3, <3>4, <3>5, DownStepInv, NoFrameType
  <2>3. CASE Goto(th, "putMaster", frame[th])
    <3>1. "putMaster" \in Steps /\ "putMaster" \in CriticalSteps
      BY DEF Steps, CriticalSteps
    <3>2. Only(th) /\ at'[th] = "putMaster" /\ frame'[th] = frame[th]
      BY <1>2, <2>3, <3>1, GotoStep DEF Only, Inv, Types
    <3>3. KeptThen("putMaster", frame[th])
      BY <1>0, <1>2, <1>4, <1>5 DEF KeptThen
    <3>4. Shape(h, th)'
      BY <1>1, <1>3, <2>1, <3>2 DEF Shape
    <3>5. at[th] # "declare"
      BY <1>1
    <3> QED BY <1>0, <1>1, <1>2, <3>1, <3>2, <3>3, <3>4, <3>5, DownStepInv
  <2> QED BY <1>6, <2>2, <2>3 DEF Promote
<1>7. CASE PutMaster(th)
  <2>1. /\ table' = [table EXCEPT ![TRUE] = m] /\ Goto(th, "demote", frame[th])
        /\ "demote" \in Steps /\ "demote" \in CriticalSteps
    BY <1>4, <1>7 DEF PutMaster, Steps, CriticalSteps
  <2>2. table'[TRUE] = m /\ table'[FALSE] = 0
    BY <1>2, <1>3, <2>1
  <2>3. Only(th) /\ at'[th] = "demote" /\ frame'[th] = frame[th]
    BY <1>2, <2>1, GotoStep DEF Only, Inv, Types
  <2>4. KeptThen("demote", frame[th])
    BY <1>0, <1>2, <1>5 DEF KeptThen
  <2>5. Shape(h, th)'
    <3>1. isMaster'[Local] # isMaster'[Remote]
      BY <1>1, <1>2, <1>3
    <3> QED BY <1>5, <2>2, <2>3, <3>1 DEF Shape
  <2>6. at[th] # "declare"
    BY <1>1
  <2> QED BY <1>0, <1>1, <1>2, <2>1, <2>3, <2>4, <2>5, <2>6, DownStepInv
<1> QED BY <1>6, <1>7

LEMMA DemoteInv ==
  ASSUME Inv, Types', Evolves, NEW th \in Threads, Demote(th) \/ PromotePeer(th)
  PROVE  Owners' /\ Unique' /\ Phases'
<1>0. PICK h : h = frame[th].redis
  OBVIOUS
<1>1. /\ at[th] \in {"demote", "promotePeer"} /\ at[th] \in CriticalSteps
      /\ UNCHANGED <<table, maps, clients, server, reconnect>>
  BY DEF Demote, PromotePeer, CriticalSteps, serverVars, nodeVars
<1>2. /\ h \in Redis /\ Reporting(h, th) /\ frame[th] \in FrameType /\ frame[th].calls = <<>>
      /\ isMaster \in [Redis -> BOOLEAN] /\ table \in [BOOLEAN -> 0 .. Len(maps)]
      /\ Peer(h) \in Redis /\ Peer(h) # h /\ \A g \in Redis : g = h \/ g = Peer(h)
  BY <1>0, <1>1, DownFacts
<1>3. PICK m : m = table[TRUE]
  OBVIOUS
<1>4. table[FALSE] = 0 /\ (m # 0 => Owned(m, Peer(h)) /\ Owned(m, Peer(h))')
  <2>1. table[FALSE] = 0 /\ (table[TRUE] # 0 => Owned(table[TRUE], Peer(h)))
    BY <1>1, <1>2 DEF Reporting, Shape
  <2> QED BY <1>1, <1>3, <2>1, OwnedSame
<1>5. OwnedThen(frame[th].down, h)
  <2>1. Owned(frame[th].down, h) /\ frame[th].down \in DOMAIN maps
    BY <1>0, <1>1, WorkFrame DEF Inv, Owners, Kept
  <2> QED BY <1>1, <1>2, <2>1, OwnedStays DEF Inv
<1>6. CASE Demote(th)
  <2>1. /\ isMaster' = [isMaster EXCEPT ![h] = FALSE] /\ Goto(th, "promotePeer", frame[th])
        /\ "promotePeer" \in Steps /\ "promotePeer" \in CriticalSteps
    BY <1>0, <1>6 DEF Demote, Steps, CriticalSteps
  <2>2. Only(th) /\ at'[th] = "promotePeer" /\ frame'[th] = frame[th]
    BY <1>2, <2>1, GotoStep DEF Only, Inv, Types
  <2>3. KeptThen("promotePeer", frame[th])
    BY <1>0, <1>2, <1>5 DEF KeptThen
  <2>4. Shape(h, th)'
    BY <1>1, <1>2, <1>3, <1>4, <2>1, <2>2 DEF Shape
  <2>5. at[th] # "declare"
    BY <1>1
  <2> QED BY <1>0, <1>1, <1>2, <2>1, <2>2, <2>3, <2>4, <2>5, DownStepInv
<1>7. CASE PromotePeer(th)
  <2>1. /\ isMaster' = [isMaster EXCEPT ![Peer(h)] = TRUE] /\ Goto(th, "close", frame[th])
        /\ "close" \in Steps /\ "close" \notin CriticalSteps
    BY <1>0, <1>7 DEF PromotePeer, Steps, CriticalSteps
  <2>2. Only(th) /\ at'[th] = "close" /\ frame'[th] = frame[th]
    BY <1>2, <2>1, GotoStep DEF Only, Inv, Types
  <2>3. KeptThen("close", frame[th])
    BY <1>0, <1>2, <1>5 DEF KeptThen
  <2>4. ~isMaster[h]
    BY <1>2, <1>7 DEF Reporting, Shape, PromotePeer
  <2>5. isMaster'[h] = FALSE /\ isMaster'[Peer(h)] = TRUE
    BY <1>2, <2>1, <2>4
  <2>6. Right'
    <3>1. isMaster'[Local] # isMaster'[Remote]
      BY <1>2, <2>5, Constants DEF Peer
    <3>2. \A g \in Redis : table'[isMaster'[g]] # 0 => g = Peer(h) /\ table'[isMaster'[g]] = m
      BY <1>1, <1>2, <1>3, <1>4, <2>5
    <3>3. \A g \in Redis : table'[isMaster'[g]] # 0 => Owned(table[isMaster[g]], g)'
      BY <1>4, <3>2
    <3> QED BY <3>1, <3>3 DEF Right
  <2>7. at[th] # "declare"
    BY <1>1
  <2> QED BY <1>0, <1>1, <1>2, <2>1, <2>2, <2>3, <2>6, <2>7, DownStepInv
<1> QED BY <1>6, <1>7

-----------------------------------------------------------------------------
(* The rest of redisDown keeps it: the clients are closed, the Redis is       *)
(* restarted and a client is opened.                                          *)

\* A Redis is restarted whose client of database 0, if it is connected at all, has
\* lost it.
LEMMA Rebooted ==
  ASSUME Types, NEW h \in Redis, Reboot(h),
         \A c \in DOMAIN clients :
           clients[c].redis = h /\ clients[c].db = 0 /\ clients[c].connected => Suspect(c)
  PROVE  Quieter
<1>1. /\ DOMAIN clients' = DOMAIN clients
      /\ \A c \in DOMAIN clients :
           /\ clients'[c].redis = clients[c].redis /\ clients'[c].db = clients[c].db
           /\ clients'[c].connected = clients[c].connected
           /\ clients'[c].link = IF clients[c].redis = h /\ clients[c].link = "open"
                                   THEN "broken" ELSE clients[c].link
  BY UnlinkedType DEF Reboot, Types
<1>2. \A g \in Redis : g # h => server'[g] = server[g]
  BY DEF Reboot, Types, DataOK
<1>3. \A c \in DOMAIN clients : clients[c].redis \in Redis
  BY Domains DEF Types, ClientType
<1>4. ASSUME NEW c \in DOMAIN clients, Suspect(c)'
      PROVE  Suspect(c)
  BY <1>1, <1>2, <1>3, <1>4 DEF Suspect
<1> QED BY <1>1, <1>4 DEF Quieter, Alive, Pending

\* A redisDown that closes clients or restarts its Redis makes no client live, and
\* none suspect.
LEMMA LateQuieter ==
  ASSUME Inv, NEW th \in Threads, CloseDown(th) \/ RestartRedis(th) \/ Ssh(th)
  PROVE  Quieter /\ LiveClients(frame[th].redis) = {}
<1>0. PICK h : h = frame[th].redis
  BY Zenon
<1>1. at[th] \in LateSteps
  BY DEF CloseDown, RestartRedis, Ssh, LateSteps
<1>2. h \in Redis /\ Downs(h, th)
  BY <1>0, <1>1, WorkFrame DEF Inv, Downs
<1>3. LiveClients(h) = {}
  <2>1. th \in DownThreads(h)
    BY <1>2 DEF DownThreads
  <2> QED BY <1>2, <2>1, Holders DEF Inv
<1>4. CASE CloseDown(th)
  <2>1. /\ DOMAIN clients' = DOMAIN clients
        /\ \A c \in DOMAIN clients :
             /\ clients'[c].redis = clients[c].redis /\ clients'[c].db = clients[c].db
             /\ clients'[c].connected = clients[c].connected
             /\ clients'[c].link # clients[c].link =>
                  clients'[c].link # "connecting" /\ clients[c].redis = h
    <3>1. PICK new \in [DOMAIN clients -> ClientType] : clients' = new
      BY <1>4, ClosedClients DEF Inv
    <3>2. Owned(frame[th].down, h) /\ frame[th].down \in DOMAIN maps
      BY <1>0, <1>1, <1>4, WorkFrame DEF Inv, Owners, Kept, CloseDown
    <3>3. DOMAIN clients' = DOMAIN clients
      BY <3>1
    <3>4. \A c \in DOMAIN clients :
            /\ clients'[c].redis = clients[c].redis /\ clients'[c].db = clients[c].db
            /\ clients'[c].connected = clients[c].connected
            /\ \/ clients'[c].link = clients[c].link
               \/ /\ \E n \in Databases : maps[frame[th].down][n] = c
                  /\ clients'[c].link # "connecting"
      BY <1>4, ClosedClients DEF Inv
    <3>5. \A c \in DOMAIN clients :
            (\E n \in Databases : maps[frame[th].down][n] = c) => clients[c].redis = h
      BY <3>2, Domains DEF Inv, Types, Owned
    <3> QED BY <3>3, <3>4, <3>5
  <2>2. server' = server
    BY <1>4 DEF CloseDown, serverVars
  <2>3. ASSUME NEW c \in DOMAIN clients, Suspect(c)'
        PROVE  Suspect(c)
    <3>1. CASE clients'[c].link = clients[c].link
      BY <2>1, <2>2, <2>3, <3>1 DEF Suspect
    <3>2. CASE clients'[c].link # clients[c].link
      <4>1. Alive(c) /\ clients[c].redis = h
        BY <2>1, <2>3, <3>2 DEF Suspect, Alive
      <4> QED BY <1>3, <4>1 DEF LiveClients
    <3> QED BY <3>1, <3>2
  <2> QED BY <1>0, <1>3, <2>1, <2>3 DEF Quieter, Alive, Pending
<1>5. CASE Reboot(h)
  <2>1. \A c \in DOMAIN clients :
          ~(clients[c].redis = h /\ clients[c].db = 0 /\ clients[c].connected)
    BY <1>3 DEF LiveClients, Alive
  <2> QED BY <1>0, <1>2, <1>3, <1>5, <2>1, Rebooted DEF Inv
<1>6. CASE UNCHANGED <<clients, server>>
  BY <1>0, <1>3, <1>6, SameClients
<1> QED BY <1>0, <1>4, <1>5, <1>6 DEF RestartRedis, Ssh, serverVars

LEMMA CloseDownInv ==
  ASSUME Inv, Types', Evolves, NEW th \in Threads, CloseDown(th)
  PROVE  Owners' /\ Unique' /\ Phases'
<1>0. PICK h : h = frame[th].redis
  OBVIOUS
<1>1. /\ at[th] = "close" /\ ~AtRest(th) /\ at[th] \notin CriticalSteps
      /\ UNCHANGED <<isMaster, table, maps, server, reconnect>>
  BY DEF CloseDown, AtRest, CriticalSteps, routeVars, serverVars, nodeVars
<1>2. /\ th \notin Selectors /\ th # Heart /\ h \in Redis
      /\ frame[th] \in FrameType /\ frame[th].calls = <<>>
  BY <1>0, <1>1, WorkFrame DEF LateSteps, Inv, Owners, Kept, CallSteps
<1>3. Opening
  BY <1>1, <1>2, WorkPhase DEF Inv
<1>4. Downs(h, th)
  BY <1>0, <1>1 DEF Downs, LateSteps
<1>5. Quieter
  BY LateQuieter
<1>6. CASE Goto(th, "restart", frame[th])
  <2>1. Only(th) /\ at'[th] = "restart" /\ frame'[th] = frame[th]
    BY <1>2, <1>6, GotoStep DEF Only, Inv, Types, Steps
  <2>2. KeptThen(at'[th], frame'[th])
    BY <1>2, <2>1 DEF KeptThen
  <2>3. \A g \in Redis : (\A i \in Nat : ~Opens(g, th, i)') /\ (Downs(g, th)' => Downs(g, th))
    BY <1>0, <1>2, <1>4, <2>1 DEF Opens, Downs
  <2> QED BY <1>1, <1>2, <1>3, <1>5, <2>1, <2>2, <2>3, WorkInv DEF CriticalSteps
<1>7. CASE Return(th)
  <2>1. Only(th) /\ at'[th] = "idle" /\ frame'[th] = NoFrame
    BY <1>7, GotoStep, NoFrameType DEF Return, Only, Inv, Types, Steps
  <2>2. KeptThen(at'[th], frame'[th])
    BY <2>1, NoFrameType DEF KeptThen
  <2>3. \A g \in Redis : (\A i \in Nat : ~Opens(g, th, i)') /\ ~Downs(g, th)'
    BY <2>1, NoFrameType DEF Opens, Downs, CriticalSteps, LateSteps
  <2> QED BY <1>1, <1>2, <1>3, <1>5, <2>1, <2>2, <2>3, WorkInv DEF CriticalSteps
<1> QED BY <1>6, <1>7, ClosedClients DEF Inv

\* Thread th, which has the Redis h or the heartbeat client its entry, opens a
\* client of it.
LEMMA ReopensUnique ==
  ASSUME Types, Types', Unique, NEW th \in Threads, th \notin Selectors, Only(th), NEW h \in Redis,
         at'[th] = "new", frame'[th].calls = <<Call(h, 0, FALSE)>>, Quieter,
         reconnect' = reconnect,
         LiveClients(h) = {}, OpenCalls(h) = {}, DownThreads(h) \subseteq {th}, Reopenings(h)' = {},
         th = Heart => at[th] # "clear" /\ frame'[th].next >= frame[th].next
  PROVE  Unique'
<1> DEFINE q == <<Call(h, 0, FALSE)>>
<1>1. q \in Seq(CallType) /\ Len(q) = 1 /\ q[1].redis = h
  BY CallTyped, Constants
<1>2. DOMAIN q = {1}
  BY <1>1, LenProperties
<1>3. frame'[th].calls = q
  OBVIOUS
<1> HIDE DEF q
<1>4. \A g \in Redis : ~Downs(g, th)'
  BY DEF Downs, CriticalSteps, LateSteps
<1>5. \A g \in Redis : \A i : Opens(g, th, i)' => i = 1 /\ g = h
  BY <1>1, <1>2, <1>3 DEF Opens
<1>6. Alone(LiveClients(h), OpenCalls(h), DownThreads(h), Reopenings(h))'
  <2>1. LiveClients(h)' = {}
    BY QuieterLive
  <2>2. \A x \in OpenCalls(h)' : x = <<th, 1>>
    <3>1. ASSUME NEW x \in OpenCalls(h)'
          PROVE  x = <<th, 1>>
      <4>1. x = <<x[1], x[2]>> /\ Opens(h, x[1], x[2])'
        BY <3>1 DEF OpenCalls
      <4>2. x[1] = th
        BY <3>1, Elsewhere
      <4> QED BY <1>5, <4>1, <4>2
    <3> QED BY <3>1
  <2>3. DownThreads(h)' = {}
    <3>1. th \notin DownThreads(h)'
      BY <1>4 DEF DownThreads
    <3> QED BY <3>1, Elsewhere
  <2> QED BY <2>1, <2>2, <2>3 DEF Alone, Lone
<1>7. ASSUME NEW g \in Redis, g # h
      PROVE  Alone(LiveClients(g), OpenCalls(g), DownThreads(g), Reopenings(g))'
  <2>1. LiveClients(g)' \subseteq LiveClients(g)
    BY QuieterLive
  <2>2. \A i \in Nat : ~Opens(g, th, i)'
    BY <1>5, <1>7
  <2> QED BY <1>4, <2>1, <2>2, UniqueStep
<1> QED BY <1>6, <1>7 DEF Unique

LEMMA RestartInv ==
  ASSUME Inv, Types', Evolves, NEW th \in Threads, RestartRedis(th) \/ Ssh(th)
  PROVE  Owners' /\ Unique' /\ Phases'
<1>0. PICK h : h = frame[th].redis
  OBVIOUS
<1>1. /\ at[th] \in {"restart", "ssh"} /\ ~AtRest(th) /\ at[th] \notin CriticalSteps
      /\ UNCHANGED <<isMaster, table, maps>>
  BY DEF RestartRedis, Ssh, AtRest, CriticalSteps, routeVars
<1>2. /\ th \notin Selectors /\ th # Heart /\ h \in Redis
      /\ frame[th] \in FrameType /\ frame[th].calls = <<>>
  BY <1>0, <1>1, WorkFrame DEF LateSteps, Inv, Owners, Kept, CallSteps
<1>3. Opening
  BY <1>1, <1>2, WorkPhase DEF Inv
<1>4. Downs(h, th)
  BY <1>0, <1>1 DEF Downs, LateSteps
<1>5. LiveClients(h) = {} /\ OpenCalls(h) = {} /\ DownThreads(h) = {th} /\ Reopenings(h) = {}
  <2>1. th \in DownThreads(h)
    BY <1>4 DEF DownThreads
  <2> QED BY <1>2, <2>1, Holders DEF Inv
<1>6. Quieter
  BY LateQuieter
<1>7. MapsKept /\ DOMAIN maps' = DOMAIN maps /\ \A c \in DOMAIN clients' : ~Suspect(c)'
  BY <1>1, <1>3, <1>6, SameMaps DEF Inv, Quieter, Opening
<1> DEFINE q == <<Call(h, 0, FALSE)>>
           f == [NoFrame EXCEPT !.calls = q]
<1>8. CASE Goto(th, "new", f) /\ UNCHANGED reconnect
  <2>1. q \in Seq(CallType) /\ q = <<Call(h, 0, FALSE)>>
    BY <1>2, CallTyped, Constants
  <2> HIDE DEF q
  <2>2. f \in FrameType /\ f.calls = q
    BY <2>1, NewFrames
  <2> HIDE DEF f
  <2>3. Only(th) /\ at'[th] = "new" /\ frame'[th].calls = q
    BY <1>8, <2>2, GotoStep DEF Only, Inv, Types, Steps
  <2>4. KeptThen(at'[th], frame'[th])
    BY <2>3 DEF KeptThen, CallSteps
  <2>5. Owners'
    BY <1>7, <2>3, <2>4, OwnersStep DEF Inv
  <2>6. Reopenings(h)' = {}
    BY <1>2, <1>5, <1>8, <2>3, EntriesStay DEF Inv, Types, ThreadsOK
  <2>7. Unique'
    BY <1>2, <1>5, <1>6, <1>8, <2>1, <2>3, <2>6, ReopensUnique DEF Inv
  <2>8. Phases'
    BY <1>1, <1>2, <1>3, <1>7, <2>3, OpeningStep DEF Inv, CriticalSteps
  <2> QED BY <2>5, <2>7, <2>8
<1>9. CASE Goto(th, "ssh", frame[th]) /\ UNCHANGED reconnect
  <2>1. Only(th) /\ at'[th] = "ssh" /\ frame'[th] = frame[th]
    BY <1>2, <1>9, GotoStep DEF Only, Inv, Types, Steps
  <2>2. KeptThen(at'[th], frame'[th])
    BY <1>2, <2>1 DEF KeptThen
  <2>3. \A g \in Redis : (\A i \in Nat : ~Opens(g, th, i)') /\ (Downs(g, th)' => Downs(g, th))
    BY <1>0, <1>2, <1>4, <2>1 DEF Opens, Downs
  <2> QED BY <1>1, <1>2, <1>3, <1>6, <1>9, <2>1, <2>2, <2>3, WorkInv DEF CriticalSteps
<1>10. CASE Return(th) /\ reconnect' = Append(reconnect, h)
  <2>1. Only(th) /\ at'[th] = "idle" /\ frame'[th] = NoFrame
    BY <1>10, GotoStep, NoFrameType DEF Return, Only, Inv, Types, Steps
  <2>2. KeptThen(at'[th], frame'[th])
    BY <2>1, NoFrameType DEF KeptThen
  <2>3. Owners'
    BY <1>7, <2>1, <2>2, OwnersStep DEF Inv
  <2>4. Phases'
    BY <1>1, <1>2, <1>3, <1>7, <2>1, OpeningStep DEF Inv, CriticalSteps
  <2>5. \A g \in Redis : (\A i : ~Opens(g, th, i)') /\ ~Downs(g, th)'
    BY <2>1, NoFrameType DEF Opens, Downs, CriticalSteps, LateSteps
  <2>6. \A g \in Redis : /\ LiveClients(g)' \subseteq LiveClients(g)
                         /\ OpenCalls(g)' \subseteq OpenCalls(g)
                         /\ DownThreads(g)' \subseteq DownThreads(g) \ {th}
    <3>1. ASSUME NEW g \in Redis
          PROVE  /\ \A x \in OpenCalls(g)' : x[1] # th
                 /\ th \notin DownThreads(g)'
      BY <2>5 DEF OpenCalls, DownThreads
    <3> QED BY <1>6, <2>1, <3>1, Elsewhere, QuieterLive
  <2>7. /\ Len(reconnect) \in Nat /\ DOMAIN reconnect = 1 .. Len(reconnect)
        /\ DOMAIN reconnect' = DOMAIN reconnect \cup {Len(reconnect) + 1}
        /\ \A i \in DOMAIN reconnect : reconnect'[i] = reconnect[i]
        /\ reconnect'[Len(reconnect) + 1] = h
    <3>1. reconnect \in Seq(Redis)
      BY DEF Inv, Types, DataOK
    <3>2. \A i \in 1 .. Len(reconnect) + 1 : i \in 1 .. Len(reconnect) \/ i = Len(reconnect) + 1
      BY <3>1, LenProperties
    <3> QED BY <1>2, <1>10, <3>1, <3>2, AppendProperties, LenProperties
  <2>8. \A g \in Redis, i \in DOMAIN reconnect : i \in Reopenings(g)' => i \in Reopenings(g)
    BY <1>2, <2>1, <2>7, ThreadKinds DEF Reopenings, Only
  <2>9. \A g \in Redis : \A i \in Reopenings(g)' :
          i \in Reopenings(g) \/ (g = h /\ i = Len(reconnect) + 1)
    <3>1. ASSUME NEW g \in Redis, NEW i \in Reopenings(g)'
          PROVE  i \in Reopenings(g) \/ (g = h /\ i = Len(reconnect) + 1)
      <4>1. i \in DOMAIN reconnect' /\ reconnect'[i] = g
        BY <3>1 DEF Reopenings
      <4> QED BY <2>7, <2>8, <3>1, <4>1
    <3> QED BY <3>1
  <2>10. Alone(LiveClients(h), OpenCalls(h), DownThreads(h), Reopenings(h))'
    BY <1>2, <1>5, <2>6, <2>9 DEF Alone, Lone
  <2>11. ASSUME NEW g \in Redis, g # h
         PROVE  Alone(LiveClients(g), OpenCalls(g), DownThreads(g), Reopenings(g))'
    <3> DEFINE A == LiveClients(g)
               B == OpenCalls(g)
               C == DownThreads(g)
               D == Reopenings(g)
    <3>1. Alone(A, B, C, D)
      BY DEF Inv, Unique
    <3>2. A' \subseteq A /\ B' \subseteq B /\ C' \subseteq C /\ D' \subseteq D
      BY <2>6, <2>9, <2>11
    <3> HIDE DEF A, B, C, D
    <3>3. Alone(A', B', C', D')
      BY <3>1, <3>2, AloneShrinks
    <3> QED BY <3>3 DEF A, B, C, D
  <2> QED BY <2>3, <2>4, <2>10, <2>11 DEF Unique
<1> QED BY <1>0, <1>8, <1>9, <1>10 DEF RestartRedis, Ssh, nodeVars

-----------------------------------------------------------------------------
(* The heartbeat client keeps it.                                             *)

LEMMA HeartInv ==
  ASSUME Inv, Types', Evolves, RemoteUp \/ Reconnect \/ ClearReconnect
  PROVE  Owners' /\ Unique' /\ Phases'
<1>0. PICK i : i = frame[Heart].next
  OBVIOUS
<1>1. /\ Heart \in Threads /\ Heart \notin Selectors /\ i \in Nat
      /\ AtRest(Heart) /\ FrameOK(Heart)
  BY <1>0, ThreadKinds DEF RemoteUp, Reconnect, ClearReconnect, AtRest, Inv, Types, ThreadsOK, FrameType
<1>2. UNCHANGED <<isMaster, table, maps, clients, server>>
  BY DEF RemoteUp, Reconnect, ClearReconnect, routeVars, serverVars
<1>3. MapsKept /\ DOMAIN maps' = DOMAIN maps /\ Quieter
  BY <1>2, SameMaps, SameClients DEF Inv
<1>4. \A h \in Redis : LiveClients(h)' \subseteq LiveClients(h)
  BY <1>3, QuieterLive
<1>5. CASE RemoteUp
  <2> DEFINE f == [NoFrame EXCEPT !.next = 1]
  <2>1. f \in FrameType /\ f.next = 1 /\ f.calls = <<>>
    BY NewFrames
  <2>2. Goto(Heart, "reconnect", f) /\ "reconnect" \in Steps /\ UNCHANGED reconnect
    BY <1>5 DEF RemoteUp, Steps
  <2> HIDE DEF f
  <2>3. Only(Heart) /\ at'[Heart] = "reconnect" /\ frame'[Heart] = f
    BY <1>1, <2>1, <2>2, GotoStep DEF Only, Inv, Types
  <2>4. at[Heart] = "idle" /\ i = 0
    BY <1>0, <1>1, <1>5, NoFrameType DEF RemoteUp, FrameOK
  <2>5. KeptThen(at'[Heart], frame'[Heart])
    BY <2>1, <2>3 DEF KeptThen
  <2>6. Owners'
    BY <1>1, <1>3, <2>3, <2>5, OwnersStep DEF Inv
  <2>7. \A h \in Redis : (\A j \in Nat : ~Opens(h, Heart, j)') /\ ~Downs(h, Heart)'
    BY <2>1, <2>3 DEF Opens, Downs, CriticalSteps, LateSteps
  <2>8. ASSUME NEW h \in Redis
        PROVE  Alone(LiveClients(h), OpenCalls(h), DownThreads(h), Reopenings(h))'
    <3>1. at[Heart] # "clear" /\ frame'[Heart].next >= frame[Heart].next
      BY <1>0, <2>1, <2>3, <2>4
    <3> QED BY <1>1, <1>4, <2>2, <2>3, <2>7, <3>1, UniqueStep DEF Inv
  <2>9. Phases'
    BY <1>1, <1>2, <2>2, <2>3, RestStep DEF Inv, AtRest
  <2> QED BY <2>6, <2>8, <2>9 DEF Unique
<1>6. CASE Reconnect /\ i <= Len(reconnect)
  <2>0. PICK h : h = reconnect[i]
    OBVIOUS
  <2>1. at[Heart] = "reconnect" /\ i # 0 /\ UNCHANGED reconnect
    BY <1>0, <1>1, <1>6 DEF Reconnect, FrameOK, nodeVars
  <2>2. h \in Redis /\ i \in DOMAIN reconnect /\ reconnect # <<>>
    BY <1>1, <1>6, <2>0, <2>1, Domains DEF Inv, Types
  <2>3. i \in Reopenings(h)
    BY <1>0, <1>1, <2>0, <2>1, <2>2 DEF Reopenings
  <2>4. /\ LiveClients(h) = {} /\ OpenCalls(h) = {} /\ DownThreads(h) = {}
        /\ Reopenings(h) = {i}
    BY <2>2, <2>3, Holders DEF Inv
  <2> DEFINE q == <<Call(h, 0, FALSE)>>
             n == i + 1
             f == [NoFrame EXCEPT !.calls = q, !.next = n]
  <2>5. q \in Seq(CallType) /\ q = <<Call(h, 0, FALSE)>> /\ n \in Nat /\ n > i
    <3>1. n \in Nat /\ n > i
      BY <1>1
    <3>2. q \in Seq(CallType) /\ q = <<Call(h, 0, FALSE)>>
      BY <2>2, CallTyped, Constants
    <3> QED BY <3>1, <3>2
  <2>6. Goto(Heart, "new", f) /\ "new" \in Steps
    BY <1>0, <1>6, <2>0 DEF Reconnect, Steps
  <2> HIDE DEF q, n
  <2>7. f \in FrameType /\ f.calls = q /\ f.next = n
    BY <2>5, NewFrames
  <2> HIDE DEF f
  <2>8. Only(Heart) /\ at'[Heart] = "new" /\ frame'[Heart] = f
    BY <1>1, <2>6, <2>7, GotoStep DEF Only, Inv, Types
  <2>9. KeptThen(at'[Heart], frame'[Heart])
    BY <2>8 DEF KeptThen, CallSteps
  <2>10. Owners'
    BY <1>1, <1>3, <2>8, <2>9, OwnersStep DEF Inv
  <2>11. n >= i
    BY <1>1, <2>5
  <2>12. Reopenings(h)' = {}
    <3>1. Reopenings(h)' \subseteq Reopenings(h)
      BY <1>0, <1>1, <2>1, <2>7, <2>8, <2>11, EntriesStay DEF Inv, Types, ThreadsOK
    <3>2. i \notin Reopenings(h)'
      BY <1>1, <2>5, <2>7, <2>8 DEF Reopenings
    <3> QED BY <2>4, <3>1, <3>2
  <2>13. Unique'
    BY <1>0, <1>1, <1>3, <2>1, <2>2, <2>4, <2>5, <2>7, <2>8, <2>11, <2>12, ReopensUnique DEF Inv
  <2>14. Opening
    BY <2>2 DEF Inv, Phases, Serving, Unnoticed, Reporting, Calmed
  <2>15. \A c \in DOMAIN clients' : ~Suspect(c)'
    BY <1>3, <2>14 DEF Quieter, Opening
  <2>16. Phases'
    BY <1>1, <1>2, <1>3, <2>8, <2>14, <2>15, OpeningStep DEF Inv, CriticalSteps
  <2> QED BY <2>10, <2>13, <2>16
<1>7. CASE Reconnect /\ ~(i <= Len(reconnect))
  <2>1. Goto(Heart, "clear", NoFrame) /\ "clear" \in Steps /\ UNCHANGED reconnect
    BY <1>0, <1>7 DEF Reconnect, Steps, nodeVars
  <2>2. Only(Heart) /\ at'[Heart] = "clear" /\ frame'[Heart] = NoFrame
    BY <1>1, <2>1, NoFrameType, GotoStep DEF Only, Inv, Types
  <2>3. KeptThen(at'[Heart], frame'[Heart])
    BY <2>2, NoFrameType DEF KeptThen
  <2>4. Owners'
    BY <1>1, <1>3, <2>2, <2>3, OwnersStep DEF Inv
  <2>5. \A h \in Redis : (\A j \in Nat : ~Opens(h, Heart, j)') /\ ~Downs(h, Heart)'
    BY <2>2, NoFrameType DEF Opens, Downs, CriticalSteps, LateSteps
  <2>6. ASSUME NEW h \in Redis
        PROVE  Alone(LiveClients(h), OpenCalls(h), DownThreads(h), Reopenings(h))'
    BY <1>1, <1>4, <2>1, <2>2, <2>5, UniqueStep DEF Inv
  <2>7. Phases'
    BY <1>1, <1>2, <2>1, <2>2, RestStep DEF Inv, AtRest
  <2> QED BY <2>4, <2>6, <2>7 DEF Unique
<1>8. CASE ClearReconnect
  <2>1. Goto(Heart, "idle", NoFrame) /\ "idle" \in Steps /\ reconnect' = <<>>
    BY <1>8 DEF ClearReconnect, Return, Steps
  <2>2. Only(Heart) /\ at'[Heart] = "idle" /\ frame'[Heart] = NoFrame
    BY <1>1, <2>1, NoFrameType, GotoStep DEF Only, Inv, Types
  <2>3. KeptThen(at'[Heart], frame'[Heart])
    BY <2>2, NoFrameType DEF KeptThen
  <2>4. Owners'
    BY <1>1, <1>3, <2>2, <2>3, OwnersStep DEF Inv
  <2>5. \A h \in Redis : (\A j : ~Opens(h, Heart, j)') /\ ~Downs(h, Heart)'
    BY <2>2, NoFrameType DEF Opens, Downs, CriticalSteps, LateSteps
  <2>6. ASSUME NEW h \in Redis
        PROVE  Alone(LiveClients(h), OpenCalls(h), DownThreads(h), Reopenings(h))'
    <3>1. /\ \A x \in OpenCalls(h)' : x[1] # Heart
          /\ Heart \notin DownThreads(h)'
      BY <2>5 DEF OpenCalls, DownThreads
    <3> DEFINE A == LiveClients(h)
               B == OpenCalls(h)
               C == DownThreads(h)
               D == Reopenings(h)
    <3>2. B' \subseteq B /\ C' \subseteq C
      BY <1>1, <2>2, <3>1, Elsewhere
    <3>3. D' = {}
      BY <2>1 DEF Reopenings
    <3>4. A' \subseteq A /\ D' \subseteq D /\ Alone(A, B, C, D)
      BY <1>4, <3>3 DEF Inv, Unique
    <3> HIDE DEF A, B, C, D
    <3>5. Alone(A', B', C', D')
      BY <3>2, <3>4, AloneShrinks
    <3> QED BY <3>5 DEF A, B, C, D
  <2>7. Phases'
    BY <1>1, <1>2, <2>1, <2>2, RestStep DEF Inv, AtRest
  <2> QED BY <2>4, <2>6, <2>7 DEF Unique
<1> QED BY <1>5, <1>6, <1>7, <1>8

-----------------------------------------------------------------------------
(* The failures keep it when they meet a healthy slice.                       *)

LEMMA UniqueLess ==
  ASSUME Types, Unique, \A h \in Redis : LiveClients(h)' \subseteq LiveClients(h),
         UNCHANGED <<at, frame, reconnect>>
  PROVE  Unique'
<1>1. ASSUME NEW h \in Redis
      PROVE  Alone(LiveClients(h), OpenCalls(h), DownThreads(h), Reopenings(h))'
  <2>1. LiveClients(h)' \subseteq LiveClients(h)
    OBVIOUS
  <2>2. OpenCalls(h)' = OpenCalls(h) /\ DownThreads(h)' = DownThreads(h) /\ Reopenings(h)' = Reopenings(h)
    BY DEF OpenCalls, Opens, DownThreads, Downs, Reopenings
  <2>3. Alone(LiveClients(h), OpenCalls(h), DownThreads(h), Reopenings(h))
    BY DEF Unique
  <2> DEFINE A == LiveClients(h)
             B == OpenCalls(h)
             C == DownThreads(h)
             D == Reopenings(h)
  <2>4. A' \subseteq A /\ B' = B /\ C' = C /\ D' = D /\ Alone(A, B, C, D)
    BY <2>1, <2>2, <2>3
  <2> HIDE DEF A, B, C, D
  <2>5. Alone(A', B', C', D')
    BY <2>4, AloneShrinks
  <2> QED BY <2>5 DEF A, B, C, D
<1> QED BY <1>1 DEF Unique

\* The Redis h fails, or its links do.
LEMMA FailureInv ==
  ASSUME Inv, Types', Evolves, Healthy, NEW h \in Redis,
         DOMAIN clients' = DOMAIN clients,
         \A c \in DOMAIN clients :
           /\ clients'[c].connected = clients[c].connected
           /\ clients'[c].link = "connecting" => clients[c].link = "connecting"
           /\ clients[c].redis # h => /\ clients'[c].link = clients[c].link
                                      /\ server'[clients[c].redis] = server[clients[c].redis],
         UNCHANGED <<at, frame, isMaster, table, maps, reconnect>>
  PROVE  Owners' /\ Unique' /\ Phases'
<1>1. \A c \in DOMAIN clients : /\ clients'[c].redis = clients[c].redis
                                /\ clients'[c].db = clients[c].db
  BY DEF Evolves
<1>2. /\ Right /\ reconnect = <<>>
      /\ \A c \in DOMAIN clients : ~Suspect(c) /\ ~Pending(c)
  BY SettledFacts DEF Healthy
<1>3. \A t \in Threads : at[t] = "idle"
  BY DEF Healthy, Settled
<1>4. Owners'
  BY OwnersSame DEF Inv
<1>5. Unique'
  <2>1. \A g \in Redis : LiveClients(g)' \subseteq LiveClients(g)
    BY <1>1 DEF LiveClients, Alive
  <2> QED BY <2>1, UniqueLess DEF Inv
<1>6. Calmed(h)'
  BY <1>1, <1>2 DEF Calmed, Pending, Suspect
<1>7. Right'
  <2>1. MapsKept
    BY SameMaps DEF Inv
  <2> QED BY <1>2, <2>1, RightStays DEF Inv
<1>8. \A t \in Threads : AtRest(t)'
  BY <1>3 DEF AtRest
<1>9. Phases'
  BY <1>6, <1>7, <1>8 DEF Phases, Unnoticed
<1> QED BY <1>4, <1>5, <1>9

LEMMA FailuresInv ==
  ASSUME Calm, Inv, Types', Evolves,
         \/ \E h \in Redis : Crash(h) \/ Hang(h)
         \/ \E c \in DOMAIN clients : LinkBreaks(c)
  PROVE  Owners' /\ Unique' /\ Phases'
<1>1. Healthy /\ UNCHANGED <<at, frame, isMaster, table, maps, reconnect>>
  BY DEF Crash, Hang, LinkBreaks, Fails, threadVars, routeVars, nodeVars
<1>2. \A c \in DOMAIN clients : clients[c].redis \in Redis
  BY Domains DEF Inv, Types, ClientType
<1>3. ASSUME NEW h \in Redis, Crash(h)
      PROVE  Owners' /\ Unique' /\ Phases'
  <2>1. /\ DOMAIN clients' = DOMAIN clients
        /\ \A c \in DOMAIN clients :
             /\ clients'[c].connected = clients[c].connected
             /\ clients'[c].link = "connecting" => clients[c].link = "connecting"
             /\ clients[c].redis # h => clients'[c].link = clients[c].link
    BY <1>3, UnlinkedType DEF Crash, Inv, Types
  <2>2. \A g \in Redis : g # h => server'[g] = server[g]
    BY <1>3 DEF Crash, Inv, Types, DataOK
  <2> QED BY <1>1, <1>2, <2>1, <2>2, FailureInv
<1>4. ASSUME NEW h \in Redis, Hang(h)
      PROVE  Owners' /\ Unique' /\ Phases'
  <2>1. clients' = clients
    BY <1>4 DEF Hang
  <2>2. \A g \in Redis : g # h => server'[g] = server[g]
    BY <1>4 DEF Hang, Inv, Types, DataOK
  <2> QED BY <1>1, <1>2, <2>1, <2>2, FailureInv
<1>5. ASSUME NEW c \in DOMAIN clients, LinkBreaks(c)
      PROVE  Owners' /\ Unique' /\ Phases'
  <2> DEFINE new == [clients EXCEPT ![c].link = "broken"]
  <2>1. /\ new[c].link = "broken" /\ new[c].connected = clients[c].connected
        /\ DOMAIN new = DOMAIN clients
        /\ \A d \in DOMAIN clients : d # c => new[d] = clients[d]
    <3>1. DataOK /\ "broken" \in Links
      BY DEF Inv, Types, Links
    <3> QED BY <3>1, LinkOnly
  <2>2. clients' = new /\ server' = server
    BY <1>5 DEF LinkBreaks, serverVars
  <2> HIDE DEF new
  <2>3. PICK h : h = clients[c].redis
    OBVIOUS
  <2>4. \A d \in DOMAIN clients :
           /\ clients'[d].connected = clients[d].connected
           /\ clients'[d].link = "connecting" => clients[d].link = "connecting"
           /\ clients[d].redis # h => clients'[d].link = clients[d].link
    BY <2>1, <2>2, <2>3
  <2> QED BY <1>1, <1>2, <2>1, <2>2, <2>3, <2>4, FailureInv
<1> QED BY <1>3, <1>4, <1>5

\* The other proxy restarts its Redis or ends.
LEMMA RemoteInv ==
  ASSUME Calm, Inv, Types', Evolves, RemoteRestarts \/ RemoteDown
  PROVE  Owners' /\ Unique' /\ Phases'
<1>1. UNCHANGED <<at, frame, isMaster, table, maps, reconnect>>
  BY DEF RemoteRestarts, RemoteDown, threadVars, routeVars, nodeVars
<1>2. CASE RemoteRestarts
  <2>1. \A t \in Threads : at[t] # "declare"
    <3>1. ASSUME NEW t \in Threads, at[t] = "declare"
          PROVE  FALSE
      <4>1. Shape(frame[t].redis, t)
        BY <3>1, ReportPhase DEF Inv, CriticalSteps, Reporting
      <4>2. \E c \in Clients : t = Timer(c)
        BY <3>1, <4>1 DEF Shape
      <4> QED BY <1>2, <3>1, <4>2 DEF RemoteRestarts
    <3> QED BY <3>1
  <2>2. Quieter
    <3>1. Remote \in Redis /\ Reboot(Remote) /\ server[Remote] # "up"
      BY <1>2, Constants DEF RemoteRestarts
    <3>2. \A c \in DOMAIN clients :
            clients[c].redis = Remote /\ clients[c].db = 0 /\ clients[c].connected => Suspect(c)
      BY <3>1 DEF Suspect
    <3> QED BY <3>1, <3>2, Rebooted DEF Inv
  <2> QED BY <1>1, <2>1, <2>2, QuietInv
<1>3. CASE RemoteDown
  <2>1. UNCHANGED <<clients, server>>
    BY <1>3 DEF RemoteDown, serverVars
  <2> QED BY <1>1, <2>1, SameClients, QuietInv
<1> QED BY <1>2, <1>3

-----------------------------------------------------------------------------
(* The invariant, and what it says of the routing table.                      *)

LEMMA InvInit ==
  ASSUME Init
  PROVE  Inv
<1> DEFINE q == <<Call(Local, 0, TRUE), Call(Remote, 0, TRUE)>>
           f == [NoFrame EXCEPT !.calls = q]
<1>1. /\ q \in Seq(CallType) /\ DOMAIN q = {1, 2}
      /\ q[1].redis = Local /\ q[2].redis = Remote
  <2>1. /\ Call(Local, 0, TRUE) \in CallType /\ Call(Local, 0, TRUE).redis = Local
        /\ Call(Remote, 0, TRUE) \in CallType /\ Call(Remote, 0, TRUE).redis = Remote
    <3>1. Local \in Redis /\ Remote \in Redis /\ 0 \in Databases /\ TRUE \in BOOLEAN
      BY Constants
    <3> HIDE DEF q, f
    <3> QED BY <3>1, CallTyped
  <2>2. DOMAIN q = 1 .. 2
    OBVIOUS
  <2>3. 1 .. 2 = {1, 2}
    OBVIOUS
  <2>4. q[1] = Call(Local, 0, TRUE) /\ q[2] = Call(Remote, 0, TRUE)
    OBVIOUS
  <2>5. q \in Seq(CallType)
    BY Constants DEF Call, CallType
  <2> HIDE DEF q
  <2> QED BY <2>1, <2>2, <2>3, <2>4, <2>5
<1>2. \A th \in Threads :
        /\ at[th] = IF th = Heart THEN "call" ELSE "idle"
        /\ frame[th] = IF th = Heart THEN f ELSE NoFrame
  BY DEF Init
<1> HIDE DEF q
<1>3. f.calls = q
  BY <1>1, NewFrames
<1> HIDE DEF f
<1>4. /\ DOMAIN maps = {} /\ DOMAIN clients = {} /\ DOMAIN reconnect = {}
      /\ \A r \in BOOLEAN : table[r] = 0
      /\ isMaster[Local] # isMaster[Remote]
  <2>1. \A s : s = <<>> => DOMAIN s = {}
    OBVIOUS
  <2> QED BY <2>1, Constants, SwitchesAssumption DEF Init
<1>5. Owners
  BY <1>2, <1>4, NoFrameType DEF Owners, Kept, CallSteps
<1>6. \A h \in Redis : \A x \in OpenCalls(h) : x = <<Heart, x[2]>> /\ x[2] \in DOMAIN q /\ q[x[2]].redis = h
  <2>1. ASSUME NEW h \in Redis, NEW x \in OpenCalls(h)
        PROVE  x = <<Heart, x[2]>> /\ x[2] \in DOMAIN q /\ q[x[2]].redis = h
    <3>1. x = <<x[1], x[2]>> /\ Opens(h, x[1], x[2]) /\ x[1] \in Threads
      BY CallFacts
    <3>2. x[2] \in DOMAIN frame[x[1]].calls /\ frame[x[1]].calls[x[2]].redis = h
      BY <3>1 DEF Opens
    <3>3. x[1] = Heart
      <4>1. DOMAIN NoFrame.calls = {}
        BY NoFrameType
      <4> QED BY <1>2, <3>1, <3>2, <4>1
    <3> QED BY <1>2, <1>3, <3>1, <3>2, <3>3, ThreadKinds
  <2> QED BY <2>1
<1>7. \A h \in Redis : \A x, y \in OpenCalls(h) : x = y
  <2>1. ASSUME NEW h \in Redis, NEW x \in OpenCalls(h), NEW y \in OpenCalls(h)
        PROVE  x = y
    <3>1. x[2] = y[2]
      BY <1>1, <1>6, Constants
    <3> QED BY <1>6, <3>1
  <2> QED BY <2>1
<1>8. Unique
  <2>1. \A h \in Redis : LiveClients(h) = {} /\ Reopenings(h) = {}
    BY <1>4 DEF LiveClients, Reopenings
  <2>2. \A h \in Redis : DownThreads(h) = {}
    BY <1>2 DEF DownThreads, Downs, CriticalSteps, LateSteps
  <2> QED BY <1>7, <2>1, <2>2 DEF Unique, Alone, Lone
<1>9. Opening
  <2>1. Right
    BY <1>4, TypesInit DEF Right, Types, DataOK
  <2> QED BY <1>2, <1>4, <2>1, ThreadKinds DEF Opening, CriticalSteps
<1> QED BY <1>5, <1>8, <1>9, TypesInit DEF Inv, Phases

LEMMA InvStep ==
  ASSUME Calm, Inv, [Next]_vars
  PROVE  Inv'
<1>1. Types' /\ Evolves
  BY TypesStep DEF Inv
<1> SUFFICES Owners' /\ Unique' /\ Phases'
  BY <1>1 DEF Inv
<1>2. ASSUME NEW th \in Threads, InitClient(th)
      PROVE  Owners' /\ Unique' /\ Phases'
  BY <1>1, <1>2, CheckInv, NewClientInv, PutClientInv, CallsDoneInv DEF InitClient
<1>3. ASSUME NEW th \in Threads, RedisDown(th)
      PROVE  Owners' /\ Unique' /\ Phases'
  BY <1>1, <1>3, RemoveDownInv, RemoveSlaveInv, PromoteInv, DemoteInv, CloseDownInv, RestartInv
     DEF RedisDown
<1>4. ASSUME NEW th \in Selectors, NEW n \in Databases, Select(th, n)
      PROVE  Owners' /\ Unique' /\ Phases'
  BY <1>1, <1>4, SelectInv
<1>5. ASSUME NEW c \in DOMAIN clients, LoopStep(c)
      PROVE  Owners' /\ Unique' /\ Phases'
  BY <1>1, <1>5, ConnectedInv, ConnectFailedInv, SetUpInv, ChannelInactiveInv DEF LoopStep
<1>6. ASSUME NEW c \in DOMAIN clients, TimerStep(c) \/ LinkBreaks(c)
      PROVE  Owners' /\ Unique' /\ Phases'
  BY <1>1, <1>6, TimerLateInv, TimerDeclareInv, FailuresInv DEF TimerStep
<1>7. CASE RemoteUp \/ Reconnect \/ ClearReconnect
  BY <1>1, <1>7, HeartInv
<1>8. CASE RemoteRestarts \/ RemoteDown \/ \E h \in Redis : Crash(h) \/ Hang(h)
  BY <1>1, <1>8, RemoteInv, FailuresInv
<1>9. CASE UNCHANGED vars
  <2>1. UNCHANGED <<at, frame, isMaster, table, maps, reconnect, clients, server>>
    BY <1>9 DEF vars, threadVars, routeVars, serverVars, nodeVars
  <2> QED BY <1>1, <2>1, SameClients, QuietInv
<1> QED BY <1>2, <1>3, <1>4, <1>5, <1>6, <1>7, <1>8, <1>9 DEF Next

\* The table and the flags agree, but while a redisDown changes them.
LEMMA RightNow ==
  ASSUME Inv, ~Failing
  PROVE  Right
<1>1. ASSUME NEW h \in Redis, NEW th \in Threads, Reporting(h, th)
      PROVE  Right
  BY <1>1 DEF Failing, Switching, Reporting, Shape, CriticalSteps
<1> QED BY <1>1 DEF Inv, Phases, Opening, Serving, Unnoticed

LEMMA Routed ==
  ASSUME Inv
  PROVE  OneRedisPerMap /\ RoutedByFlag
<1>1. OneRedisPerMap
  <2>1. ASSUME NEW m \in DOMAIN maps, NEW n \in Databases, NEW u \in Databases,
               maps[m][n] # 0, maps[m][u] # 0
        PROVE  clients[maps[m][n]].redis = clients[maps[m][u]].redis
    <3>1. PICK h \in Redis : Owned(m, h)
      BY DEF Inv, Owners
    <3> QED BY <2>1, <3>1 DEF Owned
  <2> QED BY <2>1 DEF OneRedisPerMap
<1>2. ~Failing => Right
  BY RightNow
<1>3. ASSUME ~Failing
      PROVE  /\ isMaster[Local] # isMaster[Remote]
             /\ \A h \in Redis, n \in Databases :
                  Lookup(isMaster[h], n) # 0 => clients[Lookup(isMaster[h], n)].redis = h
  BY <1>2, <1>3 DEF Right, Owned, Lookup
<1> QED BY <1>1, <1>3 DEF RoutedByFlag

\* Whatever lookups, creations and failovers do in between, no map of the routing
\* table ever has clients of both Redis: all databases of a role stay together.
THEOREM OneRedis == ASSUME Calm PROVE Spec => []OneRedisPerMap
<1>1. Init => Inv
  BY InvInit
<1>2. Inv /\ [Next]_vars => Inv'
  BY InvStep
<1>3. Inv => OneRedisPerMap
  BY Routed
<1> QED BY <1>1, <1>2, <1>3, PTL DEF Spec

\* Outside the steps of redisDown that change the table, the clients under a role
\* are those of the Redis that has its flag, and exactly one Redis is the master.
THEOREM TableFollowsFlags == ASSUME Calm PROVE Spec => []RoutedByFlag
<1>1. Init => Inv
  BY InvInit
<1>2. Inv /\ [Next]_vars => Inv'
  BY InvStep
<1>3. Inv => RoutedByFlag
  BY Routed
<1> QED BY <1>1, <1>2, <1>3, PTL DEF Spec

-----------------------------------------------------------------------------
(* What each Redis is, while the proxy has the virtual IP.                    *)

\* The proxy has the virtual IP from the start, and never loses it.
Held == StartVip = {TRUE}

\* The client of database 0 of g in the table is connected.
Reached(g) ==
  LET c == Lookup(isMaster[g], 0) IN
  c # 0 /\ clients[c].connected /\ clients[c].redis = g

\* A client that has yet to tell its Redis the role, or that its failure takes away.
Excused(c) == Pending(c) \/ Suspect(c) \/ at[Loop(c)] = "slaveof"

\* redisDown has made g the master and has yet to set the flags.
PromotingSteps == {"putMaster", "demote", "promotePeer"}
Promoted(g) == \E th \in Threads : at[th] \in PromotingSteps /\ frame[th].redis = Peer(g)

\* A Redis with a live client is what its flag says, if the proxy may tell it.
Ruled(g) ==
  \/ ~Held
  \/ role[g] = IF isMaster[g] THEN "master" ELSE "slave"
  \/ \A c \in LiveClients(g) : Excused(c)
  \/ Promoted(g)

\* redisDown reaches the Redis that takes over, and makes it the master.
Takeover(th) ==
  LET g == Peer(frame[th].redis) IN
  /\ at[th] \in {"declare", "remove", "removeSlave"} => Reached(g)
  /\ at[th] = "promote" =>
       LET c == maps[frame[th].slaves][0] IN c # 0 /\ clients[c].connected
  /\ at[th] \in PromotingSteps => server[g] = "up" /\ (Held => role[g] = "master")

\* When a Redis has failed, the other one is connected.
Noted ==
  /\ \A th \in Threads : Takeover(th)
  /\ \A c \in DOMAIN clients : Suspect(c) => Reached(Peer(clients[c].redis))

\* A loop that is about to send a SLAVEOF and a timer that declares a Redis down do
\* so for the Redis of their client.
Telling ==
  \A c \in Clients :
    /\ at[Loop(c)] = "slaveof" =>
         c \in DOMAIN clients /\ frame[Loop(c)].redis = clients[c].redis
    /\ at[Timer(c)] = "declare" =>
         c \in DOMAIN clients /\ frame[Timer(c)].redis = clients[c].redis

Ranks == (Held => vip) /\ (\A g \in Redis : Ruled(g)) /\ Noted /\ Telling

LEMMA GotoOnly ==
  ASSUME Types, NEW th \in Threads, NEW s, NEW f, Goto(th, s, f)
  PROVE  Only(th) /\ at'[th] = s /\ frame'[th] = f
BY DEF Types, ThreadsOK, Goto, Only

LEMMA TellingStays ==
  ASSUME Types, Evolves, Telling, NEW th \in Threads, Only(th),
         (at'[th] = at[th] /\ frame'[th] = frame[th]) \/ at'[th] \notin {"slaveof", "declare"}
  PROVE  Telling'
BY ThreadKinds DEF Telling, Only, Evolves

-----------------------------------------------------------------------------
(* Ruled, in a step of one thread.                                            *)

LEMMA RuledStep ==
  ASSUME Types, NEW th \in Threads, Only(th), NEW g \in Redis, Ruled(g),
         role'[g] = role[g], isMaster'[g] = isMaster[g], at[th] # "slaveof",
         at[th] \in PromotingSteps => at'[th] \in PromotingSteps /\ frame'[th].redis = frame[th].redis,
         \A c \in LiveClients(g)' :
           Excused(c)' \/ (c \in LiveClients(g) /\ ~Pending(c) /\ ~Suspect(c))
  PROVE  Ruled(g)'
<1>1. CASE Promoted(g)
  <2>1. PICK t \in Threads : at[t] \in PromotingSteps /\ frame[t].redis = Peer(g)
    BY <1>1 DEF Promoted
  <2>2. at'[t] \in PromotingSteps /\ frame'[t].redis = Peer(g)
    BY <2>1 DEF Only
  <2>3. Promoted(g)'
    BY <2>2 DEF Promoted
  <2> QED BY <2>3 DEF Ruled
<1>2. CASE \A c \in LiveClients(g) : Excused(c)
  <2>1. ASSUME NEW c \in LiveClients(g)', ~Excused(c)'
        PROVE  FALSE
    <3>1. c \in LiveClients(g) /\ at[Loop(c)] = "slaveof"
      BY <1>2, <2>1 DEF Excused
    <3>2. Loop(c) \in Threads
      <4>1. c \in Clients
        BY <3>1, Domains DEF LiveClients, Types
      <4> QED BY <4>1, ThreadKinds
    <3>3. at'[Loop(c)] = "slaveof"
      BY <3>1, <3>2 DEF Only
    <3> QED BY <2>1, <3>3 DEF Excused
  <2> QED BY <2>1 DEF Ruled
<1>3. CASE ~Held \/ role[g] = IF isMaster[g] THEN "master" ELSE "slave"
  BY <1>3 DEF Ruled
<1> QED BY <1>1, <1>2, <1>3 DEF Ruled

\* ... that changes no client.
LEMMA RuledSame ==
  ASSUME Types, NEW th \in Threads, Only(th), \A g \in Redis : Ruled(g),
         UNCHANGED <<role, isMaster, clients, server>>, at[th] # "slaveof",
         at[th] \in PromotingSteps => at'[th] \in PromotingSteps /\ frame'[th].redis = frame[th].redis
  PROVE  \A g \in Redis : Ruled(g)'
<1>1. \A g : \A c \in LiveClients(g)' :
        Excused(c)' \/ (c \in LiveClients(g) /\ ~Pending(c) /\ ~Suspect(c))
  BY DEF LiveClients, Alive, Pending, Suspect, Excused
<1> QED BY <1>1, RuledStep

\* ... that may restart a Redis.
LEMMA RuledRebooted ==
  ASSUME Types, Types', NEW th \in Threads, Only(th), at[th] # "slaveof", at[th] \notin PromotingSteps,
         \A g \in Redis : Ruled(g), NEW h \in Redis, Reboot(h), UNCHANGED isMaster
  PROVE  \A g \in Redis : Ruled(g)'
<1>1. /\ DOMAIN clients' = DOMAIN clients
      /\ \A c \in DOMAIN clients :
           /\ clients'[c].redis = clients[c].redis /\ clients'[c].db = clients[c].db
           /\ clients'[c].connected = clients[c].connected
           /\ clients'[c].link = IF clients[c].redis = h /\ clients[c].link = "open"
                                   THEN "broken" ELSE clients[c].link
  BY UnlinkedType DEF Reboot, Types
<1>2. \A g \in Redis : g # h => server'[g] = server[g] /\ role'[g] = role[g]
  BY DEF Reboot, Types, DataOK
<1>3. \A c \in LiveClients(h)' : Excused(c)'
  BY <1>1 DEF LiveClients, Alive, Excused, Pending, Suspect
<1>4. ASSUME NEW g \in Redis, g # h
      PROVE  Ruled(g)'
  <2>1. \A c \in LiveClients(g)' :
          Excused(c)' \/ (c \in LiveClients(g) /\ ~Pending(c) /\ ~Suspect(c))
    BY <1>1, <1>2, <1>4 DEF LiveClients, Alive, Pending, Suspect, Excused
  <2> QED BY <1>2, <1>4, <2>1, RuledStep
<1> QED BY <1>3, <1>4 DEF Ruled

-----------------------------------------------------------------------------
(* Noted, from one step to the next.                                          *)

\* Nobody is in redisDown, or about to be.
LEMMA NothingNoted ==
  ASSUME \A t \in Threads : at'[t] \notin CriticalSteps, \A c \in DOMAIN clients' : ~Suspect(c)'
  PROVE  Noted'
BY DEF Noted, Takeover, PromotingSteps, CriticalSteps

\* A thread that opens clients, or is at the end of a redisDown, goes on.
LEMMA WorkNoted ==
  ASSUME Inv, NEW th \in Threads, at[th] \in CallSteps \cup OwnSteps \cup LateSteps, Only(th),
         at'[th] \notin CriticalSteps,
         \A c \in DOMAIN clients' : Suspect(c)' => c \in DOMAIN clients /\ Suspect(c)
  PROVE  Noted'
<1>1. ~AtRest(th) /\ at[th] \notin CriticalSteps
  BY DEF AtRest, CallSteps, OwnSteps, LateSteps, CriticalSteps
<1>2. Opening \/ Serving
  BY <1>1, WorkPhase, SelectPhase DEF Inv, AtRest
<1>3. \A c \in DOMAIN clients : ~Suspect(c)
  BY <1>2 DEF Opening, Serving
<1>4. \A t \in Threads : at[t] \notin CriticalSteps
  <2>1. CASE Opening
    BY <2>1 DEF Opening
  <2>2. CASE Serving
    <3>1. ASSUME NEW t \in Threads, at[t] \in CriticalSteps
          PROVE  FALSE
      <4>1. t \notin Selectors /\ ~AtRest(t)
        BY <3>1, StepSets DEF AtRest, CriticalSteps, Inv, Types
      <4> QED BY <2>2, <4>1 DEF Serving
    <3> QED BY <3>1
  <2> QED BY <1>2, <2>1, <2>2
<1>5. \A t \in Threads : at'[t] \notin CriticalSteps
  BY <1>4 DEF Only
<1> QED BY <1>3, <1>5, NothingNoted

\* redisDown ends.
LEMMA EndNoted ==
  ASSUME Inv, NEW th \in Threads, at[th] \in CriticalSteps \ {"declare"}, Only(th),
         at'[th] \notin CriticalSteps, UNCHANGED <<clients, server>>
  PROVE  Noted'
<1>1. Reporting(frame[th].redis, th) /\ frame[th].redis \in Redis
  BY ReportPhase DEF Inv
<1>2. /\ \A c \in DOMAIN clients : ~Suspect(c)
      /\ \A t \in Threads : t # th => at[t] \notin CriticalSteps
  BY <1>1, Reported DEF Inv
<1>3. \A t \in Threads : at'[t] \notin CriticalSteps
  BY <1>2 DEF Only
<1>4. \A c \in DOMAIN clients' : ~Suspect(c)'
  BY <1>2 DEF Suspect
<1> QED BY <1>3, <1>4, NothingNoted

\* While a thread is in it, what it needs is all there is to note.
LEMMA ReportNoted ==
  ASSUME NEW th \in Threads
  PROVE  Inv /\ at[th] \in CriticalSteps /\ Takeover(th) => Noted
<1> SUFFICES ASSUME Inv, at[th] \in CriticalSteps, Takeover(th)
             PROVE  Noted
  OBVIOUS
<1>1. Reporting(frame[th].redis, th) /\ frame[th].redis \in Redis
  BY ReportPhase DEF Inv
<1>2. \A t \in Threads : t # th => at[t] \notin CriticalSteps
  BY <1>1, Reported DEF Inv
<1>3. \A t \in Threads : Takeover(t)
  BY <1>2 DEF Takeover, CriticalSteps, PromotingSteps
<1>4. ASSUME NEW c \in DOMAIN clients, Suspect(c)
      PROVE  Reached(Peer(clients[c].redis))
  <2>1. clients[c].redis = frame[th].redis
    BY <1>1, <1>4 DEF Reporting, Calmed
  <2>2. at[th] = "declare"
    BY <1>1, <1>4, Reported DEF Inv
  <2> QED BY <2>1, <2>2 DEF Takeover
<1> QED BY <1>3, <1>4 DEF Noted

LEMMA ReportsNoted ==
  ASSUME NEW th \in Threads
  PROVE  (Inv /\ at[th] \in CriticalSteps /\ Takeover(th))' => Noted'
<1>1. Inv /\ at[th] \in CriticalSteps /\ Takeover(th) => Noted
  BY ReportNoted
<1> QED BY <1>1, PTL

\* Where the client of database 0 is found.
LEMMA ReachedClient ==
  ASSUME Types, NEW g \in Redis, Reached(g)
  PROVE  Lookup(isMaster[g], 0) \in DOMAIN clients
<1> DEFINE r == isMaster[g]
           m == table[r]
<1>1. r \in BOOLEAN
  BY DEF Types, DataOK
<1>2. m # 0 /\ maps[m][0] # 0 /\ Lookup(r, 0) = maps[m][0]
  BY DEF Reached, Lookup
<1>3. m \in DOMAIN maps
  BY <1>1, <1>2, Domains DEF Types
<1> QED BY <1>2, <1>3, MapEntries, Constants DEF Types

\* Neither the table nor a flag changes, and nothing fails.
LEMMA NotedSame ==
  ASSUME Types, Evolves, Noted, NEW th \in Threads, Only(th),
         (at'[th] = at[th] /\ frame'[th] = frame[th]) \/ at'[th] \notin CriticalSteps,
         UNCHANGED <<isMaster, table, maps>>,
         \A c \in DOMAIN clients : clients[c].connected => clients'[c].connected,
         \A c \in DOMAIN clients' : Suspect(c)' => c \in DOMAIN clients /\ Suspect(c),
         \A g \in Redis : server[g] = "up" => server'[g] = "up" /\ role'[g] = role[g]
  PROVE  Noted'
<1>1. ASSUME NEW g \in Redis, Reached(g)
      PROVE  Reached(g)'
  <2>1. Lookup(isMaster[g], 0) \in DOMAIN clients
    BY <1>1, ReachedClient
  <2>2. Lookup(isMaster[g], 0)' = Lookup(isMaster[g], 0)
    BY DEF Lookup
  <2> QED BY <1>1, <2>1, <2>2 DEF Reached, Evolves
<1>2. ASSUME NEW c \in DOMAIN clients', Suspect(c)'
      PROVE  Reached(Peer(clients[c].redis))'
  <2>1. c \in DOMAIN clients /\ Suspect(c) /\ clients[c].redis \in Redis
    BY <1>2, Domains DEF Types, ClientType
  <2>2. clients'[c].redis = clients[c].redis
    BY <2>1 DEF Evolves
  <2> QED BY <1>1, <2>1, <2>2, Constants DEF Noted
<1>3. ASSUME NEW t \in Threads
      PROVE  Takeover(t)'
  <2>1. CASE at'[t] \notin CriticalSteps
    BY <2>1 DEF Takeover, CriticalSteps, PromotingSteps
  <2>2. CASE at'[t] \in CriticalSteps
    <3>1. at'[t] = at[t] /\ frame'[t] = frame[t] /\ at[t] \in CriticalSteps
      BY <2>2 DEF Only
    <3>2. PICK g \in Redis : g = Peer(frame[t].redis)
      BY <3>1, WorkFrame
    <3>3. at[t] = "promote" => frame[t].slaves \in DOMAIN maps
      BY <3>1, WorkFrame
    <3>4. Takeover(t)
      BY DEF Noted
    <3>5. at[t] \in {"declare", "remove", "removeSlave"} => Reached(g)'
      BY <1>1, <3>2, <3>4 DEF Takeover
    <3>6. at[t] = "promote" =>
            LET c == maps[frame[t].slaves][0] IN c # 0 /\ clients'[c].connected
      BY <3>3, <3>4, MapEntries, Constants DEF Takeover, Types
    <3>7. at[t] \in PromotingSteps => server'[g] = "up" /\ (Held => role'[g] = "master")
      BY <3>2, <3>4 DEF Takeover
    <3> QED BY <3>1, <3>2, <3>5, <3>6, <3>7 DEF Takeover
  <2> QED BY <2>1, <2>2
<1> QED BY <1>2, <1>3 DEF Noted

-----------------------------------------------------------------------------
(* The threads that open clients keep it.                                     *)

LEMMA CallRanks ==
  ASSUME Inv, Ranks, Types', Evolves, NEW th \in Threads, InitClient(th)
  PROVE  Ranks'
<1>1. PICK s \in {"idle", "call", "new", "put", "reconnect"} : \E f : Goto(th, s, f)
  BY DEF InitClient, Check, NewClient, PutClient, CallsDone, Return
<1>2. Only(th) /\ at'[th] = s
  BY SMTT(30), <1>1, GotoOnly DEF Inv
<1>3. /\ at[th] \in CallSteps /\ at[th] # "slaveof" /\ at[th] \notin PromotingSteps
      /\ at'[th] \notin CriticalSteps
      /\ UNCHANGED <<isMaster, server, role, vip>>
  BY <1>2 DEF InitClient, Check, NewClient, PutClient, CallsDone, CallSteps, PromotingSteps,
              CriticalSteps, routeVars, serverVars, nodeVars
<1>4. clients' = clients \/ NewClient(th)
  BY DEF InitClient, Check, PutClient, CallsDone
<1>7. Telling'
  BY <1>2, TellingStays DEF Inv, Ranks
<1>5. CASE clients' = clients
  <2>1. \A g \in Redis : Ruled(g)'
    BY <1>2, <1>3, <1>5, RuledSame DEF Inv, Ranks
  <2>2. \A c \in DOMAIN clients' : Suspect(c)' => c \in DOMAIN clients /\ Suspect(c)
    BY <1>3, <1>5 DEF Suspect
  <2>3. Noted'
    BY <1>2, <1>3, <2>2, WorkNoted
  <2> QED BY <1>3, <1>7, <2>1, <2>3 DEF Ranks
<1>6. CASE NewClient(th)
  <2> DEFINE n == Len(clients')
             k == Head(frame[th].calls)
  <2>1. /\ DOMAIN clients' = DOMAIN clients \cup {n} /\ n \notin DOMAIN clients
        /\ \A c \in DOMAIN clients : clients'[c] = clients[c]
        /\ clients'[n] = [redis |-> k.redis, db |-> k.db, link |-> "connecting", connected |-> FALSE]
    BY <1>6, NewClientData DEF Inv
  <2>2. clients'[n].link = "connecting" /\ ~clients'[n].connected
    BY <2>1
  <2> HIDE DEF n, k
  <2>3. \A c \in DOMAIN clients' : Suspect(c)' => c \in DOMAIN clients /\ Suspect(c)
    BY <1>3, <2>1, <2>2 DEF Suspect
  <2>4. Noted'
    BY <1>2, <1>3, <2>3, WorkNoted
  <2>5. ASSUME NEW g \in Redis, NEW c \in LiveClients(g)'
        PROVE  Excused(c)' \/ (c \in LiveClients(g) /\ ~Pending(c) /\ ~Suspect(c))
    BY <1>3, <2>1, <2>2, <2>5 DEF LiveClients, Alive, Excused, Pending, Suspect
  <2>6. \A g \in Redis : Ruled(g)'
    BY <1>2, <1>3, <2>5, RuledStep DEF Inv, Ranks
  <2> QED BY <1>3, <1>7, <2>4, <2>6 DEF Ranks
<1> QED BY <1>4, <1>5, <1>6, Zenon

\* ... and those at the end of a redisDown,
LEMMA LateRanks ==
  ASSUME Inv, Ranks, Types', Evolves, NEW th \in Threads,
         CloseDown(th) \/ RestartRedis(th) \/ Ssh(th)
  PROVE  Ranks'
<1>0. PICK h : h = frame[th].redis
  OBVIOUS
<1>1. PICK s \in {"idle", "new", "restart", "ssh"} : \E f : Goto(th, s, f)
  BY ClosedClients DEF Inv, RestartRedis, Ssh, Return
<1>2. Only(th) /\ at'[th] = s
  BY <1>1, GotoOnly DEF Inv
<1>3. /\ at[th] \in LateSteps /\ at[th] # "slaveof" /\ at[th] \notin PromotingSteps
      /\ at'[th] \notin CriticalSteps
      /\ UNCHANGED <<isMaster, vip>>
  BY <1>2 DEF CloseDown, RestartRedis, Ssh, LateSteps, PromotingSteps, CriticalSteps,
              routeVars, nodeVars
<1>4. h \in Redis
  BY <1>0, <1>3, WorkFrame DEF Inv
<1>5. Quieter /\ LiveClients(h) = {}
  BY <1>0, LateQuieter
<1>6. Noted'
  <2>1. \A c \in DOMAIN clients' : Suspect(c)' => c \in DOMAIN clients /\ Suspect(c)
    BY <1>5 DEF Quieter
  <2> QED BY <1>2, <1>3, <2>1, WorkNoted
<1>7. \A g \in Redis : Ruled(g)'
  <2>1. CASE CloseDown(th)
    <3>1. /\ DOMAIN clients' = DOMAIN clients
          /\ \A c \in DOMAIN clients :
               /\ clients'[c].redis = clients[c].redis /\ clients'[c].db = clients[c].db
               /\ clients'[c].connected = clients[c].connected
               /\ clients'[c].link = clients[c].link \/ clients'[c].link \in {"broken", "failed"}
      BY <1>5, <2>1, ClosedClients DEF Inv, Quieter
    <3>2. UNCHANGED <<server, role>>
      BY <2>1 DEF CloseDown, serverVars
    <3>3. \A g \in Redis : \A c \in LiveClients(g)' :
            Excused(c)' \/ (c \in LiveClients(g) /\ ~Pending(c) /\ ~Suspect(c))
      BY <3>1, <3>2 DEF LiveClients, Alive, Excused, Pending, Suspect
    <3> QED BY <1>2, <1>3, <3>2, <3>3, RuledStep DEF Inv, Ranks
  <2>2. CASE Reboot(h)
    BY <1>2, <1>3, <1>4, <2>2, RuledRebooted DEF Inv, Ranks
  <2>3. CASE UNCHANGED <<clients, serverVars>>
    BY <1>2, <1>3, <2>3, RuledSame DEF Inv, Ranks, serverVars
  <2> QED BY <1>0, <2>1, <2>2, <2>3 DEF RestartRedis, Ssh
<1>8. Telling'
  BY <1>2, TellingStays DEF Inv, Ranks
<1> QED BY <1>3, <1>6, <1>7, <1>8 DEF Ranks

\* A loop that has told a Redis its role was of no client that matters here, or of
\* one that has an excuse.
LEMMA RuledTold ==
  ASSUME Types, NEW c \in DOMAIN clients, Only(Loop(c)), NEW g \in Redis, Ruled(g),
         role'[g] = role[g], UNCHANGED <<isMaster, clients, server>>,
         at[Loop(c)] \notin PromotingSteps,
         \A d \in LiveClients(g) : d # c \/ Suspect(d) \/ Pending(d)
  PROVE  Ruled(g)'
<1>1. \A d \in Clients : Loop(d) \in Threads /\ (d # c => Loop(d) # Loop(c))
  BY ThreadKinds DEF Loop
<1>2. LiveClients(g)' = LiveClients(g) /\ LiveClients(g) \subseteq Clients
  BY Domains DEF LiveClients, Alive, Types
<1>3. \A d : Pending(d)' = Pending(d) /\ Suspect(d)' = Suspect(d)
  BY DEF Pending, Suspect
<1>4. CASE \A d \in LiveClients(g) : Excused(d)
  <2>1. \A d \in LiveClients(g) : Excused(d)'
    BY <1>1, <1>2, <1>3, <1>4 DEF Excused, Only
  <2> QED BY <1>2, <2>1 DEF Ruled
<1>5. CASE Promoted(g)
  <2>1. Promoted(g)'
    BY <1>5 DEF Promoted, Only
  <2> QED BY <2>1 DEF Ruled
<1> QED BY <1>4, <1>5 DEF Ruled

\* ... and the event loop that tells a Redis its role.
LEMMA SetUpRanks ==
  ASSUME Inv, Ranks, Types', Evolves, NEW c \in DOMAIN clients, SendSlaveof(c) \/ InitDatabase(c)
  PROVE  Ranks'
<1> DEFINE th == Loop(c)
<1>1. th \in Threads /\ th # Heart /\ c \in Clients
  BY LoopThreads DEF Inv
<1>2. PICK s \in {"initDatabase", "call"} : \E f : Goto(th, s, f)
  BY DEF SendSlaveof, InitDatabase
<1>3. Only(th) /\ at'[th] = s
  BY <1>1, <1>2, GotoOnly DEF Inv
<1>4. /\ at[th] \in OwnSteps /\ at[th] \notin PromotingSteps /\ at'[th] \notin CriticalSteps
      /\ UNCHANGED <<isMaster, clients, server, vip>>
  BY <1>3 DEF SendSlaveof, InitDatabase, OwnSteps, PromotingSteps, CriticalSteps,
              routeVars, serverVars, nodeVars
<1>5. Noted'
  <2>1. \A d \in DOMAIN clients' : Suspect(d)' => d \in DOMAIN clients /\ Suspect(d)
    BY <1>4 DEF Suspect
  <2> QED BY <1>1, <1>3, <1>4, <2>1, WorkNoted
<1>7. Telling'
  BY <1>1, <1>3, TellingStays DEF Inv, Ranks
<1>6. CASE InitDatabase(c)
  <2>1. at[th] # "slaveof" /\ role' = role
    BY <1>6 DEF InitDatabase, serverVars
  <2>2. \A g \in Redis : Ruled(g)'
    BY <1>1, <1>3, <1>4, <2>1, RuledSame DEF Inv, Ranks
  <2> QED BY <1>4, <1>5, <1>7, <2>2 DEF Ranks
<1>8. CASE SendSlaveof(c)
  <2>0. PICK h : h = frame[th].redis
    OBVIOUS
  <2>1. at[th] = "slaveof" /\ h = clients[c].redis /\ h \in Redis
    BY <1>1, <1>8, <2>0, WorkFrame DEF SendSlaveof, Inv, Ranks, Telling, OwnSteps
  <2>5. CASE ~Held
    <3>1. \A g \in Redis : Ruled(g)'
      BY <2>5 DEF Ruled
    <3> QED BY <1>4, <1>5, <1>7, <2>5, <3>1 DEF Ranks
  <2>6. SUFFICES ASSUME Held
                 PROVE  Ranks'
    BY <2>5
  <2>2. role' = IF clients[c].link = "open" /\ server[h] = "up"
                  THEN [role EXCEPT ![h] = IF isMaster[h] THEN "master" ELSE "slave"] ELSE role
    BY <1>8, <2>0, <2>6 DEF SendSlaveof, Reassign, Ranks
  <2>3. CASE clients[c].link = "open" /\ server[h] = "up"
    <3>1. role'[h] = IF isMaster'[h] THEN "master" ELSE "slave"
      BY <1>4, <2>1, <2>2, <2>3 DEF Inv, Types, DataOK
    <3>2. ASSUME NEW g \in Redis, g # h
          PROVE  Ruled(g)'
      <4>1. role'[g] = role[g]
        BY <2>2, <3>2 DEF Inv, Types, DataOK
      <4>2. \A d \in LiveClients(g) : d # c
        BY <2>1, <3>2 DEF LiveClients
      <4> QED BY <1>1, <1>3, <1>4, <3>2, <4>1, <4>2, RuledTold DEF Inv, Ranks
    <3>3. \A g \in Redis : Ruled(g)'
      BY <3>1, <3>2 DEF Ruled
    <3> QED BY <1>4, <1>5, <1>7, <3>3 DEF Ranks
  <2>4. CASE ~(clients[c].link = "open" /\ server[h] = "up")
    <3>1. role' = role
      BY <2>2, <2>4
    <3>2. c \in LiveClients(h) => Suspect(c) \/ Pending(c)
      BY <2>1, <2>4 DEF LiveClients, Alive, Suspect, Pending
    <3>3. ASSUME NEW g \in Redis
          PROVE  Ruled(g)'
      <4>1. \A d \in LiveClients(g) : d # c \/ Suspect(d) \/ Pending(d)
        BY <2>1, <3>2 DEF LiveClients
      <4> QED BY <1>1, <1>3, <1>4, <3>1, <4>1, RuledTold DEF Inv, Ranks
    <3> QED BY <1>4, <1>5, <1>7, <3>3 DEF Ranks
  <2> QED BY <2>3, <2>4
<1> QED BY <1>6, <1>8

\* A step that leaves the table, the flags, the clients and all of a redisDown.
LEMMA QuietRanks ==
  ASSUME Inv, Ranks, Evolves, NEW th \in Threads, Only(th),
         at[th] \notin OwnSteps \cup CriticalSteps, at'[th] \notin OwnSteps \cup CriticalSteps,
         UNCHANGED <<isMaster, table, maps, role, server, clients>>, vip => vip'
  PROVE  Ranks'
<1>1. /\ at[th] # "slaveof" /\ at'[th] \notin {"slaveof", "declare"} /\ at[th] \notin PromotingSteps
      /\ at'[th] \notin CriticalSteps
  BY DEF OwnSteps, CriticalSteps, PromotingSteps
<1>2. Noted'
  <2>1. \A c \in DOMAIN clients' : Suspect(c)' => c \in DOMAIN clients /\ Suspect(c)
    BY DEF Suspect
  <2> QED BY <1>1, <2>1, NotedSame DEF Inv, Ranks
<1>3. \A g \in Redis : Ruled(g)'
  BY <1>1, RuledSame DEF Inv, Ranks
<1>4. Telling'
  BY <1>1, TellingStays DEF Inv, Ranks
<1> QED BY <1>2, <1>3, <1>4 DEF Ranks

LEMMA SelectRanks ==
  ASSUME Inv, Ranks, Evolves, NEW th \in Selectors, NEW n \in Databases, Select(th, n)
  PROVE  Ranks'
<1>1. PICK f : Goto(th, "call", f)
  BY DEF Select
<1>2. th \in Threads /\ Only(th) /\ at'[th] = "call" /\ at[th] = "idle"
  BY <1>1, ThreadKinds, GotoOnly DEF Inv, Select
<1>3. UNCHANGED <<isMaster, table, maps, role, server, clients, vip>>
  BY DEF Select, routeVars, serverVars, nodeVars
<1>4. at[th] \notin OwnSteps \cup CriticalSteps /\ at'[th] \notin OwnSteps \cup CriticalSteps
  BY <1>2 DEF OwnSteps, CriticalSteps
<1> QED BY <1>2, <1>3, <1>4, QuietRanks

LEMMA HeartRanks ==
  ASSUME Inv, Ranks, Evolves, RemoteUp \/ Reconnect \/ ClearReconnect
  PROVE  Ranks'
<1>1. PICK s \in {"idle", "new", "clear", "reconnect"} : \E f : Goto(Heart, s, f)
  BY DEF RemoteUp, Reconnect, ClearReconnect, Return
<1>2. /\ Heart \in Threads /\ Only(Heart) /\ at'[Heart] = s
      /\ at[Heart] \in {"idle", "reconnect", "clear"}
  BY <1>1, ThreadKinds, GotoOnly DEF Inv, RemoteUp, Reconnect, ClearReconnect
<1>3. UNCHANGED <<isMaster, table, maps, role, server, clients, vip>>
  BY DEF RemoteUp, Reconnect, ClearReconnect, routeVars, serverVars, nodeVars
<1>4. at[Heart] \notin OwnSteps \cup CriticalSteps /\ at'[Heart] \notin OwnSteps \cup CriticalSteps
  BY <1>2 DEF OwnSteps, CriticalSteps
<1> QED BY <1>2, <1>3, <1>4, QuietRanks

\* Nothing that Ranks is about changes.
LEMMA SameRanks ==
  ASSUME Inv, Ranks, Evolves,
         UNCHANGED <<at, frame, isMaster, table, maps, role, server, clients>>, vip => vip'
  PROVE  Ranks'
<1>1. Heart \in Threads
  BY ThreadKinds
<1>2. Only(Heart)
  BY DEF Only
<1>3. at[Heart] \notin OwnSteps \cup CriticalSteps
  BY <1>1, StepSets DEF Inv, Types
<1> QED BY <1>1, <1>2, <1>3, QuietRanks

LEMMA ConnectFailedRanks ==
  ASSUME Inv, Ranks, Evolves, NEW c \in DOMAIN clients, ConnectFailed(c)
  PROVE  Ranks'
<1> DEFINE new == [clients EXCEPT ![c].link = "failed"]
<1>1. /\ new[c].redis = clients[c].redis /\ new[c].db = clients[c].db
      /\ new[c].link = "failed" /\ new[c].connected = clients[c].connected
      /\ DOMAIN new = DOMAIN clients
      /\ \A d \in DOMAIN clients : d # c => new[d] = clients[d]
  <2>1. DataOK /\ "failed" \in Links
    BY DEF Inv, Types, Links
  <2> QED BY <2>1, LinkOnly
<1>2. /\ clients' = new /\ clients[c].link = "connecting"
      /\ UNCHANGED <<at, frame, isMaster, table, maps, role, server, vip>>
  BY DEF ConnectFailed, routeVars, serverVars, nodeVars, threadVars
<1> HIDE DEF new
<1>3. Heart \in Threads /\ Only(Heart) /\ at[Heart] # "slaveof"
  <2>1. Heart \in Threads
    BY ThreadKinds
  <2> QED BY <1>2, <2>1, StepSets DEF Only, Inv, Types, OwnSteps
<1>4. Suspect(c)' => Suspect(c)
  BY <1>1, <1>2 DEF Suspect
<1>5. ASSUME NEW d \in DOMAIN clients, NEW g \in Redis, d \in LiveClients(g)'
      PROVE  Excused(d)' \/ (d \in LiveClients(g) /\ ~Pending(d) /\ ~Suspect(d))
  BY <1>1, <1>2, <1>5 DEF LiveClients, Alive, Excused, Pending, Suspect
<1>6. \A g \in Redis : Ruled(g)'
  <2>1. \A g : \A d \in LiveClients(g)' : d \in DOMAIN clients
    BY <1>1, <1>2 DEF LiveClients
  <2> QED BY <1>2, <1>3, <1>5, <2>1, RuledStep DEF Inv, Ranks
<1>7. Noted'
  <2>1. \A d \in DOMAIN clients' : Suspect(d)' => d \in DOMAIN clients /\ Suspect(d)
    BY <1>1, <1>2, <1>4 DEF Suspect
  <2> QED BY <1>1, <1>2, <1>3, <2>1, NotedSame DEF Inv, Ranks
<1> QED BY <1>2, <1>3, <1>6, <1>7, TellingStays DEF Inv, Ranks

LEMMA ConnectedRanks ==
  ASSUME Inv, Ranks, Evolves, NEW c \in DOMAIN clients, Connected(c)
  PROVE  Ranks'
<1> DEFINE th == Loop(c)
           new == [clients EXCEPT ![c].link = "open", ![c].connected = TRUE]
<1>1. /\ th \in Threads /\ clients[c].redis \in Redis /\ at[th] = "idle" /\ c \in Clients
  BY LoopThreads DEF Inv, Connected
<1>2. /\ new[c].redis = clients[c].redis /\ new[c].db = clients[c].db
      /\ new[c].link = "open" /\ new[c].connected
      /\ DOMAIN new = DOMAIN clients
      /\ \A d \in DOMAIN clients : d # c => new[d] = clients[d]
  BY LinkOpened DEF Inv, Types
<1>3. /\ clients' = new /\ clients[c].link = "connecting" /\ server[clients[c].redis] = "up"
      /\ UNCHANGED <<isMaster, table, maps, role, server, vip>>
  BY DEF Connected, routeVars, serverVars, nodeVars
<1> HIDE DEF new
<1>4. /\ Only(th)
      /\ \/ at'[th] = at[th] /\ frame'[th] = frame[th] /\ clients[c].db # 0
         \/ /\ at'[th] = "slaveof" /\ frame'[th] = [NoFrame EXCEPT !.redis = clients[c].redis]
            /\ clients[c].db = 0
  <2>1. CASE clients[c].db = 0
    BY <1>1, <2>1, GotoOnly DEF Connected, Inv
  <2>2. CASE clients[c].db # 0
    BY <2>2 DEF Connected, Only
  <2> QED BY <2>1, <2>2
<1>5. \A d \in DOMAIN clients' : Suspect(d)' => d \in DOMAIN clients /\ Suspect(d)
  BY <1>2, <1>3 DEF Suspect
<1>6. Noted'
  <2>1. (at'[th] = at[th] /\ frame'[th] = frame[th]) \/ at'[th] \notin CriticalSteps
    BY <1>4 DEF CriticalSteps
  <2>2. \A d \in DOMAIN clients : clients[d].connected => clients'[d].connected
    BY <1>2, <1>3
  <2> QED BY <1>1, <1>3, <1>4, <1>5, <2>1, <2>2, NotedSame DEF Inv, Ranks
<1>7. ASSUME NEW g \in Redis
      PROVE  Ruled(g)'
  <2>1. ASSUME NEW d \in LiveClients(g)'
        PROVE  Excused(d)' \/ (d \in LiveClients(g) /\ ~Pending(d) /\ ~Suspect(d))
    <3>1. d \in DOMAIN clients /\ clients'[d].redis = g /\ Alive(d)'
      BY <1>2, <1>3 DEF LiveClients
    <3>2. CASE d = c
      <4>1. clients[c].db = 0
        BY <1>2, <1>3, <3>1, <3>2 DEF Alive
      <4> QED BY <1>4, <3>2, <4>1 DEF Excused
    <3>3. CASE d # c
      <4>1. clients'[d] = clients[d]
        BY <1>2, <1>3, <3>1, <3>3
      <4> QED BY <1>3, <3>1, <4>1 DEF LiveClients, Alive, Excused, Pending, Suspect
    <3> QED BY <3>2, <3>3
  <2> QED BY <1>1, <1>3, <1>4, <2>1, RuledStep DEF Inv, Ranks, PromotingSteps
<1>8. Telling'
  <2>1. ASSUME NEW d \in Clients
        PROVE  /\ at'[Loop(d)] = "slaveof" =>
                    d \in DOMAIN clients' /\ frame'[Loop(d)].redis = clients'[d].redis
               /\ at'[Timer(d)] = "declare" =>
                    d \in DOMAIN clients' /\ frame'[Timer(d)].redis = clients'[d].redis
    <3>0. DOMAIN clients' = DOMAIN clients /\ \A e \in DOMAIN clients : clients'[e].redis = clients[e].redis
      BY <1>2, <1>3 DEF Evolves
    <3>1. ASSUME NEW t \in Threads, t # th
          PROVE  at'[t] = at[t] /\ frame'[t] = frame[t]
      BY <1>4, <3>1 DEF Only
    <3>2. Timer(d) \in Threads /\ Timer(d) # th /\ Loop(d) \in Threads
      BY <1>1, ThreadKinds
    <3>3. CASE d = c
      <4>1. at'[th] = "slaveof" => frame'[th].redis = clients[c].redis
        BY <1>1, <1>4, NewFrames
      <4> QED BY <3>0, <3>1, <3>2, <3>3, <4>1 DEF Ranks, Telling
    <3>4. CASE d # c
      <4>1. Loop(d) # th
        BY <3>4 DEF Loop
      <4> QED BY <3>0, <3>1, <3>2, <4>1 DEF Ranks, Telling
    <3> QED BY <3>3, <3>4
  <2> QED BY <2>1 DEF Telling
<1> QED BY <1>3, <1>6, <1>7, <1>8 DEF Ranks

-----------------------------------------------------------------------------
(* The failures keep it, and a Redis that comes back.                         *)

LEMMA FailureRanks ==
  ASSUME Calm, Inv, Ranks, Types', Evolves,
         \/ \E h \in Redis : Crash(h) \/ Hang(h)
         \/ \E c \in DOMAIN clients : LinkBreaks(c)
  PROVE  Ranks'
<1>1. Healthy /\ UNCHANGED <<at, frame, isMaster, table, maps, role, vip>>
  BY DEF Crash, Hang, LinkBreaks, Fails, threadVars, routeVars, nodeVars, serverVars
<1> DEFINE Broken ==
             /\ DOMAIN clients' = DOMAIN clients
             /\ \A c \in DOMAIN clients :
                  /\ clients'[c].connected = clients[c].connected
                  /\ clients'[c].link = clients[c].link \/ clients'[c].link = "broken"
<1>2. Broken
  <2>1. ASSUME NEW h \in Redis, Crash(h)
        PROVE  Broken
    BY <2>1, UnlinkedType DEF Crash, Inv, Types
  <2>2. ASSUME NEW h \in Redis, Hang(h)
        PROVE  Broken
    BY <2>2 DEF Hang
  <2>3. ASSUME NEW c \in DOMAIN clients, LinkBreaks(c)
        PROVE  Broken
    <3>1. DataOK /\ "broken" \in Links
      BY DEF Inv, Types, Links
    <3> DEFINE new == [clients EXCEPT ![c].link = "broken"]
    <3>2. /\ new[c].link = "broken" /\ new[c].connected = clients[c].connected
          /\ DOMAIN new = DOMAIN clients
          /\ \A d \in DOMAIN clients : d # c => new[d] = clients[d]
      BY <3>1, LinkOnly
    <3>3. clients' = new
      BY <2>3 DEF LinkBreaks
    <3> QED BY <3>2, <3>3
  <2> QED BY <2>1, <2>2, <2>3
<1>3. \A g \in Redis : server'[g] = server[g] \/ server'[g] # "up"
  BY DEF Crash, Hang, LinkBreaks, serverVars, Inv, Types, DataOK
<1>4. \A t \in Threads : at'[t] = "idle"
  BY <1>1 DEF Healthy, Settled
<1>5. ASSUME NEW g \in Redis
      PROVE  Reached(g)'
  <2> DEFINE c == Lookup(isMaster[g], 0)
  <2>1. c \in DOMAIN clients /\ clients[c].redis = g /\ clients[c].connected
    BY <1>1, SettledFacts DEF Healthy
  <2>2. c # 0
    BY <2>1, Domains DEF Inv, Types
  <2>3. c' = c
    BY <1>1 DEF Lookup
  <2>4. clients'[c].connected /\ clients'[c].redis = g
    BY <1>2, <2>1 DEF Evolves
  <2> HIDE DEF c
  <2>5. c' # 0 /\ clients'[c'].connected /\ clients'[c'].redis = g
    BY <2>2, <2>3, <2>4
  <2> QED BY <2>5 DEF Reached, c
<1>6. Noted'
  <2>1. ASSUME NEW c \in DOMAIN clients'
        PROVE  Reached(Peer(clients[c].redis))'
    <3>1. clients'[c].redis \in Redis
      BY <1>2, Domains DEF Inv, Types, ClientType, Evolves
    <3> QED BY <1>5, <3>1, Constants
  <2>2. \A t \in Threads : Takeover(t)'
    BY <1>4 DEF Takeover, PromotingSteps
  <2> QED BY <2>1, <2>2 DEF Noted
<1>7. ASSUME NEW g \in Redis
      PROVE  Ruled(g)'
  <2>1. Heart \in Threads /\ Only(Heart) /\ at[Heart] # "slaveof" /\ at[Heart] \notin PromotingSteps
    BY <1>1, <1>4, ThreadKinds DEF Only, PromotingSteps
  <2>2. \A c \in LiveClients(g)' :
          Excused(c)' \/ (c \in LiveClients(g) /\ ~Pending(c) /\ ~Suspect(c))
    <3>1. \A c \in DOMAIN clients : clients'[c].redis = clients[c].redis /\ clients'[c].db = clients[c].db
      BY DEF Evolves
    <3>2. \A c \in DOMAIN clients : clients[c].redis \in Redis
      BY Domains DEF Inv, Types, ClientType
    <3>3. \A c \in DOMAIN clients : ~Suspect(c) /\ ~Pending(c)
      BY <1>1, SettledFacts DEF Healthy
    <3> QED BY <1>2, <3>1, <3>2, <3>3 DEF LiveClients, Alive
  <2> QED BY <1>1, <2>1, <2>2, RuledStep DEF Inv, Ranks
<1>8. Telling'
  BY <1>4, ThreadKinds DEF Telling
<1> QED BY <1>1, <1>6, <1>7, <1>8 DEF Ranks

LEMMA RemoteRanks ==
  ASSUME Inv, Ranks, Types', Evolves, RemoteRestarts \/ RemoteDown
  PROVE  Ranks'
<1>1. CASE RemoteRestarts
  <2>1. /\ Remote \in Redis /\ Reboot(Remote) /\ server[Remote] # "up"
        /\ UNCHANGED <<at, frame, isMaster, table, maps, vip>>
    BY <1>1, Constants DEF RemoteRestarts, threadVars, routeVars, nodeVars
  <2>2. /\ Heart \in Threads /\ Only(Heart) /\ at[Heart] # "slaveof"
        /\ at[Heart] \notin PromotingSteps
    <3>1. Heart \in Threads
      BY ThreadKinds
    <3> QED BY <2>1, <3>1, StepSets
            DEF Only, Inv, Types, OwnSteps, CriticalSteps, PromotingSteps
  <2>3. \A g \in Redis : Ruled(g)'
    BY <2>1, <2>2, RuledRebooted DEF Inv, Ranks
  <2>4. Quieter
    <3>1. \A c \in DOMAIN clients :
            clients[c].redis = Remote /\ clients[c].db = 0 /\ clients[c].connected => Suspect(c)
      BY <2>1 DEF Suspect
    <3> QED BY <2>1, <3>1, Rebooted DEF Inv
  <2>5. Noted'
    <3>1. \A c \in DOMAIN clients : clients'[c].connected = clients[c].connected
      BY <2>1, UnlinkedType DEF Reboot, Inv, Types
    <3>2. \A g \in Redis : server[g] = "up" => server'[g] = "up" /\ role'[g] = role[g]
      BY <2>1 DEF Reboot, Inv, Types, DataOK
    <3> QED BY <2>1, <2>2, <2>4, <3>1, <3>2, NotedSame DEF Inv, Ranks, Quieter
  <2>6. Telling'
    BY <2>1, <2>2, TellingStays DEF Inv, Ranks
  <2> QED BY <2>1, <2>3, <2>5, <2>6 DEF Ranks
<1>2. CASE RemoteDown
  <2>1. UNCHANGED <<at, frame, isMaster, table, maps, role, server, clients>> /\ vip'
    BY <1>2 DEF RemoteDown, threadVars, routeVars, serverVars
  <2> QED BY <2>1, SameRanks
<1> QED BY <1>1, <1>2

-----------------------------------------------------------------------------
(* A Redis is reported.                                                       *)

LEMMA ChannelInactiveRanks ==
  ASSUME Inv, Inv', Ranks, Evolves, NEW c \in DOMAIN clients, ChannelInactive(c)
  PROVE  Ranks'
<1> DEFINE th == Loop(c)
<1>0. PICK h : h = clients[c].redis
  OBVIOUS
<1>1. /\ th \in Threads /\ h \in Redis /\ at[th] = "idle" /\ c \in Clients
      /\ clients[c].link = "broken"
      /\ UNCHANGED <<isMaster, table, maps, role, server, vip>>
  BY <1>0, LoopThreads DEF Inv, ChannelInactive, routeVars, serverVars, nodeVars
<1>2. CASE clients[c].db = 0 /\ clients[c].connected
  <2> DEFINE new == [clients EXCEPT ![c].link = "closed", ![c].connected = FALSE]
  <2>1. /\ new[c].link = "closed" /\ ~new[c].connected
        /\ DOMAIN new = DOMAIN clients
        /\ \A d \in DOMAIN clients : d # c => new[d] = clients[d]
    BY LinkClosed DEF Inv, Types
  <2>2. clients' = new /\ Goto(th, "remove", [NoFrame EXCEPT !.redis = h])
    BY <1>0, <1>2 DEF ChannelInactive
  <2> HIDE DEF new
  <2>3. /\ Only(th) /\ at'[th] = "remove" /\ frame'[th].redis = h
    <3> DEFINE f == [NoFrame EXCEPT !.redis = h]
    <3>1. f.redis = h /\ Goto(th, "remove", f)
      BY <1>1, <2>2, NewFrames
    <3> HIDE DEF f, th
    <3> QED BY <1>1, <3>1, GotoOnly DEF Inv
  <2>4. PICK g \in Redis : g = Peer(h) /\ g # h
    BY <1>1, Constants
  <2>5. Reached(g) /\ Lookup(isMaster[g], 0) \in DOMAIN clients
    <3>1. Suspect(c)
      BY <1>1, <1>2 DEF Suspect
    <3>2. Reached(g)
      BY <1>0, <2>4, <3>1 DEF Ranks, Noted
    <3> QED BY <2>4, <3>2, ReachedClient DEF Inv
  <2>6. Reached(g)'
    <3>1. Lookup(isMaster[g], 0)' = Lookup(isMaster[g], 0)
      BY <1>1 DEF Lookup
    <3>2. Lookup(isMaster[g], 0) # c
      BY <1>0, <2>4, <2>5 DEF Reached
    <3> QED BY <2>1, <2>2, <2>5, <3>1, <3>2 DEF Reached
  <2>7. Takeover(th)'
    BY <2>3, <2>4, <2>6 DEF Takeover, PromotingSteps
  <2>8. Noted'
    BY <1>1, <2>3, <2>7, ReportsNoted DEF CriticalSteps
  <2>9. ASSUME NEW e \in Redis
        PROVE  Ruled(e)'
    <3>1. \A d \in LiveClients(e)' :
            Excused(d)' \/ (d \in LiveClients(e) /\ ~Pending(d) /\ ~Suspect(d))
      BY <1>1, <2>1, <2>2 DEF LiveClients, Alive, Excused, Pending, Suspect
    <3> QED BY <1>1, <2>3, <3>1, RuledStep DEF Inv, Ranks, PromotingSteps
  <2>10. Telling'
    BY <1>1, <2>3, TellingStays DEF Inv, Ranks
  <2> QED BY <1>1, <2>8, <2>9, <2>10 DEF Ranks
<1>3. CASE ~(clients[c].db = 0 /\ clients[c].connected)
  <2> DEFINE new == [clients EXCEPT ![c].link = "closed"]
  <2>1. /\ new[c].redis = clients[c].redis /\ new[c].db = clients[c].db
        /\ new[c].link = "closed" /\ new[c].connected = clients[c].connected
        /\ DOMAIN new = DOMAIN clients
        /\ \A d \in DOMAIN clients : d # c => new[d] = clients[d]
    <3>1. DataOK /\ "closed" \in Links
      BY DEF Inv, Types, Links
    <3> QED BY <3>1, LinkOnly
  <2>2. clients' = new /\ UNCHANGED <<at, frame>>
    BY <1>3 DEF ChannelInactive
  <2> HIDE DEF new
  <2>3. Only(th) /\ at'[th] = at[th] /\ frame'[th] = frame[th]
    BY <2>2 DEF Only
  <2>4. \A d \in DOMAIN clients' : Suspect(d)' => d \in DOMAIN clients /\ Suspect(d)
    BY <1>1, <1>3, <2>1, <2>2 DEF Suspect
  <2>5. Noted'
    BY <1>1, <2>1, <2>2, <2>3, <2>4, NotedSame DEF Inv, Ranks
  <2>6. ASSUME NEW e \in Redis
        PROVE  Ruled(e)'
    <3>1. \A d \in LiveClients(e)' :
            Excused(d)' \/ (d \in LiveClients(e) /\ ~Pending(d) /\ ~Suspect(d))
      BY <1>1, <1>3, <2>1, <2>2 DEF LiveClients, Alive, Excused, Pending, Suspect
    <3> QED BY <1>1, <2>3, <3>1, RuledStep DEF Inv, Ranks, PromotingSteps
  <2>7. Telling'
    BY <1>1, <2>3, TellingStays DEF Inv, Ranks
  <2> QED BY <1>1, <2>5, <2>6, <2>7 DEF Ranks
<1> QED BY <1>2, <1>3

LEMMA TimerLateRanks ==
  ASSUME Inv, Inv', Ranks, Evolves, NEW c \in DOMAIN clients, TimerLate(c)
  PROVE  Ranks'
<1> DEFINE th == Timer(c)
<1>0. PICK h : h = clients[c].redis
  OBVIOUS
<1>1. /\ th \in Threads /\ h \in Redis /\ at[th] = "idle" /\ c \in Clients
      /\ UNCHANGED <<isMaster, table, maps, role, server, clients, vip>>
      /\ Goto(th, "declare", [NoFrame EXCEPT !.redis = h])
  BY <1>0, LoopThreads DEF Inv, TimerLate, routeVars, serverVars, nodeVars
<1>2. Only(th) /\ at'[th] = "declare" /\ frame'[th].redis = h
  <2> DEFINE f == [NoFrame EXCEPT !.redis = h]
  <2>1. f.redis = h /\ Goto(th, "declare", f)
    BY <1>1, NewFrames
  <2> HIDE DEF f, th
  <2> QED BY <1>1, <2>1, GotoOnly DEF Inv
<1>3. PICK g \in Redis : g = Peer(h)
  BY <1>1, Constants
<1>4. Reached(g)'
  <2>1. Suspect(c)
    BY DEF TimerLate, Suspect
  <2>2. Reached(g)
    BY <1>0, <1>3, <2>1 DEF Ranks, Noted
  <2> QED BY <1>1, <2>2 DEF Reached, Lookup
<1>5. Takeover(th)'
  BY <1>2, <1>3, <1>4 DEF Takeover, PromotingSteps
<1>6. Noted'
  BY <1>1, <1>2, <1>5, ReportsNoted DEF CriticalSteps
<1>7. \A e \in Redis : Ruled(e)'
  BY <1>1, <1>2, RuledSame DEF Inv, Ranks, PromotingSteps
<1>8. Telling'
  <2>1. \A d \in Clients : /\ Loop(d) \in Threads /\ Loop(d) # th /\ Timer(d) \in Threads
                           /\ d # c => Timer(d) # th
    BY <1>1, ThreadKinds DEF Timer
  <2> QED BY <1>0, <1>1, <1>2, <2>1 DEF Telling, Only, Ranks
<1> QED BY <1>1, <1>6, <1>7, <1>8 DEF Ranks

LEMMA TimerDeclareRanks ==
  ASSUME Inv, Inv', Ranks, Evolves, NEW c \in DOMAIN clients, TimerDeclare(c)
  PROVE  Ranks'
<1> DEFINE th == Timer(c)
           new == [clients EXCEPT ![c].connected = FALSE]
<1>0. PICK h : h = frame[th].redis
  OBVIOUS
<1>1. /\ th \in Threads /\ at[th] = "declare" /\ c \in Clients
  BY LoopThreads DEF Inv, TimerDeclare
<1>2. h \in Redis /\ h = clients[c].redis
  BY <1>0, <1>1, WorkFrame DEF Inv, CriticalSteps, Ranks, Telling
<1>3. /\ new[c].link = clients[c].link /\ new[c].db = clients[c].db /\ ~new[c].connected
      /\ DOMAIN new = DOMAIN clients
      /\ \A d \in DOMAIN clients : d # c => new[d] = clients[d]
  BY FlagOnly DEF Inv, Types
<1>4. /\ clients' = new /\ Goto(th, "remove", frame[th])
      /\ UNCHANGED <<isMaster, table, maps, role, server, vip>>
  BY DEF TimerDeclare, routeVars, serverVars, nodeVars
<1> HIDE DEF new
<1>5. Only(th) /\ at'[th] = "remove" /\ frame'[th].redis = h
  BY <1>0, <1>1, <1>4, GotoOnly DEF Inv
<1>6. PICK g \in Redis : g = Peer(h) /\ g # h
  BY <1>2, Constants
<1>7. Reached(g)'
  <2>1. Reached(g) /\ Lookup(isMaster[g], 0) \in DOMAIN clients
    BY <1>0, <1>1, <1>6, ReachedClient DEF Inv, Ranks, Noted, Takeover
  <2>2. Lookup(isMaster[g], 0)' = Lookup(isMaster[g], 0)
    BY <1>4 DEF Lookup
  <2>3. Lookup(isMaster[g], 0) # c
    BY <1>2, <1>6, <2>1 DEF Reached
  <2> QED BY <1>3, <1>4, <2>1, <2>2, <2>3 DEF Reached
<1>8. Takeover(th)'
  BY <1>5, <1>6, <1>7 DEF Takeover, PromotingSteps
<1>9. Noted'
  BY <1>1, <1>5, <1>8, ReportsNoted DEF CriticalSteps
<1>10. ASSUME NEW e \in Redis
       PROVE  Ruled(e)'
  <2>1. \A d \in LiveClients(e)' :
          Excused(d)' \/ (d \in LiveClients(e) /\ ~Pending(d) /\ ~Suspect(d))
    BY <1>3, <1>4 DEF LiveClients, Alive, Excused, Pending, Suspect
  <2> QED BY <1>1, <1>4, <1>5, <2>1, RuledStep DEF Inv, Ranks, PromotingSteps
<1>11. Telling'
  BY <1>1, <1>5, TellingStays DEF Inv, Ranks
<1> QED BY <1>4, <1>9, <1>10, <1>11 DEF Ranks

-----------------------------------------------------------------------------
(* redisDown keeps it.                                                        *)

\* While it reports h, a connected client of database 0 of the other Redis works.
LEMMA OtherWorks ==
  ASSUME Inv, NEW h \in Redis, NEW th \in Threads, Reporting(h, th),
         NEW d \in DOMAIN clients, clients[d].redis = Peer(h), clients[d].db = 0,
         clients[d].connected
  PROVE  /\ clients[d].link = "open" /\ server[Peer(h)] = "up"
         /\ d \in LiveClients(Peer(h)) /\ ~Excused(d)
<1>1. Peer(h) # h
  BY Constants
<1>2. ~Suspect(d) /\ ~Pending(d)
  BY <1>1 DEF Reporting, Calmed
<1>3. at[Loop(d)] # "slaveof"
  <2>1. Loop(d) \in Threads /\ Loop(d) # Heart
    <3>1. d \in Clients
      BY Domains DEF Inv, Types
    <3> QED BY <3>1, ThreadKinds
  <2> QED BY <2>1 DEF Reporting, AtRest, CriticalSteps
<1> QED BY <1>2, <1>3 DEF Suspect, LiveClients, Alive, Excused

\* ... and if it is in the table, its Redis is what its flag says.
LEMMA ReachedWorks ==
  ASSUME Inv, Ranks, NEW h \in Redis, NEW th \in Threads, Reporting(h, th),
         at[th] \in {"remove", "removeSlave"}
  PROVE  LET g == Peer(h)
             m == table[isMaster[g]] IN
         /\ m # 0 /\ maps[m][0] # 0 /\ clients[maps[m][0]].connected
         /\ server[g] = "up"
         /\ Held => role[g] = IF isMaster[g] THEN "master" ELSE "slave"
<1> DEFINE g == Peer(h)
           m == table[isMaster[g]]
           d == Lookup(isMaster[g], 0)
<1>1. g \in Redis /\ g # h /\ Peer(g) = h /\ frame[th].redis = h
  BY Constants DEF Peer, Redis, Reporting
<1>2. Reached(g) /\ d \in DOMAIN clients
  BY <1>1, ReachedClient DEF Inv, Ranks, Noted, Takeover
<1>3. m # 0 /\ d = maps[m][0] /\ d # 0 /\ clients[d].connected
  BY <1>2 DEF Reached, Lookup
<1>4. clients[d].redis = g /\ clients[d].db = 0
  <2>1. Owned(m, g)
    BY <1>1, <1>3 DEF Reporting, Shape, Right
  <2> QED BY <1>3, <2>1, Constants DEF Owned
<1>5. server[g] = "up" /\ d \in LiveClients(g) /\ ~Excused(d)
  BY <1>2, <1>3, <1>4, OtherWorks
<1>6. ~Promoted(g)
  BY <1>1 DEF Promoted, Reporting, AtRest, PromotingSteps
<1>7. Held => role[g] = IF isMaster[g] THEN "master" ELSE "slave"
  BY <1>1, <1>5, <1>6 DEF Ranks, Ruled
<1> QED BY <1>3, <1>5, <1>7

LEMMA RemoveDownRanks ==
  ASSUME Inv, Inv', Ranks, Evolves, NEW th \in Threads, RemoveDown(th)
  PROVE  Ranks'
<1>0. PICK h : h = frame[th].redis
  OBVIOUS
<1>1. /\ at[th] = "remove" /\ at[th] \in CriticalSteps
      /\ UNCHANGED <<isMaster, maps, clients, role, server, vip>>
      /\ table' = [table EXCEPT ![isMaster[h]] = 0]
  BY <1>0 DEF RemoveDown, CriticalSteps, serverVars, nodeVars
<1>2. /\ h \in Redis /\ Reporting(h, th) /\ frame[th] \in FrameType
      /\ isMaster \in [Redis -> BOOLEAN] /\ table \in [BOOLEAN -> 0 .. Len(maps)]
      /\ (isMaster[Local] # isMaster[Remote]) <=> (isMaster[h] # isMaster[Peer(h)])
  BY <1>0, <1>1, DownFacts
<1>3. PICK g \in Redis : g = Peer(h)
  BY <1>2, Constants
<1>4. PICK s \in {"idle", "removeSlave"} : \E f : Goto(th, s, f)
  BY DEF RemoveDown, Return
<1>5. Only(th) /\ at'[th] = s
  BY <1>4, GotoOnly DEF Inv
<1>6. \A e \in Redis : Ruled(e)'
  BY <1>1, <1>5, RuledSame DEF Inv, Ranks, PromotingSteps
<1>7. Telling'
  BY <1>5, TellingStays DEF Inv, Ranks
<1>8. CASE s = "idle"
  <2>1. Noted'
    BY <1>1, <1>5, <1>8, EndNoted DEF CriticalSteps
  <2> QED BY <1>1, <1>6, <1>7, <2>1 DEF Ranks
<1>9. CASE s = "removeSlave"
  <2>1. frame'[th].redis = h
    <3> DEFINE f == [frame[th] EXCEPT !.down = MapOf(h)]
    <3>1. f.redis = h
      BY <1>0, <1>2 DEF FrameType
    <3>2. MapOf(h) # 0
      BY <1>0, <1>5, <1>9, GotoOnly DEF RemoveDown, Return, Inv
    <3>3. Goto(th, "removeSlave", f)
      BY <1>0, <3>2 DEF RemoveDown
    <3> HIDE DEF f
    <3> QED BY <3>1, <3>3, GotoOnly DEF Inv
  <2>2. Reached(g)'
    <3>1. Reached(g)
      BY <1>0, <1>1, <1>3 DEF Ranks, Noted, Takeover
    <3>2. isMaster[h] # isMaster[g]
      BY <1>1, <1>2, <1>3 DEF Reporting, Shape, Right
    <3>3. table'[isMaster[g]] = table[isMaster[g]]
      BY <1>1, <1>2, <3>2
    <3> QED BY <1>1, <3>1, <3>3 DEF Reached, Lookup
  <2>3. Takeover(th)'
    BY <1>3, <1>5, <1>9, <2>1, <2>2 DEF Takeover, PromotingSteps
  <2>4. Noted'
    BY <1>5, <1>9, <2>3, ReportsNoted DEF CriticalSteps
  <2> QED BY <1>1, <1>6, <1>7, <2>4 DEF Ranks
<1> QED BY <1>8, <1>9

LEMMA RemoveSlaveRanks ==
  ASSUME Inv, Inv', Ranks, Evolves, NEW th \in Threads, RemoveSlave(th)
  PROVE  Ranks'
<1>0. PICK h : h = frame[th].redis
  OBVIOUS
<1>1. /\ at[th] = "removeSlave" /\ at[th] \in CriticalSteps
      /\ UNCHANGED <<isMaster, maps, clients, role, server, vip>>
  BY DEF RemoveSlave, CriticalSteps, serverVars, nodeVars
<1>2. /\ h \in Redis /\ Reporting(h, th) /\ frame[th] \in FrameType
      /\ isMaster \in [Redis -> BOOLEAN] /\ table \in [BOOLEAN -> 0 .. Len(maps)]
      /\ (isMaster[Local] # isMaster[Remote]) <=> (isMaster[h] # isMaster[Peer(h)])
  BY <1>0, <1>1, DownFacts
<1>3. PICK g \in Redis : g = Peer(h)
  BY <1>2, Constants
<1>4. PICK m : m = table[isMaster[g]]
  OBVIOUS
<1>5. isMaster[h] # isMaster[g] /\ isMaster[g] \in BOOLEAN /\ isMaster[h] \in BOOLEAN
  BY <1>1, <1>2, <1>3 DEF Reporting, Shape, Right
<1>6. /\ m # 0 /\ maps[m][0] # 0 /\ clients[maps[m][0]].connected
      /\ server[g] = "up" /\ (Held => role[g] = IF isMaster[g] THEN "master" ELSE "slave")
  BY <1>1, <1>2, <1>3, <1>4, ReachedWorks
<1>7. PICK s \in {"promote", "demote"} : \E f : Goto(th, s, f)
  BY DEF RemoveSlave
<1>8. Only(th) /\ at'[th] = s
  BY <1>7, GotoOnly DEF Inv
<1>9. \A e \in Redis : Ruled(e)'
  BY <1>1, <1>8, RuledSame DEF Inv, Ranks, PromotingSteps
<1>10. Telling'
  BY <1>8, TellingStays DEF Inv, Ranks
<1>11. Takeover(th)'
  <2>1. CASE isMaster[h]
    <3> DEFINE f == [frame[th] EXCEPT !.slaves = m]
    <3>1. f.redis = h /\ f.slaves = m
      BY <1>0, <1>2 DEF FrameType
    <3>2. m = table[FALSE]
      BY <1>4, <1>5, <2>1
    <3>3. Goto(th, "promote", f)
      BY <1>0, <1>6, <2>1, <3>2 DEF RemoveSlave
    <3> HIDE DEF f
    <3>4. at'[th] = "promote" /\ frame'[th].slaves = m
      BY <3>1, <3>3, GotoOnly DEF Inv
    <3> QED BY <1>1, <1>6, <3>4 DEF Takeover, PromotingSteps
  <2>2. CASE ~isMaster[h]
    <3>1. Goto(th, "demote", frame[th])
      BY <1>0, <2>2 DEF RemoveSlave
    <3>2. at'[th] = "demote" /\ frame'[th].redis = h
      BY <1>0, <3>1, GotoOnly DEF Inv
    <3>3. server'[g] = "up" /\ (Held => role'[g] = "master")
      BY <1>1, <1>5, <1>6, <2>2
    <3> QED BY <1>3, <3>2, <3>3 DEF Takeover
  <2> QED BY <2>1, <2>2
<1>12. Noted'
  BY <1>8, <1>11, ReportsNoted DEF CriticalSteps
<1> QED BY <1>1, <1>9, <1>10, <1>12 DEF Ranks

\* The slave that takes over has a channel, and is told.
LEMMA PromoteReaches ==
  ASSUME Inv, Ranks, NEW th \in Threads, Promote(th)
  PROVE  LET g == Peer(frame[th].redis) IN
         /\ server[g] = "up" /\ role' = [role EXCEPT ![g] = "master"]
         /\ Goto(th, "putMaster", frame[th])
<1>0. PICK h, g : h = frame[th].redis /\ g = Peer(h)
  OBVIOUS
<1>1. at[th] = "promote" /\ at[th] \in CriticalSteps
  BY DEF Promote, CriticalSteps
<1>2. h \in Redis /\ Reporting(h, th) /\ g \in Redis
  BY <1>0, <1>1, DownFacts
<1>3. PICK c : c = maps[frame[th].slaves][0]
  OBVIOUS
<1>4. c # 0 /\ clients[c].connected
  BY <1>1, <1>3 DEF Ranks, Noted, Takeover
<1>5. c \in DOMAIN clients /\ clients[c].redis = g /\ clients[c].db = 0
  <2>1. frame[th].slaves \in DOMAIN maps /\ Kept(th)
    BY <1>1, WorkFrame DEF Inv, Owners
  <2>2. Owned(frame[th].slaves, g)
    BY <1>0, <1>1, <2>1 DEF Kept
  <2>3. 0 \in Databases
    BY Constants
  <2>4. c \in DOMAIN clients
    BY <1>3, <1>4, <2>1, <2>3, MapEntries DEF Inv, Types
  <2> QED BY <1>3, <1>4, <2>2, <2>3, <2>4 DEF Owned
<1>6. clients[c].link = "open" /\ server[g] = "up"
  BY <1>0, <1>2, <1>4, <1>5, OtherWorks
<1> QED BY <1>0, <1>3, <1>4, <1>5, <1>6 DEF Promote, Reassign

LEMMA PromoteRanks ==
  ASSUME Inv, Inv', Ranks, Evolves, NEW th \in Threads, Promote(th) \/ PutMaster(th)
  PROVE  Ranks'
<1>0. PICK h : h = frame[th].redis
  OBVIOUS
<1>1. /\ at[th] \in {"promote", "putMaster"} /\ at[th] \in CriticalSteps
      /\ UNCHANGED <<isMaster, maps, clients, server, vip>>
  BY DEF Promote, PutMaster, CriticalSteps, serverVars, routeVars, nodeVars
<1>2. h \in Redis /\ Reporting(h, th)
  BY <1>0, <1>1, DownFacts
<1>3. PICK g \in Redis : g = Peer(h) /\ g # h /\ Peer(g) = h /\ \A e \in Redis : e = g \/ e = h
  BY <1>2, Constants DEF Redis, Peer
<1>4. CASE Promote(th)
  <2>2. at[th] = "promote"
    BY <1>4 DEF Promote
  <2>5. /\ server[g] = "up" /\ role' = [role EXCEPT ![g] = "master"]
        /\ Goto(th, "putMaster", frame[th])
    BY <1>0, <1>3, <1>4, PromoteReaches
  <2>6. Only(th) /\ at'[th] = "putMaster" /\ frame'[th].redis = h
    BY <1>0, <2>5, GotoOnly DEF Inv
  <2>7. role'[g] = "master" /\ role'[h] = role[h]
    BY <1>2, <1>3, <2>5 DEF Inv, Types, DataOK
  <2>8. Takeover(th)'
    BY <1>1, <1>3, <2>5, <2>6, <2>7 DEF Takeover
  <2>9. Noted'
    BY <2>6, <2>8, ReportsNoted DEF CriticalSteps
  <2>10. Ruled(g)'
    BY <1>3, <2>6 DEF Ruled, Promoted, PromotingSteps
  <2>11. Ruled(h)'
    BY <1>1, <1>2, <2>2, Reported DEF Ruled, LiveClients, Alive, Inv
  <2>12. Telling'
    BY <2>6, TellingStays DEF Inv, Ranks
  <2> QED BY <1>1, <1>3, <2>9, <2>10, <2>11, <2>12 DEF Ranks
<1>5. CASE PutMaster(th)
  <2>1. at[th] = "putMaster" /\ Goto(th, "demote", frame[th]) /\ role' = role
    BY <1>5 DEF PutMaster, serverVars
  <2>2. Only(th) /\ at'[th] = "demote" /\ frame'[th] = frame[th]
    BY <2>1, GotoOnly DEF Inv
  <2>3. Takeover(th)'
    <3>1. server[g] = "up" /\ (Held => role[g] = "master")
      BY <1>0, <1>3, <2>1 DEF Ranks, Noted, Takeover, PromotingSteps
    <3> QED BY <1>0, <1>1, <1>3, <2>1, <2>2, <3>1 DEF Takeover
  <2>4. Noted'
    BY <2>2, <2>3, ReportsNoted DEF CriticalSteps
  <2>5. \A e \in Redis : Ruled(e)'
    BY <1>1, <2>1, <2>2, RuledSame DEF Inv, Ranks, PromotingSteps
  <2>6. Telling'
    BY <2>2, TellingStays DEF Inv, Ranks
  <2> QED BY <1>1, <2>4, <2>5, <2>6 DEF Ranks
<1> QED BY <1>4, <1>5

LEMMA DemoteRanks ==
  ASSUME Inv, Inv', Ranks, Evolves, NEW th \in Threads, Demote(th) \/ PromotePeer(th)
  PROVE  Ranks'
<1>0. PICK h : h = frame[th].redis
  OBVIOUS
<1>1. /\ at[th] \in {"demote", "promotePeer"} /\ at[th] \in CriticalSteps
      /\ UNCHANGED <<table, maps, clients, server, role, vip>>
  BY DEF Demote, PromotePeer, CriticalSteps, serverVars, nodeVars
<1>2. h \in Redis /\ Reporting(h, th) /\ isMaster \in [Redis -> BOOLEAN]
  BY <1>0, <1>1, DownFacts
<1>3. PICK g \in Redis : g = Peer(h) /\ g # h /\ Peer(g) = h /\ \A e \in Redis : e = g \/ e = h
  BY <1>2, Constants DEF Redis, Peer
<1>4. server[g] = "up" /\ (Held => role[g] = "master")
  BY <1>0, <1>1, <1>3 DEF Ranks, Noted, Takeover, PromotingSteps
<1>5. Ruled(h)'
  BY <1>1, <1>2, Reported DEF Ruled, LiveClients, Alive, Inv
<1>6. CASE Demote(th)
  <2>1. Goto(th, "promotePeer", frame[th])
    BY <1>6 DEF Demote
  <2>2. Only(th) /\ at'[th] = "promotePeer" /\ frame'[th].redis = h
    BY <1>0, <2>1, GotoOnly DEF Inv
  <2>3. Takeover(th)'
    BY <1>1, <1>3, <1>4, <2>2 DEF Takeover
  <2>4. Noted'
    BY <2>2, <2>3, ReportsNoted DEF CriticalSteps
  <2>5. Ruled(g)'
    BY <1>3, <2>2 DEF Ruled, Promoted, PromotingSteps
  <2>6. Telling'
    BY <2>2, TellingStays DEF Inv, Ranks
  <2> QED BY <1>1, <1>3, <1>5, <2>4, <2>5, <2>6 DEF Ranks
<1>7. CASE PromotePeer(th)
  <2>1. isMaster' = [isMaster EXCEPT ![g] = TRUE] /\ Goto(th, "close", frame[th])
    BY <1>0, <1>3, <1>7 DEF PromotePeer
  <2>2. Only(th) /\ at'[th] = "close"
    BY <2>1, GotoOnly DEF Inv
  <2>3. Noted'
    BY <1>1, <2>2, EndNoted DEF CriticalSteps
  <2>4. Ruled(g)'
    BY <1>1, <1>2, <1>4, <2>1 DEF Ruled
  <2>5. Telling'
    BY <2>2, TellingStays DEF Inv, Ranks
  <2> QED BY <1>1, <1>3, <1>5, <2>3, <2>4, <2>5 DEF Ranks
<1> QED BY <1>6, <1>7

-----------------------------------------------------------------------------
LEMMA RanksInit ==
  ASSUME Init
  PROVE  Ranks
<1>1. DOMAIN clients = {} /\ \A th \in Threads : at[th] \in {"call", "idle"}
  BY DEF Init
<1>5. Held => vip
  BY DEF Init, Held
<1>2. \A g \in Redis : Ruled(g)
  BY <1>1 DEF Ruled, LiveClients
<1>3. Noted
  BY <1>1 DEF Noted, Takeover, PromotingSteps
<1>4. Telling
  BY <1>1, ThreadKinds DEF Telling
<1> QED BY <1>2, <1>3, <1>4, <1>5 DEF Ranks

LEMMA RanksStep ==
  ASSUME Calm, Inv, Ranks, [Next]_vars
  PROVE  Ranks'
<1>1. Types' /\ Evolves /\ Inv'
  BY TypesStep, InvStep DEF Inv
<1>2. ASSUME NEW th \in Threads, InitClient(th)
      PROVE  Ranks'
  BY <1>1, <1>2, CallRanks
<1>3. ASSUME NEW th \in Threads, RedisDown(th)
      PROVE  Ranks'
  BY <1>1, <1>3, RemoveDownRanks, RemoveSlaveRanks, PromoteRanks, DemoteRanks, LateRanks
     DEF RedisDown
<1>4. ASSUME NEW th \in Selectors, NEW n \in Databases, Select(th, n)
      PROVE  Ranks'
  BY <1>1, <1>4, SelectRanks
<1>5. ASSUME NEW c \in DOMAIN clients, LoopStep(c)
      PROVE  Ranks'
  BY <1>1, <1>5, ConnectedRanks, ConnectFailedRanks, SetUpRanks, ChannelInactiveRanks
     DEF LoopStep
<1>6. ASSUME NEW c \in DOMAIN clients, TimerStep(c) \/ LinkBreaks(c)
      PROVE  Ranks'
  BY <1>1, <1>6, TimerLateRanks, TimerDeclareRanks, FailureRanks DEF TimerStep
<1>7. CASE RemoteUp \/ Reconnect \/ ClearReconnect
  BY <1>1, <1>7, HeartRanks
<1>8. CASE RemoteRestarts \/ RemoteDown \/ \E h \in Redis : Crash(h) \/ Hang(h)
  BY <1>1, <1>8, RemoteRanks, FailureRanks
<1>9. CASE UNCHANGED vars
  <2>1. UNCHANGED <<at, frame, isMaster, table, maps, role, server, clients, vip>>
    BY <1>9 DEF vars, threadVars, routeVars, serverVars, nodeVars
  <2> QED BY <1>1, <2>1, SameRanks
<1> QED BY <1>2, <1>3, <1>4, <1>5, <1>6, <1>7, <1>8, <1>9 DEF Next

\* In a healthy slice every Redis is what its flag says.
LEMMA RanksSettled ==
  ASSUME Inv, Ranks, Held
  PROVE  OneMaster
<1> SUFFICES ASSUME Healthy, NEW n \in Databases, Route(TRUE, n) # 0
             PROVE  LET c == Route(TRUE, n) IN
                    role[clients[c].redis] = "master" /\ role[Peer(clients[c].redis)] = "slave"
  BY DEF OneMaster
<1>1. Settled /\ \A t \in Threads : at[t] = "idle"
  BY DEF Healthy, Settled
<1>2. ASSUME NEW g \in Redis
      PROVE  role[g] = IF isMaster[g] THEN "master" ELSE "slave"
  <2>1. PICK c : c = Lookup(isMaster[g], 0)
    OBVIOUS
  <2>2. c \in LiveClients(g) /\ c \in DOMAIN clients /\ ~Suspect(c) /\ ~Pending(c)
    BY <1>1, <2>1, SettledFacts
  <2>3. Loop(c) \in Threads
    <3>1. c \in Clients
      BY <2>2, Domains DEF Inv, Types
    <3> QED BY <3>1, ThreadKinds
  <2>4. ~Excused(c) /\ ~Promoted(g)
    BY <1>1, <2>2, <2>3 DEF Excused, Promoted, PromotingSteps
  <2> QED BY <2>2, <2>4 DEF Ranks, Ruled
<1>3. Right
  BY <1>1, SettledFacts
<1>4. PICK h \in Redis : isMaster[h] = TRUE /\ isMaster[Peer(h)] = FALSE /\ Peer(h) \in Redis
  BY <1>3, Constants DEF Right, Redis, Peer, Inv, Types, DataOK
<1>5. PICK c : c = Route(TRUE, n)
  OBVIOUS
<1>6. table[TRUE] # 0 /\ c # 0 /\ c = maps[table[TRUE]][n]
  BY <1>5 DEF Route, Lookup
<1>7. clients[c].redis = h
  <2>1. Owned(table[TRUE], h)
    BY <1>3, <1>4, <1>6 DEF Right
  <2> QED BY <1>6, <2>1 DEF Owned
<1> QED BY <1>2, <1>4, <1>5, <1>7

\* In a healthy slice of the proxy that holds the virtual IP, a write goes to a Redis
\* that is a master and the other one is its slave, after any number of failovers.
THEOREM MasterServes == ASSUME Calm, StartVip = {TRUE} PROVE Spec => []OneMaster
<1>1. Init => Inv /\ Ranks
  BY InvInit, RanksInit
<1>2. Inv /\ Ranks /\ [Next]_vars => Inv' /\ Ranks'
  BY InvStep, RanksStep
<1>3. Inv /\ Ranks => OneMaster
  BY RanksSettled DEF Held
<1> QED BY <1>1, <1>2, <1>3, PTL DEF Spec

-----------------------------------------------------------------------------
(* Writes reach a master, also while a failover goes on.                      *)

Up(g) == server[g] = "up" /\ role[g] = "master"

\* The client of database 0 of g has lost it, or a redisDown for g has begun and
\* has yet to change the table and the flags.
Failed(g) ==
  \/ \E c \in DOMAIN clients : Suspect(c) /\ clients[c].redis = g
  \/ \E th \in Threads : at[th] \in CriticalSteps /\ frame[th].redis = g

\* The map that has the writes has no link to g that could take one, unless g is
\* still the master, nor one that is about to be.
Severing(g) ==
  LET m == table[TRUE] IN
  /\ m # 0
  /\ \A n \in Databases : maps[m][n] # 0 =>
       /\ clients[maps[m][n]].link # "connecting"
       /\ clients[maps[m][n]].link = "open" /\ server[g] = "up" => role[g] = "master"

\* A Redis that has the flag is up and a master until it fails; until its redisDown
\* has changed the table no link takes a write to it once it came back as a slave;
\* it is restarted without the flag; and the one that takes its place has been told.
Written ==
  /\ \A g \in Redis : isMaster[g] /\ ~Failed(g) => Up(g)
  /\ \A g \in Redis : isMaster[g] /\ Failed(g) /\ ~Failing => Severing(g)
  /\ \A th \in Threads : at[th] \in LateSteps => ~isMaster[frame[th].redis]
  /\ \A th \in Threads : at[th] \in PromotingSteps => Up(Peer(frame[th].redis))

\* What a step has to keep of a Redis that has the flag after it.
MasterStays(g) ==
  \/ ~Failed(g)' /\ Up(g)'
  \/ Failed(g)' /\ (Failing' \/ Severing(g)')
  \/ /\ isMaster[g] /\ (Failed(g)' <=> Failed(g)) /\ (Up(g) => Up(g)')
     /\ Failed(g) /\ ~Failing' => ~Failing /\ (Severing(g) => Severing(g)')

LEMMA WrittenStep ==
  ASSUME Written, \A g \in Redis : isMaster'[g] => MasterStays(g),
         \A th \in Threads : at'[th] \in LateSteps => ~isMaster'[frame'[th].redis],
         \A th \in Threads : at'[th] \in PromotingSteps => Up(Peer(frame[th].redis))'
  PROVE  Written'
BY DEF Written, MasterStays

LEMMA FailedSame ==
  ASSUME NEW g, NEW th \in Threads, Only(th),
         \A c : c \in DOMAIN clients' /\ Suspect(c)' /\ clients'[c].redis = g => Failed(g),
         \A c : c \in DOMAIN clients /\ Suspect(c) /\ clients[c].redis = g => Failed(g)',
         at'[th] \in CriticalSteps /\ frame'[th].redis = g => Failed(g),
         at[th] \in CriticalSteps /\ frame[th].redis = g => Failed(g)'
  PROVE  Failed(g)' <=> Failed(g)
<1>1. ASSUME Failed(g)
      PROVE  Failed(g)'
  <2>1. ASSUME NEW t \in Threads, at[t] \in CriticalSteps, frame[t].redis = g
        PROVE  Failed(g)'
    BY <2>1 DEF Only, Failed
  <2> QED BY <1>1, <2>1 DEF Failed
<1>2. ASSUME Failed(g)'
      PROVE  Failed(g)
  <2>1. ASSUME NEW t \in Threads, at'[t] \in CriticalSteps, frame'[t].redis = g
        PROVE  Failed(g)
    BY <2>1 DEF Only, Failed
  <2> QED BY <1>2, <2>1 DEF Failed
<1> QED BY <1>1, <1>2

LEMMA SeveringStays ==
  ASSUME Types, NEW g, UNCHANGED <<table, maps>>,
         \A c \in DOMAIN clients :
           /\ clients'[c].link = "connecting" => clients[c].link = "connecting"
           /\ clients'[c].link = "open" => clients[c].link \in {"connecting", "open"},
         server'[g] = "up" => server[g] = "up", Up(g) => Up(g)', Severing(g)
  PROVE  Severing(g)'
<1> DEFINE m == table[TRUE]
<1>1. m \in DOMAIN maps
  <2>1. m # 0 /\ m \in 0 .. Len(maps)
    BY Domains DEF Types, Severing
  <2> HIDE DEF m
  <2> QED BY <2>1, Domains DEF Types
<1>2. ASSUME NEW n \in Databases, maps[m][n] # 0
      PROVE  /\ clients'[maps[m][n]].link # "connecting"
             /\ clients'[maps[m][n]].link = "open" /\ server'[g] = "up" => role'[g] = "master"
  <2>1. maps[m][n] \in DOMAIN clients
    BY <1>1, <1>2, MapEntries DEF Types
  <2> QED BY <1>2, <2>1 DEF Severing, Up
<1> QED BY <1>2 DEF Severing

\* A step of a thread that is not in redisDown, or past its changes.
LEMMA WrittenQuiet ==
  ASSUME Inv, Written, NEW th \in Threads, Only(th),
         at[th] \notin CriticalSteps, at'[th] \notin CriticalSteps, isMaster' = isMaster,
         at'[th] \in LateSteps => at[th] \in LateSteps /\ frame'[th].redis = frame[th].redis,
         \A c \in DOMAIN clients' : Suspect(c)' => c \in DOMAIN clients /\ Suspect(c),
         \A c \in DOMAIN clients : /\ c \in DOMAIN clients' /\ (Suspect(c) => Suspect(c)')
                                   /\ clients'[c].redis = clients[c].redis,
         \A g \in Redis : (isMaster[g] \/ Promoted(g)) /\ Up(g) => Up(g)',
         \/ \A g \in Redis : ~Failed(g)
         \/ \A g \in Redis : isMaster[g] /\ ~Failing /\ Severing(g) => Severing(g)'
  PROVE  Written'
<1>1. ASSUME NEW g \in Redis
      PROVE  Failed(g)' <=> Failed(g)
  <2>1. \A c : c \in DOMAIN clients' /\ Suspect(c)' /\ clients'[c].redis = g => Failed(g)
    BY DEF Failed
  <2>2. \A c : c \in DOMAIN clients /\ Suspect(c) /\ clients[c].redis = g => Failed(g)'
    BY DEF Failed
  <2> QED BY <2>1, <2>2, FailedSame
<1>2. Failing' <=> Failing
  BY DEF Failing, Switching, Only, CriticalSteps
<1>3. \A g \in Redis : isMaster'[g] => MasterStays(g)
  BY <1>1, <1>2 DEF MasterStays
<1>4. \A t \in Threads : at'[t] \in LateSteps => ~isMaster'[frame'[t].redis]
  BY DEF Written, Only
<1>5. ASSUME NEW t \in Threads, at'[t] \in PromotingSteps
      PROVE  Up(Peer(frame[t].redis))'
  <2>1. t # th
    BY <1>5 DEF PromotingSteps, CriticalSteps
  <2>2. at[t] \in PromotingSteps /\ frame'[t] = frame[t]
    BY <1>5, <2>1 DEF Only
  <2>3. PICK g : g = Peer(frame[t].redis)
    OBVIOUS
  <2>4. frame[t].redis \in Redis /\ g \in Redis /\ Peer(g) = frame[t].redis
    <3>1. at[t] \in CriticalSteps
      BY <2>2 DEF PromotingSteps, CriticalSteps
    <3>2. frame[t].redis \in Redis
      BY <3>1, WorkFrame DEF Inv
    <3> QED BY <2>3, <3>2, Constants DEF Redis, Peer
  <2>5. Promoted(g) /\ Up(g)
    BY <2>2, <2>3, <2>4 DEF Promoted, Written
  <2> QED BY <2>2, <2>3, <2>4, <2>5
<1> QED BY <1>3, <1>4, <1>5, WrittenStep

\* Nobody has failed, or is reported, while clients are opened or closed.
LEMMA NobodyFailed ==
  ASSUME Inv, NEW th \in Threads, at[th] \in CallSteps \cup OwnSteps \cup LateSteps
  PROVE  /\ \A g \in Redis : ~Failed(g) /\ ~Promoted(g)
         /\ at[th] \notin CriticalSteps
         /\ \A c \in DOMAIN clients : ~Suspect(c)
<1>1. ~AtRest(th) /\ at[th] \notin CriticalSteps
  BY DEF AtRest, CallSteps, OwnSteps, LateSteps, CriticalSteps
<1>2. Opening \/ Serving
  BY <1>1, WorkPhase, SelectPhase DEF Inv, AtRest
<1>3. \A c \in DOMAIN clients : ~Suspect(c)
  BY <1>2 DEF Opening, Serving
<1>4. ASSUME NEW t \in Threads, at[t] \in CriticalSteps
      PROVE  FALSE
  <2>1. t \notin Selectors /\ ~AtRest(t)
    BY <1>4, StepSets DEF AtRest, CriticalSteps, Inv, Types
  <2> QED BY <1>2, <1>4, <2>1 DEF Opening, Serving
<1>5. \A t \in Threads : at[t] \notin PromotingSteps
  BY <1>4 DEF PromotingSteps, CriticalSteps
<1> QED BY <1>1, <1>3, <1>4, <1>5 DEF Failed, Promoted

-----------------------------------------------------------------------------
(* The threads that open and close clients keep it.                           *)

LEMMA CallWritten ==
  ASSUME Inv, Written, Evolves, NEW th \in Threads, InitClient(th)
  PROVE  Written'
<1>1. PICK s \in {"idle", "call", "new", "put", "reconnect"} : \E f : Goto(th, s, f)
  BY DEF InitClient, Check, NewClient, PutClient, CallsDone, Return
<1>2. Only(th) /\ at'[th] = s
  BY SMTT(30), <1>1, GotoOnly DEF Inv
<1>3. /\ at[th] \in CallSteps /\ at'[th] \notin CriticalSteps /\ at'[th] \notin LateSteps
      /\ UNCHANGED <<isMaster, server, role>>
  BY <1>2 DEF InitClient, Check, NewClient, PutClient, CallsDone, CallSteps,
              CriticalSteps, LateSteps, routeVars, serverVars, nodeVars
<1>4. /\ \A g \in Redis : ~Failed(g) /\ ~Promoted(g)
      /\ at[th] \notin CriticalSteps
      /\ \A c \in DOMAIN clients : ~Suspect(c)
  BY <1>3, NobodyFailed
<1>5. \A c \in DOMAIN clients' : Suspect(c)' => c \in DOMAIN clients /\ Suspect(c)
  <2>1. CASE clients' = clients
    BY <1>3, <2>1 DEF Suspect
  <2>2. CASE NewClient(th)
    <3> DEFINE n == Len(clients')
               k == Head(frame[th].calls)
    <3>1. /\ DOMAIN clients' = DOMAIN clients \cup {n}
          /\ \A c \in DOMAIN clients : clients'[c] = clients[c]
          /\ clients'[n] = [redis |-> k.redis, db |-> k.db, link |-> "connecting", connected |-> FALSE]
      BY <2>2, NewClientData DEF Inv
    <3>2. ~clients'[n].connected
      BY <3>1
    <3> HIDE DEF n, k
    <3> QED BY <1>3, <3>1, <3>2 DEF Suspect
  <2> QED BY <2>1, <2>2 DEF InitClient, Check, PutClient, CallsDone
<1>6. \A g \in Redis : Up(g) => Up(g)'
  BY <1>3 DEF Up
<1> QED BY <1>2, <1>3, <1>4, <1>5, <1>6, WrittenQuiet DEF Evolves

\* A redisDown that closes clients and restarts its Redis does so for one that has
\* no flag any more.
LEMMA LateWritten ==
  ASSUME Inv, Written, Evolves, NEW th \in Threads, CloseDown(th) \/ RestartRedis(th) \/ Ssh(th)
  PROVE  Written'
<1>0. PICK h : h = frame[th].redis
  OBVIOUS
<1>1. PICK s \in {"idle", "new", "restart", "ssh"} :
        \E f : Goto(th, s, f) /\ (s \in LateSteps => f = frame[th])
  BY ClosedClients DEF Inv, RestartRedis, Ssh, Return, LateSteps
<1>2. Only(th) /\ at'[th] = s /\ (s \in LateSteps => frame'[th] = frame[th])
  BY <1>1, GotoOnly DEF Inv
<1>3. /\ at[th] \in LateSteps /\ at'[th] \notin CriticalSteps /\ isMaster' = isMaster
      /\ at'[th] \in LateSteps => frame'[th].redis = h
  BY <1>0, <1>1, <1>2 DEF CloseDown, RestartRedis, Ssh, LateSteps, CriticalSteps, routeVars
<1>4. h \in Redis /\ ~isMaster[h]
  BY <1>0, <1>3, WorkFrame DEF Inv, Written
<1>5. /\ \A g \in Redis : ~Failed(g) /\ ~Promoted(g)
      /\ at[th] \notin CriticalSteps
      /\ \A c \in DOMAIN clients : ~Suspect(c)
  BY <1>3, NobodyFailed
<1>6. \A c \in DOMAIN clients' : Suspect(c)' => c \in DOMAIN clients /\ Suspect(c)
  BY LateQuieter DEF Quieter
<1>7. ASSUME NEW g \in Redis, isMaster[g], Up(g)
      PROVE  Up(g)'
  <2>1. CASE Reboot(h)
    BY <1>4, <1>7, <2>1 DEF Reboot, Up, Inv, Types, DataOK
  <2>2. CASE UNCHANGED serverVars
    BY <1>7, <2>2 DEF Up, serverVars
  <2> QED BY <1>0, <2>1, <2>2 DEF CloseDown, RestartRedis, Ssh
<1> QED BY <1>0, <1>2, <1>3, <1>5, <1>6, <1>7, WrittenQuiet DEF Evolves

LEMMA SetUpWritten ==
  ASSUME Inv, Ranks, Written, Evolves, NEW c \in DOMAIN clients, SendSlaveof(c) \/ InitDatabase(c)
  PROVE  Written'
<1> DEFINE th == Loop(c)
<1>1. th \in Threads
  BY LoopThreads DEF Inv
<1>2. PICK s \in {"initDatabase", "call"} : \E f : Goto(th, s, f)
  BY DEF SendSlaveof, InitDatabase
<1>3. Only(th) /\ at'[th] = s
  BY <1>1, <1>2, GotoOnly DEF Inv
<1>4. /\ at[th] \in OwnSteps /\ at'[th] \notin CriticalSteps /\ at'[th] \notin LateSteps
      /\ UNCHANGED <<isMaster, clients, server>>
  BY <1>3 DEF SendSlaveof, InitDatabase, OwnSteps, CriticalSteps, LateSteps, routeVars, serverVars
<1>5. /\ \A g \in Redis : ~Failed(g) /\ ~Promoted(g)
      /\ at[th] \notin CriticalSteps
      /\ \A d \in DOMAIN clients : ~Suspect(d)
  BY <1>1, <1>4, NobodyFailed
<1>6. \A d \in DOMAIN clients' : Suspect(d)' => d \in DOMAIN clients /\ Suspect(d)
  BY <1>4 DEF Suspect
<1>7. ASSUME NEW g \in Redis, isMaster[g], Up(g)
      PROVE  Up(g)'
  <2>1. PICK h : h = frame[th].redis
    OBVIOUS
  <2>2. role' = role \/ role' = [role EXCEPT ![h] = IF isMaster[h] THEN "master" ELSE "slave"]
    BY <2>1 DEF SendSlaveof, InitDatabase, Reassign, serverVars
  <2>3. role'[g] = "master"
    BY <1>7, <2>2 DEF Up, Inv, Types, DataOK
  <2> QED BY <1>4, <1>7, <2>3 DEF Up
<1> QED BY <1>1, <1>3, <1>4, <1>5, <1>6, <1>7, WrittenQuiet DEF Evolves

\* A step that changes clients at most by closing links and connecting, of a thread
\* that is not in redisDown.
LEMMA LinksWritten ==
  ASSUME Inv, Written, Evolves, NEW th \in Threads, Only(th),
         at[th] \notin CriticalSteps, at'[th] \notin CriticalSteps, at'[th] \notin LateSteps,
         UNCHANGED <<isMaster, table, maps, server, role>>,
         DOMAIN clients' = DOMAIN clients,
         \A c \in DOMAIN clients :
           /\ Suspect(c)' <=> Suspect(c)
           /\ clients'[c].link = "connecting" => clients[c].link = "connecting"
           /\ clients'[c].link = "open" => clients[c].link \in {"connecting", "open"}
  PROVE  Written'
<1>1. \A g \in Redis : Up(g) => Up(g)'
  BY DEF Up
<1>2. ASSUME NEW g \in Redis, Severing(g)
      PROVE  Severing(g)'
  BY <1>1, <1>2, SeveringStays DEF Inv
<1> QED BY <1>1, <1>2, WrittenQuiet DEF Evolves

LEMMA SelectWritten ==
  ASSUME Inv, Written, Evolves, NEW th \in Selectors, NEW n \in Databases, Select(th, n)
  PROVE  Written'
<1>1. PICK f : Goto(th, "call", f)
  BY DEF Select
<1>2. th \in Threads /\ Only(th) /\ at'[th] = "call" /\ at[th] = "idle"
  BY <1>1, ThreadKinds, GotoOnly DEF Inv, Select
<1>3. UNCHANGED <<isMaster, table, maps, role, server, clients>>
  BY DEF Select, routeVars, serverVars
<1>4. \A c \in DOMAIN clients : Suspect(c)' <=> Suspect(c)
  BY <1>3 DEF Suspect
<1>5. at[th] \notin CriticalSteps /\ at'[th] \notin CriticalSteps /\ at'[th] \notin LateSteps
  BY <1>2 DEF CriticalSteps, LateSteps
<1> QED BY <1>2, <1>3, <1>4, <1>5, LinksWritten

LEMMA HeartWritten ==
  ASSUME Inv, Written, Evolves, RemoteUp \/ Reconnect \/ ClearReconnect
  PROVE  Written'
<1>1. PICK s \in {"idle", "new", "clear", "reconnect"} : \E f : Goto(Heart, s, f)
  BY DEF RemoteUp, Reconnect, ClearReconnect, Return
<1>2. /\ Heart \in Threads /\ Only(Heart) /\ at'[Heart] = s
      /\ at[Heart] \in {"idle", "reconnect", "clear"}
  BY <1>1, ThreadKinds, GotoOnly DEF Inv, RemoteUp, Reconnect, ClearReconnect
<1>3. UNCHANGED <<isMaster, table, maps, role, server, clients>>
  BY DEF RemoteUp, Reconnect, ClearReconnect, routeVars, serverVars
<1>4. \A c \in DOMAIN clients : Suspect(c)' <=> Suspect(c)
  BY <1>3 DEF Suspect
<1>5. /\ at[Heart] \notin CriticalSteps /\ at'[Heart] \notin CriticalSteps
      /\ at'[Heart] \notin LateSteps
  BY <1>2 DEF CriticalSteps, LateSteps
<1> QED BY <1>2, <1>3, <1>4, <1>5, LinksWritten

\* ... and a step of no thread.
LEMMA IdleWritten ==
  ASSUME Inv, Written, Evolves, UNCHANGED <<at, frame, isMaster, table, maps, server, role>>,
         DOMAIN clients' = DOMAIN clients,
         \A c \in DOMAIN clients :
           /\ Suspect(c)' <=> Suspect(c)
           /\ clients'[c].link = "connecting" => clients[c].link = "connecting"
           /\ clients'[c].link = "open" => clients[c].link \in {"connecting", "open"}
  PROVE  Written'
<1>1. Heart \in Threads
  BY ThreadKinds
<1>2. Only(Heart) /\ at[Heart] \notin CriticalSteps /\ at[Heart] \notin LateSteps
  BY <1>1, StepSets DEF Only, Inv, Types
<1> QED BY <1>1, <1>2, LinksWritten

LEMMA ConnectFailedWritten ==
  ASSUME Inv, Written, Evolves, NEW c \in DOMAIN clients, ConnectFailed(c)
  PROVE  Written'
<1> DEFINE new == [clients EXCEPT ![c].link = "failed"]
<1>1. /\ new[c].redis = clients[c].redis /\ new[c].db = clients[c].db
      /\ new[c].link = "failed" /\ new[c].connected = clients[c].connected
      /\ DOMAIN new = DOMAIN clients
      /\ \A d \in DOMAIN clients : d # c => new[d] = clients[d]
  <2>1. DataOK /\ "failed" \in Links
    BY DEF Inv, Types, Links
  <2> QED BY <2>1, LinkOnly
<1>2. /\ clients' = new /\ clients[c].link = "connecting"
      /\ UNCHANGED <<at, frame, isMaster, table, maps, role, server>>
  BY DEF ConnectFailed, routeVars, serverVars, threadVars
<1> HIDE DEF new
<1>3. \A d \in DOMAIN clients :
        /\ Suspect(d)' <=> Suspect(d)
        /\ clients'[d].link = "connecting" => clients[d].link = "connecting"
        /\ clients'[d].link = "open" => clients[d].link \in {"connecting", "open"}
  BY <1>1, <1>2 DEF Suspect
<1> QED BY <1>1, <1>2, <1>3, IdleWritten

LEMMA ConnectedWritten ==
  ASSUME Inv, Written, Evolves, NEW c \in DOMAIN clients, Connected(c)
  PROVE  Written'
<1> DEFINE th == Loop(c)
           new == [clients EXCEPT ![c].link = "open", ![c].connected = TRUE]
<1>1. th \in Threads /\ at[th] = "idle"
  BY LoopThreads DEF Inv, Connected
<1>2. /\ new[c].redis = clients[c].redis /\ new[c].db = clients[c].db
      /\ new[c].link = "open" /\ DOMAIN new = DOMAIN clients
      /\ \A d \in DOMAIN clients : d # c => new[d] = clients[d]
  BY LinkOpened DEF Inv, Types
<1>3. /\ clients' = new /\ clients[c].link = "connecting" /\ server[clients[c].redis] = "up"
      /\ UNCHANGED <<isMaster, table, maps, role, server>>
  BY DEF Connected, routeVars, serverVars
<1> HIDE DEF new
<1>4. Only(th) /\ at'[th] \in {"idle", "slaveof"}
  <2>1. CASE clients[c].db = 0
    BY <1>1, <2>1, GotoOnly DEF Connected, Inv
  <2>2. CASE clients[c].db # 0
    BY <1>1, <2>2 DEF Connected, Only
  <2> QED BY <2>1, <2>2
<1>5. ~Suspect(c)
  <2>1. CASE Pending(c)
    BY <2>1 DEF Inv, Phases, Opening, Serving, Unnoticed, Reporting, Calmed
  <2>2. CASE clients[c].db # 0
    BY <2>2 DEF Suspect
  <2> QED BY <1>3, <2>1, <2>2 DEF Pending
<1>6. \A d \in DOMAIN clients :
        /\ Suspect(d)' <=> Suspect(d)
        /\ clients'[d].link = "connecting" => clients[d].link = "connecting"
        /\ clients'[d].link = "open" => clients[d].link \in {"connecting", "open"}
  <2>1. ~Suspect(c)'
    BY <1>2, <1>3 DEF Suspect
  <2> QED BY <1>2, <1>3, <1>5, <2>1 DEF Suspect
<1>7. at[th] \notin CriticalSteps /\ at'[th] \notin CriticalSteps /\ at'[th] \notin LateSteps
  BY <1>1, <1>4 DEF CriticalSteps, LateSteps
<1> QED BY <1>1, <1>2, <1>3, <1>4, <1>6, <1>7, LinksWritten

-----------------------------------------------------------------------------
(* The failures keep it, and a Redis that comes back.                         *)

LEMMA FailureWritten ==
  ASSUME Calm, Inv, Written, Evolves,
         \/ \E h \in Redis : Crash(h) \/ Hang(h)
         \/ \E c \in DOMAIN clients : LinkBreaks(c)
  PROVE  Written'
<1>1. Healthy /\ UNCHANGED <<at, frame, isMaster, table, maps, role>>
  BY DEF Crash, Hang, LinkBreaks, Fails, threadVars, routeVars, nodeVars, serverVars
<1> DEFINE Broken ==
             /\ DOMAIN clients' = DOMAIN clients
             /\ \A c \in DOMAIN clients :
                  /\ clients'[c].connected = clients[c].connected
                  /\ clients'[c].link = clients[c].link \/ clients'[c].link = "broken"
<1>2. Broken
  <2>1. ASSUME NEW h \in Redis, Crash(h)
        PROVE  Broken
    BY <2>1, UnlinkedType DEF Crash, Inv, Types
  <2>2. ASSUME NEW h \in Redis, Hang(h)
        PROVE  Broken
    BY <2>2 DEF Hang
  <2>3. ASSUME NEW c \in DOMAIN clients, LinkBreaks(c)
        PROVE  Broken
    <3>1. DataOK /\ "broken" \in Links
      BY DEF Inv, Types, Links
    <3> DEFINE new == [clients EXCEPT ![c].link = "broken"]
    <3>2. /\ new[c].link = "broken" /\ new[c].connected = clients[c].connected
          /\ DOMAIN new = DOMAIN clients
          /\ \A d \in DOMAIN clients : d # c => new[d] = clients[d]
      BY <3>1, LinkOnly
    <3>3. clients' = new
      BY <2>3 DEF LinkBreaks
    <3> QED BY <3>2, <3>3
  <2> QED BY <2>1, <2>2, <2>3
<1>3. /\ Right /\ \A c \in DOMAIN clients : ~Suspect(c)
      /\ \A g \in Redis :
           LET c == Lookup(isMaster[g], 0) IN
           /\ c \in DOMAIN clients /\ clients[c].redis = g /\ clients[c].db = 0
           /\ clients[c].connected
  BY <1>1, SettledFacts DEF Healthy
<1>4. \A t \in Threads : at[t] = "idle" /\ at'[t] = "idle"
  BY <1>1 DEF Healthy, Settled
<1>5. ASSUME NEW g \in Redis, isMaster[g]
      PROVE  Up(g)
  <2>1. ~Failed(g)
    BY <1>3, <1>4 DEF Failed, CriticalSteps
  <2> QED BY <1>5, <2>1 DEF Written
<1>6. ASSUME NEW g \in Redis, isMaster[g]
      PROVE  Severing(g)'
  <2> DEFINE m == table[TRUE]
  <2>1. m # 0 /\ m \in DOMAIN maps
    <3>1. isMaster[g] = TRUE
      BY <1>6 DEF Inv, Types, DataOK
    <3>2. Lookup(TRUE, 0) # 0
      BY <1>3, <3>1, Domains DEF Inv, Types
    <3>3. m # 0 /\ m \in 0 .. Len(maps)
      BY <3>2, Domains DEF Lookup, Inv, Types
    <3> HIDE DEF m
    <3> QED BY <3>3, Domains DEF Inv, Types
  <2>2. ASSUME NEW n \in Databases, maps[m][n] # 0
        PROVE  clients'[maps[m][n]].link # "connecting"
    <3>1. clients[maps[m][n]].link = "open"
      BY <1>1, <2>1, <2>2 DEF Healthy, Lookup
    <3>2. maps[m][n] \in DOMAIN clients
      BY <2>1, <2>2, MapEntries DEF Inv, Types
    <3> QED BY <1>2, <3>1, <3>2
  <2>3. role'[g] = "master"
    BY <1>1, <1>5, <1>6 DEF Up
  <2> QED BY <1>1, <2>1, <2>2, <2>3 DEF Severing
<1>7. ASSUME NEW g \in Redis, isMaster[g], ~Failed(g)'
      PROVE  Up(g)'
  <2>1. PICK c : c = Lookup(isMaster[g], 0)
    OBVIOUS
  <2>2. /\ c \in DOMAIN clients /\ clients'[c].redis = g /\ clients'[c].db = 0
        /\ clients'[c].connected
    BY <1>2, <1>3, <2>1 DEF Evolves
  <2>3. server'[g] = "up"
    BY <1>2, <1>7, <2>2 DEF Failed, Suspect
  <2> QED BY <1>1, <1>5, <1>7, <2>3 DEF Up
<1>8. \A g \in Redis : isMaster'[g] => MasterStays(g)
  BY <1>1, <1>6, <1>7 DEF MasterStays
<1> QED BY <1>4, <1>8, WrittenStep DEF LateSteps, PromotingSteps

LEMMA RemoteWritten ==
  ASSUME Inv, Written, Evolves, RemoteRestarts
  PROVE  Written'
<1>1. /\ Remote \in Redis /\ Reboot(Remote) /\ server[Remote] # "up"
      /\ UNCHANGED <<at, frame, isMaster, table, maps>>
  BY Constants DEF RemoteRestarts, threadVars, routeVars
<1>2. /\ Heart \in Threads /\ Only(Heart)
      /\ at[Heart] \notin CriticalSteps /\ at[Heart] \notin LateSteps
  <2>1. Heart \in Threads
    BY ThreadKinds
  <2> QED BY <1>1, <2>1, StepSets DEF Only, Inv, Types
<1>3. /\ DOMAIN clients' = DOMAIN clients
      /\ \A c \in DOMAIN clients :
           /\ clients'[c].redis = clients[c].redis /\ clients'[c].db = clients[c].db
           /\ clients'[c].connected = clients[c].connected
           /\ clients'[c].link = IF clients[c].redis = Remote /\ clients[c].link = "open"
                                   THEN "broken" ELSE clients[c].link
  BY <1>1, UnlinkedType DEF Reboot, Inv, Types
<1>4. \A g \in Redis : g # Remote => server'[g] = server[g] /\ role'[g] = role[g]
  BY <1>1 DEF Reboot, Inv, Types, DataOK
<1>5. ASSUME NEW c \in DOMAIN clients
      PROVE  Suspect(c)' <=> Suspect(c)
  <2>1. clients[c].redis \in Redis
    BY Domains DEF Inv, Types, ClientType
  <2>2. CASE clients[c].redis = Remote
    BY <1>1, <1>3, <2>2 DEF Suspect
  <2>3. CASE clients[c].redis # Remote
    BY <1>3, <1>4, <2>1, <2>3 DEF Suspect
  <2> QED BY <2>2, <2>3
<1>6. ASSUME NEW g \in Redis, Up(g)
      PROVE  Up(g)'
  BY <1>1, <1>4, <1>6 DEF Up
<1>7. ASSUME NEW g \in Redis, isMaster[g], ~Failing, Severing(g)
      PROVE  Severing(g)'
  <2>1. CASE g # Remote
    <3>1. \A c \in DOMAIN clients :
           /\ clients'[c].link = "connecting" => clients[c].link = "connecting"
           /\ clients'[c].link = "open" => clients[c].link \in {"connecting", "open"}
      BY <1>3
    <3>2. server'[g] = "up" => server[g] = "up"
      BY <1>4, <2>1
    <3> QED BY <1>1, <1>6, <1>7, <3>1, <3>2, SeveringStays DEF Inv
  <2>2. CASE g = Remote
    <3> DEFINE m == table[TRUE]
    <3>1. m # 0 /\ m \in DOMAIN maps
      <4>1. m # 0 /\ m \in 0 .. Len(maps)
        BY <1>7, Domains DEF Severing, Inv, Types
      <4> HIDE DEF m
      <4> QED BY <4>1, Domains DEF Inv, Types
    <3>2. Right
      BY <1>7, RightNow
    <3>3. isMaster[g] = TRUE
      BY <1>7 DEF Inv, Types, DataOK
    <3>4. Owned(m, Remote)
      BY <2>2, <3>1, <3>2, <3>3 DEF Right
    <3>5. ASSUME NEW n \in Databases, maps[m][n] # 0
          PROVE  clients'[maps[m][n]].link \notin {"connecting", "open"}
      <4>1. /\ maps[m][n] \in DOMAIN clients /\ clients[maps[m][n]].redis = Remote
            /\ clients[maps[m][n]].link # "connecting"
        BY <1>7, <3>1, <3>4, <3>5, MapEntries DEF Inv, Types, Owned, Severing
      <4> QED BY <1>3, <4>1
    <3> QED BY <1>1, <3>1, <3>5 DEF Severing
  <2> QED BY <2>1, <2>2
<1> QED BY <1>1, <1>2, <1>3, <1>5, <1>6, <1>7, WrittenQuiet DEF Evolves

-----------------------------------------------------------------------------
(* A Redis is reported: it has failed before.                                 *)

LEMMA ReportWritten ==
  ASSUME Inv, Written, Evolves, NEW th \in Threads, Only(th), NEW h \in Redis, Failed(h),
         at[th] \in {"idle", "declare"}, at[th] \in CriticalSteps => frame[th].redis = h,
         at'[th] \in {"declare", "remove"}, frame'[th].redis = h,
         \A d \in DOMAIN clients : Suspect(d) => clients[d].redis = h,
         UNCHANGED <<isMaster, table, maps, server, role>>,
         DOMAIN clients' = DOMAIN clients,
         \A d \in DOMAIN clients :
           /\ Suspect(d)' => Suspect(d)
           /\ clients'[d].link = "connecting" => clients[d].link = "connecting"
           /\ clients'[d].link = "open" => clients[d].link \in {"connecting", "open"}
  PROVE  Written'
<1>1. at'[th] \in CriticalSteps /\ Failed(h)'
  BY DEF CriticalSteps, Failed
<1>2. ASSUME NEW g \in Redis
      PROVE  Failed(g)' <=> Failed(g)
  <2>1. \A c : c \in DOMAIN clients' /\ Suspect(c)' /\ clients'[c].redis = g => Failed(g)
    BY DEF Failed, Evolves
  <2>2. \A c : c \in DOMAIN clients /\ Suspect(c) /\ clients[c].redis = g => Failed(g)'
    BY <1>1
  <2> QED BY <1>1, <2>1, <2>2, FailedSame
<1>3. Failing' <=> Failing
  <2>1. \A t \in Threads : Switching(t)' <=> Switching(t)
    BY DEF Only, Switching
  <2> QED BY <2>1 DEF Failing
<1>4. \A g \in Redis : Up(g)' <=> Up(g)
  BY DEF Up
<1>5. ASSUME NEW g \in Redis, Severing(g)
      PROVE  Severing(g)'
  BY <1>4, <1>5, SeveringStays DEF Inv
<1>6. \A g \in Redis : isMaster'[g] => MasterStays(g)
  BY <1>2, <1>3, <1>4, <1>5 DEF MasterStays
<1>7. \A t \in Threads : at'[t] \in LateSteps => ~isMaster'[frame'[t].redis]
  BY DEF Written, Only, LateSteps
<1>8. \A t \in Threads : at'[t] \in PromotingSteps => Up(Peer(frame[t].redis))'
  <2>1. ASSUME NEW t \in Threads, at'[t] \in PromotingSteps
        PROVE  Up(Peer(frame[t].redis))'
    <3>1. at[t] \in PromotingSteps /\ frame'[t] = frame[t]
      BY <2>1 DEF Only, PromotingSteps
    <3>2. Up(Peer(frame[t].redis))
      BY <3>1 DEF Written
    <3> QED BY <3>1, <3>2 DEF Up
  <2> QED BY <2>1
<1> QED BY <1>6, <1>7, <1>8, WrittenStep

LEMMA ChannelInactiveWritten ==
  ASSUME Inv, Written, Evolves, NEW c \in DOMAIN clients, ChannelInactive(c)
  PROVE  Written'
<1> DEFINE th == Loop(c)
<1>0. PICK h : h = clients[c].redis
  OBVIOUS
<1>1. /\ th \in Threads /\ h \in Redis /\ at[th] = "idle"
      /\ clients[c].link = "broken"
      /\ UNCHANGED <<isMaster, table, maps, role, server>>
  BY <1>0, LoopThreads DEF Inv, ChannelInactive, routeVars, serverVars
<1>2. CASE clients[c].db = 0 /\ clients[c].connected
  <2> DEFINE new == [clients EXCEPT ![c].link = "closed", ![c].connected = FALSE]
  <2>1. /\ new[c].link = "closed" /\ ~new[c].connected
        /\ DOMAIN new = DOMAIN clients
        /\ \A d \in DOMAIN clients : d # c => new[d] = clients[d]
    BY LinkClosed DEF Inv, Types
  <2>2. clients' = new /\ Goto(th, "remove", [NoFrame EXCEPT !.redis = h])
    BY <1>0, <1>2 DEF ChannelInactive
  <2> HIDE DEF new
  <2>3. Only(th) /\ at'[th] = "remove" /\ frame'[th].redis = h
    <3> DEFINE f == [NoFrame EXCEPT !.redis = h]
    <3>1. f.redis = h /\ Goto(th, "remove", f)
      BY <1>1, <2>2, NewFrames
    <3> HIDE DEF f, th
    <3> QED BY <1>1, <3>1, GotoOnly DEF Inv
  <2>4. Suspect(c) /\ Failed(h)
    BY <1>0, <1>1, <1>2 DEF Suspect, Failed
  <2>5. Unnoticed(h)
    BY <1>0, <1>1, <2>4, SuspectPhase
  <2>6. \A d \in DOMAIN clients :
          /\ Suspect(d)' => Suspect(d)
          /\ clients'[d].link = "connecting" => clients[d].link = "connecting"
          /\ clients'[d].link = "open" => clients[d].link \in {"connecting", "open"}
    BY <1>1, <2>1, <2>2 DEF Suspect
  <2>7. at[th] \notin CriticalSteps
    BY <1>1 DEF CriticalSteps
  <2>8. \A d \in DOMAIN clients : Suspect(d) => clients[d].redis = h
    BY <2>5 DEF Unnoticed, Calmed
  <2> HIDE DEF th
  <2> QED BY <1>1, <2>1, <2>2, <2>3, <2>4, <2>6, <2>7, <2>8, ReportWritten
<1>3. CASE ~(clients[c].db = 0 /\ clients[c].connected)
  <2> DEFINE new == [clients EXCEPT ![c].link = "closed"]
  <2>1. /\ new[c].redis = clients[c].redis /\ new[c].db = clients[c].db
        /\ new[c].link = "closed" /\ new[c].connected = clients[c].connected
        /\ DOMAIN new = DOMAIN clients
        /\ \A d \in DOMAIN clients : d # c => new[d] = clients[d]
    <3>1. DataOK /\ "closed" \in Links
      BY DEF Inv, Types, Links
    <3> QED BY <3>1, LinkOnly
  <2>2. clients' = new /\ UNCHANGED <<at, frame>>
    BY <1>3 DEF ChannelInactive
  <2> HIDE DEF new
  <2>3. \A d \in DOMAIN clients :
          /\ Suspect(d)' <=> Suspect(d)
          /\ clients'[d].link = "connecting" => clients[d].link = "connecting"
          /\ clients'[d].link = "open" => clients[d].link \in {"connecting", "open"}
    BY <1>1, <1>3, <2>1, <2>2 DEF Suspect
  <2> QED BY <1>1, <2>1, <2>2, <2>3, IdleWritten
<1> QED BY <1>2, <1>3

LEMMA TimerLateWritten ==
  ASSUME Inv, Written, Evolves, NEW c \in DOMAIN clients, TimerLate(c)
  PROVE  Written'
<1> DEFINE th == Timer(c)
<1>0. PICK h : h = clients[c].redis
  OBVIOUS
<1>1. /\ th \in Threads /\ h \in Redis /\ at[th] = "idle"
      /\ UNCHANGED <<isMaster, table, maps, role, server, clients>>
      /\ Goto(th, "declare", [NoFrame EXCEPT !.redis = h])
  BY <1>0, LoopThreads DEF Inv, TimerLate, routeVars, serverVars
<1>2. Only(th) /\ at'[th] = "declare" /\ frame'[th].redis = h
  <2> DEFINE f == [NoFrame EXCEPT !.redis = h]
  <2>1. f.redis = h /\ Goto(th, "declare", f)
    BY <1>1, NewFrames
  <2> HIDE DEF f, th
  <2> QED BY <1>1, <2>1, GotoOnly DEF Inv
<1>3. Suspect(c) /\ Failed(h)
  BY <1>0 DEF TimerLate, Suspect, Failed
<1>4. Unnoticed(h)
  BY <1>0, <1>1, <1>3, SuspectPhase
<1>5. \A d \in DOMAIN clients : /\ Suspect(d) => clients[d].redis = h
                                /\ Suspect(d)' => Suspect(d)
  BY <1>1, <1>4 DEF Unnoticed, Calmed, Suspect
<1>6. at[th] \notin CriticalSteps
  BY <1>1 DEF CriticalSteps
<1> HIDE DEF th
<1> QED BY <1>1, <1>2, <1>3, <1>5, <1>6, ReportWritten

LEMMA TimerDeclareWritten ==
  ASSUME Inv, Written, Evolves, NEW c \in DOMAIN clients, TimerDeclare(c)
  PROVE  Written'
<1> DEFINE th == Timer(c)
           new == [clients EXCEPT ![c].connected = FALSE]
<1>0. PICK h : h = frame[th].redis
  OBVIOUS
<1>1. th \in Threads /\ at[th] = "declare" /\ at[th] \in CriticalSteps
  BY LoopThreads DEF Inv, TimerDeclare, CriticalSteps
<1>2. h \in Redis /\ Reporting(h, th)
  BY <1>0, <1>1, DownFacts
<1>3. /\ new[c].link = clients[c].link /\ new[c].db = clients[c].db /\ ~new[c].connected
      /\ DOMAIN new = DOMAIN clients
      /\ \A d \in DOMAIN clients : d # c => new[d] = clients[d]
  BY FlagOnly DEF Inv, Types
<1>4. /\ clients' = new /\ Goto(th, "remove", frame[th])
      /\ UNCHANGED <<isMaster, table, maps, role, server>>
  BY DEF TimerDeclare, routeVars, serverVars
<1> HIDE DEF new
<1>5. Only(th) /\ at'[th] = "remove" /\ frame'[th].redis = h
  BY <1>0, <1>1, <1>4, GotoOnly DEF Inv
<1>6. Failed(h)
  BY <1>0, <1>1 DEF Failed
<1>7. \A d \in DOMAIN clients :
        /\ Suspect(d)' => Suspect(d)
        /\ clients'[d].link = clients[d].link
  BY <1>3, <1>4 DEF Suspect
<1>8. \A d \in DOMAIN clients : Suspect(d) => clients[d].redis = h
  BY <1>2 DEF Reporting, Calmed
<1> HIDE DEF th
<1> QED BY <1>0, <1>1, <1>2, <1>3, <1>4, <1>5, <1>6, <1>7, <1>8, ReportWritten

-----------------------------------------------------------------------------
(* redisDown keeps it.                                                        *)

\* Past its first step a redisDown for h has only to see that the other Redis is
\* up when it has the flag, or is about to.
LEMMA DownWritten ==
  ASSUME Inv, Written, Evolves, NEW th \in Threads, Only(th),
         at[th] \in CriticalSteps, at[th] # "declare", UNCHANGED <<clients, server>>,
         NEW h, NEW g, h = frame[th].redis, g = Peer(h),
         at'[th] # "idle" => frame'[th].redis = h,
         isMaster'[g] => Up(g)',
         isMaster'[h] => Switching(th)',
         at'[th] \in LateSteps => ~isMaster'[h],
         at'[th] \in PromotingSteps => Up(g)'
  PROVE  Written'
<1>1. h \in Redis /\ g \in Redis /\ g # h /\ Reporting(h, th) /\ \A e \in Redis : e = h \/ e = g
  BY DownFacts
<1>2. /\ \A c \in DOMAIN clients : ~Suspect(c)
      /\ \A t \in Threads : t # th => at[t] \notin CriticalSteps /\ at[t] \notin LateSteps
  <2>1. /\ \A c \in DOMAIN clients : ~Suspect(c)
        /\ \A t \in Threads : t # th => at[t] \notin CriticalSteps
    BY <1>1, Reported DEF Inv
  <2>2. \A t \in Threads : t # th => at[t] \notin LateSteps
    BY <1>1 DEF Reporting, AtRest, LateSteps
  <2> QED BY <2>1, <2>2
<1>3. \A c \in DOMAIN clients' : ~Suspect(c)'
  BY <1>2 DEF Suspect
<1>4. \A t \in Threads : t # th =>
        at'[t] \notin CriticalSteps /\ at'[t] \notin LateSteps /\ at'[t] \notin PromotingSteps
  BY <1>2 DEF Only, CriticalSteps, PromotingSteps
<1>5. ~Failed(g)'
  BY <1>1, <1>3, <1>4 DEF Failed, CriticalSteps
<1>6. isMaster'[h] => Failed(h)' /\ Failing'
  <2>1. Switching(th)' => at'[th] \in CriticalSteps /\ at'[th] # "idle"
    BY DEF Switching, CriticalSteps
  <2> QED BY <2>1 DEF Failed, Failing
<1>7. \A e \in Redis : isMaster'[e] => MasterStays(e)
  BY <1>1, <1>5, <1>6 DEF MasterStays
<1>8. \A t \in Threads : at'[t] \in LateSteps => ~isMaster'[frame'[t].redis]
  BY <1>4 DEF LateSteps
<1>9. \A t \in Threads : at'[t] \in PromotingSteps => Up(Peer(frame[t].redis))'
  BY <1>4 DEF PromotingSteps
<1> QED BY <1>7, <1>8, <1>9, WrittenStep

\* The other Redis is up, if it has the flag or is about to.
LEMMA OtherUp ==
  ASSUME Inv, Written, NEW th \in Threads, at[th] \in CriticalSteps, at[th] # "declare"
  PROVE  LET g == Peer(frame[th].redis) IN
         isMaster[g] \/ at[th] \in PromotingSteps => Up(g)
<1>1. PICK h, g : h = frame[th].redis /\ g = Peer(h)
  OBVIOUS
<1>2. h \in Redis /\ g \in Redis /\ g # h /\ Reporting(h, th)
  BY <1>1, DownFacts
<1>3. /\ \A c \in DOMAIN clients : ~Suspect(c)
      /\ \A t \in Threads : t # th => at[t] \notin CriticalSteps
  BY <1>2, Reported DEF Inv
<1>4. ~Failed(g)
  BY <1>1, <1>2, <1>3 DEF Failed
<1> QED BY <1>1, <1>2, <1>4 DEF Written

LEMMA RemoveDownWritten ==
  ASSUME Inv, Written, Evolves, NEW th \in Threads, RemoveDown(th)
  PROVE  Written'
<1>0. PICK h, g : h = frame[th].redis /\ g = Peer(h)
  OBVIOUS
<1>1. /\ at[th] = "remove" /\ at[th] \in CriticalSteps
      /\ UNCHANGED <<isMaster, maps, clients, role, server>>
  BY DEF RemoveDown, CriticalSteps, serverVars
<1>2. /\ h \in Redis /\ g \in Redis /\ Reporting(h, th) /\ frame[th] \in FrameType
      /\ isMaster \in [Redis -> BOOLEAN]
  BY <1>0, <1>1, DownFacts
<1>3. isMaster[g] => Up(g)'
  <2>1. isMaster[g] => Up(g)
    BY <1>0, <1>1, OtherUp
  <2> QED BY <1>1, <2>1 DEF Up
<1>4. CASE MapOf(h) = 0
  <2>1. Goto(th, "idle", NoFrame)
    BY <1>0, <1>4 DEF RemoveDown, Return
  <2>2. Only(th) /\ at'[th] = "idle"
    BY <2>1, GotoOnly DEF Inv
  <2>3. ~isMaster[h]
    <3>1. ASSUME isMaster[h]
          PROVE  FALSE
      <4>1. Failed(h)
        BY <1>0, <1>1 DEF Failed
      <4>2. ~Failing
        <5>1. \A t \in Threads : ~Switching(t)
          BY <1>1, <1>2 DEF Reporting, AtRest, Switching
        <5> QED BY <5>1 DEF Failing
      <4>3. Severing(h)
        BY <1>2, <3>1, <4>1, <4>2 DEF Written
      <4> QED BY <1>2, <1>4, <3>1, <4>3 DEF Severing, MapOf
    <3> QED BY <3>1
  <2> QED BY <1>0, <1>1, <1>3, <2>2, <2>3, DownWritten DEF LateSteps, PromotingSteps
<1>5. CASE MapOf(h) # 0
  <2> DEFINE f == [frame[th] EXCEPT !.down = MapOf(h)]
  <2>1. f.redis = h
    BY <1>0, <1>2 DEF FrameType
  <2>2. Goto(th, "removeSlave", f)
    BY <1>0, <1>5 DEF RemoveDown
  <2> HIDE DEF f
  <2>3. Only(th) /\ at'[th] = "removeSlave" /\ frame'[th].redis = h
    BY <2>1, <2>2, GotoOnly DEF Inv
  <2>4. Switching(th)' /\ at'[th] \notin LateSteps /\ at'[th] \notin PromotingSteps
    BY <2>3 DEF Switching, LateSteps, PromotingSteps
  <2> QED BY <1>0, <1>1, <1>3, <2>3, <2>4, DownWritten
<1> QED BY <1>4, <1>5

LEMMA RemoveSlaveWritten ==
  ASSUME Inv, Ranks, Written, Evolves, NEW th \in Threads, RemoveSlave(th)
  PROVE  Written'
<1>0. PICK h, g : h = frame[th].redis /\ g = Peer(h)
  OBVIOUS
<1>1. /\ at[th] = "removeSlave" /\ at[th] \in CriticalSteps
      /\ UNCHANGED <<isMaster, maps, clients, role, server>>
  BY DEF RemoveSlave, CriticalSteps, serverVars
<1>2. /\ h \in Redis /\ g \in Redis /\ Reporting(h, th) /\ frame[th] \in FrameType
      /\ isMaster \in [Redis -> BOOLEAN]
      /\ (isMaster[Local] # isMaster[Remote]) <=> (isMaster[h] # isMaster[g])
  BY <1>0, <1>1, DownFacts
<1>3. isMaster[h] # isMaster[g] /\ isMaster[g] \in BOOLEAN /\ isMaster[h] \in BOOLEAN
  BY <1>1, <1>2 DEF Reporting, Shape, Right
<1>4. isMaster[g] => Up(g)'
  <2>1. isMaster[g] => Up(g)
    BY <1>0, <1>1, OtherUp
  <2> QED BY <1>1, <2>1 DEF Up
<1>5. CASE isMaster[h]
  <2>1. PICK m : m = table[FALSE]
    OBVIOUS
  <2>2. m # 0
    <3>1. table[isMaster[g]] # 0
      BY <1>0, <1>1, <1>2, ReachedWorks
    <3> QED BY <1>3, <1>5, <2>1, <3>1
  <2> DEFINE f == [frame[th] EXCEPT !.slaves = m]
  <2>3. f.redis = h
    BY <1>0, <1>2 DEF FrameType
  <2>4. Goto(th, "promote", f)
    BY <1>0, <1>5, <2>1, <2>2 DEF RemoveSlave
  <2> HIDE DEF f
  <2>5. Only(th) /\ at'[th] = "promote" /\ frame'[th].redis = h
    BY <2>3, <2>4, GotoOnly DEF Inv
  <2>6. Switching(th)' /\ at'[th] \notin LateSteps /\ at'[th] \notin PromotingSteps
    BY <2>5 DEF Switching, LateSteps, PromotingSteps
  <2> QED BY <1>0, <1>1, <1>4, <2>5, <2>6, DownWritten
<1>6. CASE ~isMaster[h]
  <2>1. Goto(th, "demote", frame[th])
    BY <1>0, <1>6 DEF RemoveSlave
  <2>2. Only(th) /\ at'[th] = "demote" /\ frame'[th].redis = h
    BY <1>0, <2>1, GotoOnly DEF Inv
  <2>3. Switching(th)' /\ at'[th] \notin LateSteps
    BY <2>2 DEF Switching, LateSteps
  <2>4. Up(g)'
    BY <1>3, <1>4, <1>6
  <2> QED BY <1>0, <1>1, <2>2, <2>3, <2>4, DownWritten
<1> QED BY <1>5, <1>6

LEMMA PromoteWritten ==
  ASSUME Inv, Ranks, Written, Evolves, NEW th \in Threads, Promote(th) \/ PutMaster(th)
  PROVE  Written'
<1>0. PICK h, g : h = frame[th].redis /\ g = Peer(h)
  OBVIOUS
<1>1. /\ at[th] \in CriticalSteps /\ at[th] # "declare"
      /\ UNCHANGED <<isMaster, clients, server>>
  BY DEF Promote, PutMaster, CriticalSteps, serverVars, routeVars
<1>2. h \in Redis /\ g \in Redis
  BY <1>0, <1>1, DownFacts
<1>3. Up(g)' /\ \E s \in {"putMaster", "demote"} : Goto(th, s, frame[th])
  <2>1. CASE Promote(th)
    <3>1. /\ server[g] = "up" /\ role' = [role EXCEPT ![g] = "master"]
          /\ Goto(th, "putMaster", frame[th])
      BY <1>0, <2>1, PromoteReaches
    <3>2. role'[g] = "master"
      BY <1>2, <3>1 DEF Inv, Types, DataOK
    <3> QED BY <1>1, <3>1, <3>2 DEF Up
  <2>2. CASE PutMaster(th)
    <3>1. at[th] \in PromotingSteps /\ role' = role /\ Goto(th, "demote", frame[th])
      BY <2>2 DEF PutMaster, PromotingSteps, serverVars
    <3>2. Up(g)
      BY <1>0, <1>1, <3>1, OtherUp
    <3> QED BY <1>1, <3>1, <3>2 DEF Up
  <2> QED BY <2>1, <2>2
<1>4. Only(th) /\ at'[th] \in {"putMaster", "demote"} /\ frame'[th].redis = h
  BY <1>0, <1>3, GotoOnly DEF Inv
<1>5. Switching(th)' /\ at'[th] \notin LateSteps
  BY <1>4 DEF Switching, LateSteps
<1> QED BY <1>0, <1>1, <1>3, <1>4, <1>5, DownWritten

LEMMA DemoteWritten ==
  ASSUME Inv, Written, Evolves, NEW th \in Threads, Demote(th) \/ PromotePeer(th)
  PROVE  Written'
<1>0. PICK h, g : h = frame[th].redis /\ g = Peer(h)
  OBVIOUS
<1>1. /\ at[th] \in {"demote", "promotePeer"} /\ at[th] \in CriticalSteps /\ at[th] \in PromotingSteps
      /\ UNCHANGED <<clients, server, role>>
  BY DEF Demote, PromotePeer, CriticalSteps, PromotingSteps, serverVars
<1>2. h \in Redis /\ g \in Redis /\ g # h /\ Reporting(h, th) /\ isMaster \in [Redis -> BOOLEAN]
  BY <1>0, <1>1, DownFacts
<1>3. Up(g)'
  <2>1. Up(g)
    BY <1>0, <1>1, OtherUp
  <2> QED BY <1>1, <2>1 DEF Up
<1>4. ~isMaster'[h]
  <2>1. CASE Demote(th)
    BY <1>0, <1>2, <2>1 DEF Demote
  <2>2. CASE PromotePeer(th)
    <3>1. isMaster' = [isMaster EXCEPT ![g] = TRUE] /\ at[th] = "promotePeer"
      BY <1>0, <2>2 DEF PromotePeer
    <3>2. ~isMaster[h]
      BY <1>2, <3>1 DEF Reporting, Shape
    <3> QED BY <1>2, <3>1, <3>2
  <2> QED BY <2>1, <2>2
<1>5. PICK s \in {"promotePeer", "close"} : Goto(th, s, frame[th])
  BY DEF Demote, PromotePeer
<1>6. Only(th) /\ at'[th] = s /\ frame'[th].redis = h
  BY <1>0, <1>5, GotoOnly DEF Inv
<1> QED BY <1>0, <1>1, <1>3, <1>4, <1>6, DownWritten

-----------------------------------------------------------------------------
LEMMA WrittenInit ==
  ASSUME Init
  PROVE  Written
<1>1. /\ DOMAIN clients = {} /\ \A th \in Threads : at[th] \in {"call", "idle"}
      /\ \A g \in Redis : server[g] = "up" /\ role[g] = "master"
  BY DEF Init
<1>2. \A g \in Redis : ~Failed(g) /\ Up(g)
  BY <1>1 DEF Failed, Up, CriticalSteps
<1> QED BY <1>1, <1>2 DEF Written, LateSteps, PromotingSteps

LEMMA WrittenNext ==
  ASSUME Calm, Inv, Ranks, Written, [Next]_vars
  PROVE  Written'
<1>1. Types' /\ Evolves
  BY TypesStep DEF Inv
<1>2. ASSUME NEW th \in Threads, InitClient(th)
      PROVE  Written'
  BY <1>1, <1>2, CallWritten
<1>3. ASSUME NEW th \in Threads, RedisDown(th)
      PROVE  Written'
  BY <1>1, <1>3, RemoveDownWritten, RemoveSlaveWritten, PromoteWritten, DemoteWritten, LateWritten
     DEF RedisDown
<1>4. ASSUME NEW th \in Selectors, NEW n \in Databases, Select(th, n)
      PROVE  Written'
  BY <1>1, <1>4, SelectWritten
<1>5. ASSUME NEW c \in DOMAIN clients, LoopStep(c)
      PROVE  Written'
  BY <1>1, <1>5, ConnectedWritten, ConnectFailedWritten, SetUpWritten, ChannelInactiveWritten
     DEF LoopStep
<1>6. ASSUME NEW c \in DOMAIN clients, TimerStep(c) \/ LinkBreaks(c)
      PROVE  Written'
  BY <1>1, <1>6, TimerLateWritten, TimerDeclareWritten, FailureWritten DEF TimerStep
<1>7. CASE RemoteUp \/ Reconnect \/ ClearReconnect
  BY <1>1, <1>7, HeartWritten
<1>8. CASE RemoteRestarts \/ \E h \in Redis : Crash(h) \/ Hang(h)
  BY <1>1, <1>8, RemoteWritten, FailureWritten
<1>9. CASE RemoteDown \/ UNCHANGED vars
  <2>1. UNCHANGED <<at, frame, isMaster, table, maps, role, server, clients>>
    BY <1>9 DEF RemoteDown, vars, threadVars, routeVars, serverVars, nodeVars
  <2>2. \A c \in DOMAIN clients : Suspect(c)' <=> Suspect(c)
    BY <2>1 DEF Suspect
  <2> QED BY <1>1, <2>1, <2>2, IdleWritten
<1> QED BY <1>2, <1>3, <1>4, <1>5, <1>6, <1>7, <1>8, <1>9 DEF Next

LEMMA WrittenReaches ==
  ASSUME Inv, Written
  PROVE  WritesToMaster
<1> SUFFICES ASSUME NEW n \in Databases, Route(TRUE, n) # 0,
                    clients[Route(TRUE, n)].link = "open",
                    server[clients[Route(TRUE, n)].redis] = "up"
             PROVE  role[clients[Route(TRUE, n)].redis] = "master"
  BY DEF WritesToMaster
<1>1. PICK c : c = Route(TRUE, n)
  OBVIOUS
<1>2. PICK m : m = table[TRUE]
  OBVIOUS
<1>3. m # 0 /\ c # 0 /\ c = maps[m][n]
  BY <1>1, <1>2 DEF Route, Lookup
<1>4. CASE ~Failing
  <2>1. Right
    BY <1>4, RightNow
  <2>2. PICK h \in Redis : isMaster[h] = TRUE
    BY <2>1, Constants DEF Right, Inv, Types, DataOK
  <2>3. clients[c].redis = h
    <3>1. Owned(m, h)
      BY <1>2, <1>3, <2>1, <2>2 DEF Right
    <3> QED BY <1>3, <3>1 DEF Owned
  <2>4. CASE ~Failed(h)
    BY <1>1, <2>2, <2>3, <2>4 DEF Written, Up
  <2>5. CASE Failed(h)
    <3>1. Severing(h)
      BY <1>4, <2>2, <2>5 DEF Written
    <3> QED BY <1>1, <1>2, <1>3, <2>3, <3>1 DEF Severing
  <2> QED BY <2>4, <2>5
<1>5. CASE Failing
  <2>1. PICK th \in Threads : Switching(th)
    BY <1>5 DEF Failing
  <2>2. PICK h, g : h = frame[th].redis /\ g = Peer(h)
    OBVIOUS
  <2>3. at[th] \in CriticalSteps /\ at[th] # "declare"
    BY <2>1 DEF Switching, CriticalSteps
  <2>4. /\ h \in Redis /\ g \in Redis /\ Shape(h, th) /\ isMaster \in [Redis -> BOOLEAN]
        /\ (isMaster[Local] # isMaster[Remote]) <=> (isMaster[h] # isMaster[g])
    BY <2>2, <2>3, DownFacts DEF Reporting
  <2>5. isMaster[g] \/ at[th] \in PromotingSteps => Up(g)
    BY <2>2, <2>3, OtherUp
  <2>6. Up(g) /\ Owned(m, g)
    <3>1. CASE at[th] = "removeSlave"
      <4>1. Right /\ table[isMaster[h]] = 0
        BY <2>4, <3>1 DEF Shape
      <4>2. isMaster[g] = TRUE
        BY <1>2, <1>3, <2>4, <4>1 DEF Right
      <4> QED BY <1>2, <1>3, <2>4, <2>5, <4>1, <4>2 DEF Right
    <3>2. CASE at[th] \in {"promote", "putMaster"}
      BY <1>2, <1>3, <2>4, <3>2 DEF Shape
    <3>3. CASE at[th] \in {"demote", "promotePeer"}
      BY <1>2, <1>3, <2>2, <2>4, <2>5, <3>3 DEF Shape, PromotingSteps
    <3> QED BY <2>1, <3>1, <3>2, <3>3 DEF Switching
  <2>7. clients[c].redis = g
    BY <1>3, <2>6 DEF Owned
  <2> QED BY <1>1, <2>6, <2>7 DEF Up
<1> QED BY <1>4, <1>5

\* A write that an open link takes to a Redis that is up reaches a master, in every
\* state of every failover.
THEOREM WritesReachMaster == ASSUME Calm PROVE Spec => []WritesToMaster
<1>1. Init => Inv /\ Ranks /\ Written
  BY InvInit, RanksInit, WrittenInit
<1>2. Inv /\ Ranks /\ Written /\ [Next]_vars => Inv' /\ Ranks' /\ Written'
  BY InvStep, RanksStep, WrittenNext
<1>3. Inv /\ Written => WritesToMaster
  BY WrittenReaches
<1> QED BY <1>1, <1>2, <1>3, PTL DEF Spec

-----------------------------------------------------------------------------
(* The failover as a hot standby: what HotStandby calls master, writes and    *)
(* reads, before, in and after a redisDown.                                   *)

Writes == RedisOf(table[TRUE])
Reads == RedisOf(table[FALSE])

\* Outside the steps of redisDown that change the table, g has the mastership.
Standing(g) ==
  /\ isMaster[g] /\ ~isMaster[Peer(g)]
  /\ Master = g
  /\ Writes = IF table[TRUE] = 0 THEN NoRedis ELSE g
  /\ Reads = IF table[FALSE] = 0 THEN NoRedis ELSE Peer(g)

\* In them the Redis that is left has it, and all that is still served.
Moving(g) ==
  /\ Master = g
  /\ Writes = IF table[TRUE] = 0 THEN NoRedis ELSE g
  /\ Reads = IF table[FALSE] = 0 THEN NoRedis ELSE g

LEMMA RedisOfOwned ==
  ASSUME NEW m, NEW h \in Redis, Owned(m, h), m # 0
  PROVE  RedisOf(m) = h
<1>1. \E n \in Databases : maps[m][n] # 0 /\ clients[maps[m][n]].redis = h
  BY DEF Owned
<1>2. \A g \in Redis :
        (\E n \in Databases : maps[m][n] # 0 /\ clients[maps[m][n]].redis = g) => g = h
  BY DEF Owned
<1> QED BY <1>1, <1>2 DEF RedisOf

LEMMA NoMap == RedisOf(0) = NoRedis
BY DEF RedisOf

\* At most one thread is in these steps.
LEMMA OneSwitches ==
  ASSUME Inv, NEW th \in Threads, Switching(th)
  PROVE  \A t \in Threads : Switching(t) => t = th
<1>1. at[th] \in CriticalSteps
  BY DEF Switching, CriticalSteps
<1>2. \A t \in Threads \ {th} : AtRest(t)
  BY <1>1, DownFacts DEF Reporting
<1> QED BY <1>2 DEF AtRest, Switching

LEMMA StandingNow ==
  ASSUME Inv, ~Failing
  PROVE  \E g \in Redis : Standing(g)
<1>1. Right
  BY RightNow
<1>2. PICK g \in Redis : isMaster[g] = TRUE /\ isMaster[Peer(g)] = FALSE /\ Peer(g) \in Redis
  BY <1>1, Constants DEF Right, Redis, Peer, Inv, Types, DataOK
<1>3. \A h \in Redis : isMaster[h] => h = g
  BY <1>2, Constants DEF Peer, Redis
<1>4. Master = g
  BY <1>2, <1>3 DEF Master
<1>5. /\ table[TRUE] # 0 => Owned(table[TRUE], g)
      /\ table[FALSE] # 0 => Owned(table[FALSE], Peer(g))
  BY <1>1, <1>2 DEF Right
<1>6. /\ Writes = IF table[TRUE] = 0 THEN NoRedis ELSE g
      /\ Reads = IF table[FALSE] = 0 THEN NoRedis ELSE Peer(g)
  BY <1>2, <1>5, RedisOfOwned, NoMap DEF Writes, Reads
<1> QED BY <1>2, <1>4, <1>6 DEF Standing

LEMMA MovingNow ==
  ASSUME Inv, NEW th \in Threads, Switching(th)
  PROVE  Moving(Peer(frame[th].redis)) /\ Peer(frame[th].redis) \in Redis
<1>1. at[th] \in CriticalSteps /\ Failing
  BY DEF Switching, CriticalSteps, Failing
<1>2. PICK h : h = frame[th].redis
  OBVIOUS
<1>3. PICK g : g = Peer(h)
  OBVIOUS
<1>4. /\ h \in Redis /\ g \in Redis /\ Reporting(h, th) /\ isMaster \in [Redis -> BOOLEAN]
      /\ (isMaster[Local] # isMaster[Remote]) <=> (isMaster[h] # isMaster[g])
  BY <1>1, <1>2, <1>3, DownFacts
<1>5. Shape(h, th)
  BY <1>4 DEF Reporting
<1>6. \A r \in BOOLEAN : table[r] # 0 => Owned(table[r], g)
  <2>1. CASE at[th] = "removeSlave"
    <3>1. Right /\ table[isMaster[h]] = 0
      BY <1>5, <2>1 DEF Shape
    <3>2. \A r \in BOOLEAN : r = isMaster[h] \/ r = isMaster[g]
      BY <1>4, <3>1 DEF Right
    <3> QED BY <1>4, <3>1, <3>2 DEF Right
  <2>2. CASE at[th] \in {"promote", "putMaster"}
    BY <1>5, <2>2 DEF Shape
  <2>3. CASE at[th] \in {"demote", "promotePeer"}
    BY <1>3, <1>5, <2>3 DEF Shape
  <2> QED BY <2>1, <2>2, <2>3 DEF Switching
<1>7. Master = g
  <2>1. (CHOOSE t \in Threads : Switching(t)) = th
    BY OneSwitches
  <2> QED BY <1>1, <1>2, <1>3, <2>1 DEF Master
<1>8. /\ Writes = IF table[TRUE] = 0 THEN NoRedis ELSE g
      /\ Reads = IF table[FALSE] = 0 THEN NoRedis ELSE g
  BY <1>4, <1>6, RedisOfOwned, NoMap DEF Writes, Reads
<1> QED BY <1>2, <1>3, <1>4, <1>7, <1>8 DEF Moving

\* Both, of the state after a step as well.
Stands ==
  /\ ~Failing => \E g \in Redis : Standing(g)
  /\ \A th \in Threads : Switching(th) =>
       Peer(frame[th].redis) \in Redis /\ Moving(Peer(frame[th].redis))

LEMMA StandbyNow == Inv => Stands
BY StandingNow, MovingNow DEF Stands

LEMMA StandbyThen == Inv' => Stands'
BY StandbyNow, PTL

-----------------------------------------------------------------------------
(* Every step is one of HotStandby or changes nothing of it.                  *)

StandbyStep == [Standby!Next]_<<Master, RedisOf(table[TRUE]), RedisOf(table[FALSE])>>

LEMMA SameStandby ==
  ASSUME Master' = Master, Writes' = Writes, Reads' = Reads
  PROVE  StandbyStep
BY DEF StandbyStep, Writes, Reads

\* The table stays, and so do the threads that are changing it.
LEMMA StandbyStays ==
  ASSUME Inv, Inv', table' = table, Failing \/ isMaster' = isMaster,
         \A t \in Threads : /\ Switching(t)' <=> Switching(t)
                            /\ Switching(t) => frame'[t].redis = frame[t].redis
  PROVE  StandbyStep
<1>1. Stands /\ Stands'
  BY StandbyNow, StandbyThen
<1>2. CASE Failing
  <2>1. PICK t \in Threads : Switching(t)
    BY <1>2 DEF Failing
  <2>2. PICK g : g = Peer(frame[t].redis)
    OBVIOUS
  <2>3. Moving(g) /\ Moving(g)'
    BY <1>1, <2>1, <2>2 DEF Stands
  <2> QED BY <2>3, SameStandby DEF Moving
<1>3. CASE ~Failing
  <2>1. ~Failing' /\ isMaster' = isMaster
    BY <1>3 DEF Failing
  <2>2. PICK g \in Redis : Standing(g)
    BY <1>1, <1>3 DEF Stands
  <2>3. PICK e \in Redis : Standing(e)'
    BY <1>1, <2>1 DEF Stands
  <2>4. e = g
    <3>1. isMaster[e] /\ isMaster[g] /\ ~isMaster[Peer(g)]
      BY <2>1, <2>2, <2>3 DEF Standing
    <3> QED BY <3>1, Constants DEF Peer, Redis
  <2> QED BY <2>2, <2>3, <2>4, SameStandby DEF Standing
<1> QED BY <1>2, <1>3

\* ... in a step of a thread that is not one of them.
LEMMA QuietStandby ==
  ASSUME Inv, Inv', NEW th \in Threads, Only(th), ~Switching(th), ~Switching(th)',
         table' = table, isMaster' = isMaster
  PROVE  StandbyStep
<1>1. \A t \in Threads : /\ Switching(t)' <=> Switching(t)
                         /\ Switching(t) => frame'[t].redis = frame[t].redis
  BY DEF Only, Switching
<1> QED BY <1>1, StandbyStays

\* ... or that no thread makes.
LEMMA IdleStandby ==
  ASSUME Inv, Inv', UNCHANGED <<at, frame, table, isMaster>>
  PROVE  StandbyStep
<1>1. \A t \in Threads : /\ Switching(t)' <=> Switching(t)
                         /\ Switching(t) => frame'[t].redis = frame[t].redis
  BY DEF Switching
<1> QED BY <1>1, StandbyStays

\* The first client of a role is routed.
LEMMA PutClientStandby ==
  ASSUME Inv, Inv', NEW th \in Threads, PutClient(th)
  PROVE  StandbyStep
<1> DEFINE h == Head(frame[th].calls).redis
<1>1. /\ at[th] = "put" /\ ~AtRest(th) /\ at[th] \notin CriticalSteps /\ isMaster' = isMaster
      /\ isMaster \in [Redis -> BOOLEAN] /\ table \in [BOOLEAN -> 0 .. Len(maps)]
  BY DEF PutClient, AtRest, CriticalSteps, Inv, Types, DataOK
<1>2. PICK f : Goto(th, "call", f)
  BY DEF PutClient
<1>3. Only(th) /\ at'[th] = "call"
  BY <1>2, GotoOnly DEF Inv
<1>4. ~Switching(th) /\ ~Switching(th)'
  BY <1>1, <1>3 DEF Switching
<1>5. CASE table' = table
  BY <1>1, <1>3, <1>4, <1>5, QuietStandby
<1>6. CASE table' # table
  <2>1. PICK m : m = Len(maps')
    OBVIOUS
  <2>2. table' = [table EXCEPT ![isMaster[h]] = m] /\ m # 0
    <3>1. maps \in Seq([Databases -> 0 .. Len(clients)])
      BY DEF Inv, Types, DataOK
    <3>2. frame[th].found = 0
      BY <1>6 DEF PutClient
    <3>3. /\ maps' = Append(maps, [n \in Databases |-> IF n = Head(frame[th].calls).db THEN frame[th].made ELSE 0])
          /\ table' = [table EXCEPT ![isMaster[h]] = Len(maps')]
      BY <3>2 DEF PutClient
    <3>4. m \in Nat /\ m # 0
      <4>1. maps' \in Seq([Databases -> 0 .. Len(clients')]) /\ DOMAIN maps' = 1 .. Len(maps') /\ Len(maps') \in Nat
        BY LenProperties DEF Inv, Types, DataOK
      <4>2. PICK e : maps' = Append(maps, e)
        BY <3>3
      <4>3. maps' # <<>>
        BY <3>1, <4>2
      <4> QED BY <2>1, <4>1, <4>3
    <3> QED BY <2>1, <3>3, <3>4
  <2>3. ~Failing
    <3>1. ASSUME NEW t \in Threads, Switching(t)
          PROVE  FALSE
      <4>1. at[t] \in CriticalSteps
        BY <3>1 DEF Switching, CriticalSteps
      <4>2. t # th
        BY <1>4, <3>1
      <4> QED BY <1>1, <4>1, <4>2, DownFacts DEF Reporting
    <3> QED BY <3>1 DEF Failing
  <2>4. ~Failing'
    BY <1>3, <1>4, <2>3 DEF Failing, Only, Switching
  <2>5. PICK g \in Redis : Standing(g)
    BY <2>3, StandbyNow DEF Stands
  <2>6. PICK e \in Redis : Standing(e)'
    BY <2>4, StandbyThen DEF Stands
  <2>7. e = g
    <3>1. isMaster[e] /\ isMaster[g] /\ ~isMaster[Peer(g)]
      BY <1>1, <2>5, <2>6 DEF Standing
    <3> QED BY <3>1, Constants DEF Peer, Redis
  <2>8. Master' = g /\ Master = g /\ Peer(g) \in Redis \ {g} /\ g # NoRedis /\ Peer(g) # NoRedis
    BY <2>5, <2>6, <2>7, Constants DEF Standing
  <2>9. h \in Redis
    <3>1. frame[th].calls \in Seq(CallType) /\ frame[th].calls # <<>>
      BY <1>1 DEF Inv, Types, ThreadsOK, FrameOK, FrameType
    <3>2. Head(frame[th].calls) \in CallType
      BY <3>1, HeadTailProperties
    <3> QED BY <3>2 DEF CallType
  <2>10. isMaster[h] \in BOOLEAN
    BY <1>1, <2>9
  <2>11. CASE isMaster[h] = TRUE
    <3>1. table'[TRUE] = m /\ table'[FALSE] = table[FALSE]
      BY <1>1, <2>2, <2>11
    <3>2. Writes' = g /\ Reads' = Reads /\ Reads # g
      BY <2>2, <2>5, <2>6, <2>7, <2>8, <3>1 DEF Standing
    <3>3. CASE table[TRUE] = 0
      <4>1. Writes = NoRedis
        BY <2>5, <3>3 DEF Standing
      <4>2. Standby!ServeWrites
        BY <2>8, <3>2, <4>1 DEF Standby!ServeWrites, Writes, Reads
      <4> QED BY <4>2 DEF StandbyStep, Standby!Next
    <3>4. CASE table[TRUE] # 0
      <4>1. Writes = g
        BY <2>5, <3>4 DEF Standing
      <4> QED BY <2>8, <3>2, <4>1, SameStandby
    <3> QED BY <3>3, <3>4
  <2>12. CASE isMaster[h] = FALSE
    <3>1. table'[FALSE] = m /\ table'[TRUE] = table[TRUE]
      BY <1>1, <2>2, <2>12
    <3>2. Reads' = Peer(g) /\ Writes' = Writes
      BY <2>2, <2>5, <2>6, <2>7, <3>1 DEF Standing
    <3>3. CASE table[FALSE] = 0
      <4>1. Reads = NoRedis
        BY <2>5, <3>3 DEF Standing
      <4>2. Standby!ServeReads
        BY <2>8, <3>2, <4>1 DEF Standby!ServeReads, Writes, Reads
      <4> QED BY <4>2 DEF StandbyStep, Standby!Next
    <3>4. CASE table[FALSE] # 0
      <4>1. Reads = Peer(g)
        BY <2>5, <3>4 DEF Standing
      <4> QED BY <2>8, <3>2, <4>1, SameStandby
    <3> QED BY <3>3, <3>4
  <2> QED BY <2>10, <2>11, <2>12
<1> QED BY <1>5, <1>6

\* The master is removed and the other Redis is to take over, or reads stop.
LEMMA RemoveDownStandby ==
  ASSUME Inv, Inv', NEW th \in Threads, RemoveDown(th)
  PROVE  StandbyStep
<1>0. PICK h : h = frame[th].redis
  OBVIOUS
<1>1. /\ at[th] = "remove" /\ at[th] \in CriticalSteps /\ ~Switching(th)
      /\ UNCHANGED <<isMaster, maps, clients>>
      /\ table' = [table EXCEPT ![isMaster[h]] = 0]
  BY <1>0 DEF RemoveDown, CriticalSteps, Switching
<1>2. /\ h \in Redis /\ Reporting(h, th) /\ frame[th] \in FrameType
      /\ isMaster \in [Redis -> BOOLEAN] /\ table \in [BOOLEAN -> 0 .. Len(maps)]
  BY <1>0, <1>1, DownFacts
<1>3. CASE MapOf(h) = 0
  <2>1. table' = table
    BY <1>1, <1>2, <1>3 DEF MapOf
  <2>2. Goto(th, "idle", NoFrame)
    BY <1>0, <1>3 DEF RemoveDown, Return
  <2>3. Only(th) /\ ~Switching(th)'
    BY <2>2, GotoOnly DEF Inv, Switching
  <2> QED BY <1>1, <2>1, <2>3, QuietStandby
<1>4. CASE MapOf(h) # 0
  <2> DEFINE f == [frame[th] EXCEPT !.down = MapOf(h)]
  <2>1. f.redis = h
    BY <1>0, <1>2 DEF FrameType
  <2>2. Goto(th, "removeSlave", f)
    BY <1>0, <1>4 DEF RemoveDown
  <2> HIDE DEF f
  <2>3. Switching(th)' /\ frame'[th].redis = h
    BY <2>1, <2>2, GotoOnly DEF Inv, Switching
  <2>4. PICK e : e = Peer(h)
    OBVIOUS
  <2>5. Moving(e)' /\ e \in Redis \ {h} /\ Peer(e) = h /\ e # NoRedis /\ h # NoRedis
    BY <1>2, <2>3, <2>4, StandbyThen, Constants DEF Stands, Peer, Redis
  <2>6. ~Failing
    BY <1>1, <1>2 DEF Reporting, AtRest, Failing, Switching
  <2>7. PICK g \in Redis : Standing(g)
    BY <2>6, StandbyNow DEF Stands
  <2>8. g = h \/ g = e
    BY <1>2, <2>4, <2>7, Constants DEF Peer, Redis
  <2>9. CASE g = h
    <3>1. isMaster[h] = TRUE
      BY <1>2, <2>7, <2>9 DEF Standing
    <3>2. table[TRUE] # 0 /\ table'[TRUE] = 0 /\ table'[FALSE] = table[FALSE]
      BY <1>1, <1>2, <1>4, <3>1 DEF MapOf
    <3>3. Writes = h /\ Writes' = NoRedis /\ Master = h /\ Master' = e /\ Reads' = Reads
      BY <2>4, <2>5, <2>7, <2>9, <3>2 DEF Standing, Moving
    <3>4. Standby!MasterDown
      BY <2>5, <3>3 DEF Standby!MasterDown, Writes, Reads
    <3> QED BY <3>4 DEF StandbyStep, Standby!Next
  <2>10. CASE g = e
    <3>1. isMaster[h] = FALSE
      BY <1>2, <2>5, <2>7, <2>10 DEF Standing
    <3>2. table[FALSE] # 0 /\ table'[FALSE] = 0 /\ table'[TRUE] = table[TRUE]
      BY <1>1, <1>2, <1>4, <3>1 DEF MapOf
    <3>3. Reads = h /\ Reads' = NoRedis /\ Master = e /\ Master' = e /\ Writes' = Writes
      BY <2>5, <2>7, <2>10, <3>2 DEF Standing, Moving
    <3>4. Standby!StopReads
      BY <2>5, <3>3 DEF Standby!StopReads, Writes, Reads
    <3> QED BY <3>4 DEF StandbyStep, Standby!Next
  <2> QED BY <2>8, <2>9, <2>10
<1> QED BY <1>3, <1>4

\* Reads stop, of the Redis that is to take over.
LEMMA RemoveSlaveStandby ==
  ASSUME Inv, Inv', NEW th \in Threads, RemoveSlave(th)
  PROVE  StandbyStep
<1>0. PICK h : h = frame[th].redis
  OBVIOUS
<1>1. /\ at[th] = "removeSlave" /\ at[th] \in CriticalSteps /\ Switching(th)
      /\ UNCHANGED isMaster
  BY DEF RemoveSlave, CriticalSteps, Switching
<1>2. /\ h \in Redis /\ frame[th] \in FrameType /\ table \in [BOOLEAN -> 0 .. Len(maps)]
  BY <1>0, <1>1, DownFacts
<1>3. PICK m : m = table[FALSE]
  OBVIOUS
<1>4. PICK s \in {"promote", "demote"} : \E f : Goto(th, s, f) /\ f.redis = h
  <2>1. [frame[th] EXCEPT !.slaves = m].redis = h /\ frame[th].redis = h
    BY <1>0, <1>2 DEF FrameType
  <2> QED BY <1>3, <2>1 DEF RemoveSlave
<1>5. Only(th) /\ Switching(th)' /\ frame'[th].redis = h
  BY <1>4, GotoOnly DEF Inv, Switching
<1>6. CASE table' = table
  <2>1. \A t \in Threads : /\ Switching(t)' <=> Switching(t)
                           /\ Switching(t) => frame'[t].redis = frame[t].redis
    BY <1>0, <1>1, <1>5 DEF Only, Switching
  <2> QED BY <1>1, <1>6, <2>1, StandbyStays
<1>7. CASE table' # table
  <2>1. table' = [table EXCEPT ![FALSE] = 0]
    BY <1>7 DEF RemoveSlave
  <2>2. table[FALSE] # 0 /\ table'[FALSE] = 0 /\ table'[TRUE] = table[TRUE]
    BY <1>2, <1>7, <2>1
  <2>3. PICK g : g = Peer(h) /\ g \in Redis /\ g # NoRedis
    BY <1>2, Constants
  <2>4. Moving(g) /\ Moving(g)'
    BY <1>0, <1>1, <1>5, <2>3, StandbyNow, StandbyThen DEF Stands
  <2>5. Reads = g /\ Reads' = NoRedis /\ Master' = Master /\ Writes' = Writes
    BY <2>2, <2>4 DEF Moving
  <2>6. Standby!StopReads
    BY <2>3, <2>5 DEF Standby!StopReads, Writes, Reads
  <2> QED BY <2>6 DEF StandbyStep, Standby!Next
<1> QED BY <1>6, <1>7

\* The slave is told, which no front-end client sees; then it has the writes.
LEMMA PromoteStandby ==
  ASSUME Inv, Inv', Ranks, NEW th \in Threads, Promote(th) \/ PutMaster(th)
  PROVE  StandbyStep
<1>0. PICK h : h = frame[th].redis
  OBVIOUS
<1>1. /\ at[th] \in {"promote", "putMaster"} /\ at[th] \in CriticalSteps /\ Switching(th)
      /\ UNCHANGED isMaster
  BY DEF Promote, PutMaster, CriticalSteps, Switching, routeVars
<1>2. h \in Redis /\ Reporting(h, th) /\ table \in [BOOLEAN -> 0 .. Len(maps)]
  BY <1>0, <1>1, DownFacts
<1>3. PICK s \in {"putMaster", "demote"} : Goto(th, s, frame[th])
  BY PromoteReaches DEF PutMaster
<1>4. Only(th) /\ Switching(th)' /\ frame'[th].redis = h
  BY <1>0, <1>3, GotoOnly DEF Inv, Switching
<1>5. CASE Promote(th)
  <2>1. \A t \in Threads : /\ Switching(t)' <=> Switching(t)
                           /\ Switching(t) => frame'[t].redis = frame[t].redis
    BY <1>0, <1>1, <1>4 DEF Only, Switching
  <2>2. table' = table
    BY <1>5 DEF Promote, routeVars
  <2> QED BY <1>1, <2>1, <2>2, StandbyStays
<1>6. CASE PutMaster(th)
  <2>1. PICK m : m = frame[th].slaves
    OBVIOUS
  <2>2. m \in DOMAIN maps /\ m # 0 /\ table' = [table EXCEPT ![TRUE] = m]
    <3>1. m \in DOMAIN maps
      <4>1. at[th] = "putMaster"
        BY <1>6 DEF PutMaster
      <4> QED BY <1>1, <2>1, <4>1, WorkFrame DEF Inv
    <3> QED BY <1>6, <2>1, <3>1, Domains DEF PutMaster, Inv, Types
  <2>3. \A r \in BOOLEAN : table[r] = 0
    BY <1>1, <1>2 DEF Reporting, Shape
  <2>4. table'[TRUE] = m /\ table'[FALSE] = 0 /\ table[TRUE] = 0 /\ table[FALSE] = 0
    BY <1>2, <2>2, <2>3
  <2>5. PICK g : g = Peer(h) /\ g \in Redis /\ g # NoRedis
    BY <1>2, Constants
  <2>6. Moving(g) /\ Moving(g)'
    BY <1>0, <1>1, <1>4, <2>5, StandbyNow, StandbyThen DEF Stands
  <2>7. /\ Writes = NoRedis /\ Writes' = g /\ Reads = NoRedis /\ Reads' = NoRedis
        /\ Master = g /\ Master' = g
    BY <2>2, <2>4, <2>6 DEF Moving
  <2>8. Standby!ServeWrites
    BY <2>5, <2>7 DEF Standby!ServeWrites, Writes, Reads
  <2> QED BY <2>8 DEF StandbyStep, Standby!Next
<1> QED BY <1>5, <1>6

\* The flags follow, when the table is already that of the new master.
LEMMA DemoteStandby ==
  ASSUME Inv, Inv', NEW th \in Threads, Demote(th) \/ PromotePeer(th)
  PROVE  StandbyStep
<1>0. PICK h : h = frame[th].redis
  OBVIOUS
<1>1. /\ at[th] \in {"demote", "promotePeer"} /\ at[th] \in CriticalSteps /\ Switching(th)
      /\ Failing /\ table' = table
  BY DEF Demote, PromotePeer, CriticalSteps, Switching, Failing
<1>2. h \in Redis /\ Reporting(h, th) /\ isMaster \in [Redis -> BOOLEAN]
  BY <1>0, <1>1, DownFacts
<1>3. CASE Demote(th)
  <2>1. Goto(th, "promotePeer", frame[th])
    BY <1>3 DEF Demote
  <2>2. Only(th) /\ Switching(th)' /\ frame'[th] = frame[th]
    BY <2>1, GotoOnly DEF Inv, Switching
  <2>3. \A t \in Threads : /\ Switching(t)' <=> Switching(t)
                           /\ Switching(t) => frame'[t].redis = frame[t].redis
    BY <1>1, <2>2 DEF Only, Switching
  <2> QED BY <1>1, <2>3, StandbyStays
<1>4. CASE PromotePeer(th)
  <2>1. PICK g : g = Peer(h) /\ g \in Redis /\ g # h /\ Peer(g) = h
    BY <1>2, Constants DEF Peer, Redis
  <2>2. isMaster' = [isMaster EXCEPT ![g] = TRUE] /\ Goto(th, "close", frame[th])
    BY <1>0, <1>4, <2>1 DEF PromotePeer
  <2>3. Only(th) /\ ~Switching(th)' /\ isMaster'[g]
    BY <1>2, <2>1, <2>2, GotoOnly DEF Inv, Switching
  <2>4. ~Failing'
    <3>1. \A t \in Threads : Switching(t) => t = th
      BY <1>1, OneSwitches
    <3> QED BY <2>3, <3>1 DEF Failing, Only, Switching
  <2>5. PICK e \in Redis : Standing(e)'
    BY <2>4, StandbyThen DEF Stands
  <2>6. e = g
    <3>1. ~isMaster'[Peer(e)]
      BY <2>5 DEF Standing
    <3> QED BY <2>1, <2>3, <3>1, Constants DEF Peer, Redis
  <2>7. Moving(g) /\ table[FALSE] = 0
    <3>1. Moving(g)
      BY <1>0, <1>1, <2>1, StandbyNow DEF Stands
    <3> QED BY <1>1, <1>2, <3>1 DEF Reporting, Shape
  <2>8. Master' = Master /\ Writes' = Writes /\ Reads' = Reads
    BY <1>1, <2>5, <2>6, <2>7 DEF Standing, Moving
  <2> QED BY <2>8, SameStandby
<1> QED BY <1>3, <1>4

LEMMA StandbyInit ==
  ASSUME Init
  PROVE  Standby!Init
<1>1. /\ ~Failing /\ table[TRUE] = 0 /\ table[FALSE] = 0
      /\ \E h \in Redis : isMaster[h]
  BY Constants DEF Init, Failing, Switching
<1>2. Master \in Redis /\ RedisOf(table[TRUE]) = NoRedis /\ RedisOf(table[FALSE]) = NoRedis
  BY <1>1 DEF Master, RedisOf
<1> QED BY <1>2 DEF Standby!Init

LEMMA StandbyNext ==
  ASSUME Calm, Inv, Ranks, [Next]_vars
  PROVE  StandbyStep
<1>1. Inv'
  BY InvStep
<1>2. ASSUME NEW th \in Threads, InitClient(th)
      PROVE  StandbyStep
  <2>1. CASE PutClient(th)
    BY <1>1, <2>1, PutClientStandby
  <2>2. CASE Check(th) \/ NewClient(th) \/ CallsDone(th)
    <3>1. PICK s \in {"idle", "call", "new", "put", "reconnect"} : \E f : Goto(th, s, f)
      BY <2>2 DEF Check, NewClient, CallsDone, Return
    <3>2. Only(th) /\ ~Switching(th)'
      BY SMTT(30), <3>1, GotoOnly DEF Inv, Switching
    <3>3. ~Switching(th) /\ table' = table /\ isMaster' = isMaster
      BY <2>2 DEF Check, NewClient, CallsDone, Switching, routeVars
    <3> QED BY <1>1, <3>2, <3>3, QuietStandby
  <2> QED BY <1>2, <2>1, <2>2 DEF InitClient
<1>3. ASSUME NEW th \in Threads, RedisDown(th)
      PROVE  StandbyStep
  <2>1. CASE CloseDown(th) \/ RestartRedis(th) \/ Ssh(th)
    <3>1. PICK s \in {"idle", "new", "restart", "ssh"} : \E f : Goto(th, s, f)
      BY <2>1, ClosedClients DEF Inv, RestartRedis, Ssh, Return
    <3>2. Only(th) /\ ~Switching(th)'
      BY <3>1, GotoOnly DEF Inv, Switching
    <3>3. ~Switching(th) /\ table' = table /\ isMaster' = isMaster
      BY <2>1 DEF CloseDown, RestartRedis, Ssh, Switching, routeVars
    <3> QED BY <1>1, <3>2, <3>3, QuietStandby
  <2> QED BY <1>1, <1>3, <2>1, RemoveDownStandby, RemoveSlaveStandby, PromoteStandby, DemoteStandby
          DEF RedisDown
<1>4. ASSUME NEW th \in Selectors, NEW n \in Databases, Select(th, n)
      PROVE  StandbyStep
  <2>1. PICK f : Goto(th, "call", f)
    BY <1>4 DEF Select
  <2>2. th \in Threads /\ Only(th) /\ ~Switching(th)' /\ ~Switching(th)
    BY <1>4, <2>1, ThreadKinds, GotoOnly DEF Inv, Select, Switching
  <2>3. table' = table /\ isMaster' = isMaster
    BY <1>4 DEF Select, routeVars
  <2> QED BY <1>1, <2>2, <2>3, QuietStandby
<1>5. ASSUME NEW c \in DOMAIN clients, LoopStep(c) \/ TimerStep(c) \/ LinkBreaks(c)
      PROVE  StandbyStep
  <2>1. Loop(c) \in Threads /\ Timer(c) \in Threads
    BY LoopThreads, Domains, ThreadKinds DEF Inv, Types
  <2>2. table' = table /\ isMaster' = isMaster
    BY <1>5 DEF LoopStep, TimerStep, Connected, ConnectFailed, SendSlaveof, InitDatabase,
                ChannelInactive, TimerLate, TimerDeclare, LinkBreaks, routeVars
  <2>3. \/ UNCHANGED <<at, frame>>
        \/ \E th \in {Loop(c), Timer(c)}, s \in {"slaveof", "initDatabase", "call", "remove", "declare"} :
             /\ at[th] \in {"idle", "slaveof", "initDatabase", "declare"}
             /\ \E f : Goto(th, s, f)
    BY <1>5 DEF LoopStep, TimerStep, Connected, ConnectFailed, SendSlaveof, InitDatabase,
                ChannelInactive, TimerLate, TimerDeclare, LinkBreaks, threadVars
  <2>4. CASE UNCHANGED <<at, frame>>
    BY <1>1, <2>2, <2>4, IdleStandby
  <2>5. ASSUME NEW th \in Threads,
               NEW s \in {"slaveof", "initDatabase", "call", "remove", "declare"}, NEW f,
               at[th] \in {"idle", "slaveof", "initDatabase", "declare"}, Goto(th, s, f)
        PROVE  StandbyStep
    <3>1. Only(th) /\ ~Switching(th) /\ ~Switching(th)'
      BY <2>5, GotoOnly DEF Inv, Switching
    <3> QED BY <1>1, <2>2, <3>1, QuietStandby
  <2> QED BY <2>1, <2>3, <2>4, <2>5
<1>6. CASE RemoteUp \/ Reconnect \/ ClearReconnect
  <2>1. PICK s \in {"idle", "new", "clear", "reconnect"} : \E f : Goto(Heart, s, f)
    BY <1>6 DEF RemoteUp, Reconnect, ClearReconnect, Return
  <2>2. Heart \in Threads /\ Only(Heart) /\ ~Switching(Heart) /\ ~Switching(Heart)'
    BY <1>6, <2>1, ThreadKinds, GotoOnly DEF Inv, RemoteUp, Reconnect, ClearReconnect, Switching
  <2>3. table' = table /\ isMaster' = isMaster
    BY <1>6 DEF RemoteUp, Reconnect, ClearReconnect, routeVars
  <2> QED BY <1>1, <2>2, <2>3, QuietStandby
<1>7. CASE RemoteRestarts \/ RemoteDown \/ (\E h \in Redis : Crash(h) \/ Hang(h)) \/ UNCHANGED vars
  <2>1. UNCHANGED <<at, frame, table, isMaster>>
    BY <1>7 DEF RemoteRestarts, RemoteDown, Crash, Hang, vars, threadVars, routeVars
  <2> QED BY <1>1, <2>1, IdleStandby
<1> QED BY <1>2, <1>3, <1>4, <1>5, <1>6, <1>7 DEF Next

\* The failover implements a hot standby: writes move from one Redis to the other
\* only through a redisDown of the master, and reads never share a Redis with
\* writes that a redisDown has moved to it.
THEOREM StandbyImplemented == ASSUME Calm PROVE Spec => ImplementsStandby
<1>1. Init => Inv /\ Ranks /\ Standby!Init
  BY InvInit, RanksInit, StandbyInit
<1>2. Inv /\ Ranks /\ [Next]_vars => Inv' /\ Ranks'
  BY InvStep, RanksStep
<1>3. Inv /\ Ranks /\ [Next]_vars
        => [Standby!Next]_<<Master, RedisOf(table[TRUE]), RedisOf(table[FALSE])>>
  BY StandbyNext DEF StandbyStep
<1> QED BY <1>1, <1>2, <1>3, PTL DEF Spec, ImplementsStandby, Standby!Spec, Standby!vars
=============================================================================
