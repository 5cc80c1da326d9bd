------------------------------ MODULE Failover ------------------------------
(***************************************************************************)
(* The routing table of one proxy for one slice and its failover           *)
(* (redisproxy/RedisProxyClient.java: redisDown, initRedisProxyClient,     *)
(* the two initDatabase, operationComplete, checkALLRedisState).           *)
(*                                                                         *)
(* A slice has two Redis, one of each host.  The static routingTable gives *)
(* for each role, master or slave, a map from database numbers to clients; *)
(* its key is read from the mutable flag master of the RedisInfo at each   *)
(* use.  When the client of database 0 finds its Redis down, redisDown     *)
(* removes the entry of that Redis, makes the slave's map the master's,    *)
(* promotes the slave, swaps the flags, restarts the Redis and opens a new *)
(* client, which makes it a slave when it connects.  Several threads run   *)
(* these methods without a lock: the event loop and the timer of every     *)
(* client of database 0, the threads of front-end clients that SELECT, and *)
(* the heartbeat client.                                                   *)
(*                                                                         *)
(* Not here: requests and replies (module RedisPipeline), the field run of *)
(* RedisInfo (shown to users, never read by the proxy), and l.540-541,     *)
(* whose condition no task meets.  A SLAVEOF takes effect when it is sent. *)
(***************************************************************************)
EXTENDS Naturals, Sequences, FiniteSets, Functions

CONSTANTS
  Local, Remote,   \* the Redis of this host and of the other one
  Databases,       \* the numbers of the databases in use, 0 among them
  Selectors,       \* threads of front-end clients that SELECT
  Heart,           \* the event loop of the heartbeat client
  Failures,        \* what may fail: "crash", "hang", "link", "proxy"
  StartVip,        \* the values of haveVirtualIp a proxy starts with
  Calm,            \* TRUE: failures and SELECTs meet a healthy slice only, and
                   \* a failure is not detected by two threads at once; the
                   \* other proxy does not come back during an ssh
  MaxFailures, MaxClients,   \* bounds on the failures and the clients of a run
  NoRedis, NoThread

Redis == {Local, Remote}
Peer(h) == IF h = Local THEN Remote ELSE Local   \* RedisInfo.sliceRedisInfo
Clients == 1 .. MaxClients
Loop(c) == <<c, "loop">>
Timer(c) == <<c, "timer">>
Threads == (Clients \X {"loop", "timer"}) \cup Selectors \cup {Heart}

ASSUME RedisAssumption == Local # Remote /\ NoRedis \notin Redis
ASSUME DatabasesAssumption == 0 \in Databases /\ Databases \subseteq Nat /\ IsFiniteSet(Databases)
ASSUME BoundsAssumption == MaxFailures \in Nat /\ MaxClients \in Nat
ASSUME SwitchesAssumption == StartVip \subseteq BOOLEAN /\ Calm \in BOOLEAN
ASSUME ThreadsAssumption ==
  /\ Heart \notin Selectors /\ NoThread \notin Threads
  /\ (Selectors \cup {Heart}) \cap (Clients \X {"loop", "timer"}) = {}

VARIABLES
  isMaster,    \* the flag master of each RedisInfo
  table,       \* routingTable: the index in maps of each role's map, or 0
  maps,        \* the inner maps: the index in clients for each database, or 0
  clients,     \* the RedisProxyClient objects, in the order of their creation
  at, frame,   \* the next step of each thread and the locals of its call
  selectLock,  \* selectLockList: the holder of each lock, or NoThread
  server,      \* each Redis: "up", "hung" or "dead"
  role,        \* what each Redis is, whatever the proxy believes
  vip,         \* HeartBeatServer.haveVirtualIp
  remoteRuns,  \* HeartBeatServer.remoteHARedisIsRun
  reconnect,   \* HeartBeatServer.reconnectRedisInfoList
  failures     \* the number of failures so far

threadVars == <<at, frame, selectLock>>
routeVars  == <<isMaster, table, maps>>
serverVars == <<server, role>>
nodeVars   == <<vip, remoteRuns, reconnect>>
vars == <<threadVars, routeVars, clients, serverVars, nodeVars, failures>>

\* redis, down, slaves: redisInfo, downClients, slaveClients of redisDown.
\* calls: the calls of initRedisProxyClient still to make; found and made:
\* its locals clients and redisClient.  next: the index of the loop over
\* reconnectRedisInfoList, 0 outside it.
NoFrame == [redis |-> NoRedis, down |-> 0, slaves |-> 0,
            calls |-> <<>>, found |-> 0, made |-> 0, next |-> 0]

\* A call of initRedisProxyClient, from initSelectRedisProxyClient if check.
Call(h, n, check) == [redis |-> h, db |-> n, check |-> check]

\* The heartbeat client has its first AUTH_SUCCESS of a peer without the
\* virtual IP and takes it with the roles if it is configured as the master, leaves
\* both to the peer otherwise, or takes the opposite of the flags of a peer that has
\* it, after whatever failovers (HeartBeatClientHandler l.45-62); then it opens the
\* connections.
Init ==
  /\ vip \in StartVip
  /\ \E m \in Redis : (vip => m = Local) /\ isMaster = [h \in Redis |-> h = m]
  /\ table = [r \in BOOLEAN |-> 0] /\ maps = <<>> /\ clients = <<>>
  /\ at = [th \in Threads |-> IF th = Heart THEN "call" ELSE "idle"]
  /\ frame = [th \in Threads |->
       IF th = Heart
         THEN [NoFrame EXCEPT !.calls = <<Call(Local, 0, TRUE), Call(Remote, 0, TRUE)>>]
         ELSE NoFrame]
  /\ selectLock = [n \in Databases |-> NoThread]
  /\ server = [h \in Redis |-> "up"] /\ role = [h \in Redis |-> "master"]
  /\ remoteRuns = TRUE /\ reconnect = <<>>
  /\ failures = 0

\* Thread th goes on at step s with locals f.
Goto(th, s, f) ==
  /\ at' = [at EXCEPT ![th] = s]
  /\ frame' = [frame EXCEPT ![th] = f]

Return(th) == Goto(th, "idle", NoFrame)

\* The key that equals the RedisInfo of h now, and its map (0 if none).
MapOf(h) == table[isMaster[h]]

\* The client of database n in the map of role r (l.332-339), or 0.
Lookup(r, n) == IF table[r] = 0 THEN 0 ELSE maps[table[r]][n]

\* Where executeRedisTask sends a command, 0 if it is refused: a read goes to
\* the slave, or to the master when there is no such client (l.350-363).
Route(toMaster, n) ==
  LET c == IF toMaster \/ Lookup(FALSE, n) = 0 THEN Lookup(TRUE, n) ELSE Lookup(FALSE, n)
  IN  IF c # 0 /\ clients[c].connected THEN c ELSE 0

\* clients with every link to h broken.
Unlinked(h) ==
  [c \in DOMAIN clients |-> IF clients[c].redis = h /\ clients[c].link = "open"
                              THEN [clients[c] EXCEPT !.link = "broken"] ELSE clients[c]]

-----------------------------------------------------------------------------
(* initRedisProxyClient and the methods that call it.                      *)

\* initSelectRedisProxyClient: nothing to do if the table has the client.
Check(th) ==
  /\ at[th] = "call" /\ frame[th].calls # <<>>
  /\ LET k == Head(frame[th].calls) IN
       IF k.check /\ Lookup(isMaster[k.redis], k.db) # 0
         THEN Goto(th, "call", [frame[th] EXCEPT !.calls = Tail(@)])
         ELSE Goto(th, "new", frame[th])
  /\ UNCHANGED <<selectLock, routeVars, clients, serverVars, nodeVars, failures>>

\* l.252-253: the map is read, then a client made, whose own thread connects.
NewClient(th) ==
  /\ at[th] = "new" /\ Len(clients) < MaxClients
  /\ LET k == Head(frame[th].calls) IN
       /\ clients' = Append(clients, [redis |-> k.redis, db |-> k.db,
                                      link |-> "connecting", connected |-> FALSE])
       /\ Goto(th, "put", [frame[th] EXCEPT !.found = MapOf(k.redis), !.made = Len(clients')])
  /\ UNCHANGED <<selectLock, routeVars, serverVars, nodeVars, failures>>

\* l.254-260: into the map that was read, or into a new one under the key
\* of now.
PutClient(th) ==
  /\ at[th] = "put"
  /\ LET k == Head(frame[th].calls)
         f == frame[th].found IN
       IF f # 0
         THEN /\ maps' = [maps EXCEPT ![f][k.db] = frame[th].made]
              /\ UNCHANGED table
         ELSE /\ maps' = Append(maps, [n \in Databases |-> IF n = k.db THEN frame[th].made ELSE 0])
              /\ table' = [table EXCEPT ![isMaster[k.redis]] = Len(maps')]
  /\ Goto(th, "call", [frame[th] EXCEPT !.calls = Tail(@), !.found = 0, !.made = 0])
  /\ UNCHANGED <<selectLock, isMaster, clients, serverVars, nodeVars, failures>>

\* Mutant of CallsDone: the select lock is not unlocked.
CallsDoneLocked(th) ==
  /\ at[th] = "call" /\ frame[th].calls = <<>>
  /\ Return(th)
  /\ UNCHANGED <<selectLock, routeVars, clients, serverVars, nodeVars, failures>>

\* Every call is made; a front-end thread unlocks its select lock (l.287), the
\* heartbeat client goes on with its loop.
CallsDone(th) ==
  /\ at[th] = "call" /\ frame[th].calls = <<>>
  /\ IF frame[th].next # 0 THEN Goto(th, "reconnect", frame[th]) ELSE Return(th)
  /\ selectLock' = [n \in Databases |-> IF selectLock[n] = th THEN NoThread ELSE selectLock[n]]
  /\ UNCHANGED <<routeVars, clients, serverVars, nodeVars, failures>>

\* No thread but front-end ones is at work and both Redis are connected.
Settled ==
  /\ \A h \in Redis : server[h] = "up"
  /\ \A th \in Threads \ Selectors : at[th] = "idle"
  /\ \A r \in BOOLEAN :
       /\ Lookup(r, 0) # 0
       /\ clients[Lookup(r, 0)].connected /\ clients[Lookup(r, 0)].link = "open"

\* The static initDatabase (l.279-291): nothing if the lock is taken.  Front-end
\* clients are served once the first connections are opened
\* (HeartBeatClientHandler l.64-66).
Select(th, n) ==
  /\ Calm => Settled
  /\ \A k \in DOMAIN frame[Heart].calls : ~frame[Heart].calls[k].check
  /\ at[th] = "idle" /\ selectLock[n] = NoThread
  /\ selectLock' = [selectLock EXCEPT ![n] = th]
  /\ Goto(th, "call", [NoFrame EXCEPT !.calls = <<Call(Local, n, TRUE), Call(Remote, n, TRUE)>>])
  /\ UNCHANGED <<routeVars, clients, serverVars, nodeVars, failures>>

-----------------------------------------------------------------------------
(* A client connects: operationComplete on its event loop.                 *)

\* A hung Redis accepts nobody here; the kernel of a frozen process would.
Connected(c) ==
  /\ clients[c].link = "connecting" /\ server[clients[c].redis] = "up"
  /\ at[Loop(c)] = "idle"
  /\ clients' = [clients EXCEPT ![c].link = "open", ![c].connected = TRUE]
  /\ IF clients[c].db = 0
       THEN Goto(Loop(c), "slaveof", [NoFrame EXCEPT !.redis = clients[c].redis])
       ELSE UNCHANGED <<at, frame>>
  /\ UNCHANGED <<selectLock, routeVars, serverVars, nodeVars, failures>>

\* A connect that fails is the last one.  For database 0 it is tried again
\* (l.429), with the handler of l.379: it is in the pipeline of the first
\* channel and not sharable, so l.390 fails and netty closes the new channel.
ConnectFailed(c) ==
  /\ clients[c].link = "connecting" /\ server[clients[c].redis] # "up"
  /\ clients' = [clients EXCEPT ![c].link = "failed"]
  /\ UNCHANGED <<threadVars, routeVars, serverVars, nodeVars, failures>>

\* The client of h takes a SLAVEOF that gives h the role r.
Reassign(c, h, r) ==
  role' = IF clients[c].link = "open" /\ server[h] = "up"
            THEN [role EXCEPT ![h] = r] ELSE role

SendSlaveof(c) ==
  /\ at[Loop(c)] = "slaveof"
  /\ LET h == frame[Loop(c)].redis IN
       IF vip THEN Reassign(c, h, IF isMaster[h] THEN "master" ELSE "slave")
              ELSE UNCHANGED role
  /\ Goto(Loop(c), "initDatabase", frame[Loop(c)])
  /\ UNCHANGED <<selectLock, routeVars, clients, server, nodeVars, failures>>

\* The initDatabase of a client (l.468-482): a slave gets a client for each
\* database that the master's map has, in any order.
InitDatabase(c) ==
  /\ at[Loop(c)] = "initDatabase"
  /\ LET h == frame[Loop(c)].redis
         numbers == IF isMaster[h] \/ table[TRUE] = 0 THEN {}
                    ELSE {n \in Databases \ {0} : maps[table[TRUE]][n] # 0}
     IN  \E order \in Bijection(1 .. Cardinality(numbers), numbers) :
           Goto(Loop(c), "call",
                [NoFrame EXCEPT !.calls = [k \in DOMAIN order |-> Call(h, order[k], FALSE)]])
  /\ UNCHANGED <<selectLock, routeVars, clients, serverVars, nodeVars, failures>>

-----------------------------------------------------------------------------
(* redisDown.                                                              *)

\* Handler l.56-62; only the client of database 0 reports its Redis.
ChannelInactive(c) ==
  /\ clients[c].link = "broken" /\ at[Loop(c)] = "idle"
  /\ IF clients[c].db = 0 /\ clients[c].connected
       THEN /\ clients' = [clients EXCEPT ![c].link = "closed", ![c].connected = FALSE]
            /\ Goto(Loop(c), "remove", [NoFrame EXCEPT !.redis = clients[c].redis])
       ELSE /\ clients' = [clients EXCEPT ![c].link = "closed"]
            /\ UNCHANGED <<at, frame>>
  /\ UNCHANGED <<selectLock, routeVars, serverVars, nodeVars, failures>>

\* The timer, started at the end of operationComplete, finds a late task: the
\* Redis is silent on an open link (a broken one is noticed at once).
TimerLate(c) ==
  /\ clients[c].db = 0 /\ clients[c].connected /\ clients[c].link = "open"
  /\ at[Loop(c)] = "idle" /\ at[Timer(c)] = "idle"
  /\ server[clients[c].redis] = "hung"
  /\ Goto(Timer(c), "declare", [NoFrame EXCEPT !.redis = clients[c].redis])
  /\ UNCHANGED <<selectLock, routeVars, clients, serverVars, nodeVars, failures>>

TimerDeclare(c) ==
  /\ at[Timer(c)] = "declare"
  /\ clients' = [clients EXCEPT ![c].connected = FALSE]
  /\ Goto(Timer(c), "remove", frame[Timer(c)])
  /\ UNCHANGED <<selectLock, routeVars, serverVars, nodeVars, failures>>

RemoveDown(th) ==
  /\ at[th] = "remove"
  /\ LET h == frame[th].redis IN
       /\ table' = [table EXCEPT ![isMaster[h]] = 0]
       /\ IF MapOf(h) = 0 THEN Return(th)
          ELSE Goto(th, "removeSlave", [frame[th] EXCEPT !.down = MapOf(h)])
  /\ UNCHANGED <<selectLock, isMaster, maps, clients, serverVars, nodeVars, failures>>

\* Mutant of RemoveSlave: the slave's map stays under its old key.
RemoveSlaveKept(th) ==
  /\ at[th] = "removeSlave"
  /\ IF isMaster[frame[th].redis] /\ table[FALSE] # 0
       THEN Goto(th, "promote", [frame[th] EXCEPT !.slaves = table[FALSE]])
       ELSE Goto(th, "demote", frame[th])
  /\ UNCHANGED <<selectLock, routeVars, clients, serverVars, nodeVars, failures>>

RemoveSlave(th) ==
  /\ at[th] = "removeSlave"
  /\ IF isMaster[frame[th].redis]
       THEN /\ table' = [table EXCEPT ![FALSE] = 0]
            /\ Goto(th, IF table[FALSE] = 0 THEN "demote" ELSE "promote",
                    [frame[th] EXCEPT !.slaves = table[FALSE]])
       ELSE /\ UNCHANGED table
            /\ Goto(th, "demote", frame[th])
  /\ UNCHANGED <<selectLock, isMaster, maps, clients, serverVars, nodeVars, failures>>

\* Mutant of Promote: SLAVEOF NO ONE is not sent to the slave.
PromoteSilent(th) ==
  /\ at[th] = "promote"
  /\ Goto(th, "putMaster", frame[th])
  /\ UNCHANGED <<selectLock, routeVars, clients, serverVars, nodeVars, failures>>

\* SLAVEOF NO ONE to the slave.  A channel that is null (the slave's client
\* has yet to connect) ends redisDown with an exception.
Promote(th) ==
  /\ at[th] = "promote"
  /\ LET c == maps[frame[th].slaves][0] IN
       IF c # 0 /\ clients[c].link \in {"connecting", "failed"}
         THEN Return(th) /\ UNCHANGED role
         ELSE /\ IF c = 0 THEN UNCHANGED role
                 ELSE Reassign(c, clients[c].redis, "master")
              /\ Goto(th, "putMaster", frame[th])
  /\ UNCHANGED <<selectLock, routeVars, clients, server, nodeVars, failures>>

\* Mutant of PutMaster: the slave's map is put back under its old key.
PutMasterAsSlave(th) ==
  /\ at[th] = "putMaster"
  /\ table' = [table EXCEPT ![FALSE] = frame[th].slaves]
  /\ Goto(th, "demote", frame[th])
  /\ UNCHANGED <<selectLock, isMaster, maps, clients, serverVars, nodeVars, failures>>

PutMaster(th) ==
  /\ at[th] = "putMaster"
  /\ table' = [table EXCEPT ![TRUE] = frame[th].slaves]
  /\ Goto(th, "demote", frame[th])
  /\ UNCHANGED <<selectLock, isMaster, maps, clients, serverVars, nodeVars, failures>>

\* Mutant of Demote: the Redis that is down stays the master.
DemoteNot(th) ==
  /\ at[th] = "demote"
  /\ Goto(th, "promotePeer", frame[th])
  /\ UNCHANGED <<selectLock, routeVars, clients, serverVars, nodeVars, failures>>

Demote(th) ==
  /\ at[th] = "demote"
  /\ isMaster' = [isMaster EXCEPT ![frame[th].redis] = FALSE]
  /\ Goto(th, "promotePeer", frame[th])
  /\ UNCHANGED <<selectLock, table, maps, clients, serverVars, nodeVars, failures>>

PromotePeer(th) ==
  /\ at[th] = "promotePeer"
  /\ isMaster' = [isMaster EXCEPT ![Peer(frame[th].redis)] = TRUE]
  /\ Goto(th, "close", frame[th])
  /\ UNCHANGED <<selectLock, table, maps, clients, serverVars, nodeVars, failures>>

\* The holder of the virtual IP closes the clients that were removed, in the
\* order of their databases.  A null channel ends redisDown with an exception,
\* after the group of that client is shut down (l.545-547).
CloseDown(th) ==
  /\ at[th] = "close"
  /\ LET downClients == maps[frame[th].down]
         null == {n \in Databases : /\ downClients[n] # 0
                                    /\ clients[downClients[n]].link \in {"connecting", "failed"}}
         upTo(c) == \E n \in Databases :
                      downClients[n] = c /\ \A u \in null : n <= u
     IN  IF vip
           THEN /\ clients' = [c \in DOMAIN clients |->
                     [clients[c] EXCEPT !.link =
                        IF ~upTo(c) \/ @ \in {"closed", "broken"} THEN @
                        ELSE IF @ = "open" THEN "broken" ELSE "failed"]]
                /\ IF null # {} THEN Return(th) ELSE Goto(th, "restart", frame[th])
           ELSE UNCHANGED clients /\ Goto(th, "restart", frame[th])
  /\ UNCHANGED <<selectLock, routeVars, serverVars, nodeVars, failures>>

\* systemctl restart: h comes back in the role its own configuration gives it,
\* and every link to it breaks.
Reboot(h) ==
  /\ server' = [server EXCEPT ![h] = "up"]
  /\ \E r \in {"master", "slave"} : role' = [role EXCEPT ![h] = r]
  /\ clients' = Unlinked(h)

\* Mutant of RestartRedis: no client is opened to a Redis that the other proxy
\* restarts.
RestartRedisLocal(th) ==
  /\ at[th] = "restart"
  /\ LET h == frame[th].redis IN
       IF h = Local
         THEN Reboot(h) /\ Goto(th, "new", [NoFrame EXCEPT !.calls = <<Call(h, 0, FALSE)>>])
         ELSE /\ IF remoteRuns THEN Return(th) ELSE Goto(th, "ssh", frame[th])
              /\ UNCHANGED <<clients, serverVars>>
  /\ UNCHANGED <<selectLock, routeVars, nodeVars, failures>>

\* l.552-569: this host restarts its own Redis, and the other one by ssh when
\* the other proxy is not running.
RestartRedis(th) ==
  /\ at[th] = "restart"
  /\ LET h == frame[th].redis
         reopen == Goto(th, "new", [NoFrame EXCEPT !.calls = <<Call(h, 0, FALSE)>>])
     IN  \/ h = Local /\ Reboot(h) /\ reopen
         \/ /\ h = Remote
            /\ IF remoteRuns THEN reopen ELSE Goto(th, "ssh", frame[th])
            /\ UNCHANGED <<clients, serverVars>>
  /\ UNCHANGED <<selectLock, routeVars, nodeVars, failures>>

\* The ssh takes its time.  It restarts the Redis; or it fails once connected,
\* which exec tells by its result only and nobody looks at (JSchSSH l.76-90); or
\* there is no connection, and exec throws (l.562-565).
Ssh(th) ==
  /\ at[th] = "ssh"
  /\ LET h == frame[th].redis IN
       \/ /\ Reboot(h) \/ UNCHANGED <<clients, serverVars>>
          /\ Goto(th, "new", [NoFrame EXCEPT !.calls = <<Call(h, 0, FALSE)>>])
          /\ UNCHANGED reconnect
       \/ /\ reconnect' = Append(reconnect, h)
          /\ Return(th)
          /\ UNCHANGED <<clients, serverVars>>
  /\ UNCHANGED <<selectLock, routeVars, vip, remoteRuns, failures>>

RedisDown(th) ==
  \/ RemoveDown(th) \/ RemoveSlave(th) \/ Promote(th) \/ PutMaster(th)
  \/ Demote(th) \/ PromotePeer(th) \/ CloseDown(th) \/ RestartRedis(th)
  \/ Ssh(th)

InitClient(th) == Check(th) \/ NewClient(th) \/ PutClient(th) \/ CallsDone(th)

-----------------------------------------------------------------------------
(* The other proxy and the failures.                                       *)

\* AUTH_SUCCESS of a proxy that comes back (HeartBeatClientHandler l.32-33).
RemoteUp ==
  /\ at[Heart] = "idle" /\ ~remoteRuns
  /\ Calm => \A th \in Threads : at[th] # "ssh"
  /\ remoteRuns' = TRUE
  /\ Goto(Heart, "reconnect", [NoFrame EXCEPT !.next = 1])
  /\ UNCHANGED <<selectLock, routeVars, clients, serverVars, vip, reconnect, failures>>

\* l.69-72: the Redis whose restart failed get a client again.
Reconnect ==
  /\ at[Heart] = "reconnect"
  /\ LET i == frame[Heart].next IN
       IF i <= Len(reconnect)
         THEN Goto(Heart, "new", [NoFrame EXCEPT !.calls = <<Call(reconnect[i], 0, FALSE)>>,
                                                 !.next = i + 1])
         ELSE Goto(Heart, "clear", NoFrame)
  /\ UNCHANGED <<selectLock, routeVars, clients, serverVars, nodeVars, failures>>

\* l.73, whatever was added since.
ClearReconnect ==
  /\ at[Heart] = "clear"
  /\ reconnect' = <<>>
  /\ Return(Heart)
  /\ UNCHANGED <<selectLock, routeVars, clients, serverVars, vip, remoteRuns, failures>>

\* The other proxy, running, restarts the Redis of its host.  The link breaks:
\* when a timer of this proxy has just found the same Redis late (between l.217
\* and l.224), its event loop calls redisDown as well.  Calm leaves that out.
RemoteRestarts ==
  /\ remoteRuns /\ server[Remote] # "up"
  /\ Calm => \A c \in Clients : at[Timer(c)] # "declare"
  /\ Reboot(Remote)
  /\ UNCHANGED <<threadVars, routeVars, nodeVars, failures>>

\* Both Redis are up, routed and connected, and no thread is at work.
Healthy ==
  /\ Settled
  /\ \A th \in Selectors : at[th] = "idle"
  /\ \A r \in BOOLEAN, n \in Databases :
       Lookup(r, n) # 0 => clients[Lookup(r, n)].link = "open"

Fails(kind) ==
  /\ kind \in Failures
  /\ failures < MaxFailures
  /\ failures' = failures + 1
  /\ Calm => Healthy

Crash(h) ==
  /\ Fails("crash")
  /\ server[h] = "up"
  /\ server' = [server EXCEPT ![h] = "dead"]
  /\ clients' = Unlinked(h)
  /\ UNCHANGED <<threadVars, routeVars, role, nodeVars>>

Hang(h) ==
  /\ Fails("hang")
  /\ server[h] = "up"
  /\ server' = [server EXCEPT ![h] = "hung"]
  /\ UNCHANGED <<threadVars, routeVars, clients, role, nodeVars>>

LinkBreaks(c) ==
  /\ Fails("link")
  /\ clients[c].link = "open"
  /\ clients' = [clients EXCEPT ![c].link = "broken"]
  /\ UNCHANGED <<threadVars, routeVars, serverVars, nodeVars>>

\* remoteHARedisDown (HeartBeatServerHandler l.232-257) as far as it is seen
\* here: this proxy has the virtual IP from then on.
RemoteDown ==
  /\ Fails("proxy")
  /\ remoteRuns
  /\ remoteRuns' = FALSE /\ vip' = TRUE
  /\ UNCHANGED <<threadVars, routeVars, clients, serverVars, reconnect>>

-----------------------------------------------------------------------------
LoopStep(c) ==
  \/ Connected(c) \/ ConnectFailed(c) \/ SendSlaveof(c) \/ InitDatabase(c)
  \/ ChannelInactive(c)

TimerStep(c) == TimerLate(c) \/ TimerDeclare(c)

Next ==
  \/ \E th \in Threads : InitClient(th) \/ RedisDown(th)
  \/ \E th \in Selectors, n \in Databases : Select(th, n)
  \/ \E c \in DOMAIN clients : LoopStep(c) \/ TimerStep(c) \/ LinkBreaks(c)
  \/ RemoteUp \/ Reconnect \/ ClearReconnect \/ RemoteRestarts \/ RemoteDown
  \/ \E h \in Redis : Crash(h) \/ Hang(h)

Spec == Init /\ [][Next]_vars

\* Threads run, a Redis that is up accepts connections, and a proxy that runs
\* restarts the Redis of its host.  The other proxy need not come back.
Fairness ==
  /\ \A th \in Threads : WF_vars(InitClient(th)) /\ WF_vars(RedisDown(th))
  /\ \A c \in Clients : /\ WF_vars(c \in DOMAIN clients /\ LoopStep(c))
                        /\ WF_vars(c \in DOMAIN clients /\ TimerStep(c))
  /\ WF_vars(RemoteRestarts) /\ WF_vars(Reconnect \/ ClearReconnect)

FairSpec == Spec /\ Fairness

-----------------------------------------------------------------------------
(* Properties.                                                             *)

Steps == {"idle", "call", "new", "put", "slaveof", "initDatabase", "declare", "remove",
          "removeSlave", "promote", "putMaster", "demote", "promotePeer", "close", "restart", "ssh", "reconnect", "clear"}

\* Every variable has its type, an idle thread is in no call and holds no lock.
TypeOK ==
  /\ isMaster \in [Redis -> BOOLEAN]
  /\ table \in [BOOLEAN -> 0 .. Len(maps)]
  /\ maps \in Seq([Databases -> 0 .. Len(clients)])
  /\ clients \in Seq([redis : Redis, db : Databases, connected : BOOLEAN,
                      link : {"connecting", "failed", "open", "broken", "closed"}])
  /\ at \in [Threads -> Steps]
  /\ selectLock \in [Databases -> Selectors \cup {NoThread}]
  /\ server \in [Redis -> {"up", "hung", "dead"}]
  /\ role \in [Redis -> {"master", "slave"}]
  /\ vip \in BOOLEAN /\ remoteRuns \in BOOLEAN
  /\ reconnect \in Seq(Redis) /\ failures \in 0 .. MaxFailures
  /\ \A th \in Threads : at[th] = "idle" =>
       frame[th] = NoFrame /\ \A n \in Databases : selectLock[n] # th

\* All databases of a role are on one Redis: a map never mixes clients of the
\* two, however the steps of one redisDown interleave with the connections that open,
\* and the SELECTs among themselves.  Under Calm: failures do not overlap, and no SELECT
\* is at work during a redisDown.
OneRedisPerMap ==
  \A m \in DOMAIN maps : \A n, u \in Databases :
    maps[m][n] # 0 /\ maps[m][u] # 0 =>
      clients[maps[m][n]].redis = clients[maps[m][u]].redis

\* Unless a redisDown is between its first and its last change, the table agrees
\* with the flags: the clients under a role are those of the Redis that has the
\* flag of that role.  Under Calm: after failures that do not overlap.
Switching(th) == at[th] \in {"removeSlave", "promote", "putMaster", "demote", "promotePeer"}
Failing == \E th \in Threads : Switching(th)
RoutedByFlag ==
  ~Failing =>
    /\ isMaster[Local] # isMaster[Remote]
    /\ \A h \in Redis, n \in Databases :
         Lookup(isMaster[h], n) # 0 => clients[Lookup(isMaster[h], n)].redis = h

\* In a healthy slice whose proxy has the virtual IP, a write goes to a Redis
\* that is a master and the other one replicates it, after any failovers; under
\* Calm one after the other.
OneMaster ==
  Healthy /\ vip =>
    \A n \in Databases :
      LET c == Route(TRUE, n) IN
        c # 0 => role[clients[c].redis] = "master" /\ role[Peer(clients[c].redis)] = "slave"

\* Of the proxy that has the virtual IP, a write that an open link takes to a Redis
\* that is up reaches a master, also while a failover goes on: never one that has
\* come back as a slave of the other one.  Under Calm: in each step of one failover
\* at a time.
WritesToMaster == vip =>
  \A n \in Databases :
    LET c == Route(TRUE, n) IN
      c # 0 /\ clients[c].link = "open" /\ server[clients[c].redis] = "up" =>
        role[clients[c].redis] = "master"

\* The failover as a whole keeps what HotStandby promises.  The clients under a
\* role are those of one Redis; a redisDown that has removed the map of its Redis
\* is about to make the other one the master.
RedisOf(m) ==
  IF m = 0 THEN NoRedis
  ELSE CHOOSE h \in Redis : \E n \in Databases : maps[m][n] # 0 /\ clients[maps[m][n]].redis = h
Master ==
  IF Failing THEN Peer(frame[CHOOSE th \in Threads : Switching(th)].redis)
  ELSE CHOOSE h \in Redis : isMaster[h]
Standby == INSTANCE HotStandby
  WITH master <- Master, writes <- RedisOf(table[TRUE]), reads <- RedisOf(table[FALSE])

\* Writes move from one Redis to the other only through a redisDown of the master:
\* never back, never while the old master has them, and never to a Redis that
\* still has the reads.  Under Calm: however the steps of one redisDown interleave
\* with the lookups, the connections that open and the other proxy, where the next
\* failure and the next SELECT wait until the slice is healthy again.
ImplementsStandby == Standby!Spec

\* "Select lock, prevents repeated new RedisProxyClient objects" (l.65): no
\* two clients of the same Redis and database are connecting or connected.
Live(c) == clients[c].link \in {"connecting", "open"}
NoDuplicate ==
  \A c, d \in DOMAIN clients :
    Live(c) /\ Live(d) /\ clients[c].redis = clients[d].redis /\ clients[c].db = clients[d].db
      => c = d

\* After the last failure the slice recovers: both roles are routed to
\* connected clients of database 0, unless a restart by ssh failed and the
\* other proxy has not come back, or the new client of the other host's Redis
\* tried to connect before that one was back, which no later attempt makes good.
GivenUp(c) == clients[c].redis = Remote /\ clients[c].db = 0 /\ clients[c].link = "failed"
Recovers ==
  <>[](Settled \/ reconnect # <<>> \/ \E c \in DOMAIN clients : GivenUp(c))
=============================================================================
