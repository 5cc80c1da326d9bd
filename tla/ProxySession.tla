---------------------------- MODULE ProxySession ----------------------------
(***************************************************************************)
(* The front-end sessions of a proxy (RedisProxyServiceHandler) over the   *)
(* connections of its routing table (RedisProxyClient): AUTH, SELECT, the  *)
(* commands the proxy answers itself, and the requests it hands to a       *)
(* Redis.  A connection is what ReplyService promises and RedisPipeline    *)
(* is shown to implement: accept or refuse at once, answer in order.  What *)
(* redisDown does to the table once a connection of database 0 is down is  *)
(* the subject of Failover; here the connection stays there and refuses.   *)
(***************************************************************************)
EXTENDS Integers, FiniteSets, SequencesExt

CONSTANTS
  Clients,      \* the front-end connections
  Commands,     \* for every client the sets of which it sends one command each (see Command)
  SliceCount,   \* size of localRedisInfoList
  RedisList,    \* localRedisInfoList, then remoteRedisInfoList if it is known
  Connecting,   \* the Redis not yet connected at the start
  Databases,    \* the databases with a lock that the commands select, and 0
  HasPassword,  \* HAREDIS_ACCESS_PASSWORD is not empty
  Breakable,    \* bound: the connections that may fail, be lost or go down
  Leaving,      \* bound: the clients that may close their channel without QUIT
  NoClient, NoInfo, NoRedis

Redis == [slice : 0 .. SliceCount - 1, master : BOOLEAN]
Conns == [slice : 0 .. SliceCount - 1, master : BOOLEAN, db : Databases]
Conn(r, n) == [slice |-> r.slice, master |-> r.master, db |-> n]

\* selectLockList has sixteen locks.
Locks == 0 .. 15

\* A command is what the tests of channelRead tell apart: the hash code of a key,
\* the number of a SELECT, whether the password is right.  "local" stands for PING,
\* ECHO, COMMAND, INFO and all that is answered "Unsupported type" once authenticated;
\* "inline" for a message that is no array, "empty" for an array without elements.
Command ==
       [kind : {"auth"}, good : BOOLEAN]
  \cup [kind : {"select"}, db : Int]
  \cup [kind : {"local", "inline", "empty", "flushall", "quit"}]
  \cup [kind : {"read", "write"}, hash : Int]

ASSUME ConstantsAssumption ==
  /\ Commands \in [Clients -> Seq(SUBSET Command)]
  /\ SliceCount \in Nat \ {0}
  /\ Databases \subseteq Locks /\ 0 \in Databases
  /\ \A c \in Clients : \A m \in UNION Range(Commands[c]) :
       m.kind = "select" /\ m.db \in Locks => m.db \in Databases
  /\ RedisList \in Seq(Redis)
  /\ \A r \in Redis : r.master => r \in Range(RedisList)
  /\ HasPassword \in BOOLEAN
  /\ Breakable \subseteq Conns
  /\ Leaving \subseteq Clients
  /\ NoClient \notin Clients
  /\ NoRedis \notin Redis

VARIABLES
  log,              \* the commands read from each client, in order (history)
  channel,          \* of each client: "open", "closing" (closed, its events still to come), "inactive"
  channelMessages,  \* of each client: its ChannelInfo, NoInfo once removed
  work,             \* of each client: the initDatabase its thread is in
  replies,          \* written to each client: the command answered, and by whom
  selectLock,       \* holder of the lock of each database
  table,            \* routingTable: of each connection "none", "connecting", "failed" (no
                    \* channel), or its channel and connected: "up", "lost" (the channel
                    \* is broken, connected is TRUE), "silent" (the channel is open,
                    \* connected FALSE), "down" (neither)
  pending           \* accepted by each connection and not answered, oldest first

vars == <<log, channel, channelMessages, work, replies, selectLock, table, pending>>

Idle == [db |-> 0, next |-> 0, creating |-> NoRedis, active |-> FALSE]

\* A settled proxy: database 0 of every Redis it knows is connected or about to be; a
\* slave may be missing, as before the first heartbeat or after a failover.
Init ==
  /\ log = [c \in Clients |-> <<>>]
  /\ channel = [c \in Clients |-> "open"]
  /\ channelMessages = [c \in Clients |-> [auth |-> ~HasPassword, databaseNumber |-> 0]]
  /\ work = [c \in Clients |-> Idle]
  /\ replies = [c \in Clients |-> <<>>]
  /\ selectLock = [n \in Databases |-> NoClient]
  /\ table = [k \in Conns |->
       LET r == [slice |-> k.slice, master |-> k.master] IN
       IF k.db # 0 \/ r \notin Range(RedisList) THEN "none"
       ELSE IF r \in Connecting THEN "connecting" ELSE "up"]
  /\ pending = [k \in Conns |-> <<>>]

\* The remainder of Java takes the sign of the dividend.
SliceNumber(hash) ==
  IF hash >= 0 THEN hash % SliceCount ELSE -((-hash) % SliceCount)

\* The handler runs on the thread of its channel: no command is read while an earlier
\* one is inside initDatabase.
MayRead(c, m) ==
  /\ channel[c] # "inactive"
  /\ ~work[c].active
  /\ Len(log[c]) < Len(Commands[c])
  /\ m \in Commands[c][Len(log[c]) + 1]

Registered(c) == channelMessages[c] # NoInfo
Authenticated(c) == Registered(c) /\ channelMessages[c].auth

Logged(c, m) == log' = [log EXCEPT ![c] = Append(@, m)]
Reading(c) == Len(log[c]) + 1

\* writeAndFlush: what is written to a closed channel reaches nobody.
Answer(c, i, by) ==
  replies' = IF channel[c] = "open"
               THEN [replies EXCEPT ![c] = Append(@, [to |-> i, by |-> by])]
               ELSE replies

\* A closed channel becomes inactive once its thread has read what it had received.
Close(c) == channel' = [channel EXCEPT ![c] = IF @ = "open" THEN "closing" ELSE @]

\* exceptionCaught
ExceptionCaught(c) ==
  /\ channelMessages' = [channelMessages EXCEPT ![c] = NoInfo]
  /\ Close(c)
-----------------------------------------------------------------------------
(* channelRead, one action per branch *)

\* Its session is gone: the answer "Channel is unregister" meets a closed channel.
Unregistered(c, m) ==
  /\ MayRead(c, m) /\ ~Registered(c)
  /\ Logged(c, m)
  /\ Answer(c, Reading(c), "proxy")
  /\ Close(c)
  /\ UNCHANGED <<channelMessages, work, selectLock, table, pending>>

\* children().get(0) of an empty array throws.
Malformed(c, m) ==
  /\ MayRead(c, m) /\ Registered(c) /\ m.kind = "empty"
  /\ Logged(c, m)
  /\ ExceptionCaught(c)
  /\ UNCHANGED <<work, replies, selectLock, table, pending>>

\* mutant of AuthAfter: a wrong password leaves the session as it was
AuthKept(info, m) == info.auth \/ m.good

\* With a password set, a wrong one takes the authentication away.
AuthAfter(info, m) == IF HasPassword THEN m.good ELSE info.auth

Auth(c, m) ==
  /\ MayRead(c, m) /\ Registered(c) /\ m.kind = "auth"
  /\ Logged(c, m)
  /\ channelMessages' = [channelMessages EXCEPT ![c].auth = AuthAfter(channelMessages[c], m)]
  /\ Answer(c, Reading(c), "proxy")
  /\ UNCHANGED <<channel, work, selectLock, table, pending>>

\* Answered by the proxy without any effect: a message that is no array, a command
\* before AUTH, a local one.
Local(c, m) ==
  /\ MayRead(c, m) /\ Registered(c)
  /\ \/ m.kind = "inline"
     \/ m.kind \notin {"auth", "inline", "empty"} /\ ~Authenticated(c)
     \/ m.kind = "local" /\ Authenticated(c)
  /\ Logged(c, m)
  /\ Answer(c, Reading(c), "proxy")
  /\ UNCHANGED <<channel, channelMessages, work, selectLock, table, pending>>

Quit(c, m) ==
  /\ MayRead(c, m) /\ Authenticated(c) /\ m.kind = "quit"
  /\ Logged(c, m)
  /\ Close(c)
  /\ UNCHANGED <<channelMessages, work, replies, selectLock, table, pending>>

\* mutant of SelectOutOfRange: the number is stored before it is tested
SelectStored(c, m) ==
  /\ MayRead(c, m) /\ Authenticated(c) /\ m.kind = "select"
  /\ m.db > 16
  /\ Logged(c, m)
  /\ channelMessages' = [channelMessages EXCEPT ![c].databaseNumber = m.db]
  /\ Answer(c, Reading(c), "proxy")
  /\ UNCHANGED <<channel, work, selectLock, table, pending>>

\* mutant of SelectOutOfRange: no return after the error, the database it has is opened
SelectFallsThrough(c, m) ==
  /\ MayRead(c, m) /\ Authenticated(c) /\ m.kind = "select"
  /\ m.db > 16
  /\ selectLock[channelMessages[c].databaseNumber] = NoClient
  /\ Logged(c, m)
  /\ Answer(c, Reading(c), "proxy")
  /\ work' = [work EXCEPT ![c] =
       [db |-> channelMessages[c].databaseNumber, next |-> 1, creating |-> NoRedis, active |-> TRUE]]
  /\ selectLock' = [selectLock EXCEPT ![channelMessages[c].databaseNumber] = c]
  /\ UNCHANGED <<channel, channelMessages, table, pending>>

SelectOutOfRange(c, m) ==
  /\ MayRead(c, m) /\ Authenticated(c) /\ m.kind = "select"
  /\ m.db > 16
  /\ Logged(c, m)
  /\ Answer(c, Reading(c), "proxy")
  /\ UNCHANGED <<channel, channelMessages, work, selectLock, table, pending>>

\* The number passes the test of the handler but has no lock: selectLockList.get throws.
SelectNoLock(c, m) ==
  /\ MayRead(c, m) /\ Authenticated(c) /\ m.kind = "select"
  /\ m.db <= 16 /\ m.db \notin Locks
  /\ Logged(c, m)
  /\ ExceptionCaught(c)
  /\ UNCHANGED <<work, replies, selectLock, table, pending>>

\* mutants of TakeLock: no lock; the second Redis is the first one visited
TakeNoLock(c, n) ==
  /\ work' = [work EXCEPT ![c] =
       [db |-> n, next |-> 1, creating |-> NoRedis, active |-> TRUE]]
  /\ UNCHANGED <<selectLock, replies>>

TakeLockSecond(c, n) ==
  /\ selectLock[n] = NoClient
  /\ selectLock' = [selectLock EXCEPT ![n] = c]
  /\ work' = [work EXCEPT ![c] =
       [db |-> n, next |-> 2, creating |-> NoRedis, active |-> TRUE]]
  /\ UNCHANGED replies

\* initDatabase, first part: who gets the lock goes through all Redis, who does not
\* answers OK at once.
TakeLock(c, n) ==
  /\ selectLock[n] = NoClient
  /\ selectLock' = [selectLock EXCEPT ![n] = c]
  /\ work' = [work EXCEPT ![c] =
       [db |-> n, next |-> 1, creating |-> NoRedis, active |-> TRUE]]
  /\ UNCHANGED replies

\* mutant of LockTaken: who does not get the lock just returns
LockTakenSilent(c, n) ==
  /\ selectLock[n] # NoClient
  /\ UNCHANGED <<work, replies, selectLock>>

LockTaken(c, n) ==
  /\ selectLock[n] # NoClient
  /\ Answer(c, Reading(c), "proxy")
  /\ UNCHANGED <<work, selectLock>>

Select(c, m) ==
  /\ MayRead(c, m) /\ Authenticated(c) /\ m.kind = "select"
  /\ m.db \in Locks
  /\ Logged(c, m)
  /\ channelMessages' = [channelMessages EXCEPT ![c].databaseNumber = m.db]
  /\ TakeLock(c, m.db) \/ LockTaken(c, m.db)
  /\ UNCHANGED <<channel, table, pending>>

\* initSelectRedisProxyClient looks into the table, ...
SelectCheck(c) ==
  /\ work[c].active /\ work[c].creating = NoRedis
  /\ work[c].next <= Len(RedisList)
  /\ LET r == RedisList[work[c].next] IN
       work' = [work EXCEPT
         ![c].next = @ + 1,
         ![c].creating = IF table[Conn(r, work[c].db)] = "none" THEN r ELSE NoRedis]
  /\ UNCHANGED <<log, channel, channelMessages, replies, selectLock, table, pending>>

\* ... and initRedisProxyClient starts a client and puts it there.
SelectPut(c) ==
  /\ work[c].creating # NoRedis
  /\ table' = [table EXCEPT ![Conn(work[c].creating, work[c].db)] = "connecting"]
  /\ pending' = [pending EXCEPT ![Conn(work[c].creating, work[c].db)] = <<>>]
  /\ work' = [work EXCEPT ![c].creating = NoRedis]
  /\ UNCHANGED <<log, channel, channelMessages, replies, selectLock>>

SelectDone(c) ==
  /\ work[c].active /\ work[c].next > Len(RedisList) /\ work[c].creating = NoRedis
  /\ selectLock' = [selectLock EXCEPT ![work[c].db] = NoClient]
  /\ work' = [work EXCEPT ![c] = Idle]
  /\ Answer(c, Len(log[c]), "proxy")
  /\ UNCHANGED <<log, channel, channelMessages, table, pending>>

\* getRedisProxyClientByRoutingTable: the slave of a read if the table has it.
Candidates(m, s, n) ==
  LET has(b) == {k \in Conns : k = [slice |-> s, master |-> b, db |-> n] /\ table[k] # "none"}
  IN IF m.kind = "read" /\ has(FALSE) # {} THEN has(FALSE) ELSE has(TRUE)

Route(c, m) ==
  Candidates(m, SliceNumber(m.hash), channelMessages[c].databaseNumber)

Accept(k, entry) == pending' = [pending EXCEPT ![k] = Append(@, entry)]

\* The field connected: it is set by operationComplete and reset by Down alone.
IsConnected(k) == table[k] \in {"up", "lost"}

\* executeRedisTask: who is connected accepts, over a broken channel too.
Request(c, m) ==
  /\ MayRead(c, m) /\ Authenticated(c) /\ m.kind \in {"read", "write"}
  /\ Logged(c, m)
  /\ LET usable == {k \in Route(c, m) : IsConnected(k)} IN
       \/ \E k \in usable : Accept(k, [client |-> c, index |-> Reading(c)]) /\ UNCHANGED replies
       \/ usable = {} /\ Answer(c, Reading(c), "proxy") /\ UNCHANGED pending
  /\ UNCHANGED <<channel, channelMessages, work, selectLock, table>>

\* flushAll: a task for database 0 of every master in the table, connected or not; a
\* client that has not connected has no channel and ends it with an exception, the ones
\* before it in the table have their task.
FlushTask == [client |-> NoClient, index |-> 0]

Flushall(c, m) ==
  /\ MayRead(c, m) /\ Authenticated(c) /\ m.kind = "flushall"
  /\ Logged(c, m)
  /\ LET masters == {k \in Conns : k.master /\ k.db = 0 /\ table[k] # "none"}
         null    == {k \in masters : table[k] \in {"connecting", "failed"}}
     IN \E reached \in SUBSET (masters \ null) :
          /\ null = {} => reached = masters
          /\ pending' = [k \in Conns |->
               IF k \in reached THEN Append(pending[k], FlushTask) ELSE pending[k]]
          /\ \/ null = {} /\ Answer(c, Reading(c), "proxy") /\ UNCHANGED <<channel, channelMessages>>
             \/ null # {} /\ ExceptionCaught(c) /\ UNCHANGED replies
  /\ UNCHANGED <<work, selectLock, table>>

ClientCloses(c) ==
  /\ c \in Leaving /\ channel[c] = "open"
  /\ Close(c)
  /\ UNCHANGED <<log, channelMessages, work, replies, selectLock, table, pending>>

ChannelInactive(c) ==
  /\ channel[c] = "closing" /\ ~work[c].active
  /\ channel' = [channel EXCEPT ![c] = "inactive"]
  /\ channelMessages' = [channelMessages EXCEPT ![c] = NoInfo]
  /\ UNCHANGED <<log, work, replies, selectLock, table, pending>>
-----------------------------------------------------------------------------
(* The connections of the table *)

Connected(k) ==
  /\ table[k] = "connecting"
  /\ table' = [table EXCEPT ![k] = "up"]
  /\ UNCHANGED <<log, channel, channelMessages, work, replies, selectLock, pending>>

\* A connect that fails is the last one that could succeed (see Failover).
ConnectFailed(k) ==
  /\ k \in Breakable
  /\ table[k] = "connecting"
  /\ table' = [table EXCEPT ![k] = "failed"]
  /\ UNCHANGED <<log, channel, channelMessages, work, replies, selectLock, pending>>

\* The channel breaks; connected is not the channel's to reset.
Lose(k) ==
  /\ k \in Breakable
  /\ table[k] \in {"up", "silent"}
  /\ table' = [table EXCEPT ![k] = IF @ = "up" THEN "lost" ELSE "down"]
  /\ UNCHANGED <<log, channel, channelMessages, work, replies, selectLock, pending>>

\* Database 0 alone is watched: its broken channel by channelInactive, its Redis that
\* does not answer, whatever the channel, by the timer of checkRedisState.
Down(k) ==
  /\ k \in Breakable /\ k.db = 0
  /\ table[k] \in {"up", "lost"}
  /\ table' = [table EXCEPT ![k] = IF @ = "up" THEN "silent" ELSE "down"]
  /\ UNCHANGED <<log, channel, channelMessages, work, replies, selectLock, pending>>

\* channelRead of RedisProxyClientHandler: the oldest task is answered, to the channel
\* it came from if that still has its handler.
RedisReplies(k) ==
  /\ table[k] \in {"up", "silent"} /\ pending[k] # <<>>
  /\ pending' = [pending EXCEPT ![k] = Tail(@)]
  /\ LET task == Head(pending[k]) IN
       IF task.client # NoClient
         THEN Answer(task.client, task.index, "redis")
         ELSE UNCHANGED replies
  /\ UNCHANGED <<log, channel, channelMessages, work, selectLock, table>>
-----------------------------------------------------------------------------
ChannelRead(c, m) ==
  \/ Unregistered(c, m) \/ Malformed(c, m) \/ Auth(c, m) \/ Local(c, m) \/ Quit(c, m)
  \/ SelectOutOfRange(c, m) \/ SelectNoLock(c, m) \/ Select(c, m)
  \/ Request(c, m) \/ Flushall(c, m)

InitDatabase(c) == SelectCheck(c) \/ SelectPut(c) \/ SelectDone(c)

Next ==
  \/ \E c \in Clients :
       \/ \E m \in UNION Range(Commands[c]) : ChannelRead(c, m)
       \/ InitDatabase(c)
       \/ ClientCloses(c) \/ ChannelInactive(c)
  \/ \E k \in Conns : Connected(k) \/ ConnectFailed(k) \/ Lose(k) \/ Down(k)
                        \/ RedisReplies(k)

\* The threads of the clients go on.  A connection of database 0 on which something
\* waits answers or goes down: that is AnsweredOrDown of RedisPipeline.  Nothing is
\* promised of the connections of another database.
Fairness ==
  /\ \A c \in Clients : WF_vars(InitDatabase(c))
  /\ \A k \in Conns :
       k.db = 0 => WF_vars(pending[k] # <<>> /\ (RedisReplies(k) \/ Down(k)))

Spec == Init /\ [][Next]_vars /\ Fairness
-----------------------------------------------------------------------------
(* Properties *)

TypeOK ==
  /\ \A c \in Clients :
       /\ Len(log[c]) <= Len(Commands[c])
       /\ \A i \in DOMAIN log[c] : log[c][i] \in Commands[c][i]
       /\ replies[c] \in Seq([to : DOMAIN log[c], by : {"proxy", "redis"}])
  /\ channel \in [Clients -> {"open", "closing", "inactive"}]
  /\ channelMessages \in [Clients -> [auth : BOOLEAN, databaseNumber : Databases] \cup {NoInfo}]
  /\ work \in [Clients -> [db : Databases, next : 0 .. Len(RedisList) + 1,
                           creating : Redis \cup {NoRedis}, active : BOOLEAN]]
  /\ selectLock \in [Databases -> Clients \cup {NoClient}]
  /\ table \in [Conns -> {"none", "connecting", "failed", "up", "lost", "silent", "down"}]
  /\ \A k \in Conns : \A e \in Range(pending[k]) :
       e = FlushTask \/ (e.client \in Clients /\ e.index \in DOMAIN log[e.client])

\* What the client asked for, told by the commands it sent alone: the i-th of h was
\* authenticated when the last AUTH before it had the right password, ...
Entitled(h, i) ==
  \/ ~HasPassword
  \/ \E j \in 1 .. i - 1 :
       /\ h[j].kind = "auth" /\ h[j].good
       /\ \A l \in j + 1 .. i - 1 : h[l].kind = "auth" => h[l].good

\* ... and its database is that of the last SELECT it was entitled to, 0 without one.
Selects(h, i) ==
  {j \in 1 .. i - 1 : h[j].kind = "select" /\ h[j].db \in Locks /\ Entitled(h, j)}

DatabaseOf(h, i) ==
  LET S == Selects(h, i) IN
  IF S = {} THEN 0 ELSE h[CHOOSE j \in S : \A l \in S : l <= j].db

\* A command after which the session is gone.
Fatal(h, j) ==
  \/ h[j].kind = "empty"
  \/ h[j].kind = "select" /\ h[j].db <= 16 /\ h[j].db \notin Locks /\ Entitled(h, j)

\* Every request a Redis has to execute is one its client was entitled to send, waits
\* on a connection of the database the client selected last, on the slice of its key,
\* on the master when it writes, and comes after no command that ended the session.
RightPlace ==
  \A k \in Conns : \A e \in Range(pending[k]) : e.client # NoClient =>
    LET h == log[e.client]
        m == h[e.index]
    IN /\ m.kind \in {"read", "write"}
       /\ Entitled(h, e.index)
       /\ k.db = DatabaseOf(h, e.index)
       /\ k.slice = SliceNumber(m.hash)
       /\ m.kind = "write" => k.master
       /\ \A j \in 1 .. e.index - 1 : ~Fatal(h, j)

\* A command is answered by the proxy or by one Redis, never by both and never twice:
\* each reply and each waiting request is one of a command of its own.
AnsweredOnce ==
  \A c \in Clients : \A i \in DOMAIN log[c] :
    LET answered == {j \in DOMAIN replies[c] : replies[c][j].to = i}
        waiting(k) == {j \in DOMAIN pending[k] : pending[k][j] = [client |-> c, index |-> i]}
        waits == UNION {{k} \X waiting(k) : k \in Conns}
    IN Cardinality(answered) + Cardinality(waits) <= 1

\* A SELECT that found the lock taken answers OK although nothing is there yet; it may
\* rely on the holder: once no thread is inside initDatabase, the table has a client
\* for the database of every session, at every Redis the proxy knows.
SelectedExists ==
  \A c \in Clients :
    LET h == log[c]
        n == DatabaseOf(h, Len(h) + 1)
    IN Registered(c) /\ Selects(h, Len(h) + 1) # {} /\ selectLock[n] = NoClient =>
         \A r \in Range(RedisList) : table[Conn(r, n)] # "none"

\* The select lock "prevents repeated new RedisProxyClient objects" (RedisProxyClient.java
\* l.65): what a SELECT found missing and is about to put, no other one has put since.
CreatesMissing ==
  \A c \in Clients : work[c].creating # NoRedis =>
    table[Conn(work[c].creating, work[c].db)] = "none"

\* The replies of a session come in the order of its commands.
RepliesInOrder ==
  \A c \in Clients : \A i, j \in DOMAIN replies[c] :
    i < j => replies[c][i].to < replies[c][j].to

Answered(c, i) == \E j \in DOMAIN replies[c] : replies[c][j].to = i

\* A request that nobody has to answer any more: it was accepted by a connection of
\* database 0 that is down since, or by one of another database.  The latter is lost
\* without a word when the channel breaks, and is accepted even after that.
Dropped(c, i) ==
  \E k \in Conns : /\ [client |-> c, index |-> i] \in Range(pending[k])
                   /\ k.db # 0 \/ table[k] \in {"silent", "down"}

\* In the end every command of an open session is answered: by the proxy, also when it
\* is a SELECT that did not get the lock or a request that no connection accepts, or by
\* the Redis of a connection of database 0 unless that connection goes down.  The two
\* exceptions are the session that is closed meanwhile and Dropped.  (Clients send no
\* more than Commands, so that the end is a state in which all of them are read.)
EveryCommandAnswered ==
  []<>(\A c \in Clients : \A i \in 1 .. Len(log[c]) :
         Answered(c, i) \/ channel[c] # "open" \/ Dropped(c, i))
=============================================================================
