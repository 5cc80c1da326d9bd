# HARedis: models and proofs

HARedis puts a proxy in front of pairs of Redis.  Two hosts each run one proxy
and one Redis per slice; a client talks to the proxy that holds a virtual IP
address, the proxy sends each command to the master or the slave of the slice
of its key over pipelined connections, swaps master and slave when a Redis
goes down, and takes the address over when the other proxy goes down.  This
directory holds TLA+ models of that code, TLC runs over them and TLAPS proofs.
The repository has no tests and no documents: what the code promises is taken
from the code and from its comments, which are quoted where they are used.

Paths are relative to `src/HARedis-SliceRoute/src/main/java/edu/sdust/haredis/`
("SR") and `src/HARedis-Visualization/src/main/java/edu/sdust/haredis/visualization/`
("VIS").

## Inventory

| Component | State | Operations | Talks to |
|---|---|---|---|
| Redis connection pipeline (SR `redisproxy/RedisProxyClient`, `RedisProxyClientHandler`, `RedisTask`) | per client: `taskQueue`, `bufferQueue`, `taskLock`, `pipelineLock`, `connected`, the channel | `pipelineWrite`, connect and `operationComplete`, `channelRead`, `channelInactive`, the timer `checkALLRedisState`, `flushAll` | netty, Redis, the routing table (`redisDown`) |
| Routing table and Redis failover (same file, `RedisInfo`) | `routingTable`, the flag `master` of each `RedisInfo`, `selectLockList`, `reconnectRedisInfoList` | `initRedisProxyClient`, both `initDatabase`, lookups, `redisDown` | pipeline, heartbeat flags, `systemctl` here and by ssh |
| Front-end session (SR `redisproxy/RedisProxyServiceHandler`, `ChannelInfo`, `RedisProxyService`) | `channelMessages`: authentication and database of each connection | AUTH, SELECT, local commands, dispatch to a slice and role | routing table, pipeline |
| Heartbeat and virtual IP (SR `heartbeat/*`, `main/HARedis`) | `haveVirtualIp`, `init`, `remoteHARedisIsRun`, `channelMap`, the address itself | AUTH_MSG / AUTH_SUCCESS, heartbeats and pings, reader idle, `remoteHARedisDown` | the other proxy, ssh, routing table |
| Visualization and cold backup (VIS) | `connect` and last data of each of two clients, files by date | poll of the state, request and arrival of a backup, listing | heartbeat server of each proxy |
| Utilities and data holders | `DateUtils`: two static `SimpleDateFormat` without a lock; a zip file at a fixed path | conversions, files, statistics | operating system |

What is hard in each, and what makes it correct:

* **Pipeline.**  Two queues filled by any number of threads, drained by whoever
  gets a lock with `tryLock`, with netty's own queue behind them and an event
  loop that bypasses that queue.  A reply carries no name: it goes to the head of
  `taskQueue`.  Correct: each client gets its own reply, in order; nothing waits
  unflushed that no thread will flush; a request is answered or its Redis is
  declared down; a Redis is not declared down for the proxy's own fault.
* **Failover.**  Eight unlocked steps of `redisDown` on shared tables whose key
  is a mutable flag, run by event loops and timers against creations of clients
  by other threads, then a restart that may fail, and a client whose own connect
  callback makes the Redis a slave.  Correct: routes, flags and roles agree after
  any sequence of failures; databases of a role stay on one Redis; the slice
  recovers.
* **Session.**  Replies of different Redis and of the proxy itself on one
  connection; a SELECT that returns while another thread still opens the
  connections; exceptions in the middle of a buffer of commands; limits of SELECT
  and of the slice number.  Correct: a request waits only where its session was
  entitled to send it and is answered once; a command without an answer is one whose
  connection is lost.
* **Heartbeat.**  Two processes, silence taken for death, a snapshot exchanged at
  start, a flag for an address that is moved later, a peer that is restarted in
  the middle of its own steps.  Correct: one holder of the address, roles that
  agree, a proxy that serves at the end of each failure, and both in the end.
* **Cold backup.**  A flag read without the lock of the data it stands for, a zip
  file that all requests share, a folder and two date formats that both clients and
  all pages share, two clocks for one file.  Correct: a page never
  shows the state of a lost connection as that of the present one, backups are
  whole, a pull ends with a file that can be downloaded.

`PROJECT.json` lists the hazards one by one, at their lines, with the properties
that cover them or the reason why none does yet.

## Plan

1. `RedisPipeline`, its abstract `ReplyService`, and the proofs.  *Done.*
2. `Failover`: the routing table of a slice.  *Modelled and checked.*
3. `ProxySession`: the front-end sessions over connections that keep the promise
   of `ReplyService`.  *Modelled and checked.*
4. `Heartbeat`: two proxies, their connections, silence, ssh, the address.
   *Modelled and checked.*
5. `ColdBackup`: the visualization's connections, states and backups.  *Modelled
   and checked.*
6. Theorems about `ProxySession`, `Failover`, `Heartbeat` and `ColdBackup`: the types
   and the safety invariants of their runs.  *Proved, and with `UnflushedOwed` of
   `RedisPipeline` every invariant of a passing run is.*
7. `HotStandby`, the abstract specification of a slice, and that `Failover`
   implements it.  *Modelled, checked and proved.*
8. A composition of `Failover` for each of two proxies under `Heartbeat`, with the
   SLAVEOF commands of both on the same two Redis.  *Not done: see "Not modelled".*

Recursion is written with functions and folds, so that each module can be proved
about.

## Modules

### RedisPipeline

One `RedisProxyClient`.  Actions follow `pipelineWrite` statement by statement
where another thread can see the difference:

| Code | Actions |
|---|---|
| `executeRedisTask` l.348-369, `flushAll` l.599-614, promotion l.522-527 | `ExecuteRedisTask`, `RefuseRedisTask`, `FlushAll`, `Promote` |
| `taskLock.lock(); addRedisTask` l.165-167, `bufferQueue.add` l.168-170 | `AddTask`, `AddMessage` |
| `tryLock`, the loop, `unlock`, the last flush l.172-187 | `TryLock`, `Drain`, `DrainToNull`, `DrainEnd`, `Unlock`, `LastFlush` |
| connect, `operationComplete` l.407-426 | `Connect`, `OperationComplete` over `Script` (AUTH, SELECT, connected, SLAVEOF) |
| handler l.37-62 | `ChannelRead`, `ChannelInactive` |
| timer l.198-240 | `TimerPing`, `TimerLate`, `TimerDeclare`, `Tick` |
| netty, from its use | `LoopWrite`, `LoopFlush`, the operators `Write` and `Flush` |

A write or flush on the channel's event loop takes effect at once; on another
thread it is queued to the loop.  Time is the age class of the head of
`taskQueue` (below 2 s, below 20 s, above), the only age the code reads; a task
whose time was never set (`Untimed`) is late at any age.  `ReplyService` is what
a connection promises: a request is refused, or accepted once and answered with
its own reply in order.  `ImplementsService` maps `taskQueue` to its `pending`.

Only the connection of database 0 is watched: l.419-425 starts the timer for it
alone, and handler l.58 reports its loss alone.  On another database a request
accepted over a broken channel, or stranded, waits for ever; `connected` stays
TRUE there.  `AnsweredOrDown` is about database 0.

### Failover

The routing table of one proxy and one slice, two Redis.  Every thread that
changes the table is there: the event loop and the timer of every client, the
threads of front-end clients that SELECT, the heartbeat client's event loop.
`at` is the next step of a thread and `frame` the locals of its call, so that
each read of a flag, each `remove` and `put` of the table is a step of its own.

| Code | Actions |
|---|---|
| `initSelectRedisProxyClient` l.315-320, `initRedisProxyClient` l.251-262 | `Check`, `NewClient`, `PutClient`, `CallsDone` |
| `initDatabase(n)` l.279-291 | `Select` |
| `operationComplete` l.411-437, `sendSlaveof`, `initDatabase()` l.449-482 | `Connected`, `ConnectFailed`, `SendSlaveof`, `InitDatabase` |
| handler l.56-62, timer l.217-229 | `ChannelInactive`, `TimerLate`, `TimerDeclare` |
| `redisDown` l.514-571 | `RemoveDown`, `RemoveSlave`, `Promote`, `PutMaster`, `Demote`, `PromotePeer`, `CloseDown`, `RestartRedis`, `Ssh` |
| SR `heartbeat/HeartBeatClientHandler` l.31-73 | `Init`, `RemoteUp`, `Reconnect`, `ClearReconnect` |
| SR `heartbeat/HeartBeatServerHandler` l.232-257 | `RemoteDown` |
| environment | `Crash`, `Hang`, `LinkBreaks`, `RemoteRestarts`, `Reboot` |

A map of the table is an index in `maps`, since threads keep references to maps
that have left the table; a client is an index in `clients`.  A Redis has a state
and a role that the proxy does not see; a SLAVEOF takes effect when it is sent,
if the link is open and the Redis is up.  The new client of a slave opens the master's databases in any
order (l.474-480 walks over a map).  `Settled` and `Healthy` say when the
slice is at rest; they are conditions of the environment (below) and of
properties.

`HotStandby` is what the clients see of all this: a `master`, the Redis that has
the `writes` and the one that has the `reads`, either of which may be none.  The
mastership changes in one step, `MasterDown`, which takes the writes from the old
master; the new one gets them when it no longer has the reads.
`ImplementsStandby` maps `writes` and `reads` to the Redis of the clients in
`table[TRUE]` and `table[FALSE]` (`RedisOf`), and `master` to the Redis with the
flag, or, between the first and the last change of a `redisDown`, to the one that
is left (`Master`).  `redisDown` of a master is then `MasterDown` (`RemoveDown`),
`StopReads` (`RemoveSlave`) and `ServeWrites` (`PutMaster`) with stutters between
them, that of a slave `StopReads` alone; a client that is put back is `ServeReads`,
and at the start, or when the slave failed first, `ServeWrites`.  It is a
promise about what is routed, not about what the Redis are: that is
`WritesToMaster`.

A client whose connect failed never connects: the attempts that l.429-435
schedules for database 0 add the handler of the first attempt (l.379) to a new
pipeline, and netty refuses a handler that is not sharable and was added before.
`ConnectFailed` is therefore final.  A hung Redis does not accept either: in the
code its kernel would, the new client would be declared down twenty seconds later,
and the next would follow, until the local restart or ssh has ended the process.  The
model skips those rounds, which repeat one `redisDown`.  Without the virtual IP either Redis may be
the master at the start (l.45-47 of the heartbeat's handler take the opposite of what
the other proxy says).  `Ssh` has the three ends of `exec`: done,
failed without a word (the result is not looked at), or an exception.

### ProxySession

The sessions of front-end clients over the connections of the whole routing table,
several slices with two Redis each.  A connection is what `RedisPipeline` is
proved to implement: `Accept` appends to its `pending`, `RedisReplies` answers the
oldest.  A client sends one command after the other without waiting for replies,
each chosen from a set (`Commands`); `log` remembers them, so that properties can
say which database a request should be on.

A connection that was up keeps `connected` when its channel breaks (handler l.58-60
sets it back for database 0 alone), and its requests are accepted into nothing:
`Lose` takes it from "up" to "lost", which `IsConnected` still finds connected, as
`executeRedisTask` l.363-365 does.  For database 0, `Down` clears the flag: at the loss of the
channel, or when the timer gives up a Redis that does not answer ("silent").

| Code (SR `redisproxy/RedisProxyServiceHandler`) | Actions |
|---|---|
| `channelRead` l.30-155, one disjunct per branch | `ChannelRead`: `Unregistered`, `Malformed`, `Auth`, `Local`, `Quit`, `Select`, `Flushall`, `Request` |
| SELECT l.71-95 | `SelectOutOfRange`, `SelectNoLock` (16 and below 0: the exception), `TakeLock`, `LockTaken` |
| `RedisProxyClient.initDatabase` l.279-320, `initRedisProxyClient` l.251-262 | `InitDatabase`: `SelectCheck`, `SelectPut`, `SelectDone` |
| slice, role and connection, l.120-142 and `executeRedisTask` l.348-369 | `SliceNumber`, `Route`, `Request` |
| `exceptionCaught` l.177-186, `channelInactive` l.167-175 | `ExceptionCaught` in the branches, `ChannelInactive` |
| connections | `Connected`, `ConnectFailed`, `Lose`, `Down`, `RedisReplies` |

A handler runs to its end on the thread of its channel, except inside
`initDatabase`, where other threads may come between its steps.

### Heartbeat

Two proxies.  A connection (`link`) has a client end at one and a server end at
the other, at most one request and one answer under way, and the steps its
handlers are in; `silent` is a connection that stays open and delivers nothing.
Connections are identities that are used again when both ends are forgotten.

| Code (SR `heartbeat`) | Actions |
|---|---|
| `HeartBeatClient.doConnect` l.70-97, `HeartBeatClientHandler` l.82-104 | `DoConnect`, `ClientInactive` |
| `handleData` AUTH_SUCCESS l.31-67 | `AuthSuccess`, `InitAdd`, `InitFlag`, `InitRoles` |
| `HeartBeatServerHandler` AUTH l.116-126, 176-183 | `ServerAuth` |
| reader idle l.204-223, `channelInactive` l.262-278 | `ReaderIdle`, `ServerInactive`, `DownClose` |
| `remoteHARedisDown` l.232-257 | `DownBegin`, `DownDel`, `DownAdd`, `DownRestart` |
| environment | `ProcessCrash`, `HostCrash`, `Boot`, `LinkBreaks`, `Silence` |

The address belongs to the network card of a host: it outlives the proxy's
process and not the host.  The service restart by ssh ends the process in
whatever step it is (`Dead`, `Blank`).

Coarser than the code: `InitRoles` takes l.54-67 of the client's handler in one
step, so that a snapshot of the server between those lines is not in it; and `DownClose`, which closes
this proxy's client from another thread, ends a client handler that is at work,
which in the code goes on.  With `Calm` no handler is at work then.

### ColdBackup

The visualization's two clients (one per proxy), the server's side of their
connections, and the threads of pages.  A connection is a record in `conns`; the
last one of a client is its `channel`, older ones live on only as long as the
server makes a zip for them.  `loop` is what `handleData` is doing under the
handler's lock, which a page needs to read the state (`Show`) and not to read
`connect` (`View`).  The two clients have a handler, a lock and an event loop each,
and write into one folder: the write of a file is a step of its own, and two writes
of one path at a time mix.

`DateUtils` formats through two `SimpleDateFormat` that all threads share.  `format`
puts its date into the calendar of the object and then reads the parts from there,
so that calls that overlap may name another date.  `format1` and `format2` are the
dates that a call under way may find; a call ends with any of them.  (A mixture of
two is not a name of its own in the model: it is as wrong as the other date.)
`raced` remembers the times of such calls.

A zip goes into `/backups.zip` of its host.  `zipFiles` logs its exceptions and the
answer is then part of a zip or a null, which the client drops (VIS handler l.61);
`unzipped` remembers those.  A connection may break or fall silent during a zip, a
long zip being one reason for the silence, and the next one may ask for another
while the server still writes; `torn` remembers the hosts that lost a connection
with a pull unanswered.  These three are history, there for the properties to say when a
backup may be wrong.

| Code | Actions |
|---|---|
| VIS `heartbeat/HeartBeatVisualizationClient` l.82-147 | `Connected`, `ConnectFailed`, `Poll`, `PullSend` |
| VIS `heartbeat/HeartBeatVisualizationClientHandler` l.50-106 | `HandleData`, `HandleFolder`, `HandleName`, `HandleDataEnds`, `ReaderIdle`, `ChannelInactive` |
| SR `heartbeat/HeartBeatServerHandler` l.87-107, 160-199, `utils/FileUtils` l.140-159 | `ServerAuth`, `ServerState`, `ServerZip`, `ServerSendsFile` |
| VIS `service/impl/HARedisVisualizationDataServiceImpl` l.36-112 | `View`, `Show`, `Pull`, `PullNext`, `PullName` |
| VIS `controller/HARedisVisualizationController` l.95-115 | `Found` |

Time is the second of the visualization's clock, by which names and folders are
made; a day has `DayLength` of them.

## Runs

| Run | Question | Instance | Result |
|---|---|---|---|
| `pipeline_safety` | Do replies go to their requests whatever the interleaving, and does the connection implement `ReplyService`? | 2 threads, 2 requests, a FLUSHALL, a PING, AUTH and SELECT, batches of 2, no SLAVEOF | `TypeOK`, `ReplyMatches`, `QueuesAligned`, `SetupFirst`, `UnflushedOwed`, `ImplementsService` hold |
| `pipeline_liveness` | Is a request accepted on database 0 answered or its Redis declared down? | 1 request, a promotion, SELECT and SLAVEOF | `AnsweredOrDown` holds |
| `pipeline_overtaken` | Does `taskLock` guarantee the order of replies (comment l.61)? | as above with SLAVEOF | `ReplyMatches` violated |
| `pipeline_stranded` | Is a Redis that is declared down (javadoc l.508) at fault? | 2 threads, a PING | `NoFalseDown` violated |
| `failover` | Do table, flags and roles agree after failures? | 2 databases, one SELECTing thread, 2 failures of any kind, virtual IP here | `TypeOK`, `OneRedisPerMap`, `RoutedByFlag`, `OneMaster`, `WritesToMaster`, `ImplementsStandby` hold |
| `failover_recovery` | Does the slice recover? | database 0, 3 failures, with and without the virtual IP | `RoutedByFlag`, `Recovers` hold |
| `failover_duplicate` | Does the select lock prevent a second client (comment l.65)? | SELECT at any time, no failure | `NoDuplicate` violated |
| `session` | Is every request executed where it belongs and every command answered? | 2 clients, 2 slices, 3 Redis, 2 databases, SELECT of 1, 16, 17, one Redis whose connections to both databases may be late, fail, break and go down | `TypeOK`, `RightPlace`, `AnsweredOnce`, `SelectedExists`, `CreatesMissing`, `EveryCommandAnswered` hold |
| `session_order` | Are replies in the order of the requests (comment l.61)? | 1 client, 2 requests to 2 slices | `RepliesInOrder` violated |
| `heartbeat` | Is the address held once, and served again after failures? | 2 failures of any of four kinds, fast and slow starts | `TypeOK`, `OneAddress`, `FlagTrue`, `RolesAgree`, `AddressServed`, `TwoAgain` hold |
| `heartbeat_flag` | Does the flag say who holds the address (comment `HeartBeatServer` l.26)? | 2 silences at any time | `FlagTrue` violated |
| `backup` | Are states fresh, backups whole, pulls answered, do clients come back? | 2 threads that pull, one of which may show the state instead, one midnight, a failure of any kind of the master's host | `TypeOK`, `CleanBackups`, `FreshState`, `Reconnects`, `PullArrives` hold |

**Bounds.**  Two threads are enough for every race of `pipelineWrite`, where a
thread meets the holder of a lock; the timer and the event loop come on top.  A
batch of 2 has the cases of the counter (reset, incomplete, empty).  Each task is
issued once: `Requests`, `FlushAlls`, `Pings`, `Promotions` bound the commands.
`headAge` stops at 2, the last class.  In `Failover` `MaxFailures` bounds the
failures; `MaxClients` (11 and 9) is above what those failures can create, so
that no run is cut by it.  Two databases are enough for a map to be
mixed, for a SELECT to race and for a slave to copy the master's databases.

In `ProxySession` the clients, with their two or three commands each, are enough
for a SELECT to find the lock taken, for a request before, between and after a
change of AUTH or database, and for one command after each that ends a session;
one Redis is still connecting, and its two connections, of database 0 and of database 1, may be
lost (`Breakable`), `Leaving` says who may go without
QUIT.  In `Heartbeat` `Links` (4) bounds the connections that are open, or that a
handler or a `channelInactive` is still busy with, at one time: twice the two of
normal operation.  A connect waits for one that is forgotten while all four are
taken, so that a third generation of connections, beside two that are still being
closed, is outside the run.  In `ColdBackup` `MaxTime` is one midnight;
`MaxFailures` is one failure, after which a client has its second connection while
the server may still be at work for the first; `Failing` keeps the
failure to the master's host, which the code prefers, so that it also turns
pulls to the other one.  (`CleanBackups` and `FreshState`, being proved, hold after any number.)
Two pages, one per client, are enough for two writes of one path, two zips
of one host and two formats at a time.  Polls are in the model while they can
change something.

**Calm.**  (`Failover`.)  With `Calm = TRUE` a failure meets a slice that has recovered from the
one before, a SELECT one that is settled, a link does not break between the two
lines of the timer, and the other proxy does not come back during an ssh.  The
code is not safe without that, and its hazards are listed one by one (double
detection, a slave that is still connecting when its master fails, a SELECT
during `redisDown`).  What the passing runs show is that *separate* failures are
handled, with every interleaving of the threads of one failover: the old and new
clients, late channel events, the timer, the other proxy going and coming.  Even then
a slave can lose a database: with two databases a new client's own `initDatabase`
may run before its creator's `put` (l.252-259), and the later put replaces the
map.  `Recovers` is therefore checked with database 0 alone, where nothing can be
lost; with two databases it does not hold.

**Calm, Timely, slowStart.**  (`Heartbeat`.)  `Calm` lets a failure happen when
both proxies are settled again.  `Timely` orders steps of a handler before steps
that take seconds: a timeout, a connect to a process that starts, the boot of a
host; it also leaves out a snapshot that the server takes between two consecutive
lines of the client's handler (l.53 and l.54).  Without it `RolesAgree` does not
hold even at a start without failures, and the hazard is listed.  `slowStart` says
that a proxy takes longer to start than the other one takes for an ssh command: a
fast one connects too early, is restarted again for that connection, and so on;
`TwoAgain` is about slow ones, all other properties about both.

**Excuses.**  `CleanBackups`, `PullArrives` and `EveryCommandAnswered` name the
cases in which the code does not keep the promise, each of which TLC shows to be
needed: without any one of them the property is violated.  A mixed backup comes from
a zip that failed, from a name formatted beside another, from two clients pulled in
one second, or through a client that lost a connection with a pull unanswered (the
server goes on with that zip while the next request starts another).  A command without
a reply is one of a closed session, one accepted by a connection of database 0 that
then went down (its queue is dropped), or one accepted by a connection of another
database, broken or not.

**Fairness.**  `RedisPipeline`: weak fairness of the steps of `pipelineWrite`
of each thread, of `operationComplete`, the event loop and the timer, and time passes; threads are run by
the JVM and locks are held for a few statements only.  Nothing is assumed of
Redis: it may never answer.  `Failover`: weak fairness of each thread, of the
connects (which succeed or fail),
of the event loops and timers, and of the other proxy's restart of its own
Redis, while it runs.  No fairness for the other proxy's return, for SELECT or
for failures.  `ProxySession`: the thread of a client goes on, and a connection
of database 0 with requests answers or goes down, which is `AnsweredOrDown` of
`RedisPipeline`.  Nothing is assumed of the connections of other databases, which nobody
watches.  `Heartbeat`: timers and threads of a running proxy go on,
nobody has to boot a host.  `ColdBackup`: event loops and pages go on and a connect
is accepted in the end; time need not pass.

**Deadlock** is not checked: when all tasks are issued or all failures have
happened the instance stops.

## Findings

* `pipeline_overtaken`: `connected` is set (l.416) before SLAVEOF is sent (l.422) from the
  event loop.  A request that a client thread has put into `taskQueue` and queued to
  the loop is overtaken by the SLAVEOF, which the loop writes at once: the two
  replies are swapped.
* `pipeline_stranded`: a thread whose `tryLock` fails after the holder has seen
  `bufferQueue` empty leaves its message to nobody; its age makes the timer call
  `redisDown` for a healthy Redis.
* `failover_duplicate`: the `initDatabase` of a client (l.468-482) creates clients
  without the select lock; together with a SELECT two connections are opened to
  one database of one Redis, and the one that loses the `put` is never closed.
* `session_order`: `taskLock` orders the tasks of one Redis connection; two
  requests of one client that go to two Redis are answered in the order of the
  Redis, and the client takes one reply for the other.
* `heartbeat_flag`: with both connections silent, B has deleted A's address by ssh
  when A restarts B: no host has the address, and A's `haveVirtualIp` is TRUE for
  ever, as is every later answer that depends on it.

Met on the way, and not a matter of any run: `RedisTask` l.32 has `" LREM"` with a
space, so LREM is refused; `hashCode() % size` is negative for half of the keys,
which are refused; an entry of `redis.info` without four parts shifts the slice
numbers (`Configuration` l.33); the daily `@Scheduled` is on `getStateData`
instead of `redisColdBackup` (VIS `HARedisVisualizationDataServiceImpl` l.92), so
that no backup is made by itself.

## Proofs

`RedisPipelineProofs` and `ReplyOrderProofs` prove about
`RedisPipeline`, for any threads, tasks and batch size that satisfy its named
assumptions (which TLC evaluates in its runs); `QueueLemmas` has facts about
sequences they cite.

* `TypeCorrect`: `Spec => []TypeOK`.  `TypeOK` is inductive; one step per action.
* `PipelineInvariant`: `[]PipelineInv`, assuming `Late = <<>>` and
  `Promotions = {}`.  `PipelineInv` adds to `TypeOK`, `QueuesAligned` and
  `ReplyMatches`:
  `Locks` (the holder of a lock is where its steps are), needed because the one
  place where the queues differ is between the two adds under `taskLock`; and
  `Startup` (no request is queued while the connection is starting), needed
  because the event loop writes past netty's queue, which is harmless only when
  no request is there to be overtaken.
  `QueuesAligned` itself says that `taskQueue` and the messages in flight, read
  through wire, channel buffer, netty's queue, `bufferQueue` and the message
  still to be added, have the same requests at the same places; each action
  moves a message across one boundary or is a pair of an add and a remove.
* `QueuesStayAligned`, `ReplyOrder`: the two invariants that the runs check.
* `Implementation`: `Spec => ImplementsService`, under the same assumptions,
  with the further invariant `Once` (a request that is fresh or held by a thread
  is neither queued nor answered).
* `SetupBeforeRequests`: `[]SetupFirst`, under the same assumptions.  The invariant
  `SetupInv` says of everything in flight what `SetupFirst` says of its head: no task of
  the script follows a request.  A request comes into flight only when `connected` is
  set, after the last of the script; `KindsAssumption` keeps the PINGs of the timer, which
  `connected` lets through as well, apart from the script.
* `NothingForgotten`: as long as a message is written and no flush that has been called
  will send it, a thread inside `pipelineWrite` counts in its `i` and will flush; without
  the assumptions.  `FlushInv` says it of the two places of such messages, netty's queue
  of the loop and the buffer of the channel.
* `NothingUnflushedForgotten`: `[]UnflushedOwed`, the same with numbers: the messages
  that no flush so far will send are never more than the threads have still counted.
  To count without a sum over the threads, what they promise is a set of pairs of a
  thread and a number (`Promised`), so that a write adds a pair and a flush removes
  those of its thread.  The invariant `OwedInv` counts three stretches: the end of
  netty's queue that no flush follows, which other threads than the loop owe
  (`QueueOwed`); what the loop wrote past that queue, which its own counter covers
  (`LoopOwes`); and both together while the loop has nothing of its own to flush
  (`RestOwed`).

The assumptions on `Late` and `Promotions` are those connections on which no SLAVEOF is sent after the start
and none by a promotion: every connection of a database other than 0, and those
of database 0 on a proxy without the virtual IP.  `pipeline_overtaken` shows that
they are needed.  The parts of these invariants were checked by TLC first.

`ProxySessionProofs` and `RightPlaceProofs` prove about `ProxySession`, for any
clients, any commands in any order, any slices, Redis and databases that satisfy
`ConstantsAssumption`.

* `SessionTypes`: `[]TypeOK`.  The inductive invariant `Types` makes functions to
  sequences of `log`, `replies` and `pending`, and ties each thread inside
  `initDatabase` to the lock of its database (`WorkOK`) and to a command it has
  read (`BusyOK`), which it answers at the end.
* `NoSecondAnswer`: `[]AnsweredOnce`.  `Once` says apart what the property counts
  together: no two replies to a command, no two requests of it at all Redis, not both,
  and no reply yet to the SELECT that a thread inside `initDatabase` has to answer.
* `NoRepeatedClient`: `[]CreatesMissing`.  Two threads that put clients hold
  different locks, hence different databases (`WorkOK`); without the lock the check
  and the put of two SELECTs interleave.
* `RequestsRightlyPlaced`: `[]RightPlace`.  What the session of a client says is
  what the commands read from it say (`Sessions`), and what they say of a command
  is not changed by later ones: the lemmas about `Entitled`, `DatabaseOf` and
  `Fatal` of a prefix.  `HasLast` (among the SELECTs before a command there is a
  last one) is part of the invariant, so that no induction over the commands is
  needed.
* `SelectedDatabasesOpened`: `[]SelectedExists`.  `Visited`: a thread inside
  `initDatabase` has left no Redis behind without a client; `Held`: a lock that is taken
  is held by such a thread, for its database.  Hence a SELECT that finds the lock taken
  may rely on its holder.

`FailoverProofs` proves about `Failover`, for any databases, threads and number of
failures.

* `FailoverTypes`: `[]TypeOK`, whatever fails when.  `Types` adds the locals that each
  step of a thread reads (`FrameOK`): a map or client that `redisDown` or
  `initRedisProxyClient` keeps a reference to still exists, since they only grow
  (`Evolves`).
* `OneRedis`: `[]OneRedisPerMap`, and `TableFollowsFlags`: `[]RoutedByFlag`, assuming
  `Calm`.  The two need one inductive invariant with three parts beside the types.
  `Owners`: the clients of a map, in the table or not, are all of one Redis, and what a
  thread is about to put fits the map it has found.  `Unique`: of one Redis there is
  either one client of database 0 that is connected or connecting, or one call that will
  make one, or one thread that reports it, or one entry of `reconnectRedisInfoList`; with
  two of them two `redisDown` run for one failure, and the second removes what the first
  has made.  `Phases`: connections are being opened, or SELECTs are served, or a Redis
  has failed and nobody has noticed, or exactly one thread is in the steps that change
  table and flags, with the table as that step expects it (`Shape`).  Without `Calm`
  neither holds, as the hazards say.
* `MasterServes`: `[]OneMaster`, assuming `Calm` and `StartVip = {TRUE}`: a proxy that
  starts without the virtual IP sends no SLAVEOF, and what the other one sends is not in
  the module.  `Ranks` adds to the invariant what the Redis are (`Ruled`): one with a live
  client of database 0 is what its flag says, or that client has yet to connect and tell
  it, or has failed, or a `redisDown` has promoted it and has yet to set the flags.
  `Noted`, needed for the last of these, says that the Redis that is to take over is
  found in the table and reached (`Takeover`) from the failure on, so that its SLAVEOF NO
  ONE arrives; `Telling`, that an event loop tells the Redis of its own client.
* `WritesReachMaster`: `[]WritesToMaster`, assuming `Calm`, with or without the virtual
  IP at the start: while a proxy has the address, a write that an open link takes to a
  Redis that is up reaches a master, in every state of every failover.  (Without the
  address the other proxy sends the SLAVEOF commands, which are not in the module; no
  front-end client writes there.)  The danger is a Redis that fails, is restarted and
  is told to be a slave while the table still has it as master.  `Written` adds four
  parts to the invariants above: a Redis that has the flag is up until it fails; from
  then until `redisDown` changes the table no link of it takes a write to a slave, nor is
  one being opened (`Severing`); what restarts a Redis at the end of `redisDown` restarts
  one without the flag; and the Redis that is being promoted is up.  The parts of
  `Ranks` and `Inv` then make a Redis that is up and has the flag a master.
* `StandbyImplemented`: `Spec => ImplementsStandby`, assuming `Calm`.  The invariants
  give the three mapped values in every state, outside the steps of `redisDown` that
  change the table (`Standing`) and in them (`Moving`); then each action is a step of
  `HotStandby` or a stutter.  `OneRedisPerMap` is what makes `RedisOf` one Redis,
  `Phases` what makes the thread in those steps the only one.

`HeartbeatProofs` proves about `Heartbeat`, for any number of connections and failures.

* `HeartbeatTypes`: `[]TypeOK`, whatever fails when.
* `AddressHeldOnce`: `[]OneAddress`, `FlagSaysAddress`: `[]FlagTrue`, and
  `RolesOpposed`: `[]RolesAgree`, assuming `Calm` and `Timely`.  `Base`, which needs
  neither, is what holds of connections and machines: an end of a connection belongs to
  a process that runs, a proxy has one connection to the other at a time, a connection
  is asked, answered and handled in this order, a proxy that has initialised knows the
  other host.  `Phases` says who has the address: the configured master is still
  starting (`Starting`), or one proxy `h` has initialised and keeps it (`Keeps`), the other
  one being about to be restarted if it believes in it as well, or `h` has not noticed
  that the only connection of the holder is broken (`Waits`), or is taking the address
  over for that connection (`Takes`).  `Sound` says that nothing takes it from `h`: its
  own connections are in order or closed at the other end, an answer under way to the
  other proxy gives that one the opposite role, and when `h` closes its connections at
  the end of `handleReaderIdle` nobody listens to them.  That last part is where `Timely`
  is needed: a new connection of `h` would be closed as well.  A failure finds `Keeps`
  (`SettledHeld`); whoever has not failed is `h` afterwards.

`ColdBackupProofs` proves about `ColdBackup`, for any pages, connections, times and
failures.

* `ColdBackupTypes`: `[]TypeOK`, and `FreshPages`: `[]FreshState`.  The invariant
  `Clients` says that a client has one connection that is not closed and none while it
  connects, and that the flag and the data are those of the last one; `Pages`, that a
  page holds the flag of a connection not younger than the data.
* `OneZipPerBackup`: `[]CleanBackups`.  A host that is not in `torn` has requests or a
  zip only on its open connection, which is its last (`CleanConn`), so that no zip
  disturbs another; what arrives was asked by a page (`Asked`) and is whole unless
  its zip failed (`Arrives`).  `Names` says that two times in `format1` are both in `raced`,
  hence a file whose time is not has the name of its pull (`CleanWork`), and two clients
  that write one such name were both asked in that second, which is `Twice`.

Only model-checked: liveness (`AnsweredOrDown`, `Recovers`,
`EveryCommandAnswered`, `AddressServed`, `TwoAgain`, `Reconnects`,
`PullArrives`), which is out of the prover's reach.  All other
properties that the runs find to hold, the invariants and the two refinements, are
proved, under the assumptions named with each theorem.
`HotStandby` has no fairness for the same reason; that a slice serves again after a
failure is `Recovers`.

## Not modelled

The failovers of both proxies together: `Failover` is one proxy, of which the other
one is the environment (`RemoteUp`, `RemoteDown`, `RemoteRestarts`), and `Heartbeat`
has the roles of the Redis only as the flags that the two proxies exchange.  What the
SLAVEOF commands of two proxies do to the same Redis when both notice a failure is
therefore neither checked nor proved.

Parsing of the configuration, conversion of messages, system statistics, the
contents of zip files and states, text messages and pages, which keep no state;
the names of the Redis commands, which are two kinds.  A full disk of the visualization.  A partition of the two
hosts: ssh reaches a host that is up, so `Heartbeat` has silent connections but
no split brain (after one, both proxies hold the address for ever, which needs no
model), nor an ssh that fails silently in the middle of a takeover.  A proxy that
starts alone: it serves nothing before the first AUTH_SUCCESS.  A wrong heartbeat
or visualization password.  Scheduled tasks that are never cancelled are not
counted.  Replies are the commands they answer: what Redis computes is not
part of any property.  An error reply to SLAVEOF ends in an exception that changes
nothing (handler l.43-45).  Memory visibility of the fields that are not volatile
(`connected`, the flags) is not modelled: a write is seen by the next read.  Netty's
executor shutdown (`shutdownGracefully`) appears only as the end of the connection
of a client.
