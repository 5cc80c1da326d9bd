---------------------------- MODULE RedisPipeline ----------------------------
(***************************************************************************)
(* One RedisProxyClient: the pipelined connection of the proxy to one      *)
(* database of one Redis (redisproxy/RedisProxyClient.java and             *)
(* RedisProxyClientHandler.java).                                          *)
(*                                                                         *)
(* A thread that has a command for Redis appends its RedisTask to the      *)
(* handler's taskQueue and its message to the client's bufferQueue (both   *)
(* under taskLock), then tries pipelineLock: whoever gets it writes the    *)
(* whole bufferQueue to the channel and flushes once per BatchSize         *)
(* messages, whoever does not leaves its message to the holder.  A reply   *)
(* is given to the head of taskQueue, so a client gets its own reply only  *)
(* if Redis receives the messages in the order of taskQueue.               *)
(*                                                                         *)
(* netty is modelled from how it is used: a write or flush called on the   *)
(* channel's event loop takes effect at once, one called on any other      *)
(* thread is queued to that loop.  Time is the age class of the head of    *)
(* taskQueue, the only task whose age the code reads.                      *)
(***************************************************************************)
EXTENDS Naturals, Sequences, Functions, FiniteSetsExt

CONSTANTS
  Callers,     \* threads that call executeRedisTask, flushAll or redisDown
  Timer,       \* the java.util.Timer thread of checkRedisState
  Loop,        \* the channel's netty event loop
  Requests,    \* tasks of front-end clients (MASTER or SLAVE messages)
  FlushAlls,   \* tasks that flushAll makes
  Pings,       \* PING tasks of the timer: the bound on the pings of a run
  Promotions,  \* SLAVEOF NO ONE tasks that redisDown sends to a slave
  Setup,       \* the tasks of authAndSelect, in order: AUTH if any, SELECT
  Late,        \* <<the task of sendSlaveof>>, or <<>> where it is not sent
  Untimed,     \* the tasks whose time field is left 0
  BatchSize,   \* LOCAL_PROXY_CACHE_TASK_NUM
  Database0,   \* is this the connection of database 0?
  SetConnected, NoThread, NoTask, NoAnswer, ServiceIsBusy

Threads == Callers \cup {Timer, Loop}
Offered == Requests \cup FlushAlls \cup Pings \cup Promotions
Tasks == Offered \cup Range(Setup) \cup Range(Late)

ASSUME ThreadsAssumption ==
  /\ Timer # Loop /\ Timer \notin Callers /\ Loop \notin Callers
  /\ NoThread \notin Threads

ASSUME TasksAssumption ==
  /\ Setup \in Seq(Range(Setup)) /\ Late \in Seq(Range(Late))
  /\ Untimed \subseteq Promotions \cup Range(Late)
  /\ {SetConnected, NoTask, NoAnswer, ServiceIsBusy} \cap Tasks = {}
  /\ NoAnswer # ServiceIsBusy

\* The kinds of task are disjoint: each message has one messageType.
ASSUME KindsAssumption ==
  /\ Requests \cap (FlushAlls \cup Pings \cup Promotions
                     \cup Range(Setup) \cup Range(Late)) = {}
  /\ FlushAlls \cap (Pings \cup Promotions \cup Range(Setup) \cup Range(Late)) = {}
  /\ Pings \cap (Promotions \cup Range(Setup) \cup Range(Late)) = {}

ASSUME BatchAssumption == BatchSize \in Nat \ {0}
ASSUME DatabaseAssumption ==
  Database0 \in BOOLEAN /\ (Late # <<>> \/ Pings # {} => Database0)

VARIABLES
  pc,           \* the next step of each thread
  task,         \* the argument of the pipelineWrite each thread is in
  i,            \* the counter i of pipelineWrite (l.173), of each thread
  taskLock, pipelineLock,   \* the holder of each lock, or NoThread
  taskQueue,    \* RedisProxyClientHandler.taskQueue
  bufferQueue,  \* RedisProxyClient.bufferQueue
  conn,         \* "connecting" (channel null), "open" or "closed"
  connected,    \* RedisProxyClient.connected
  todo,         \* what operationComplete has still to do
  loopQueue,    \* writes queued to the loop; flush: a flush was queued after it
  flushFirst,   \* a flush is queued before every write of loopQueue
  outbound,     \* written to the channel, not flushed
  wire,         \* sent to Redis, reply not yet read
  fresh,        \* tasks that no thread has issued yet
  answer,       \* what each request was answered
  headAge,      \* age of the head of taskQueue: 0, 1 (2 s) or 2 (20 s)
  down          \* the threads that called redisDown for this Redis

threadVars == <<pc, task, i>>
lockVars   == <<taskLock, pipelineLock>>
queueVars  == <<taskQueue, bufferQueue>>
connVars   == <<conn, connected, todo>>
nettyVars  == <<loopQueue, flushFirst, outbound, wire>>
clientVars == <<fresh, answer>>
watchVars  == <<headAge, down>>
vars == <<threadVars, lockVars, queueVars, connVars, nettyVars, clientVars, watchVars>>

\* Mutant of Script: connected is set before AUTH and SELECT are sent.
ScriptConnectedFirst == <<SetConnected>> \o Setup \o Late

\* operationComplete: authAndSelect, connected = true, sendSlaveof.
Script == Setup \o <<SetConnected>> \o Late

Init ==
  /\ pc = [th \in Threads |-> "idle"]
  /\ task = [th \in Threads |-> NoTask]
  /\ i = [th \in Threads |-> 0]
  /\ taskLock = NoThread /\ pipelineLock = NoThread
  /\ taskQueue = <<>> /\ bufferQueue = <<>>
  /\ conn = "connecting" /\ connected = FALSE /\ todo = <<>>
  /\ loopQueue = <<>> /\ flushFirst = FALSE /\ outbound = <<>> /\ wire = <<>>
  /\ fresh = Offered
  /\ answer = [r \in Requests |-> NoAnswer]
  /\ headAge = 0 /\ down = {}

-----------------------------------------------------------------------------
(* The calls that end in pipelineWrite.                                    *)

\* The thread enters pipelineWrite(c, t).
Enter(th, t) ==
  /\ pc[th] = "idle"
  /\ pc' = [pc EXCEPT ![th] = "addTask"]
  /\ task' = [task EXCEPT ![th] = t]
  /\ UNCHANGED i

\* The same, for a task that is made or stamped by the call.
Issue(th, t) ==
  /\ t \in fresh
  /\ fresh' = fresh \ {t}
  /\ Enter(th, t)
  /\ UNCHANGED <<lockVars, queueVars, connVars, nettyVars, answer, watchVars>>

\* executeRedisTask with this client routed to: connected is read once.
ExecuteRedisTask(c, r) ==
  /\ connected
  /\ Issue(c, r)

\* Mutant of RefuseRedisTask: no else, a refused request is executed as well.
RefuseAndExecute(c, r) ==
  /\ ~connected /\ r \in fresh
  /\ fresh' = fresh \ {r}
  /\ answer' = [answer EXCEPT ![r] = ServiceIsBusy]
  /\ Enter(c, r)
  /\ UNCHANGED <<lockVars, queueVars, connVars, nettyVars, watchVars>>

RefuseRedisTask(c, r) ==
  /\ ~connected
  /\ pc[c] = "idle" /\ r \in fresh
  /\ fresh' = fresh \ {r}
  /\ answer' = [answer EXCEPT ![r] = ServiceIsBusy]
  /\ UNCHANGED <<threadVars, lockVars, queueVars, connVars, nettyVars, watchVars>>

\* flushAll asks for no connected, but a null channel stops it (l.607).
FlushAll(c, f) ==
  /\ conn # "connecting"
  /\ Issue(c, f)

\* redisDown of the master whose slave this client serves (l.523-526).
Promote(c, p) == Issue(c, p)

-----------------------------------------------------------------------------
(* pipelineWrite, step by step.                                            *)

\* Mutant of AddTask: taskLock is not waited for.
AddTaskUnlocked(th) ==
  /\ pc[th] = "addTask"
  /\ taskLock' = th
  /\ taskQueue' = Append(taskQueue, task[th])
  /\ pc' = [pc EXCEPT ![th] = "addMessage"]
  /\ UNCHANGED <<task, i, pipelineLock, bufferQueue, connVars, nettyVars, clientVars, watchVars>>

AddTask(th) ==
  /\ pc[th] = "addTask" /\ taskLock = NoThread
  /\ taskLock' = th
  /\ taskQueue' = Append(taskQueue, task[th])
  /\ pc' = [pc EXCEPT ![th] = "addMessage"]
  /\ UNCHANGED <<task, i, pipelineLock, bufferQueue, connVars, nettyVars, clientVars, watchVars>>

AddMessage(th) ==
  /\ pc[th] = "addMessage"
  /\ bufferQueue' = Append(bufferQueue, task[th])
  /\ taskLock' = NoThread
  /\ pc' = [pc EXCEPT ![th] = "tryLock"]
  /\ task' = [task EXCEPT ![th] = NoTask]
  /\ UNCHANGED <<i, pipelineLock, taskQueue, connVars, nettyVars, clientVars, watchVars>>

TryLock(th) ==
  /\ pc[th] = "tryLock"
  /\ IF pipelineLock = NoThread
       THEN pipelineLock' = th /\ pc' = [pc EXCEPT ![th] = "drain"]
       ELSE pc' = [pc EXCEPT ![th] = "idle"] /\ UNCHANGED pipelineLock
  /\ UNCHANGED <<task, i, taskLock, queueVars, connVars, nettyVars, clientVars, watchVars>>

\* channel.write(m), and channel.flush() after it if flush.  On the loop both
\* take effect at once; on a closed channel both fail and m is lost.
Write(th, m, flush) ==
  IF conn = "closed" THEN UNCHANGED nettyVars
  ELSE IF th = Loop
    THEN /\ wire' = IF flush THEN wire \o Append(outbound, m) ELSE wire
         /\ outbound' = IF flush THEN <<>> ELSE Append(outbound, m)
         /\ UNCHANGED <<loopQueue, flushFirst>>
    ELSE /\ loopQueue' = Append(loopQueue, [message |-> m, flush |-> flush])
         /\ UNCHANGED <<flushFirst, outbound, wire>>

\* channel.flush() alone.
Flush(th) ==
  IF conn = "closed" THEN UNCHANGED nettyVars
  ELSE IF th = Loop
    THEN /\ wire' = wire \o outbound
         /\ outbound' = <<>>
         /\ UNCHANGED <<loopQueue, flushFirst>>
    ELSE /\ IF loopQueue = <<>>
              THEN flushFirst' = TRUE /\ UNCHANGED loopQueue
              ELSE loopQueue' = [loopQueue EXCEPT ![Len(loopQueue)].flush = TRUE]
                   /\ UNCHANGED flushFirst
         /\ UNCHANGED <<outbound, wire>>

\* Mutant of Drain: i is not reset when a full batch is flushed (l.180).
DrainNoReset(th) ==
  /\ pc[th] = "drain" /\ bufferQueue # <<>> /\ conn # "connecting"
  /\ bufferQueue' = Tail(bufferQueue)
  /\ Write(th, Head(bufferQueue), i[th] + 1 = BatchSize)
  /\ i' = [i EXCEPT ![th] = @ + 1]
  /\ UNCHANGED <<pc, task, lockVars, taskQueue, connVars, clientVars, watchVars>>

\* One turn of the loop: the holder of pipelineLock is the only poller.
Drain(th) ==
  /\ pc[th] = "drain" /\ bufferQueue # <<>> /\ conn # "connecting"
  /\ bufferQueue' = Tail(bufferQueue)
  /\ Write(th, Head(bufferQueue), i[th] + 1 = BatchSize)
  /\ i' = [i EXCEPT ![th] = IF i[th] + 1 = BatchSize THEN 0 ELSE i[th] + 1]
  /\ UNCHANGED <<pc, task, lockVars, taskQueue, connVars, clientVars, watchVars>>

\* write on a null channel: the argument was polled before the exception.
DrainToNull(th) ==
  /\ pc[th] = "drain" /\ bufferQueue # <<>> /\ conn = "connecting"
  /\ bufferQueue' = Tail(bufferQueue)
  /\ pipelineLock' = NoThread
  /\ pc' = [pc EXCEPT ![th] = "idle"]
  /\ UNCHANGED <<task, i, taskLock, taskQueue, connVars, nettyVars, clientVars, watchVars>>

\* The loop finds bufferQueue empty, and the lock is still held.
DrainEnd(th) ==
  /\ pc[th] = "drain" /\ bufferQueue = <<>>
  /\ pc' = [pc EXCEPT ![th] = "unlock"]
  /\ UNCHANGED <<task, i, lockVars, queueVars, connVars, nettyVars, clientVars, watchVars>>

\* Mutant of Unlock: the flush of the last, incomplete batch is left out.
UnlockNoFlush(th) ==
  /\ pc[th] = "unlock"
  /\ pipelineLock' = NoThread
  /\ pc' = [pc EXCEPT ![th] = "idle"]
  /\ UNCHANGED <<task, i, taskLock, queueVars, connVars, nettyVars, clientVars, watchVars>>

Unlock(th) ==
  /\ pc[th] = "unlock"
  /\ pipelineLock' = NoThread
  /\ pc' = [pc EXCEPT ![th] = IF i[th] = 0 THEN "idle" ELSE "flush"]
  /\ UNCHANGED <<task, i, taskLock, queueVars, connVars, nettyVars, clientVars, watchVars>>

LastFlush(th) ==
  /\ pc[th] = "flush"
  /\ Flush(th)
  /\ i' = [i EXCEPT ![th] = 0]
  /\ pc' = [pc EXCEPT ![th] = "idle"]
  /\ UNCHANGED <<task, lockVars, queueVars, connVars, clientVars, watchVars>>

PipelineWrite(th) ==
  \/ AddTask(th) \/ AddMessage(th) \/ TryLock(th) \/ Drain(th) \/ DrainToNull(th)
  \/ DrainEnd(th) \/ Unlock(th) \/ LastFlush(th)

-----------------------------------------------------------------------------
(* The channel's event loop.                                               *)

\* The connect succeeds: operationComplete starts on the loop.  A failed one
\* changes nothing here: no attempt follows it that succeeds (Failover).
Connect ==
  /\ conn = "connecting"
  /\ conn' = "open"
  /\ todo' = Script
  /\ UNCHANGED <<threadVars, lockVars, queueVars, connected, nettyVars, clientVars, watchVars>>

OperationComplete ==
  /\ todo # <<>> /\ pc[Loop] = "idle"
  /\ todo' = Tail(todo)
  /\ IF Head(todo) = SetConnected
       THEN connected' = TRUE /\ UNCHANGED threadVars
       ELSE Enter(Loop, Head(todo)) /\ UNCHANGED connected
  /\ UNCHANGED <<lockVars, queueVars, conn, nettyVars, clientVars, watchVars>>

\* The loop is not inside operationComplete.
LoopFree == conn = "open" /\ todo = <<>> /\ pc[Loop] = "idle"

LoopFlush ==
  /\ LoopFree /\ flushFirst
  /\ flushFirst' = FALSE
  /\ wire' = wire \o outbound
  /\ outbound' = <<>>
  /\ UNCHANGED <<threadVars, lockVars, queueVars, connVars, loopQueue, clientVars, watchVars>>

LoopWrite ==
  /\ LoopFree /\ ~flushFirst /\ loopQueue # <<>>
  /\ loopQueue' = Tail(loopQueue)
  /\ LET out == Append(outbound, Head(loopQueue).message) IN
       IF Head(loopQueue).flush
         THEN wire' = wire \o out /\ outbound' = <<>>
         ELSE outbound' = out /\ UNCHANGED wire
  /\ UNCHANGED <<threadVars, lockVars, queueVars, connVars, flushFirst, clientVars, watchVars>>

\* Mutant of ChannelRead: only the tasks of clients are polled.
ChannelReadClientsOnly ==
  /\ LoopFree /\ wire # <<>>
  /\ wire' = Tail(wire)
  /\ IF taskQueue = <<>> \/ Head(taskQueue) \notin Requests
       THEN UNCHANGED <<taskQueue, headAge, answer>>
       ELSE /\ taskQueue' = Tail(taskQueue)
            /\ headAge' = 0
            /\ answer' = [answer EXCEPT ![Head(taskQueue)] = Head(wire)]
  /\ UNCHANGED <<threadVars, lockVars, bufferQueue, connVars, loopQueue, flushFirst,
                 outbound, fresh, down>>

\* Redis answers its commands in order; the reply goes to the head of taskQueue.
ChannelRead ==
  /\ LoopFree /\ wire # <<>>
  /\ wire' = Tail(wire)
  /\ IF taskQueue = <<>> THEN UNCHANGED <<taskQueue, headAge, answer>>
     ELSE /\ taskQueue' = Tail(taskQueue)
          /\ headAge' = 0
          /\ answer' = IF Head(taskQueue) \in Requests
                         THEN [answer EXCEPT ![Head(taskQueue)] = Head(wire)]
                         ELSE answer
  /\ UNCHANGED <<threadVars, lockVars, bufferQueue, connVars, loopQueue, flushFirst,
                 outbound, fresh, down>>

\* Mutant of ChannelInactive: redisDown is not called for a broken channel.
ChannelInactiveSilent ==
  /\ LoopFree
  /\ conn' = "closed" /\ connected' = FALSE
  /\ loopQueue' = <<>> /\ flushFirst' = FALSE /\ outbound' = <<>> /\ wire' = <<>>
  /\ UNCHANGED <<threadVars, lockVars, queueVars, todo, clientVars, watchVars>>

ChannelInactive ==
  /\ LoopFree
  /\ conn' = "closed"
  /\ loopQueue' = <<>> /\ flushFirst' = FALSE /\ outbound' = <<>> /\ wire' = <<>>
  /\ IF Database0 /\ connected
       THEN connected' = FALSE /\ down' = down \cup {Loop}
       ELSE UNCHANGED <<connected, down>>
  /\ UNCHANGED <<threadVars, lockVars, queueVars, todo, clientVars, headAge>>

-----------------------------------------------------------------------------
(* The timer of checkRedisState, started at the end of operationComplete.  *)

TimerRuns ==
  Database0 /\ conn # "connecting" /\ todo = <<>> /\ connected /\ pc[Timer] = "idle"

\* Is the head of taskQueue late?  A task whose time is 0 was sent in 1970.
HeadLate ==
  LET t == Head(taskQueue) IN
    \/ t \in Untimed
    \/ headAge >= IF t \in FlushAlls THEN 2 ELSE 1

TimerPing(p) ==
  /\ TimerRuns /\ taskQueue = <<>>
  /\ Issue(Timer, p)

\* The timer has read connected and found the head late.
TimerLate ==
  /\ TimerRuns /\ taskQueue # <<>> /\ HeadLate
  /\ pc' = [pc EXCEPT ![Timer] = "declare"]
  /\ UNCHANGED <<task, i, lockVars, queueVars, connVars, nettyVars, clientVars, watchVars>>

TimerDeclare ==
  /\ pc[Timer] = "declare"
  /\ pc' = [pc EXCEPT ![Timer] = "idle"]
  /\ connected' = FALSE
  /\ down' = down \cup {Timer}
  /\ UNCHANGED <<task, i, lockVars, queueVars, conn, todo, nettyVars, clientVars, headAge>>

\* The head of taskQueue gets older.
Tick ==
  /\ taskQueue # <<>> /\ headAge < 2
  /\ headAge' = headAge + 1
  /\ UNCHANGED <<threadVars, lockVars, queueVars, connVars, nettyVars, clientVars, down>>

-----------------------------------------------------------------------------
Next ==
  \/ \E c \in Callers : \/ \E r \in Requests : ExecuteRedisTask(c, r)
                        \/ \E r \in Requests : RefuseRedisTask(c, r)
                        \/ \E f \in FlushAlls : FlushAll(c, f)
                        \/ \E p \in Promotions : Promote(c, p)
  \/ \E th \in Threads : PipelineWrite(th)
  \/ Connect \/ OperationComplete \/ LoopFlush \/ LoopWrite \/ ChannelRead \/ ChannelInactive
  \/ \E p \in Pings : TimerPing(p)
  \/ TimerLate \/ TimerDeclare \/ Tick

Spec == Init /\ [][Next]_vars

\* Every thread that can run does, and time passes.  Nothing is promised of
\* Redis: it may never answer, connect or disconnect.
Fairness ==
  /\ \A th \in Threads : WF_vars(PipelineWrite(th))
  /\ WF_vars(OperationComplete) /\ WF_vars(LoopFlush) /\ WF_vars(LoopWrite)
  /\ WF_vars(TimerLate) /\ WF_vars(TimerDeclare) /\ WF_vars(Tick)

FairSpec == Spec /\ Fairness

-----------------------------------------------------------------------------
(* Properties.                                                             *)

PC == {"idle", "addTask", "addMessage", "tryLock", "drain", "unlock", "flush", "declare"}

\* Every variable has its type, the counter of a batch stays below the batch
\* size, and each thread holds a task exactly from the call of pipelineWrite
\* until its message is in bufferQueue.
TypeOK ==
  /\ pc \in [Threads -> PC]
  /\ task \in [Threads -> Tasks \cup {NoTask}]
  /\ i \in [Threads -> 0 .. BatchSize - 1]
  /\ taskLock \in Threads \cup {NoThread} /\ pipelineLock \in Threads \cup {NoThread}
  /\ taskQueue \in Seq(Tasks) /\ bufferQueue \in Seq(Tasks)
  /\ conn \in {"connecting", "open", "closed"} /\ connected \in BOOLEAN
  /\ todo \in Seq(Tasks \cup {SetConnected})
  /\ loopQueue \in Seq([message : Tasks, flush : BOOLEAN]) /\ flushFirst \in BOOLEAN
  /\ outbound \in Seq(Tasks) /\ wire \in Seq(Tasks)
  /\ fresh \in SUBSET Offered
  /\ answer \in [Requests -> Tasks \cup {NoAnswer, ServiceIsBusy}]
  /\ headAge \in 0 .. 2 /\ down \in SUBSET {Timer, Loop}
  /\ \A th \in Threads : task[th] \in Tasks <=> pc[th] \in {"addTask", "addMessage"}

\* "Task lock, guarantees the response order" (RedisProxyClient.java l.61): a
\* client is answered with the reply of its own request, or that the service
\* is busy, and never with the reply of somebody else's command.
ReplyMatches == \A r \in Requests : answer[r] \in {NoAnswer, ServiceIsBusy, r}

Messages(q) == [k \in DOMAIN q |-> q[k].message]

\* The messages on their way to Redis or waiting for its reply, in the order
\* in which their replies will be read ...
InFlight == wire \o outbound \o Messages(loopQueue) \o bufferQueue

\* ... and the one whose task is in taskQueue already (l.167-168).
Arriving == IF taskLock = NoThread THEN <<>> ELSE <<task[taskLock]>>

\* The sequences are equally long and have the same requests at the same places.
Agree(s, u) ==
  /\ Len(s) = Len(u)
  /\ \A k \in 1 .. Len(s) : s[k] = u[k] \/ {s[k], u[k]} \cap Requests = {}

\* The two queues that pipelineWrite fills and the channel between them never
\* get out of step, whichever threads add, drain, flush and read meanwhile.
QueuesAligned == conn # "closed" => Agree(taskQueue, InFlight \o Arriving)

\* No request is written ahead of the AUTH and SELECT of its connection
\* (l.417-418): it would be refused or run on database 0.
SetupFirst ==
  \A k \in 1 .. Len(InFlight) : InFlight[k] \in Requests =>
    /\ \A n \in k .. Len(InFlight) : InFlight[n] \notin Range(Setup)
    /\ Range(todo) \cap Range(Setup) = {}

\* What thread th has written and has still to flush (l.173-187).
Owed(th) == IF pc[th] \in {"drain", "unlock", "flush"} THEN i[th] ELSE 0

\* The messages that no flush called so far will send.
Unflushed ==
  LET marks == {k \in DOMAIN loopQueue : loopQueue[k].flush} IN
    IF marks # {} THEN Len(loopQueue) - Max(marks)
    ELSE Len(loopQueue) + (IF flushFirst THEN 0 ELSE Len(outbound))

\* What all the threads have still to flush, as a set: the n-th message of th.
Promised == UNION {{th} \X (1 .. Owed(th)) : th \in Threads}

\* No message is forgotten in the channel: a thread that still counts it in
\* its i will flush it, so at rest nothing is left unflushed.
UnflushedOwed == Unflushed <= Cardinality(Promised)

\* A request in the taskQueue of a connection of database 0 is answered, or its Redis
\* is declared down: by the timer when it waits too long, whatever the reason, or when
\* the channel breaks.  The connection of another database has no timer (l.419-425) and
\* its channelInactive reports nothing (handler l.58): nothing is promised of it.
AnsweredOrDown ==
  \A r \in Requests :
    Database0 /\ r \in Range(taskQueue) ~> (answer[r] # NoAnswer \/ down # {})

\* The connection implements the ordered reply service.
Service == INSTANCE ReplyService WITH pending <- taskQueue, open <- conn # "closed"
ImplementsService == Service!Spec

\* redisDown means the Redis is down (javadoc, l.508): the timer does not start
\* to declare down a Redis that has answered all it was sent, when no thread
\* is at work on the connection.
AtRest == \A th \in Threads : pc[th] = "idle"
NoFalseDown ==
  [][TimerLate => ~(AtRest /\ outbound \o wire = <<>> /\ loopQueue = <<>>)]_vars

-----------------------------------------------------------------------------
(* Why ReplyMatches holds: an invariant that is inductive where a client   *)
(* sends no SLAVEOF after connected is set and no promotion before it.     *)

\* The steps that follow an acquisition are those of the lock's holder.
Locks ==
  /\ \A th \in Threads : pc[th] = "addMessage" <=> taskLock = th
  /\ \A th \in Threads : pc[th] \in {"drain", "unlock"} <=> pipelineLock = th

\* The connection is not offered to requests yet.
Starting == conn = "connecting" \/ todo # <<>>

\* The loop writes inline, past what other threads have queued to it, only
\* while the connection is starting, and then there is no request to overtake.
Startup ==
  /\ conn = "connecting" => todo = <<>> /\ \A th \in Threads : pc[th] = "idle"
  /\ todo # <<>> => conn = "open"
  /\ pc[Loop] # "idle" => todo # <<>>
  /\ \A k \in 1 .. Len(todo) :
       todo[k] \notin Requests /\ (todo[k] = SetConnected <=> k = Len(todo))
  /\ Starting => /\ ~connected
                 /\ \A th \in Threads : task[th] \notin Requests
                 /\ taskQueue \in Seq(Tasks \ Requests)

PipelineInv == TypeOK /\ Locks /\ Startup /\ QueuesAligned /\ ReplyMatches

\* A request is issued once: as long as it is fresh, or held by the one thread
\* that has still to add it, it is neither queued nor answered.
Once ==
  /\ \A r \in Requests \cap fresh :
       /\ answer[r] = NoAnswer /\ r \notin Range(taskQueue)
       /\ \A th \in Threads : task[th] # r
  /\ \A th \in Threads : pc[th] = "addTask" /\ task[th] \in Requests =>
       /\ answer[task[th]] = NoAnswer /\ task[th] \notin Range(taskQueue)
       /\ \A u \in Threads \ {th} : pc[u] = "addTask" => task[u] # task[th]
=============================================================================
