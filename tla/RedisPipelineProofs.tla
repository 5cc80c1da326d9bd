------------------------- MODULE RedisPipelineProofs -------------------------
(* Theorems about RedisPipeline, for every value of its constants. *)
EXTENDS RedisPipeline, SequenceTheorems, TLAPS

-----------------------------------------------------------------------------
(* Type correctness.                                                       *)

\* The script of operationComplete is a sequence of tasks and SetConnected.
LEMMA ScriptType == Script \in Seq(Tasks \cup {SetConnected})
<1> DEFINE S == Tasks \cup {SetConnected}
<1>1. Setup \in Seq(S) /\ Late \in Seq(S)
  <2>1. Range(Setup) \subseteq S /\ Range(Late) \subseteq S
    BY DEF Tasks
  <2> QED BY <2>1, SeqMonotonic, TasksAssumption
<1>2. <<SetConnected>> \in Seq(S)
  OBVIOUS
<1>3. Setup \o <<SetConnected>> \in Seq(S)
  BY <1>1, <1>2, ConcatProperties
<1> QED BY <1>1, <1>3, ConcatProperties DEF Script

\* Entering pipelineWrite with a task.
LEMMA EnterType ==
  ASSUME TypeOK, NEW th \in Threads, NEW t \in Tasks, Enter(th, t)
  PROVE  /\ pc' \in [Threads -> PC]
         /\ task' \in [Threads -> Tasks \cup {NoTask}]
         /\ i' = i
         /\ \A u \in Threads : task'[u] \in Tasks <=> pc'[u] \in {"addTask", "addMessage"}
BY DEF TypeOK, Enter, PC

LEMMA IssueType ==
  ASSUME TypeOK, NEW th \in Threads, NEW t \in Offered, Issue(th, t)
  PROVE  TypeOK'
<1>1. t \in Tasks
  BY DEF Tasks
<1>2. Enter(th, t)
  BY DEF Issue
<1> QED
  BY <1>1, <1>2, EnterType DEF TypeOK, Issue, lockVars, queueVars, connVars, nettyVars, watchVars

\* write and flush keep the types of the channel.
LEMMA WriteType ==
  ASSUME TypeOK, NEW th \in Threads, NEW m \in Tasks, NEW f \in BOOLEAN, Write(th, m, f)
  PROVE  /\ loopQueue' \in Seq([message : Tasks, flush : BOOLEAN])
         /\ flushFirst' = flushFirst
         /\ outbound' \in Seq(Tasks) /\ wire' \in Seq(Tasks)
<1>1. Append(outbound, m) \in Seq(Tasks)
  BY DEF TypeOK
<1>2. wire \o Append(outbound, m) \in Seq(Tasks)
  BY <1>1, ConcatProperties DEF TypeOK
<1>3. [message |-> m, flush |-> f] \in [message : Tasks, flush : BOOLEAN]
  OBVIOUS
<1>4. Append(loopQueue, [message |-> m, flush |-> f]) \in Seq([message : Tasks, flush : BOOLEAN])
  BY <1>3, AppendProperties DEF TypeOK
<1>5. CASE conn = "closed"
  BY <1>5 DEF TypeOK, Write, nettyVars
<1>6. CASE conn # "closed" /\ th = Loop
  <2>1. UNCHANGED <<loopQueue, flushFirst>>
    BY <1>6 DEF Write
  <2>2. CASE f
    <3>1. wire' = wire \o Append(outbound, m) /\ outbound' = <<>>
      BY <1>6, <2>2 DEF Write
    <3> QED BY <1>2, <2>1, <3>1 DEF TypeOK
  <2>3. CASE ~f
    BY <1>1, <1>2, <1>6, <2>1, <2>3 DEF TypeOK, Write
  <2> QED BY <2>2, <2>3
<1>7. CASE conn # "closed" /\ th # Loop
  BY <1>4, <1>7 DEF TypeOK, Write
<1> QED BY <1>5, <1>6, <1>7

Writes == [message : Tasks, flush : BOOLEAN]

\* Marking the last write of the loop's queue changes neither its length nor
\* its messages.
LEMMA MarkLast ==
  ASSUME NEW q \in Seq(Writes), q # <<>>
  PROVE  LET u == [q EXCEPT ![Len(q)].flush = TRUE] IN
           /\ u \in Seq(Writes)
           /\ Len(u) = Len(q)
           /\ \A k \in 1 .. Len(q) : u[k].message = q[k].message
<1> DEFINE n == Len(q)
           u == [q EXCEPT ![n].flush = TRUE]
<1>1. n \in Nat /\ n \in 1 .. n /\ q \in [1 .. n -> Writes]
  BY EmptySeq, LenProperties
<1>2. q[n] \in Writes /\ [q[n] EXCEPT !.flush = TRUE] \in Writes
  BY <1>1 DEF Writes
<1>3. u \in [1 .. n -> Writes]
  BY <1>1, <1>2
<1>4. u \in Seq(Writes)
  BY <1>1, <1>3
<1>5. Len(u) = n
  BY <1>1, <1>3, <1>4, LenProperties
<1>6. \A k \in 1 .. n : u[k].message = q[k].message
  BY <1>1, <1>2 DEF Writes
<1> QED BY <1>4, <1>5, <1>6

LEMMA FlushType ==
  ASSUME TypeOK, NEW th \in Threads, Flush(th)
  PROVE  /\ loopQueue' \in Seq([message : Tasks, flush : BOOLEAN])
         /\ flushFirst' \in BOOLEAN
         /\ outbound' \in Seq(Tasks) /\ wire' \in Seq(Tasks)
<1>1. wire \o outbound \in Seq(Tasks)
  BY ConcatProperties DEF TypeOK
<1>2. loopQueue # <<>> => [loopQueue EXCEPT ![Len(loopQueue)].flush = TRUE] \in Seq(Writes)
  BY MarkLast DEF TypeOK, Writes
<1>3. CASE conn = "closed"
  BY <1>3 DEF TypeOK, Flush, nettyVars
<1>4. CASE conn # "closed" /\ th = Loop
  <2>1. wire' = wire \o outbound /\ outbound' = <<>> /\ UNCHANGED <<loopQueue, flushFirst>>
    BY <1>4 DEF Flush
  <2> QED BY <1>1, <2>1 DEF TypeOK
<1>5. CASE conn # "closed" /\ th # Loop /\ loopQueue = <<>>
  BY <1>5 DEF TypeOK, Flush
<1>6. CASE conn # "closed" /\ th # Loop /\ loopQueue # <<>>
  BY <1>2, <1>6 DEF TypeOK, Flush, Writes
<1> QED BY <1>3, <1>4, <1>5, <1>6

LEMMA TypeInit == Init => TypeOK
<1> SUFFICES ASSUME Init PROVE TypeOK
  OBVIOUS
<1>1. i \in [Threads -> 0 .. BatchSize - 1]
  BY BatchAssumption DEF Init
<1>2. /\ pc \in [Threads -> PC] /\ task \in [Threads -> Tasks \cup {NoTask}]
      /\ \A th \in Threads : task[th] \in Tasks <=> pc[th] \in {"addTask", "addMessage"}
  BY TasksAssumption DEF Init, PC
<1>3. answer \in [Requests -> Tasks \cup {NoAnswer, ServiceIsBusy}]
  BY DEF Init
<1>4. <<>> \in Seq(Tasks) /\ <<>> \in Seq(Tasks \cup {SetConnected}) /\ <<>> \in Seq(Writes)
  BY EmptySeq
<1>5. /\ taskLock = NoThread /\ pipelineLock = NoThread /\ conn = "connecting"
      /\ connected = FALSE /\ fresh = Offered /\ flushFirst = FALSE
      /\ headAge = 0 /\ down = {}
  BY DEF Init
<1>6. /\ taskQueue = <<>> /\ bufferQueue = <<>> /\ todo = <<>>
      /\ loopQueue = <<>> /\ outbound = <<>> /\ wire = <<>>
  BY DEF Init
<1>7. /\ taskQueue \in Seq(Tasks) /\ bufferQueue \in Seq(Tasks)
      /\ todo \in Seq(Tasks \cup {SetConnected})
      /\ loopQueue \in Seq([message : Tasks, flush : BOOLEAN])
      /\ outbound \in Seq(Tasks) /\ wire \in Seq(Tasks)
  BY <1>4, <1>6 DEF Writes
<1>8. /\ fresh \in SUBSET Offered /\ down \in SUBSET {Timer, Loop}
      /\ flushFirst \in BOOLEAN /\ connected \in BOOLEAN
  BY <1>5, Zenon
<1>9. headAge \in 0 .. 2
  BY <1>5
<1> QED BY <1>1, <1>2, <1>3, <1>5, <1>7, <1>8, <1>9 DEF TypeOK

LEMMA TypeStep == TypeOK /\ [Next]_vars => TypeOK'
<1> SUFFICES ASSUME TypeOK, [Next]_vars PROVE TypeOK'
  OBVIOUS
<1> USE DEF threadVars, lockVars, queueVars, connVars, nettyVars, clientVars, watchVars
<1>1. ASSUME NEW c \in Callers, NEW r \in Requests, ExecuteRedisTask(c, r) PROVE TypeOK'
  BY <1>1, IssueType DEF ExecuteRedisTask, Threads, Offered
<1>2. ASSUME NEW c \in Callers, NEW r \in Requests, RefuseRedisTask(c, r) PROVE TypeOK'
  BY <1>2 DEF RefuseRedisTask, TypeOK
<1>3. ASSUME NEW c \in Callers, NEW f \in FlushAlls, FlushAll(c, f) PROVE TypeOK'
  BY <1>3, IssueType DEF FlushAll, Threads, Offered
<1>4. ASSUME NEW c \in Callers, NEW p \in Promotions, Promote(c, p) PROVE TypeOK'
  BY <1>4, IssueType DEF Promote, Threads, Offered
<1>5. ASSUME NEW th \in Threads, PipelineWrite(th) PROVE TypeOK'
  <2>1. CASE AddTask(th)
    BY <2>1 DEF AddTask, TypeOK, PC
  <2>2. CASE AddMessage(th)
    BY <2>2, TasksAssumption DEF AddMessage, TypeOK, PC
  <2>3. CASE TryLock(th)
    BY <2>3 DEF TryLock, TypeOK, PC
  <2>4. CASE Drain(th)
    <3>1. Head(bufferQueue) \in Tasks /\ Tail(bufferQueue) \in Seq(Tasks)
      BY <2>4, HeadTailProperties DEF Drain, TypeOK
    <3> DEFINE next == IF i[th] + 1 = BatchSize THEN 0 ELSE i[th] + 1
    <3>2. i' \in [Threads -> 0 .. BatchSize - 1]
      <4>1. i \in [Threads -> 0 .. BatchSize - 1]
        BY DEF TypeOK
      <4>2. next \in 0 .. BatchSize - 1
        BY <4>1, BatchAssumption
      <4>3. i' = [i EXCEPT ![th] = next]
        BY <2>4 DEF Drain
      <4> HIDE DEF next
      <4> QED BY <4>1, <4>2, <4>3
    <3>3. Write(th, Head(bufferQueue), i[th] + 1 = BatchSize)
      BY <2>4 DEF Drain
    <3> QED BY <2>4, <3>1, <3>2, <3>3, WriteType DEF Drain, TypeOK
  <2>5. CASE DrainToNull(th)
    BY <2>5 DEF DrainToNull, TypeOK, PC
  <2>6. CASE DrainEnd(th)
    BY <2>6 DEF DrainEnd, TypeOK, PC
  <2>7. CASE Unlock(th)
    BY <2>7 DEF Unlock, TypeOK, PC
  <2>8. CASE LastFlush(th)
    <3>1. i' \in [Threads -> 0 .. BatchSize - 1]
      BY <2>8, BatchAssumption DEF LastFlush, TypeOK
    <3> QED BY <2>8, <3>1, FlushType DEF LastFlush, TypeOK, PC
  <2> QED BY <1>5, <2>1, <2>2, <2>3, <2>4, <2>5, <2>6, <2>7, <2>8 DEF PipelineWrite
<1>6. CASE Connect
  BY <1>6, ScriptType DEF Connect, TypeOK
<1>7. CASE OperationComplete
  <2>1. /\ Head(todo) \in Tasks \cup {SetConnected}
        /\ Tail(todo) \in Seq(Tasks \cup {SetConnected})
    BY <1>7, HeadTailProperties DEF OperationComplete, TypeOK
  <2>2. CASE Head(todo) = SetConnected
    BY <1>7, <2>1, <2>2 DEF OperationComplete, TypeOK
  <2>3. CASE Head(todo) # SetConnected
    BY <1>7, <2>1, <2>3, EnterType DEF OperationComplete, TypeOK, Threads
  <2> QED BY <2>2, <2>3
<1>8. CASE LoopFlush
  <2>1. wire \o outbound \in Seq(Tasks)
    BY ConcatProperties DEF TypeOK
  <2>2. wire' = wire \o outbound /\ outbound' = <<>> /\ flushFirst' = FALSE /\ UNCHANGED loopQueue
    BY <1>8 DEF LoopFlush
  <2>3. wire' \in Seq(Tasks) /\ outbound' \in Seq(Tasks)
    BY <2>1, <2>2, EmptySeq
  <2>4. /\ UNCHANGED <<threadVars, lockVars, queueVars, connVars, clientVars, watchVars>>
        /\ UNCHANGED loopQueue /\ flushFirst' \in BOOLEAN
    BY <1>8 DEF LoopFlush
  <2> QED BY <2>3, <2>4 DEF TypeOK
<1>9. CASE LoopWrite
  <2>1. /\ Head(loopQueue) \in [message : Tasks, flush : BOOLEAN]
        /\ Tail(loopQueue) \in Seq([message : Tasks, flush : BOOLEAN])
    BY <1>9, HeadTailProperties DEF LoopWrite, TypeOK
  <2>2. Append(outbound, Head(loopQueue).message) \in Seq(Tasks)
    BY <2>1 DEF TypeOK
  <2>3. wire \o Append(outbound, Head(loopQueue).message) \in Seq(Tasks)
    BY <2>2, ConcatProperties DEF TypeOK
  <2> DEFINE out == Append(outbound, Head(loopQueue).message)
  <2>4. wire' \in Seq(Tasks) /\ outbound' \in Seq(Tasks)
    <3>1. CASE Head(loopQueue).flush
      <4>1. wire' = wire \o out /\ outbound' = <<>>
        BY <1>9, <3>1 DEF LoopWrite
      <4> QED BY <2>3, <4>1
    <3>2. CASE ~Head(loopQueue).flush
      <4>1. wire' = wire /\ outbound' = out
        BY <1>9, <3>2 DEF LoopWrite
      <4> QED BY <2>2, <4>1 DEF TypeOK
    <3> QED BY <3>1, <3>2
  <2>5. loopQueue' = Tail(loopQueue)
    BY <1>9 DEF LoopWrite
  <2> QED BY <1>9, <2>1, <2>4, <2>5 DEF LoopWrite, TypeOK
<1>10. CASE ChannelRead
  <2>1. Head(wire) \in Tasks /\ Tail(wire) \in Seq(Tasks)
    BY <1>10, HeadTailProperties DEF ChannelRead, TypeOK
  <2>2. taskQueue # <<>> => Tail(taskQueue) \in Seq(Tasks)
    BY HeadTailProperties DEF TypeOK
  <2>3. taskQueue' \in Seq(Tasks) /\ headAge' \in 0 .. 2
    <3>1. CASE taskQueue = <<>>
      BY <1>10, <3>1 DEF ChannelRead, TypeOK
    <3>2. CASE taskQueue # <<>>
      <4>1. taskQueue' = Tail(taskQueue) /\ headAge' = 0
        BY <1>10, <3>2 DEF ChannelRead
      <4> QED BY <2>2, <3>2, <4>1
    <3> QED BY <3>1, <3>2
  <2>4. answer' \in [Requests -> Tasks \cup {NoAnswer, ServiceIsBusy}]
    <3> DEFINE A == [Requests -> Tasks \cup {NoAnswer, ServiceIsBusy}]
               w == Head(wire)
    <3>1. \/ answer' = answer
          \/ answer' = [answer EXCEPT ![Head(taskQueue)] = w]
      BY <1>10 DEF ChannelRead
    <3>2. answer \in A /\ w \in Tasks
      BY <2>1 DEF TypeOK
    <3> HIDE DEF w
    <3> QED BY <3>1, <3>2
  <2> QED BY <1>10, <2>1, <2>3, <2>4 DEF ChannelRead, TypeOK
<1>11. CASE ChannelInactive
  <2>1. down' \in SUBSET {Timer, Loop} /\ connected' \in BOOLEAN
    BY <1>11 DEF ChannelInactive, TypeOK
  <2>2. <<>> \in Seq(Tasks) /\ <<>> \in Seq([message : Tasks, flush : BOOLEAN])
    BY EmptySeq
  <2> QED BY <1>11, <2>1, <2>2 DEF ChannelInactive, TypeOK
<1>12. ASSUME NEW p \in Pings, TimerPing(p) PROVE TypeOK'
  BY <1>12, IssueType DEF TimerPing, Threads, Offered
<1>13. CASE TimerLate
  BY <1>13 DEF TimerLate, TimerRuns, TypeOK, PC, Threads
<1>14. CASE TimerDeclare
  BY <1>14 DEF TimerDeclare, TypeOK, PC, Threads
<1>15. CASE Tick
  BY <1>15 DEF Tick, TypeOK
<1>16. CASE UNCHANGED vars
  BY <1>16 DEF vars, TypeOK
<1> QED
  BY <1>1, <1>2, <1>3, <1>4, <1>5, <1>6, <1>7, <1>8, <1>9, <1>10, <1>11, <1>12,
     <1>13, <1>14, <1>15, <1>16 DEF Next

\* Every reachable state is well typed, whatever the threads, tasks and batch size.
THEOREM TypeCorrect == Spec => []TypeOK
BY TypeInit, TypeStep, PTL DEF Spec
=============================================================================
