--------------------------- MODULE ReplyOrderProofs ---------------------------
(* Theorems about RedisPipeline: who gets which reply, in which order, that it
   implements ReplyService, that AUTH and SELECT are written first, and that no
   message is forgotten in the channel. *)
EXTENDS RedisPipelineProofs, QueueLemmas, FiniteSetTheorems, WellFoundedInduction

-----------------------------------------------------------------------------
(* Lemmas about Messages, Agree and InFlight.                              *)

LEMMA MessagesType ==
  ASSUME NEW q \in Seq(Writes)
  PROVE  /\ Messages(q) \in Seq(Tasks)
         /\ Len(Messages(q)) = Len(q)
         /\ \A k \in 1 .. Len(q) : Messages(q)[k] = q[k].message
<1> DEFINE n == Len(q)
           u == [k \in 1 .. n |-> q[k].message]
<1>1. n \in Nat /\ DOMAIN q = 1 .. n
  BY LenProperties
<1>2. \A k \in 1 .. n : q[k].message \in Tasks
  <2>1. \A k \in 1 .. n : q[k] \in Writes
    BY ElementOfSeq
  <2> QED BY <2>1 DEF Writes
<1>3. u \in [1 .. n -> Tasks] /\ Messages(q) = u
  BY <1>1, <1>2 DEF Messages
<1>4. \A k \in 1 .. n : u[k] = q[k].message
  OBVIOUS
<1> HIDE DEF u
<1>5. u \in Seq(Tasks)
  BY <1>1, <1>3
<1>6. Len(u) = n
  BY <1>1, <1>3, <1>5, LenProperties
<1> QED BY <1>3, <1>4, <1>5, <1>6

\* Messages follows the queue: a write added, a write taken, a mark set.
LEMMA MessagesAppend ==
  ASSUME NEW q \in Seq(Writes), NEW w \in Writes
  PROVE  Messages(Append(q, w)) = Append(Messages(q), w.message)
<1> DEFINE s == Messages(Append(q, w))
           t == Append(Messages(q), w.message)
<1>1. /\ Append(q, w) \in Seq(Writes) /\ Len(Append(q, w)) = Len(q) + 1
      /\ \A k \in 1 .. Len(q) : Append(q, w)[k] = q[k]
      /\ Append(q, w)[Len(q) + 1] = w /\ Len(q) \in Nat
  BY AppendProperties, LenProperties
<1>2. /\ s \in Seq(Tasks) /\ Len(s) = Len(q) + 1
      /\ \A k \in 1 .. Len(q) + 1 : s[k] = Append(q, w)[k].message
  BY <1>1, MessagesType
<1>3. w.message \in Tasks
  BY DEF Writes
<1>4. /\ Messages(q) \in Seq(Tasks) /\ Len(Messages(q)) = Len(q)
      /\ \A k \in 1 .. Len(q) : Messages(q)[k] = q[k].message
  BY MessagesType
<1>5. /\ t \in Seq(Tasks) /\ Len(t) = Len(q) + 1
      /\ \A k \in 1 .. Len(q) : t[k] = Messages(q)[k]
      /\ t[Len(q) + 1] = w.message
  BY <1>3, <1>4, AppendProperties
<1> HIDE DEF s, t
<1>6. \A k \in 1 .. Len(s) : s[k] = t[k]
  <2> SUFFICES ASSUME NEW k \in 1 .. Len(q) + 1 PROVE s[k] = t[k]
    BY <1>2
  <2>1. s[k] = Append(q, w)[k].message
    BY <1>2
  <2>2. CASE k \in 1 .. Len(q)
    BY <1>1, <1>4, <1>5, <2>1, <2>2
  <2>3. CASE k = Len(q) + 1
    BY <1>1, <1>5, <2>1, <2>3
  <2> QED BY <1>1, <2>2, <2>3
<1>7. s = t
  <2>1. s \in Seq(Tasks) /\ t \in Seq(Tasks) /\ Len(s) = Len(t)
    BY <1>1, <1>2, <1>4, <1>5
  <2> QED BY <2>1, <1>6, SeqEqual
<1> QED BY <1>7 DEF s, t

LEMMA MessagesTail ==
  ASSUME NEW q \in Seq(Writes), q # <<>>
  PROVE  /\ Messages(q) # <<>>
         /\ Head(Messages(q)) = Head(q).message
         /\ Messages(Tail(q)) = Tail(Messages(q))
<1> DEFINE m == Messages(q)
           s == Messages(Tail(q))
<1>1. /\ Tail(q) \in Seq(Writes) /\ Len(Tail(q)) = Len(q) - 1 /\ Len(q) \in Nat \ {0}
      /\ \A k \in 1 .. Len(Tail(q)) : Tail(q)[k] = q[k + 1]
  BY HeadTailProperties, EmptySeq
<1>2. /\ m \in Seq(Tasks) /\ Len(m) = Len(q)
      /\ \A k \in 1 .. Len(q) : m[k] = q[k].message
  BY MessagesType
<1>3. /\ s \in Seq(Tasks) /\ Len(s) = Len(Tail(q))
      /\ \A k \in 1 .. Len(Tail(q)) : s[k] = Tail(q)[k].message
  BY <1>1, MessagesType
<1> HIDE DEF m, s
<1>4. m # <<>> /\ m[1] = q[1].message
  BY <1>1, <1>2
<1>5. Head(m) = Head(q).message
  BY <1>2, <1>4
<1>6. /\ Tail(m) \in Seq(Tasks) /\ Len(Tail(m)) = Len(m) - 1
      /\ \A k \in 1 .. Len(Tail(m)) : Tail(m)[k] = m[k + 1]
  BY <1>2, <1>4, HeadTailProperties
<1>7. \A k \in 1 .. Len(s) : s[k] = Tail(m)[k]
  BY <1>1, <1>2, <1>3, <1>6
<1>8. s = Tail(m)
  BY <1>2, <1>1, <1>3, <1>6, <1>7, SeqEqual
<1> QED BY <1>4, <1>5, <1>8 DEF m, s

LEMMA MessagesMark ==
  ASSUME NEW q \in Seq(Writes), q # <<>>
  PROVE  Messages([q EXCEPT ![Len(q)].flush = TRUE]) = Messages(q)
<1> DEFINE u == [q EXCEPT ![Len(q)].flush = TRUE]
<1>1. /\ u \in Seq(Writes) /\ Len(u) = Len(q)
      /\ \A k \in 1 .. Len(q) : u[k].message = q[k].message
  BY MarkLast
<1> HIDE DEF u
<1>2. /\ Messages(u) \in Seq(Tasks) /\ Len(Messages(u)) = Len(q)
      /\ \A k \in 1 .. Len(q) : Messages(u)[k] = u[k].message
  BY <1>1, MessagesType
<1>3. /\ Messages(q) \in Seq(Tasks) /\ Len(Messages(q)) = Len(q)
      /\ \A k \in 1 .. Len(q) : Messages(q)[k] = q[k].message
  BY MessagesType
<1>4. Messages(u) = Messages(q)
  BY <1>1, <1>2, <1>3, SeqEqual
<1> QED BY <1>4 DEF u

\* Two queues in step stay so when both get the same task ...
LEMMA AgreeAppend ==
  ASSUME NEW s \in Seq(Tasks), NEW u \in Seq(Tasks), NEW t \in Tasks, Agree(s, u)
  PROVE  Agree(Append(s, t), Append(u, t))
<1>1. /\ Len(Append(s, t)) = Len(s) + 1 /\ Len(Append(u, t)) = Len(s) + 1
      /\ \A k \in 1 .. Len(s) : Append(s, t)[k] = s[k] /\ Append(u, t)[k] = u[k]
      /\ Append(s, t)[Len(s) + 1] = t /\ Append(u, t)[Len(s) + 1] = t
      /\ Len(s) \in Nat
  BY AppendProperties, LenProperties DEF Agree
<1>2. \A k \in 1 .. Len(s) + 1 : k = Len(s) + 1 \/ k \in 1 .. Len(s)
  BY <1>1
<1> QED BY <1>1, <1>2 DEF Agree

\* ... when both lose their heads ...
LEMMA AgreeTail ==
  ASSUME NEW s \in Seq(Tasks), NEW u \in Seq(Tasks), Agree(s, u), u # <<>>
  PROVE  /\ s # <<>>
         /\ Head(s) = Head(u) \/ {Head(s), Head(u)} \cap Requests = {}
         /\ Agree(Tail(s), Tail(u))
<1>1. Len(s) = Len(u) /\ Len(s) \in Nat \ {0} /\ s # <<>>
  BY EmptySeq DEF Agree
<1>2. Head(s) = s[1] /\ Head(u) = u[1] /\ 1 \in 1 .. Len(s)
  BY <1>1
<1>3. /\ Len(Tail(s)) = Len(s) - 1 /\ Len(Tail(u)) = Len(s) - 1
      /\ \A k \in 1 .. Len(s) - 1 : Tail(s)[k] = s[k + 1] /\ Tail(u)[k] = u[k + 1]
  BY <1>1, HeadTailProperties
<1>4. \A k \in 1 .. Len(s) - 1 : k + 1 \in 1 .. Len(s)
  BY <1>1
<1> QED BY <1>1, <1>2, <1>3, <1>4 DEF Agree

\* ... and, without requests, as long as they are equally long.
LEMMA AgreeNoRequests ==
  ASSUME NEW s \in Seq(Tasks \ Requests), NEW u \in Seq(Tasks \ Requests), Len(s) = Len(u)
  PROVE  Agree(s, u)
<1>1. \A k \in 1 .. Len(s) : s[k] \notin Requests /\ u[k] \notin Requests
  BY ElementOfSeq
<1> QED BY <1>1 DEF Agree

LEMMA AgreeSpreadsNoRequests ==
  ASSUME NEW s \in Seq(Tasks \ Requests), NEW u \in Seq(Tasks), Agree(s, u)
  PROVE  u \in Seq(Tasks \ Requests)
<1>1. Len(u) = Len(s) /\ Len(u) \in Nat /\ u \in [1 .. Len(u) -> Tasks]
  BY LenProperties DEF Agree
<1>2. \A k \in 1 .. Len(u) : u[k] \in Tasks \ Requests
  BY <1>1, ElementOfSeq DEF Agree
<1>3. u \in [1 .. Len(u) -> Tasks \ Requests]
  BY <1>1, <1>2
<1> QED BY <1>1, <1>3

\* What is in flight, before the task whose message is arriving.
LEMMA InFlightType ==
  ASSUME TypeOK
  PROVE  /\ InFlight \in Seq(Tasks)
         /\ Messages(loopQueue) \in Seq(Tasks)
         /\ wire \o outbound \in Seq(Tasks)
         /\ wire \o outbound \o Messages(loopQueue) \in Seq(Tasks)
<1>1. wire \in Seq(Tasks) /\ outbound \in Seq(Tasks) /\ bufferQueue \in Seq(Tasks)
  BY DEF TypeOK
<1>2. Messages(loopQueue) \in Seq(Tasks)
  BY MessagesType DEF TypeOK, Writes
<1>3. wire \o outbound \in Seq(Tasks)
  BY <1>1, ConcatProperties
<1>4. wire \o outbound \o Messages(loopQueue) \in Seq(Tasks)
  BY <1>2, <1>3, ConcatProperties
<1>5. InFlight \in Seq(Tasks)
  BY <1>1, <1>4, ConcatProperties DEF InFlight
<1> QED BY <1>2, <1>3, <1>4, <1>5

LEMMA ArrivingType ==
  ASSUME TypeOK, Locks
  PROVE  /\ Arriving \in Seq(Tasks)
         /\ taskLock # NoThread => task[taskLock] \in Tasks /\ Arriving = <<task[taskLock]>>
<1>1. CASE taskLock = NoThread
  BY <1>1, EmptySeq DEF Arriving
<1>2. CASE taskLock # NoThread
  <2>1. taskLock \in Threads /\ pc[taskLock] = "addMessage"
    BY <1>2 DEF TypeOK, Locks
  <2>2. task[taskLock] \in Tasks
    BY <2>1 DEF TypeOK
  <2> QED BY <1>2, <2>2 DEF Arriving
<1> QED BY <1>1, <1>2

-----------------------------------------------------------------------------
(* The steps of the inductive invariant, one conjunct at a time.           *)

LEMMA LocksStep == TypeOK /\ Locks /\ [Next]_vars => Locks'
<1> SUFFICES ASSUME TypeOK, Locks, [Next]_vars PROVE Locks'
  OBVIOUS
<1> USE ThreadsAssumption
    DEF threadVars, lockVars, queueVars, connVars, nettyVars, clientVars, watchVars, Locks
<1>1. ASSUME NEW th \in Threads, NEW t, Enter(th, t), UNCHANGED lockVars PROVE Locks'
  BY <1>1 DEF Enter, TypeOK
<1>2. ASSUME NEW c \in Callers, NEW r \in Requests, ExecuteRedisTask(c, r) PROVE Locks'
  BY <1>1, <1>2 DEF ExecuteRedisTask, Issue, Threads
<1>3. ASSUME NEW c \in Callers, NEW r \in Requests, RefuseRedisTask(c, r) PROVE Locks'
  BY <1>3 DEF RefuseRedisTask
<1>4. ASSUME NEW c \in Callers, NEW f \in FlushAlls, FlushAll(c, f) PROVE Locks'
  BY <1>1, <1>4 DEF FlushAll, Issue, Threads
<1>5. ASSUME NEW c \in Callers, NEW p \in Promotions, Promote(c, p) PROVE Locks'
  BY <1>1, <1>5 DEF Promote, Issue, Threads
<1>6. ASSUME NEW th \in Threads, PipelineWrite(th) PROVE Locks'
  <2>1. CASE AddTask(th)
    BY <2>1 DEF AddTask, TypeOK
  <2>2. CASE AddMessage(th)
    BY <2>2 DEF AddMessage, TypeOK
  <2>3. CASE TryLock(th)
    BY <2>3 DEF TryLock, TypeOK
  <2>4. CASE Drain(th)
    BY <2>4 DEF Drain
  <2>5. CASE DrainToNull(th)
    BY <2>5 DEF DrainToNull, TypeOK
  <2>6. CASE DrainEnd(th)
    BY <2>6 DEF DrainEnd, TypeOK
  <2>7. CASE Unlock(th)
    BY <2>7 DEF Unlock, TypeOK
  <2>8. CASE LastFlush(th)
    BY <2>8 DEF LastFlush, TypeOK
  <2> QED BY <1>6, <2>1, <2>2, <2>3, <2>4, <2>5, <2>6, <2>7, <2>8 DEF PipelineWrite
<1>7. CASE Connect
  BY <1>7 DEF Connect
<1>8. CASE OperationComplete
  BY <1>1, <1>8 DEF OperationComplete, Threads
<1>9. CASE LoopFlush
  BY <1>9 DEF LoopFlush
<1>10. CASE LoopWrite
  BY <1>10 DEF LoopWrite
<1>11. CASE ChannelRead
  BY <1>11 DEF ChannelRead
<1>12. CASE ChannelInactive
  BY <1>12 DEF ChannelInactive
<1>13. ASSUME NEW p \in Pings, TimerPing(p) PROVE Locks'
  BY <1>1, <1>13 DEF TimerPing, Issue, Threads
<1>14. CASE TimerLate
  BY <1>14 DEF TimerLate, TimerRuns, TypeOK, Threads
<1>15. CASE TimerDeclare
  BY <1>15 DEF TimerDeclare, TypeOK, Threads
<1>16. CASE Tick
  BY <1>16 DEF Tick
<1>17. CASE UNCHANGED vars
  BY <1>17 DEF vars
<1> QED
  BY <1>2, <1>3, <1>4, <1>5, <1>6, <1>7, <1>8, <1>9, <1>10, <1>11, <1>12, <1>13,
     <1>14, <1>15, <1>16, <1>17 DEF Next

\* Without sendSlaveof, setting connected is the last step of operationComplete.
LEMMA ScriptEnds ==
  ASSUME Late = <<>>
  PROVE  \A k \in 1 .. Len(Script) :
           Script[k] \notin Requests /\ (Script[k] = SetConnected <=> k = Len(Script))
<1>1. Script = Setup \o <<SetConnected>>
  <2>1. Setup \o <<SetConnected>> \in Seq(Range(Setup) \cup {SetConnected})
    <3>1. Setup \in Seq(Range(Setup) \cup {SetConnected})
      BY TasksAssumption, SeqMonotonic
    <3>2. <<SetConnected>> \in Seq(Range(Setup) \cup {SetConnected})
      OBVIOUS
    <3> QED BY <3>1, <3>2, ConcatProperties
  <2> QED BY <2>1, ConcatEmptySeq DEF Script
<1> DEFINE S == Range(Setup) \cup {SetConnected}
           n == Len(Setup)
<1>2. Setup \in Seq(S) /\ <<SetConnected>> \in Seq(S) /\ Len(<<SetConnected>>) = 1 /\ n \in Nat
  BY TasksAssumption, SeqMonotonic, LenProperties
<1>3. /\ Len(Script) = n + 1
      /\ \A k \in 1 .. n + 1 : Script[k] = IF k <= n THEN Setup[k] ELSE <<SetConnected>>[k - n]
  BY <1>1, <1>2, ConcatProperties
<1>4. \A k \in 1 .. n : Setup[k] \in Range(Setup)
  BY TasksAssumption, ElementOfSeq
<1>5. SetConnected \notin Requests /\ SetConnected \notin Range(Setup)
      /\ Range(Setup) \cap Requests = {}
  BY TasksAssumption, KindsAssumption DEF Tasks, Offered
<1>6. ASSUME NEW k \in 1 .. n
      PROVE  Script[k] \notin Requests /\ Script[k] # SetConnected /\ k # Len(Script)
  <2>1. Script[k] = Setup[k]
    BY <1>2, <1>3
  <2> QED BY <1>2, <1>3, <1>4, <1>5, <2>1
<1>7. Script[n + 1] = SetConnected
  BY <1>2, <1>3
<1>8. \A k \in 1 .. Len(Script) : k \in 1 .. n \/ k = n + 1
  BY <1>2, <1>3
<1> QED BY <1>3, <1>5, <1>6, <1>7, <1>8

LEMMA ScriptNotEmpty == Script # <<>>
<1> DEFINE S == Tasks \cup {SetConnected}
<1>1. Setup \in Seq(S) /\ Late \in Seq(S) /\ <<SetConnected>> \in Seq(S)
  <2>1. Range(Setup) \subseteq S /\ Range(Late) \subseteq S
    BY DEF Tasks
  <2> QED BY <2>1, SeqMonotonic, TasksAssumption
<1>2. Setup \o <<SetConnected>> \in Seq(S) /\ Setup \o <<SetConnected>> # <<>>
  <2>1. <<SetConnected>> # <<>>
    OBVIOUS
  <2> QED BY <1>1, <2>1, ConcatProperties, ConcatEqualIffEmpty
<1> QED BY <1>1, <1>2, ConcatEqualIffEmpty DEF Script

\* Steps that leave the connection's progress and taskQueue alone.
LEMMA StartupUnchanged ==
  ASSUME Startup, UNCHANGED <<task, taskQueue, connVars>>,
         conn # "connecting" \/ pc' = pc,
         pc'[Loop] # "idle" => todo # <<>>
  PROVE  Startup'
BY DEF Startup, Starting, connVars

LEMMA StartupStep ==
  ASSUME Late = <<>>, Promotions = {}
  PROVE  TypeOK /\ Locks /\ Startup /\ [Next]_vars => Startup'
<1> SUFFICES ASSUME TypeOK, Locks, Startup, [Next]_vars PROVE Startup'
  OBVIOUS
<1> USE ThreadsAssumption
    DEF threadVars, lockVars, queueVars, connVars, nettyVars, clientVars, watchVars
<1>1. NoTask \notin Requests
  BY TasksAssumption DEF Tasks, Offered
<1>2. ASSUME NEW c \in Callers, NEW r \in Requests, ExecuteRedisTask(c, r) PROVE Startup'
  BY <1>2 DEF ExecuteRedisTask, Issue, Enter, Startup, Starting, TypeOK, Threads
<1>3. ASSUME NEW c \in Callers, NEW r \in Requests, RefuseRedisTask(c, r) PROVE Startup'
  BY <1>3 DEF RefuseRedisTask, Startup, Starting
<1>4. ASSUME NEW c \in Callers, NEW f \in FlushAlls, FlushAll(c, f) PROVE Startup'
  <2>1. f \notin Requests
    BY KindsAssumption
  <2> QED BY <1>4, <2>1 DEF FlushAll, Issue, Enter, Startup, Starting, TypeOK, Threads
<1>5. ASSUME NEW th \in Threads, PipelineWrite(th) PROVE Startup'
  <2>1. conn # "connecting"
    BY <1>5 DEF Startup, PipelineWrite, AddTask, AddMessage, TryLock, Drain, DrainToNull,
               DrainEnd, Unlock, LastFlush
  <2>2. pc[th] # "idle"
    BY <1>5 DEF PipelineWrite, AddTask, AddMessage, TryLock, Drain, DrainToNull,
               DrainEnd, Unlock, LastFlush
  <2>3. pc'[Loop] # "idle" => todo # <<>>
    BY <1>5, <2>2 DEF Startup, PipelineWrite, AddTask, AddMessage, TryLock, Drain,
               DrainToNull, DrainEnd, Unlock, LastFlush, TypeOK, Threads
  <2>4. CASE AddTask(th)
    <3>1. task[th] \in Tasks
      BY <2>4 DEF AddTask, TypeOK
    <3>2. Starting => taskQueue' \in Seq(Tasks \ Requests)
      BY <2>4, <3>1, AppendProperties DEF AddTask, Startup
    <3> QED BY <2>1, <2>3, <2>4, <3>2 DEF AddTask, Startup, Starting
  <2>5. CASE AddMessage(th)
    BY <1>1, <2>1, <2>3, <2>5 DEF AddMessage, Startup, Starting, TypeOK
  <2>6. CASE ~AddTask(th) /\ ~AddMessage(th)
    BY <1>5, <2>1, <2>3, <2>6, StartupUnchanged
       DEF PipelineWrite, TryLock, Drain, DrainToNull, DrainEnd, Unlock, LastFlush
  <2> QED BY <2>4, <2>5, <2>6
<1>6. CASE Connect
  <2>1. Starting /\ todo' = Script /\ conn' = "open"
    BY <1>6 DEF Connect, Starting
  <2>2. Script # <<>>
    BY ScriptNotEmpty
  <2> QED BY <1>6, <2>1, <2>2, ScriptEnds DEF Connect, Startup, Starting
<1>7. CASE OperationComplete
  <2> DEFINE S == Tasks \cup {SetConnected}
  <2>1. /\ todo \in Seq(S) /\ todo # <<>> /\ Len(todo) \in Nat \ {0}
        /\ Head(todo) = todo[1] /\ todo' = Tail(todo) /\ pc[Loop] = "idle"
    BY <1>7, EmptySeq DEF OperationComplete, TypeOK
  <2>2. /\ Tail(todo) \in Seq(S) /\ Len(Tail(todo)) = Len(todo) - 1
        /\ \A k \in 1 .. Len(Tail(todo)) : Tail(todo)[k] = todo[k + 1]
    BY <2>1, HeadTailProperties
  <2>3. \A k \in 1 .. Len(todo) :
          todo[k] \notin Requests /\ (todo[k] = SetConnected <=> k = Len(todo))
    BY DEF Startup
  <2>4. \A k \in 1 .. Len(todo') :
          todo'[k] \notin Requests /\ (todo'[k] = SetConnected <=> k = Len(todo'))
    <3> SUFFICES ASSUME NEW k \in 1 .. Len(todo')
                 PROVE  todo'[k] \notin Requests /\ (todo'[k] = SetConnected <=> k = Len(todo'))
      OBVIOUS
    <3>1. /\ todo'[k] = todo[k + 1] /\ k + 1 \in 1 .. Len(todo)
          /\ Len(todo') = Len(todo) - 1 /\ k \in Nat
      BY <2>1, <2>2
    <3>2. k + 1 = Len(todo) <=> k = Len(todo')
      BY <2>1, <3>1
    <3> QED BY <2>3, <3>1, <3>2
  <2>5. conn = "open" /\ conn' = "open"
    BY <1>7, <2>1 DEF OperationComplete, Startup
  <2>6. CASE Head(todo) = SetConnected
    <3>1. Len(todo) = 1
      <4>1. 1 \in 1 .. Len(todo) /\ todo[1] = SetConnected
        BY <2>1, <2>6
      <4> QED BY <2>3, <4>1
    <3>2. todo' = <<>>
      BY <2>1, <2>2, <3>1, EmptySeq
    <3> QED BY <1>7, <2>1, <2>4, <2>5, <2>6, <3>2 DEF OperationComplete, Startup, Starting
  <2>7. CASE Head(todo) # SetConnected
    <3>1. Len(todo) # 1 /\ Head(todo) \notin Requests
      <4>1. 1 \in 1 .. Len(todo) /\ todo[1] # SetConnected
        BY <2>1, <2>7
      <4> QED BY <2>1, <2>3, <4>1
    <3>2. todo' # <<>>
      <4>1. Len(todo') # 0
        BY <2>1, <2>2, <3>1
      <4> QED BY <4>1
    <3>3. Enter(Loop, Head(todo)) /\ UNCHANGED connected /\ UNCHANGED taskQueue
      BY <1>7, <2>7 DEF OperationComplete
    <3>4. \A th \in Threads : task'[th] \notin Requests
      BY <2>1, <3>1, <3>3 DEF Enter, Startup, Starting, TypeOK
    <3> QED BY <2>1, <2>4, <2>5, <3>2, <3>3, <3>4 DEF Startup, Starting
  <2> QED BY <2>6, <2>7
<1>8. CASE LoopFlush
  BY <1>8, StartupUnchanged DEF LoopFlush, LoopFree, Startup
<1>9. CASE LoopWrite
  BY <1>9, StartupUnchanged DEF LoopWrite, LoopFree, Startup
<1>10. CASE ChannelRead
  BY <1>10 DEF ChannelRead, LoopFree, Startup, Starting
<1>11. CASE ChannelInactive
  BY <1>11 DEF ChannelInactive, LoopFree, Startup, Starting
<1>12. ASSUME NEW p \in Pings, TimerPing(p) PROVE Startup'
  BY <1>12 DEF TimerPing, TimerRuns, Issue, Enter, Startup, Starting, TypeOK, Threads
<1>13. CASE TimerLate
  BY <1>13, StartupUnchanged DEF TimerLate, TimerRuns, Startup, TypeOK, Threads
<1>14. CASE TimerDeclare
  BY <1>14 DEF TimerDeclare, Startup, Starting, TypeOK, Threads
<1>15. CASE Tick
  BY <1>15, StartupUnchanged DEF Tick, Startup
<1>16. CASE UNCHANGED vars
  BY <1>16, StartupUnchanged DEF vars, Startup
<1> QED
  BY <1>2, <1>3, <1>4, <1>5, <1>6, <1>7, <1>8, <1>9, <1>10, <1>11, <1>12, <1>13,
     <1>14, <1>15, <1>16 DEF Next

\* The channel's parts of InFlight, moved along it, still make the same whole.
Aligned == Agree(taskQueue, InFlight \o Arriving)

LEMMA AlignedSame ==
  ASSUME Aligned, taskQueue' = taskQueue, InFlight' = InFlight, Arriving' = Arriving
  PROVE  Aligned'
BY DEF Aligned, Agree

\* Inline writes of the loop reorder InFlight, but while the connection starts
\* there is no request whose place could change.
LEMMA AlignedStarting ==
  ASSUME TypeOK, TypeOK', Locks, Aligned, Starting, Startup, Arriving' = Arriving,
         taskQueue' = taskQueue,
         Len(InFlight') = Len(InFlight),
         InFlight \in Seq(Tasks \ Requests) => InFlight' \in Seq(Tasks \ Requests)
  PROVE  Aligned'
<1>1. taskQueue \in Seq(Tasks \ Requests)
  BY DEF Startup
<1>2. InFlight \in Seq(Tasks) /\ Arriving \in Seq(Tasks)
  BY InFlightType, ArrivingType
<1>3. InFlight \o Arriving \in Seq(Tasks \ Requests)
  BY <1>1, <1>2, ConcatProperties, AgreeSpreadsNoRequests DEF Aligned
<1>4. InFlight \in Seq(Tasks \ Requests) /\ Arriving \in Seq(Tasks \ Requests)
  BY <1>2, <1>3, PartsOfConcat
<1>5. InFlight' \in Seq(Tasks \ Requests)
  BY <1>4
<1>6. InFlight' \o Arriving \in Seq(Tasks \ Requests)
      /\ Len(InFlight' \o Arriving) = Len(InFlight') + Len(Arriving)
      /\ Len(InFlight \o Arriving) = Len(InFlight) + Len(Arriving)
  BY <1>4, <1>5, ConcatProperties
<1>7. Len(taskQueue) = Len(InFlight \o Arriving)
  BY DEF Aligned, Agree
<1>8. Agree(taskQueue, InFlight' \o Arriving)
  BY <1>1, <1>6, <1>7, AgreeNoRequests
<1> QED BY <1>8 DEF Aligned, Agree

\* Steps of other threads than the loop move messages within InFlight.
LEMMA FlightWrite ==
  ASSUME TypeOK, NEW th \in Threads, th # Loop, NEW f \in BOOLEAN,
         conn # "closed", bufferQueue # <<>>,
         bufferQueue' = Tail(bufferQueue), Write(th, Head(bufferQueue), f)
  PROVE  InFlight' = InFlight
<1> DEFINE m == Messages(loopQueue)
           h == Head(bufferQueue)
           t == Tail(bufferQueue)
<1>1. /\ h \in Tasks /\ t \in Seq(Tasks) /\ wire \in Seq(Tasks) /\ outbound \in Seq(Tasks)
      /\ bufferQueue \in Seq(Tasks) /\ m \in Seq(Tasks)
      /\ wire \o outbound \in Seq(Tasks) /\ wire \o outbound \o m \in Seq(Tasks)
  BY InFlightType, HeadTailProperties DEF TypeOK
<1>2. loopQueue' = Append(loopQueue, [message |-> h, flush |-> f])
      /\ wire' = wire /\ outbound' = outbound
  BY DEF Write
<1>3. [message |-> h, flush |-> f] \in Writes
  BY <1>1 DEF Writes
<1>4. Messages(loopQueue') = Append(m, h)
  BY <1>2, <1>3, MessagesAppend DEF TypeOK, Writes
<1>5. InFlight' = wire \o outbound \o Append(m, h) \o t
  BY <1>2, <1>4 DEF InFlight
<1>6. wire \o outbound \o Append(m, h) = Append(wire \o outbound \o m, h)
  <2>1. \A x, y \in Seq(Tasks) : \A e \in Tasks : x \o Append(y, e) = Append(x \o y, e)
    BY AppendToConcat
  <2> HIDE DEF h, m
  <2> QED BY <1>1, <2>1
<1>7. Append(wire \o outbound \o m, h) \o t = InFlight
  <2>1. \A x, y \in Seq(Tasks) : y # <<>> => Append(x, Head(y)) \o Tail(y) = x \o y
    BY MoveHead
  <2> QED BY <1>1, <2>1 DEF InFlight
<1> HIDE DEF h, t, m
<1> QED BY <1>5, <1>6, <1>7

\* A message from the head of bufferQueue reaches the channel (l.176).
LEMMA AlignedWrite ==
  ASSUME TypeOK, TypeOK', Locks, Startup, Aligned, NEW th \in Threads, NEW f \in BOOLEAN,
         pc[th] # "idle", conn # "closed", bufferQueue # <<>>,
         bufferQueue' = Tail(bufferQueue), Write(th, Head(bufferQueue), f),
         Arriving' = Arriving, taskQueue' = taskQueue
  PROVE  Aligned'
<1> DEFINE m == Messages(loopQueue)
           h == Head(bufferQueue)
           t == Tail(bufferQueue)
<1>1. /\ h \in Tasks /\ t \in Seq(Tasks) /\ wire \in Seq(Tasks) /\ outbound \in Seq(Tasks)
      /\ bufferQueue \in Seq(Tasks) /\ m \in Seq(Tasks)
      /\ wire \o outbound \in Seq(Tasks) /\ wire \o outbound \o m \in Seq(Tasks)
  BY InFlightType, HeadTailProperties DEF TypeOK
<1>2. CASE th = Loop
  <2> DEFINE u == wire \o Append(outbound, h) \o m \o t
  <2>1. Starting
    BY <1>2 DEF Startup, Starting
  <2>2. loopQueue' = loopQueue /\ wire' \o outbound' = wire \o Append(outbound, h)
    <3>1. Append(outbound, h) \in Seq(Tasks)
      BY <1>1, AppendProperties
    <3>2. wire \o Append(outbound, h) \in Seq(Tasks)
      BY <1>1, <3>1, ConcatProperties
    <3>3. CASE f
      <4>1. wire' = wire \o Append(outbound, h) /\ outbound' = <<>> /\ loopQueue' = loopQueue
        BY <1>2, <3>3 DEF Write
      <4> QED BY <3>2, <4>1, ConcatEmptySeq
    <3>4. CASE ~f
      BY <1>2, <3>4 DEF Write
    <3> QED BY <3>3, <3>4
  <2>3. InFlight' = u
    BY <2>2 DEF InFlight
  <2>4. Len(u) = Len(InFlight) /\ (InFlight \in Seq(Tasks \ Requests) => u \in Seq(Tasks \ Requests))
    <3>1. \A T : Len(u) = Len(InFlight) /\ (InFlight \in Seq(T) => u \in Seq(T))
      BY <1>1, Overtake DEF InFlight
    <3> QED BY <3>1
  <2> HIDE DEF u
  <2> QED BY <2>1, <2>3, <2>4, AlignedStarting
<1>3. CASE th # Loop
  BY <1>3, FlightWrite, AlignedSame
<1> QED BY <1>2, <1>3

\* What is written and the flush that sends it move within InFlight.
LEMMA FlightFlush ==
  ASSUME TypeOK, NEW th \in Threads, conn # "closed", Flush(th), bufferQueue' = bufferQueue
  PROVE  InFlight' = InFlight
<1>1. wire \o outbound \in Seq(Tasks)
  BY InFlightType
<1>2. CASE th = Loop
  <2>1. wire' \o outbound' = wire \o outbound /\ loopQueue' = loopQueue
    BY <1>1, <1>2, ConcatEmptySeq DEF Flush
  <2> QED BY <2>1 DEF InFlight
<1>3. CASE th # Loop
  <2>1. Messages(loopQueue') = Messages(loopQueue) /\ UNCHANGED <<wire, outbound>>
    BY <1>3, MessagesMark DEF Flush, TypeOK, Writes
  <2> QED BY <2>1 DEF InFlight
<1> QED BY <1>2, <1>3

\* pipelineWrite adds to both queues under taskLock (l.165-171).
LEMMA AlignedAddTask ==
  ASSUME TypeOK, Locks, Aligned, NEW th \in Threads, AddTask(th)
  PROVE  Aligned'
<1>1. task[th] \in Tasks /\ Arriving = <<>> /\ th # NoThread
  BY ThreadsAssumption DEF AddTask, TypeOK, Arriving
<1>2. Arriving' = <<task[th]>> /\ taskQueue' = Append(taskQueue, task[th])
  BY <1>1 DEF AddTask, Arriving
<1>3. InFlight' = InFlight
  BY DEF AddTask, nettyVars, InFlight
<1>4. InFlight \in Seq(Tasks) /\ InFlight \o <<>> = InFlight
  BY InFlightType, ConcatEmptySeq
<1>5. Agree(taskQueue, InFlight)
  BY <1>1, <1>4 DEF Aligned
<1>6. Agree(Append(taskQueue, task[th]), Append(InFlight, task[th]))
  BY <1>1, <1>4, <1>5, AgreeAppend DEF TypeOK
<1>7. Append(InFlight, task[th]) = InFlight \o <<task[th]>>
  BY <1>1, <1>4, AppendIsConcat
<1> QED BY <1>2, <1>3, <1>6, <1>7 DEF Aligned, Agree

LEMMA FlightAddMessage ==
  ASSUME TypeOK, NEW th \in Threads, AddMessage(th)
  PROVE  InFlight' = Append(InFlight, task[th]) /\ task[th] \in Tasks
<1> DEFINE x == wire \o outbound \o Messages(loopQueue)
<1>1. task[th] \in Tasks
  BY DEF AddMessage, TypeOK
<1>2. x \in Seq(Tasks) /\ bufferQueue \in Seq(Tasks) /\ InFlight \in Seq(Tasks)
  BY InFlightType DEF TypeOK
<1>3. InFlight = x \o bufferQueue /\ InFlight' = x \o Append(bufferQueue, task[th])
  BY DEF AddMessage, nettyVars, InFlight
<1> HIDE DEF x
<1> QED BY <1>1, <1>2, <1>3, AppendToConcat

LEMMA AlignedAddMessage ==
  ASSUME TypeOK, Locks, Aligned, NEW th \in Threads, AddMessage(th)
  PROVE  Aligned'
<1>1. taskLock = th /\ th # NoThread
  BY ThreadsAssumption DEF AddMessage, Locks, TypeOK
<1>2. Arriving = <<task[th]>> /\ Arriving' = <<>>
  BY <1>1 DEF AddMessage, Arriving
<1>3. InFlight' = Append(InFlight, task[th]) /\ task[th] \in Tasks /\ InFlight \in Seq(Tasks)
  BY FlightAddMessage, InFlightType
<1>4. InFlight' = InFlight \o Arriving /\ InFlight' \in Seq(Tasks)
  BY <1>2, <1>3, AppendIsConcat, AppendProperties
<1>5. InFlight' \o Arriving' = InFlight'
  BY <1>2, <1>4, ConcatEmptySeq
<1>6. taskQueue' = taskQueue
  BY DEF AddMessage
<1> QED BY <1>4, <1>5, <1>6 DEF Aligned, Agree

\* The loop runs a write that another thread queued to it.
LEMMA FlightLoopWrite ==
  ASSUME TypeOK, LoopWrite
  PROVE  InFlight' = InFlight
<1> DEFINE m == Messages(loopQueue)
           out == Append(outbound, Head(loopQueue).message)
<1>1. loopQueue # <<>> /\ loopQueue' = Tail(loopQueue)
  BY DEF LoopWrite
<1>2. m # <<>> /\ Head(m) = Head(loopQueue).message /\ Messages(loopQueue') = Tail(m)
  BY <1>1, MessagesTail DEF TypeOK, Writes
<1>3. /\ wire \in Seq(Tasks) /\ outbound \in Seq(Tasks) /\ m \in Seq(Tasks)
      /\ wire \o outbound \in Seq(Tasks) /\ Head(m) \in Tasks
  BY <1>2, InFlightType, HeadTailProperties DEF TypeOK
<1>4. wire' \o outbound' = wire \o out
  <2>1. out \in Seq(Tasks)
    BY <1>2, <1>3, AppendProperties
  <2>2. wire \o out \in Seq(Tasks)
    BY <1>3, <2>1, ConcatProperties
  <2>3. CASE Head(loopQueue).flush
    <3>1. wire' = wire \o out /\ outbound' = <<>>
      BY <2>3 DEF LoopWrite
    <3> QED BY <2>2, <3>1, ConcatEmptySeq
  <2>4. CASE ~Head(loopQueue).flush
    BY <2>4 DEF LoopWrite
  <2> QED BY <2>3, <2>4
<1>5. wire \o out = Append(wire \o outbound, Head(m))
  <2>1. \A x, y \in Seq(Tasks) : \A e \in Tasks : x \o Append(y, e) = Append(x \o y, e)
    BY AppendToConcat
  <2>2. out = Append(outbound, Head(m))
    BY <1>2
  <2> HIDE DEF m, out
  <2> QED BY <1>3, <2>1, <2>2
<1>6. Append(wire \o outbound, Head(m)) \o Tail(m) = wire \o outbound \o m
  <2>1. \A x, y \in Seq(Tasks) : y # <<>> => Append(x, Head(y)) \o Tail(y) = x \o y
    BY MoveHead
  <2> HIDE DEF m
  <2> QED BY <1>2, <1>3, <2>1
<1> HIDE DEF m, out
<1>7. wire' \o outbound' \o Messages(loopQueue') = wire \o outbound \o m
  BY <1>2, <1>4, <1>5, <1>6
<1>8. bufferQueue' = bufferQueue
  BY DEF LoopWrite, queueVars
<1> QED BY <1>7, <1>8 DEF m, InFlight

LEMMA FlightLoopFlush ==
  ASSUME TypeOK, LoopFlush
  PROVE  InFlight' = InFlight
<1>1. wire \o outbound \in Seq(Tasks)
  BY InFlightType
<1>2. wire' \o outbound' = wire \o outbound
  BY <1>1, ConcatEmptySeq DEF LoopFlush
<1> QED BY <1>2 DEF LoopFlush, InFlight, queueVars

\* A reply leaves the wire, which is the head of InFlight.
LEMMA FlightRead ==
  ASSUME TypeOK, ChannelRead
  PROVE  InFlight # <<>> /\ Head(InFlight) = Head(wire) /\ InFlight' = Tail(InFlight)
<1>0. /\ wire \in Seq(Tasks) /\ outbound \in Seq(Tasks) /\ bufferQueue \in Seq(Tasks)
      /\ Messages(loopQueue) \in Seq(Tasks) /\ wire # <<>> /\ wire' = Tail(wire)
  BY InFlightType DEF ChannelRead, TypeOK
<1> DEFINE a == wire \o outbound
           b == a \o Messages(loopQueue)
<1>1. \A s, t \in Seq(Tasks) : s # <<>> =>
        s \o t # <<>> /\ Head(s \o t) = Head(s) /\ Tail(s \o t) = Tail(s) \o t
  BY TailOfConcat
<1>2. a # <<>> /\ Head(a) = Head(wire) /\ Tail(a) = Tail(wire) \o outbound
  BY <1>0, <1>1
<1>3. a \in Seq(Tasks) /\ b \in Seq(Tasks)
  BY InFlightType
<1> HIDE DEF a
<1>4. b # <<>> /\ Head(b) = Head(wire) /\ Tail(b) = Tail(a) \o Messages(loopQueue)
  BY <1>0, <1>1, <1>2, <1>3
<1> HIDE DEF b
<1>5. b \o bufferQueue # <<>> /\ Head(b \o bufferQueue) = Head(wire)
      /\ Tail(b \o bufferQueue) = Tail(b) \o bufferQueue
  BY <1>0, <1>1, <1>3, <1>4
<1>6. InFlight = b \o bufferQueue
  BY DEF a, b, InFlight
<1>7. InFlight' = Tail(wire) \o outbound \o Messages(loopQueue) \o bufferQueue
  BY DEF ChannelRead, InFlight
<1> QED BY <1>2, <1>4, <1>5, <1>6, <1>7

\* A reply leaves the wire and its task the queue.
LEMMA ReadHead ==
  ASSUME TypeOK, Locks, Aligned, ChannelRead
  PROVE  /\ taskQueue # <<>>
         /\ Head(taskQueue) = Head(wire) \/ {Head(taskQueue), Head(wire)} \cap Requests = {}
         /\ Aligned'
<1> DEFINE u == InFlight \o Arriving
<1>1. /\ wire \in Seq(Tasks) /\ outbound \in Seq(Tasks) /\ bufferQueue \in Seq(Tasks)
      /\ Messages(loopQueue) \in Seq(Tasks) /\ Arriving \in Seq(Tasks)
      /\ InFlight \in Seq(Tasks) /\ wire # <<>> /\ wire' = Tail(wire)
  BY InFlightType, ArrivingType DEF ChannelRead, TypeOK
<1>2. /\ InFlight # <<>> /\ Head(InFlight) = Head(wire) /\ InFlight' = Tail(InFlight)
  BY FlightRead
<1>3. u # <<>> /\ Head(u) = Head(wire) /\ Tail(u) = InFlight' \o Arriving /\ u \in Seq(Tasks)
  <2>1. InFlight \in Seq(Tasks) /\ Arriving \in Seq(Tasks) /\ InFlight # <<>>
    BY <1>1, <1>2
  <2>2. u # <<>> /\ Head(u) = Head(InFlight) /\ Tail(u) = Tail(InFlight) \o Arriving
    BY <2>1, TailOfConcat
  <2>3. u \in Seq(Tasks)
    BY <2>1, ConcatProperties
  <2> QED BY <1>2, <2>2, <2>3
<1>4. Arriving' = Arriving
  BY DEF ChannelRead, Arriving, threadVars, lockVars
<1>5. /\ taskQueue # <<>> /\ Agree(Tail(taskQueue), Tail(u))
      /\ Head(taskQueue) = Head(u) \/ {Head(taskQueue), Head(u)} \cap Requests = {}
  BY <1>3, AgreeTail DEF TypeOK, Aligned
<1>6. taskQueue' = Tail(taskQueue)
  BY <1>5 DEF ChannelRead
<1> QED BY <1>3, <1>4, <1>5, <1>6 DEF Aligned, Agree

\* Steps that touch neither the queues nor the channel.
LEMMA AlignedUntouched ==
  ASSUME Aligned, UNCHANGED <<queueVars, nettyVars>>, Arriving' = Arriving
  PROVE  Aligned'
<1>1. InFlight' = InFlight /\ taskQueue' = taskQueue
  BY DEF InFlight, queueVars, nettyVars
<1> QED BY <1>1, AlignedSame

\* Entering pipelineWrite leaves the task of the lock's holder alone.
LEMMA ArrivingEnter ==
  ASSUME TypeOK, Locks, NEW th \in Threads, NEW t, Enter(th, t), taskLock' = taskLock
  PROVE  Arriving' = Arriving
<1>1. taskLock # NoThread => taskLock \in Threads /\ taskLock # th
  BY DEF Enter, Locks, TypeOK
<1> QED BY <1>1 DEF Enter, Arriving, TypeOK

LEMMA AlignedStep ==
  ASSUME TypeOK, TypeOK', Locks, Startup, QueuesAligned, [Next]_vars
  PROVE  QueuesAligned'
<1> SUFFICES ASSUME conn' # "closed" PROVE Aligned'
  BY DEF QueuesAligned, Aligned
<1> USE DEF threadVars, lockVars, queueVars, connVars, nettyVars, clientVars, watchVars
<1>1. ASSUME conn # "closed" PROVE Aligned
  BY <1>1 DEF QueuesAligned, Aligned
<1>2. ASSUME NEW th \in Threads, NEW t, Issue(th, t) PROVE Aligned'
  BY <1>1, <1>2, ArrivingEnter, AlignedUntouched DEF Issue
<1>3. ASSUME NEW c \in Callers, NEW r \in Requests, RefuseRedisTask(c, r) PROVE Aligned'
  BY <1>1, <1>3, AlignedUntouched DEF RefuseRedisTask, Arriving
<1>4. ASSUME NEW th \in Threads, PipelineWrite(th) PROVE Aligned'
  <2>1. pc[th] # "idle" /\ conn' = conn
    BY <1>4 DEF PipelineWrite, AddTask, AddMessage, TryLock, Drain, DrainToNull,
                DrainEnd, Unlock, LastFlush
  <2>2. conn # "closed" /\ Aligned
    BY <1>1, <2>1
  <2>3. CASE AddTask(th)
    BY <2>2, <2>3, AlignedAddTask
  <2>4. CASE AddMessage(th)
    BY <2>2, <2>4, AlignedAddMessage
  <2>5. CASE TryLock(th)
    BY <2>2, <2>5, AlignedUntouched DEF TryLock, Arriving
  <2>6. CASE Drain(th)
    <3>1. /\ bufferQueue # <<>> /\ bufferQueue' = Tail(bufferQueue) /\ taskQueue' = taskQueue
          /\ Write(th, Head(bufferQueue), i[th] + 1 = BatchSize) /\ Arriving' = Arriving
      BY <2>6 DEF Drain, Arriving
    <3>2. (i[th] + 1 = BatchSize) \in BOOLEAN
      OBVIOUS
    <3> QED BY <2>1, <2>2, <3>1, <3>2, AlignedWrite
  <2>7. CASE DrainToNull(th)
    BY <2>1, <2>7 DEF DrainToNull, Startup
  <2>8. CASE DrainEnd(th)
    BY <2>2, <2>8, AlignedUntouched DEF DrainEnd, Arriving
  <2>9. CASE Unlock(th)
    BY <2>2, <2>9, AlignedUntouched DEF Unlock, Arriving
  <2>10. CASE LastFlush(th)
    BY <2>2, <2>10, FlightFlush, AlignedSame DEF LastFlush, Arriving
  <2> QED BY <1>4, <2>3, <2>4, <2>5, <2>6, <2>7, <2>8, <2>9, <2>10 DEF PipelineWrite
<1>5. CASE Connect
  BY <1>1, <1>5, AlignedUntouched DEF Connect, Arriving
<1>6. CASE OperationComplete
  <2>1. Arriving' = Arriving
    <3>1. CASE Head(todo) = SetConnected
      BY <1>6, <3>1 DEF OperationComplete, Arriving
    <3>2. CASE Head(todo) # SetConnected
      BY <1>6, <3>2, ArrivingEnter DEF OperationComplete, Threads
    <3> QED BY <3>1, <3>2
  <2> QED BY <1>1, <1>6, <2>1, AlignedUntouched DEF OperationComplete
<1>7. CASE LoopFlush
  BY <1>1, <1>7, FlightLoopFlush, AlignedSame DEF LoopFlush, LoopFree, Arriving
<1>8. CASE LoopWrite
  BY <1>1, <1>8, FlightLoopWrite, AlignedSame DEF LoopWrite, LoopFree, Arriving
<1>9. CASE ChannelRead
  BY <1>1, <1>9, ReadHead DEF ChannelRead, LoopFree
<1>10. CASE ChannelInactive
  BY <1>10 DEF ChannelInactive
<1>11. CASE TimerLate
  BY <1>1, <1>11, AlignedUntouched DEF TimerLate, Arriving
<1>12. CASE TimerDeclare
  BY <1>1, <1>12, AlignedUntouched DEF TimerDeclare, Arriving
<1>13. CASE Tick
  BY <1>1, <1>13, AlignedUntouched DEF Tick, Arriving
<1>14. CASE UNCHANGED vars
  BY <1>1, <1>14, AlignedUntouched DEF vars, Arriving
<1> QED
  BY <1>2, <1>3, <1>4, <1>5, <1>6, <1>7, <1>8, <1>9, <1>10, <1>11, <1>12, <1>13, <1>14
     DEF Next, ExecuteRedisTask, FlushAll, Promote, TimerPing, Threads

\* Only a reply that is read and a refusal answer a request.
LEMMA RepliesStep ==
  ASSUME TypeOK, Locks, QueuesAligned, ReplyMatches, [Next]_vars
  PROVE  ReplyMatches'
<1> USE DEF threadVars, lockVars, queueVars, connVars, nettyVars, clientVars, watchVars
<1>1. CASE ChannelRead
  <2>1. Aligned
    BY <1>1 DEF ChannelRead, LoopFree, QueuesAligned, Aligned
  <2>2. /\ taskQueue # <<>>
        /\ Head(taskQueue) = Head(wire) \/ {Head(taskQueue), Head(wire)} \cap Requests = {}
    BY <1>1, <2>1, ReadHead
  <2>3. CASE Head(taskQueue) \in Requests
    <3>1. answer' = [answer EXCEPT ![Head(taskQueue)] = Head(taskQueue)]
      BY <1>1, <2>2, <2>3 DEF ChannelRead
    <3> QED BY <3>1 DEF ReplyMatches, TypeOK
  <2>4. CASE Head(taskQueue) \notin Requests
    BY <1>1, <2>2, <2>4 DEF ChannelRead, ReplyMatches
  <2> QED BY <2>3, <2>4
<1>2. ASSUME NEW c \in Callers, NEW r \in Requests, RefuseRedisTask(c, r) PROVE ReplyMatches'
  BY <1>2 DEF RefuseRedisTask, ReplyMatches, TypeOK
<1>3. ASSUME answer' = answer PROVE ReplyMatches'
  BY <1>3 DEF ReplyMatches
<1> QED
  BY <1>1, <1>2, <1>3 DEF Next, vars, ExecuteRedisTask, FlushAll, Promote, TimerPing, Issue,
     PipelineWrite, AddTask, AddMessage, TryLock, Drain, DrainToNull, DrainEnd, Unlock,
     LastFlush, Connect, OperationComplete, LoopFlush, LoopWrite, ChannelInactive,
     TimerLate, TimerDeclare, Tick

LEMMA InvInit == Init => PipelineInv
<1> SUFFICES ASSUME Init PROVE PipelineInv
  OBVIOUS
<1>1. TypeOK
  BY TypeInit
<1>2. Locks
  BY ThreadsAssumption DEF Init, Locks
<1>3. Startup
  <2>1. NoTask \notin Requests
    BY TasksAssumption DEF Tasks, Offered
  <2>2. <<>> \in Seq(Tasks \ Requests) /\ Len(<<>>) = 0
    BY EmptySeq
  <2>3. /\ conn = "connecting" /\ todo = <<>> /\ ~connected /\ taskQueue = <<>>
        /\ \A th \in Threads : pc[th] = "idle" /\ task[th] = NoTask
    BY DEF Init
  <2> QED BY <2>1, <2>2, <2>3, ThreadsAssumption DEF Startup, Threads
<1>4. Aligned
  <2>1. Messages(<<>>) = <<>>
    <3>1. <<>> \in Seq(Writes) /\ Len(<<>>) = 0
      BY EmptySeq
    <3>2. Messages(<<>>) \in Seq(Tasks) /\ Len(Messages(<<>>)) = 0
      BY <3>1, MessagesType
    <3> QED BY <3>2, EmptySeq
  <2>2. <<>> \in Seq(Tasks) /\ <<>> \o <<>> = <<>>
    BY EmptySeq, ConcatEmptySeq
  <2>3. InFlight = <<>> /\ Arriving = <<>> /\ taskQueue = <<>>
    BY <2>1, <2>2 DEF Init, InFlight, Arriving
  <2>4. InFlight \o Arriving = <<>> /\ Len(<<>>) = 0
    BY <2>2, <2>3
  <2> QED BY <2>3, <2>4 DEF Aligned, Agree
<1>5. ReplyMatches
  BY DEF Init, ReplyMatches
<1> QED BY <1>1, <1>2, <1>3, <1>4, <1>5 DEF PipelineInv, QueuesAligned, Aligned

LEMMA InvStep ==
  ASSUME Late = <<>>, Promotions = {}
  PROVE  PipelineInv /\ [Next]_vars => PipelineInv'
BY TypeStep, LocksStep, StartupStep, AlignedStep, RepliesStep DEF PipelineInv

\* On a connection that sends no SLAVEOF after connected is set and gets no
\* promotion before it, the two queues and the channel stay in step, for any
\* number of threads and tasks and any batch size.
THEOREM PipelineInvariant ==
  ASSUME Late = <<>>, Promotions = {}
  PROVE  Spec => []PipelineInv
BY InvInit, InvStep, PTL DEF Spec

\* There, a client is never answered with the reply of another command.
THEOREM ReplyOrder ==
  ASSUME Late = <<>>, Promotions = {}
  PROVE  Spec => []ReplyMatches
<1>1. PipelineInv => ReplyMatches
  BY DEF PipelineInv
<1> QED BY <1>1, PipelineInvariant, PTL

\* And the task at the head of taskQueue is the one whose reply comes next.
THEOREM QueuesStayAligned ==
  ASSUME Late = <<>>, Promotions = {}
  PROVE  Spec => []QueuesAligned
<1>1. PipelineInv => QueuesAligned
  BY DEF PipelineInv
<1> QED BY <1>1, PipelineInvariant, PTL

-----------------------------------------------------------------------------
(* RedisPipeline implements ReplyService.                                    *)

LEMMA RangeAppend ==
  ASSUME NEW q \in Seq(Tasks), NEW t \in Tasks
  PROVE  Range(Append(q, t)) = Range(q) \cup {t}
<1>1. <<t>> \in Seq(Tasks) /\ Range(<<t>>) = {t}
  <2>1. <<t>> \in Seq(Tasks) /\ Len(<<t>>) = 1 /\ <<t>>[1] = t
    OBVIOUS
  <2>2. Range(<<t>>) = {<<t>>[k] : k \in 1 .. Len(<<t>>)}
    BY <2>1, RangeEquality
  <2>3. \A x : x \in Range(<<t>>) <=> x = t
    BY <2>1, <2>2
  <2> QED BY <2>1, <2>3
<1>2. Append(q, t) = q \o <<t>>
  BY AppendIsConcat
<1>3. q \in Seq(Tasks) /\ <<t>> \in Seq(Tasks)
  BY <1>1
<1> DEFINE one == <<t>>
<1> HIDE DEF one
<1>4. Range(q \o one) = Range(q) \cup Range(one)
  <2>1. one \in Seq(Tasks)
    BY <1>3 DEF one
  <2> QED BY <1>3, <2>1, RangeConcatenation
<1> QED BY <1>1, <1>2, <1>4 DEF one

LEMMA RangeTail ==
  ASSUME NEW q \in Seq(Tasks), q # <<>>
  PROVE  Range(Tail(q)) \subseteq Range(q)
<1>1. /\ Tail(q) \in Seq(Tasks) /\ Len(Tail(q)) = Len(q) - 1 /\ Len(q) \in Nat \ {0}
      /\ \A k \in 1 .. Len(Tail(q)) : Tail(q)[k] = q[k + 1]
  BY HeadTailProperties, EmptySeq
<1>2. \A k \in 1 .. Len(Tail(q)) : k + 1 \in 1 .. Len(q)
  BY <1>1
<1>3. /\ Range(q) = {q[k] : k \in 1 .. Len(q)}
      /\ Range(Tail(q)) = {Tail(q)[k] : k \in 1 .. Len(Tail(q))}
  BY <1>1, RangeEquality
<1> QED BY <1>1, <1>2, <1>3

LEMMA NoTaskNoRequest == NoTask \notin Requests
BY TasksAssumption DEF Tasks, Offered

-----------------------------------------------------------------------------
LEMMA OnceInit == Init => Once
BY NoTaskNoRequest DEF Init, Once, Range

\* Issuing, from fresh, a task that no thread holds yet.
LEMMA OnceIssue ==
  ASSUME TypeOK, Once, NEW th \in Threads, NEW t, Issue(th, t)
  PROVE  Once'
BY DEF Issue, Enter, Once, TypeOK, queueVars, connVars, lockVars, nettyVars, watchVars

LEMMA OnceStep == TypeOK /\ Startup /\ Once /\ [Next]_vars => Once'
<1> SUFFICES ASSUME TypeOK, Startup, Once, [Next]_vars PROVE Once'
  OBVIOUS
<1> USE ThreadsAssumption
    DEF threadVars, lockVars, queueVars, connVars, nettyVars, clientVars, watchVars
<1>1. ASSUME NEW th \in Threads, NEW t, Issue(th, t) PROVE Once'
  BY <1>1, OnceIssue
<1>2. ASSUME NEW c \in Callers, NEW r \in Requests, RefuseRedisTask(c, r) PROVE Once'
  BY <1>2 DEF RefuseRedisTask, Once, TypeOK
<1>3. ASSUME NEW th \in Threads, PipelineWrite(th) PROVE Once'
  <2>1. CASE AddTask(th)
    <3>1. task[th] \in Tasks /\ taskQueue \in Seq(Tasks)
      BY <2>1 DEF AddTask, TypeOK
    <3>2. Range(taskQueue') = Range(taskQueue) \cup {task[th]}
      BY <2>1, <3>1, RangeAppend DEF AddTask
    <3> QED BY <2>1, <3>2 DEF AddTask, Once, TypeOK
  <2>2. CASE AddMessage(th)
    BY <2>2, NoTaskNoRequest DEF AddMessage, Once, TypeOK
  <2>3. CASE ~AddTask(th) /\ ~AddMessage(th)
    <3>1. /\ UNCHANGED <<task, taskQueue, fresh, answer>>
          /\ \A u \in Threads : pc'[u] = "addTask" => pc[u] = "addTask"
      BY <1>3, <2>3 DEF PipelineWrite, TryLock, Drain, DrainToNull, DrainEnd, Unlock,
         LastFlush, TypeOK
    <3> QED BY <3>1 DEF Once
  <2> QED BY <2>1, <2>2, <2>3
<1>4. CASE Connect
  BY <1>4 DEF Connect, Once
<1>5. CASE OperationComplete
  <2>1. Head(todo) = SetConnected \/ Head(todo) \notin Requests
    <3>1. todo # <<>> /\ todo \in Seq(Tasks \cup {SetConnected})
      BY <1>5 DEF OperationComplete, TypeOK
    <3>2. Head(todo) = todo[1] /\ 1 \in 1 .. Len(todo)
      BY <3>1, EmptySeq
    <3> QED BY <3>2 DEF Startup
  <2> QED BY <1>5, <2>1 DEF OperationComplete, Enter, Once, TypeOK, Threads
<1>6. CASE LoopFlush
  BY <1>6 DEF LoopFlush, Once
<1>7. CASE LoopWrite
  BY <1>7 DEF LoopWrite, Once
<1>8. CASE ChannelRead
  <2>1. CASE taskQueue = <<>>
    BY <1>8, <2>1 DEF ChannelRead, Once
  <2>2. CASE taskQueue # <<>>
    <3> DEFINE h == Head(taskQueue)
               w == Head(wire)
    <3>1. h \in Range(taskQueue)
      <4>1. h = taskQueue[1] /\ 1 \in 1 .. Len(taskQueue)
        BY <2>2, EmptySeq DEF TypeOK
      <4> QED BY <4>1, RangeEquality DEF TypeOK
    <3>2. taskQueue' = Tail(taskQueue) /\ (answer' = answer \/ answer' = [answer EXCEPT ![h] = w])
          /\ UNCHANGED <<pc, task, fresh>>
      BY <1>8, <2>2 DEF ChannelRead
    <3>3. Range(taskQueue') \subseteq Range(taskQueue)
      BY <2>2, <3>2, RangeTail DEF TypeOK
    <3>4. \A r \in Requests : r # h => answer'[r] = answer[r]
      BY <3>2 DEF TypeOK
    <3> HIDE DEF h, w
    <3> QED BY <3>1, <3>2, <3>3, <3>4 DEF Once
  <2> QED BY <2>1, <2>2
<1>9. CASE ChannelInactive
  BY <1>9 DEF ChannelInactive, Once
<1>10. CASE TimerLate
  BY <1>10 DEF TimerLate, TimerRuns, Once, TypeOK, Threads
<1>11. CASE TimerDeclare
  BY <1>11 DEF TimerDeclare, Once, TypeOK, Threads
<1>12. CASE Tick
  BY <1>12 DEF Tick, Once
<1>13. CASE UNCHANGED vars
  BY <1>13 DEF vars, Once
<1> QED
  BY <1>1, <1>2, <1>3, <1>4, <1>5, <1>6, <1>7, <1>8, <1>9, <1>10, <1>11, <1>12, <1>13
     DEF Next, ExecuteRedisTask, FlushAll, Promote, TimerPing, Threads

-----------------------------------------------------------------------------
(* The refinement.                                                         *)

LEMMA ServiceInit == Init => Service!Init
BY DEF Init, Service!Init

LEMMA ServiceStep ==
  ASSUME PipelineInv, Once, [Next]_vars
  PROVE  [Service!Next]_<<taskQueue, answer, conn # "closed">>
<1> DEFINE open == conn # "closed"
           same == UNCHANGED <<taskQueue, answer, open>>
<1> USE DEF threadVars, lockVars, queueVars, connVars, nettyVars, clientVars, watchVars,
            PipelineInv
<1>1. ASSUME NEW th, NEW t, Issue(th, t) PROVE same
  BY <1>1 DEF Issue
<1>2. ASSUME NEW c \in Callers, NEW r \in Requests, RefuseRedisTask(c, r) PROVE Service!Refuse(r)
  <2>1. answer[r] = NoAnswer /\ r \notin Range(taskQueue)
    BY <1>2 DEF RefuseRedisTask, Once
  <2>2. /\ UNCHANGED <<taskQueue, open>>
        /\ answer' = [answer EXCEPT ![r] = ServiceIsBusy]
    BY <1>2 DEF RefuseRedisTask
  <2> QED BY <2>1, <2>2 DEF Service!Refuse, Service!New, Service!Range, Range
<1>3. ASSUME NEW th \in Threads, AddTask(th) PROVE Service!Accept(task[th]) /\ task[th] \in Tasks
  <2>1. task[th] \in Tasks
    BY <1>3 DEF AddTask, TypeOK
  <2>2. task[th] \in Requests => Service!New(task[th])
    BY <1>3 DEF AddTask, Once, Service!New, Service!Range, Range
  <2>3. UNCHANGED <<answer, open>> /\ taskQueue' = Append(taskQueue, task[th])
    BY <1>3 DEF AddTask
  <2> QED BY <2>1, <2>2, <2>3 DEF Service!Accept
<1>4. ASSUME NEW th \in Threads, PipelineWrite(th), ~AddTask(th) PROVE same
  BY <1>4 DEF PipelineWrite, AddMessage, TryLock, Drain, DrainToNull, DrainEnd, Unlock,
     LastFlush
<1>5. CASE Connect
  BY <1>5 DEF Connect
<1>6. CASE ChannelRead
  <2>1. Aligned /\ open /\ UNCHANGED open
    BY <1>6 DEF ChannelRead, LoopFree, QueuesAligned, Aligned
  <2>2. /\ taskQueue # <<>>
        /\ Head(taskQueue) = Head(wire) \/ {Head(taskQueue), Head(wire)} \cap Requests = {}
    BY <1>6, <2>1, ReadHead
  <2>3. /\ taskQueue' = Tail(taskQueue)
        /\ answer' = IF Head(taskQueue) \in Requests
                       THEN [answer EXCEPT ![Head(taskQueue)] = Head(taskQueue)]
                       ELSE answer
    BY <1>6, <2>2 DEF ChannelRead
  <2> QED BY <2>1, <2>2, <2>3 DEF Service!Next, Service!Reply
<1>7. CASE ChannelInactive
  BY <1>7 DEF ChannelInactive, LoopFree, Service!Next, Service!Lose
<1>8. CASE OperationComplete \/ LoopFlush \/ LoopWrite \/ TimerLate \/ TimerDeclare \/ Tick
  BY <1>8 DEF OperationComplete, LoopFlush, LoopWrite, TimerLate, TimerDeclare, Tick
<1>9. CASE UNCHANGED vars
  BY <1>9 DEF vars
<1> QED
  BY <1>1, <1>2, <1>3, <1>4, <1>5, <1>6, <1>7, <1>8, <1>9
     DEF Next, ExecuteRedisTask, FlushAll, Promote, TimerPing, Service!Next

\* Every request is refused, or accepted once and then answered at most once,
\* in order and with its own reply: the connection implements ReplyService.
THEOREM Implementation ==
  ASSUME Late = <<>>, Promotions = {}
  PROVE  Spec => ImplementsService
<1>1. Init => PipelineInv /\ Once
  BY InvInit, OnceInit
<1>2. PipelineInv /\ Once /\ [Next]_vars => PipelineInv' /\ Once'
  BY InvStep, OnceStep DEF PipelineInv
<1>3. PipelineInv /\ Once /\ [Next]_vars
        => [Service!Next]_<<taskQueue, answer, conn # "closed">>
  BY ServiceStep
<1> QED BY ServiceInit, <1>1, <1>2, <1>3, PTL DEF Spec, ImplementsService, Service!Spec

-----------------------------------------------------------------------------
(* AUTH and SELECT come first.                                               *)

\* No task of authAndSelect follows a request.
Ordered(q) ==
  \A k \in 1 .. Len(q) : q[k] \in Requests => \A n \in k .. Len(q) : q[n] \notin Range(Setup)

\* Only the loop sends them, and nothing is left in a closed channel.
SetupInv ==
  /\ Ordered(InFlight)
  /\ \A th \in Threads \ {Loop} : task[th] \notin Range(Setup)
  /\ conn = "closed" => wire = <<>> /\ outbound = <<>> /\ loopQueue = <<>>

LEMMA OrderedAppend ==
  ASSUME NEW q \in Seq(Tasks), NEW t \in Tasks, Ordered(q), t \notin Range(Setup)
  PROVE  Ordered(Append(q, t))
<1> DEFINE u == Append(q, t)
<1>1. /\ Len(u) = Len(q) + 1 /\ Len(q) \in Nat
      /\ \A k \in 1 .. Len(q) : u[k] = q[k]
      /\ u[Len(q) + 1] = t
  BY AppendProperties, LenProperties
<1> HIDE DEF u
<1>2. ASSUME NEW k \in 1 .. Len(u), u[k] \in Requests, NEW n \in k .. Len(u)
      PROVE  u[n] \notin Range(Setup)
  <2>1. CASE n = Len(q) + 1
    BY <1>1, <2>1
  <2>2. CASE n # Len(q) + 1
    <3>1. k \in 1 .. Len(q) /\ n \in k .. Len(q) /\ n \in 1 .. Len(q)
      BY <1>1, <1>2, <2>2
    <3> QED BY <1>1, <1>2, <3>1 DEF Ordered
  <2> QED BY <2>1, <2>2
<1>3. Ordered(u)
  BY <1>2 DEF Ordered
<1> QED BY <1>3 DEF u

LEMMA OrderedTail ==
  ASSUME NEW q \in Seq(Tasks), Ordered(q), q # <<>>
  PROVE  Ordered(Tail(q))
<1> DEFINE u == Tail(q)
<1>1. /\ Len(u) = Len(q) - 1 /\ Len(q) \in Nat
      /\ \A k \in 1 .. Len(u) : u[k] = q[k + 1]
  BY HeadTailProperties, LenProperties
<1> HIDE DEF u
<1>2. ASSUME NEW k \in 1 .. Len(u), u[k] \in Requests, NEW n \in k .. Len(u)
      PROVE  u[n] \notin Range(Setup)
  <2>1. k + 1 \in 1 .. Len(q) /\ n + 1 \in k + 1 .. Len(q) /\ n \in 1 .. Len(u)
    BY <1>1, <1>2
  <2>2. u[n] = q[n + 1] /\ u[k] = q[k + 1]
    BY <1>1, <2>1
  <2> QED BY <1>2, <2>1, <2>2 DEF Ordered
<1>3. Ordered(u)
  BY <1>2 DEF Ordered
<1> QED BY <1>3 DEF u

LEMMA OrderedEnd ==
  ASSUME NEW s \in Seq(Tasks), NEW q \in Seq(Tasks), Ordered(s \o q)
  PROVE  Ordered(q)
<1> DEFINE u == s \o q
<1>1. /\ Len(u) = Len(s) + Len(q) /\ Len(s) \in Nat /\ Len(q) \in Nat
      /\ \A k \in 1 .. Len(s) + Len(q) : u[k] = IF k <= Len(s) THEN s[k] ELSE q[k - Len(s)]
  BY ConcatProperties, LenProperties
<1>2. Ordered(u)
  OBVIOUS
<1> HIDE DEF u
<1>3. \A k \in 1 .. Len(q) : Len(s) + k \in 1 .. Len(u) /\ u[Len(s) + k] = q[k]
  <2> SUFFICES ASSUME NEW k \in 1 .. Len(q)
               PROVE  Len(s) + k \in 1 .. Len(u) /\ u[Len(s) + k] = q[k]
    OBVIOUS
  <2>1. Len(s) + k \in 1 .. Len(s) + Len(q) /\ ~(Len(s) + k <= Len(s)) /\ Len(s) + k - Len(s) = k
    BY <1>1
  <2> QED BY <1>1, <2>1
<1>4. ASSUME NEW k \in 1 .. Len(q), q[k] \in Requests, NEW n \in k .. Len(q)
      PROVE  q[n] \notin Range(Setup)
  <2>1. n \in 1 .. Len(q) /\ Len(s) + n \in Len(s) + k .. Len(u)
    BY <1>1, <1>4
  <2> QED BY <1>2, <1>3, <1>4, <2>1 DEF Ordered
<1> QED BY <1>4 DEF Ordered

LEMMA NoRequestsOrdered ==
  ASSUME NEW q \in Seq(Tasks \ Requests)
  PROVE  Ordered(q)
<1>1. \A k \in 1 .. Len(q) : q[k] \notin Requests
  BY ElementOfSeq
<1> QED BY <1>1 DEF Ordered

\* While the connection starts, no request is in flight.
LEMMA StartingNoRequests == PipelineInv /\ Starting => InFlight \in Seq(Tasks \ Requests)
<1> SUFFICES ASSUME PipelineInv, Starting PROVE InFlight \in Seq(Tasks \ Requests)
  OBVIOUS
<1> USE DEF PipelineInv
<1>1. conn # "closed"
  BY DEF Starting, Startup
<1>2. taskQueue \in Seq(Tasks \ Requests) /\ Agree(taskQueue, InFlight \o Arriving)
  BY <1>1 DEF Startup, QueuesAligned
<1>3. InFlight \in Seq(Tasks) /\ Arriving \in Seq(Tasks)
  BY InFlightType, ArrivingType
<1>4. InFlight \o Arriving \in Seq(Tasks \ Requests)
  BY <1>2, <1>3, ConcatProperties, AgreeSpreadsNoRequests
<1> QED BY <1>3, <1>4, PartsOfConcat

LEMMA StartingOrdered == PipelineInv /\ Starting => Ordered(InFlight)
BY StartingNoRequests, NoRequestsOrdered

LEMMA StartingOrderedNext == (PipelineInv /\ Starting => Ordered(InFlight))'
BY StartingOrdered, PTL

\* What is in flight on a closed channel: the messages that nobody has drained.
LEMMA ClosedFlight ==
  ASSUME TypeOK, wire = <<>>, outbound = <<>>, loopQueue = <<>>
  PROVE  InFlight = bufferQueue
<1>1. Messages(<<>>) = <<>>
  <2>1. <<>> \in Seq(Writes) /\ Len(<<>>) = 0
    BY EmptySeq
  <2>2. Messages(<<>>) \in Seq(Tasks) /\ Len(Messages(<<>>)) = 0
    BY <2>1, MessagesType
  <2> QED BY <2>2, EmptySeq
<1>2. <<>> \in Seq(Tasks) /\ <<>> \o <<>> = <<>> /\ <<>> \o bufferQueue = bufferQueue
  BY EmptySeq, ConcatEmptySeq DEF TypeOK
<1> QED BY <1>1, <1>2 DEF InFlight

LEMMA ClosedFlightNext ==
  (TypeOK /\ wire = <<>> /\ outbound = <<>> /\ loopQueue = <<>> => InFlight = bufferQueue)'
<1>1. TypeOK /\ wire = <<>> /\ outbound = <<>> /\ loopQueue = <<>> => InFlight = bufferQueue
  BY ClosedFlight
<1> QED BY <1>1, PTL

LEMMA SetupInit == Init => SetupInv
<1> SUFFICES ASSUME Init PROVE SetupInv
  OBVIOUS
<1>1. TypeOK
  BY TypeInit
<1>2. InFlight = <<>>
  BY <1>1, ClosedFlight DEF Init
<1>3. <<>> \in Seq(Tasks \ Requests)
  BY EmptySeq
<1>4. Ordered(InFlight)
  BY <1>2, <1>3, NoRequestsOrdered
<1>5. NoTask \notin Range(Setup)
  BY TasksAssumption DEF Tasks
<1> QED BY <1>4, <1>5 DEF Init, SetupInv

\* No thread but the loop takes a task of authAndSelect.
LEMMA SetupTasks ==
  ASSUME Promotions = {}, TypeOK, Startup, [Next]_vars, NEW u \in Threads \ {Loop},
         task[u] \notin Range(Setup)
  PROVE  task'[u] \notin Range(Setup)
<1> USE DEF threadVars, lockVars, queueVars, connVars, nettyVars, clientVars, watchVars
<1>1. /\ NoTask \notin Range(Setup)
      /\ \A t \in Requests \cup FlushAlls \cup Pings : t \notin Range(Setup)
  BY TasksAssumption, KindsAssumption DEF Tasks
<1>2. ASSUME NEW th \in Threads, NEW t, Enter(th, t), t \notin Range(Setup)
      PROVE  task'[u] \notin Range(Setup)
  BY <1>2 DEF Enter, TypeOK
<1>3. ASSUME NEW c \in Callers, NEW r \in Requests, ExecuteRedisTask(c, r)
      PROVE  task'[u] \notin Range(Setup)
  BY <1>1, <1>2, <1>3 DEF ExecuteRedisTask, Issue, Threads
<1>4. ASSUME NEW c \in Callers, NEW f \in FlushAlls, FlushAll(c, f)
      PROVE  task'[u] \notin Range(Setup)
  BY <1>1, <1>2, <1>4 DEF FlushAll, Issue, Threads
<1>5. ASSUME NEW p \in Pings, TimerPing(p)
      PROVE  task'[u] \notin Range(Setup)
  BY <1>1, <1>2, <1>5 DEF TimerPing, Issue, Threads
<1>6. ASSUME NEW th \in Threads, PipelineWrite(th)
      PROVE  task'[u] \notin Range(Setup)
  <2>1. task' = task \/ task' = [task EXCEPT ![th] = NoTask]
    BY <1>6 DEF PipelineWrite, AddTask, AddMessage, TryLock, Drain, DrainToNull, DrainEnd,
       Unlock, LastFlush
  <2> QED BY <1>1, <2>1 DEF TypeOK
<1>7. CASE OperationComplete
  BY <1>7 DEF OperationComplete, Enter, TypeOK
<1>8. ASSUME task' = task PROVE task'[u] \notin Range(Setup)
  BY <1>8
<1>9. ASSUME NEW c \in Callers, NEW r \in Requests, RefuseRedisTask(c, r)
      PROVE  task'[u] \notin Range(Setup)
  BY <1>8, <1>9 DEF RefuseRedisTask
<1>10. CASE Connect \/ LoopFlush \/ LoopWrite \/ ChannelRead \/ ChannelInactive \/ TimerLate
            \/ TimerDeclare \/ Tick \/ UNCHANGED vars
  BY <1>8, <1>10 DEF Connect, LoopFlush, LoopWrite, ChannelRead, ChannelInactive, TimerLate,
     TimerDeclare, Tick, vars
<1> QED
  BY <1>3, <1>4, <1>5, <1>6, <1>7, <1>9, <1>10 DEF Next

\* Nothing is written to a closed channel.
LEMMA ClosedStep ==
  ASSUME TypeOK, Startup, [Next]_vars,
         conn = "closed" => wire = <<>> /\ outbound = <<>> /\ loopQueue = <<>>
  PROVE  conn' = "closed" => wire' = <<>> /\ outbound' = <<>> /\ loopQueue' = <<>>
<1> USE DEF threadVars, lockVars, queueVars, connVars, nettyVars, clientVars, watchVars
<1>1. ASSUME conn' = conn, conn = "closed" => UNCHANGED nettyVars
      PROVE  conn' = "closed" => wire' = <<>> /\ outbound' = <<>> /\ loopQueue' = <<>>
  BY <1>1
<1>2. CASE ChannelInactive
  BY <1>2 DEF ChannelInactive
<1>3. CASE Connect
  BY <1>3 DEF Connect
<1>4. ASSUME NEW th \in Threads, PipelineWrite(th)
      PROVE  conn' = conn /\ (conn = "closed" => UNCHANGED nettyVars)
  <2>1. CASE Drain(th)
    BY <2>1 DEF Drain, Write
  <2>2. CASE LastFlush(th)
    BY <2>2 DEF LastFlush, Flush
  <2>3. CASE ~Drain(th) /\ ~LastFlush(th)
    BY <1>4, <2>3 DEF PipelineWrite, AddTask, AddMessage, TryLock, DrainToNull, DrainEnd, Unlock
  <2> QED BY <2>1, <2>2, <2>3
<1>5. CASE LoopFlush \/ LoopWrite \/ ChannelRead
  BY <1>5 DEF LoopFlush, LoopWrite, ChannelRead, LoopFree
<1>6. ASSUME NEW th, NEW t, Issue(th, t) PROVE conn' = conn /\ UNCHANGED nettyVars
  BY <1>6 DEF Issue
<1>7. ASSUME NEW c \in Callers, NEW r \in Requests, RefuseRedisTask(c, r)
      PROVE  conn' = conn /\ UNCHANGED nettyVars
  BY <1>7 DEF RefuseRedisTask
<1>8. CASE OperationComplete \/ TimerLate \/ TimerDeclare \/ Tick \/ UNCHANGED vars
  BY <1>8 DEF OperationComplete, TimerLate, TimerDeclare, Tick, vars
<1> QED
  BY <1>1, <1>2, <1>3, <1>4, <1>5, <1>6, <1>7, <1>8
     DEF Next, ExecuteRedisTask, FlushAll, Promote, TimerPing

\* Once the connection is offered, what is in flight only loses its first
\* messages and gets new last ones, which are none of authAndSelect.
LEMMA OrderedStep ==
  ASSUME PipelineInv, PipelineInv', SetupInv, [Next]_vars
  PROVE  Ordered(InFlight)'
<1> USE DEF threadVars, lockVars, queueVars, connVars, nettyVars, clientVars, watchVars,
            PipelineInv
<1>1. CASE Starting'
  BY <1>1, StartingOrderedNext
<1>2. CASE ~Starting'
  <2>1. ASSUME InFlight' = InFlight PROVE Ordered(InFlight)'
    BY <2>1 DEF SetupInv, Ordered
  <2>2. ASSUME UNCHANGED queueVars, UNCHANGED nettyVars PROVE Ordered(InFlight)'
    <3>1. InFlight' = InFlight
      BY <2>2 DEF InFlight
    <3> QED BY <2>1, <3>1
  <2>3. ASSUME NEW th, NEW t, Issue(th, t) PROVE Ordered(InFlight)'
    BY <2>2, <2>3 DEF Issue
  <2>4. ASSUME NEW c \in Callers, NEW r \in Requests, RefuseRedisTask(c, r)
        PROVE  Ordered(InFlight)'
    BY <2>2, <2>4 DEF RefuseRedisTask
  <2>5. ASSUME NEW th \in Threads, PipelineWrite(th) PROVE Ordered(InFlight)'
    <3>1. pc[th] # "idle" /\ conn' = conn /\ todo' = todo
      BY <2>5 DEF PipelineWrite, AddTask, AddMessage, TryLock, Drain, DrainToNull,
                  DrainEnd, Unlock, LastFlush
    <3>2. th # Loop /\ conn # "connecting"
      BY <1>2, <3>1 DEF Startup, Starting
    <3>3. CASE AddMessage(th)
      <4>1. InFlight' = Append(InFlight, task[th]) /\ task[th] \in Tasks
        BY <3>3, FlightAddMessage
      <4>2. InFlight \in Seq(Tasks) /\ task[th] \notin Range(Setup) /\ Ordered(InFlight)
        BY <3>2, InFlightType DEF SetupInv
      <4>3. Ordered(Append(InFlight, task[th]))
        BY <4>1, <4>2, OrderedAppend
      <4> QED BY <4>1, <4>3 DEF Ordered
    <3>4. CASE Drain(th)
      <4>1. /\ bufferQueue # <<>> /\ bufferQueue' = Tail(bufferQueue)
            /\ Write(th, Head(bufferQueue), i[th] + 1 = BatchSize)
        BY <3>4 DEF Drain
      <4>2. CASE conn # "closed"
        <5>1. (i[th] + 1 = BatchSize) \in BOOLEAN
          OBVIOUS
        <5> QED BY <2>1, <3>2, <4>1, <4>2, <5>1, FlightWrite
      <4>3. CASE conn = "closed"
        <5>1. UNCHANGED nettyVars /\ wire = <<>> /\ outbound = <<>> /\ loopQueue = <<>>
          BY <4>1, <4>3 DEF Write, SetupInv
        <5>2. InFlight = bufferQueue /\ InFlight' = bufferQueue'
          BY <5>1, ClosedFlight, ClosedFlightNext
        <5>3. bufferQueue \in Seq(Tasks) /\ Ordered(bufferQueue)
          BY <5>2 DEF SetupInv, TypeOK, Ordered
        <5>4. Ordered(Tail(bufferQueue))
          BY <4>1, <5>3, OrderedTail
        <5> QED BY <4>1, <5>2, <5>4 DEF Ordered
      <4> QED BY <4>2, <4>3
    <3>5. CASE LastFlush(th)
      <4>1. CASE conn # "closed"
        BY <2>1, <3>5, <4>1, FlightFlush DEF LastFlush
      <4>2. CASE conn = "closed"
        BY <2>2, <3>5, <4>2 DEF LastFlush, Flush
      <4> QED BY <4>1, <4>2
    <3>6. CASE AddTask(th) \/ TryLock(th) \/ DrainEnd(th) \/ Unlock(th)
      <4>1. InFlight' = InFlight
        BY <3>6 DEF AddTask, TryLock, DrainEnd, Unlock, InFlight
      <4> QED BY <2>1, <4>1
    <3>7. ~DrainToNull(th)
      BY <3>2 DEF DrainToNull
    <3> QED BY <2>5, <3>3, <3>4, <3>5, <3>6, <3>7 DEF PipelineWrite
  <2>6. CASE LoopFlush
    BY <2>1, <2>6, FlightLoopFlush
  <2>7. CASE LoopWrite
    BY <2>1, <2>7, FlightLoopWrite
  <2>8. CASE ChannelRead
    <3>1. InFlight # <<>> /\ InFlight' = Tail(InFlight)
      BY <2>8, FlightRead
    <3>2. Ordered(Tail(InFlight))
      BY <3>1, InFlightType, OrderedTail DEF SetupInv
    <3> QED BY <3>1, <3>2 DEF Ordered
  <2>9. CASE ChannelInactive
    <3>1. InFlight' = bufferQueue' /\ bufferQueue' = bufferQueue
      BY <2>9, ClosedFlightNext DEF ChannelInactive
    <3>2. /\ wire \o outbound \o Messages(loopQueue) \in Seq(Tasks) /\ bufferQueue \in Seq(Tasks)
          /\ Ordered(wire \o outbound \o Messages(loopQueue) \o bufferQueue)
      BY InFlightType DEF TypeOK, SetupInv, InFlight, Ordered
    <3>3. Ordered(bufferQueue)
      BY <3>2, OrderedEnd
    <3> QED BY <3>1, <3>3 DEF Ordered
  <2>10. CASE Connect \/ OperationComplete \/ TimerLate \/ TimerDeclare \/ Tick \/ UNCHANGED vars
    BY <2>2, <2>10 DEF Connect, OperationComplete, TimerLate, TimerDeclare, Tick, vars
  <2> QED
    BY <2>3, <2>4, <2>5, <2>6, <2>7, <2>8, <2>9, <2>10
       DEF Next, ExecuteRedisTask, FlushAll, Promote, TimerPing
<1> QED BY <1>1, <1>2

LEMMA SetupStep ==
  ASSUME Promotions = {}
  PROVE  PipelineInv /\ PipelineInv' /\ SetupInv /\ [Next]_vars => SetupInv'
<1> SUFFICES ASSUME PipelineInv, PipelineInv', SetupInv, [Next]_vars PROVE SetupInv'
  OBVIOUS
<1>1. Ordered(InFlight)'
  BY OrderedStep
<1>2. \A u \in Threads \ {Loop} : task'[u] \notin Range(Setup)
  BY SetupTasks DEF PipelineInv, SetupInv
<1>3. conn' = "closed" => wire' = <<>> /\ outbound' = <<>> /\ loopQueue' = <<>>
  BY ClosedStep DEF PipelineInv, SetupInv
<1> QED BY <1>1, <1>2, <1>3 DEF SetupInv

\* AUTH and SELECT are in flight ahead of every request, and no request is in
\* flight as long as operationComplete has still to send one of them.
THEOREM SetupBeforeRequests ==
  ASSUME Late = <<>>, Promotions = {}
  PROVE  Spec => []SetupFirst
<1>1. Init => PipelineInv /\ SetupInv
  BY InvInit, SetupInit
<1>2. PipelineInv /\ SetupInv /\ [Next]_vars => (PipelineInv /\ SetupInv)'
  BY InvStep, SetupStep
<1>3. PipelineInv /\ SetupInv => SetupFirst
  <2> SUFFICES ASSUME PipelineInv, SetupInv, NEW k \in 1 .. Len(InFlight), InFlight[k] \in Requests
               PROVE  /\ \A n \in k .. Len(InFlight) : InFlight[n] \notin Range(Setup)
                      /\ Range(todo) \cap Range(Setup) = {}
    BY DEF SetupFirst
  <2>1. \A n \in k .. Len(InFlight) : InFlight[n] \notin Range(Setup)
    BY DEF SetupInv, Ordered
  <2>2. ~Starting
    BY StartingNoRequests, ElementOfSeq
  <2>3. todo = <<>>
    BY <2>2 DEF Starting
  <2>4. Range(todo) = {}
    BY <2>3 DEF Range
  <2> QED BY <2>1, <2>4
<1> QED BY <1>1, <1>2, <1>3, PTL DEF Spec

-----------------------------------------------------------------------------
(* No message is forgotten in the channel.                                   *)

\* Is a message left that no flush called so far will send?  (Unflushed > 0)
LeftUnflushed ==
  IF loopQueue # <<>> THEN ~loopQueue[Len(loopQueue)].flush
  ELSE ~flushFirst /\ outbound # <<>>

\* The thread has still to flush what it counts in its i.
WillFlush(th) == pc[th] \in {"drain", "unlock", "flush"} /\ i[th] > 0

\* Somebody will flush the end of the loop's queue, the loop itself or not the
\* rest: a flush of the loop does not reach what is queued to the loop.
FlushInv ==
  /\ conn # "open" => outbound = <<>> /\ loopQueue = <<>>
  /\ loopQueue # <<>> /\ ~loopQueue[Len(loopQueue)].flush =>
       \E th \in Threads \ {Loop} : WillFlush(th)
  /\ (\A k \in DOMAIN loopQueue : ~loopQueue[k].flush) /\ ~flushFirst /\ outbound # <<>> =>
       \E th \in Threads : WillFlush(th)

\* A step after which whoever had to flush still has to.
LEMMA FlushersStay ==
  ASSUME FlushInv, loopQueue' = loopQueue, flushFirst' = flushFirst, outbound' = outbound,
         conn' = conn,
         \A th \in Threads : WillFlush(th) => pc'[th] \in {"drain", "unlock", "flush"} /\ i'[th] > 0
  PROVE  FlushInv'
BY DEF FlushInv, WillFlush

\* The same for the step of one thread, when its channel is open.
LEMMA OneFlusherStays ==
  ASSUME TypeOK, FlushInv, NEW th \in Threads, loopQueue' = loopQueue, flushFirst' = flushFirst,
         outbound' = outbound, conn' = conn,
         \A u \in Threads \ {th} : pc'[u] = pc[u] /\ i'[u] = i[u],
         WillFlush(th) => pc'[th] \in {"drain", "unlock", "flush"} /\ i'[th] > 0
  PROVE  FlushInv'
<1>1. \A u \in Threads : WillFlush(u) => pc'[u] \in {"drain", "unlock", "flush"} /\ i'[u] > 0
  BY DEF WillFlush
<1> QED BY <1>1, FlushersStay

LEMMA FlushInit == Init => FlushInv
BY DEF Init, FlushInv

\* The last write of a queue, after one is added, marked or taken.
LEMMA LastOfAppend ==
  ASSUME NEW q \in Seq(Writes), NEW w \in Writes
  PROVE  LET u == Append(q, w) IN
           u # <<>> /\ Len(u) \in DOMAIN u /\ u[Len(u)] = w
<1> DEFINE u == Append(q, w)
<1>1. u \in Seq(Writes) /\ Len(u) = Len(q) + 1 /\ u[Len(q) + 1] = w /\ Len(q) \in Nat
  BY AppendProperties, LenProperties
<1>2. DOMAIN u = 1 .. Len(u)
  BY <1>1, LenProperties
<1> HIDE DEF u
<1>3. u # <<>> /\ Len(u) \in DOMAIN u /\ u[Len(u)] = w
  BY <1>1, <1>2
<1> QED BY <1>3 DEF u

LEMMA LastOfMarked ==
  ASSUME NEW q \in Seq(Writes), q # <<>>
  PROVE  LET u == [q EXCEPT ![Len(q)].flush = TRUE] IN
           u # <<>> /\ Len(u) \in DOMAIN u /\ u[Len(u)].flush
<1> DEFINE u == [q EXCEPT ![Len(q)].flush = TRUE]
<1>1. Len(q) \in DOMAIN q /\ Len(q) \in Nat \ {0} /\ q[Len(q)] \in Writes
  BY EmptySeq, LenProperties, ElementOfSeq
<1>2. u[Len(q)].flush
  BY <1>1 DEF Writes
<1>3. u \in Seq(Writes) /\ Len(u) = Len(q) /\ DOMAIN u = DOMAIN q
  BY MarkLast
<1> HIDE DEF u
<1>4. u # <<>> /\ Len(u) \in DOMAIN u /\ u[Len(u)].flush
  BY <1>1, <1>2, <1>3
<1> QED BY <1>4 DEF u

LEMMA TailUnmarked ==
  ASSUME NEW q \in Seq(Writes), q # <<>>
  PROVE  /\ Len(q) \in DOMAIN q
         /\ Tail(q) # <<>> => Tail(q)[Len(Tail(q))] = q[Len(q)]
         /\ (\A k \in DOMAIN Tail(q) : ~Tail(q)[k].flush) /\ ~Head(q).flush
              => \A k \in DOMAIN q : ~q[k].flush
<1> DEFINE u == Tail(q)
<1>1. /\ u \in Seq(Writes) /\ Len(u) = Len(q) - 1 /\ Len(q) \in Nat \ {0} /\ Head(q) = q[1]
      /\ \A k \in 1 .. Len(u) : u[k] = q[k + 1]
  BY HeadTailProperties, EmptySeq
<1>2. DOMAIN u = 1 .. Len(u) /\ DOMAIN q = 1 .. Len(q)
  BY <1>1, LenProperties
<1> HIDE DEF u
<1>3. ASSUME u # <<>> PROVE u[Len(u)] = q[Len(q)]
  <2>1. Len(u) \in Nat \ {0}
    BY <1>1, <1>3, EmptySeq
  <2> QED BY <1>1, <2>1
<1>4. ASSUME \A k \in DOMAIN u : ~u[k].flush, ~Head(q).flush, NEW k \in DOMAIN q
      PROVE  ~q[k].flush
  <2>1. CASE k = 1
    BY <1>1, <1>4, <2>1
  <2>2. CASE k # 1
    <3>1. k - 1 \in 1 .. Len(u) /\ (k - 1) + 1 = k
      BY <1>1, <1>2, <2>2
    <3>2. u[k - 1] = q[k]
      BY <1>1, <3>1
    <3> QED BY <1>2, <1>4, <3>1, <3>2
  <2> QED BY <2>1, <2>2
<1>5. Len(q) \in DOMAIN q
  BY <1>1, <1>2
<1> QED BY <1>3, <1>4, <1>5 DEF u

LEMMA DrainFlush ==
  ASSUME TypeOK, FlushInv, NEW th \in Threads, Drain(th)
  PROVE  FlushInv'
<1> DEFINE f == i[th] + 1 = BatchSize
           m == Head(bufferQueue)
<1>1. /\ pc' = pc /\ conn' = conn /\ conn # "connecting" /\ Write(th, m, f)
      /\ i' = [i EXCEPT ![th] = IF f THEN 0 ELSE i[th] + 1] /\ pc[th] = "drain"
  BY DEF Drain, connVars
<1>2. m \in Tasks /\ i[th] \in Nat /\ f \in BOOLEAN
  BY HeadTailProperties, BatchAssumption DEF Drain, TypeOK
<1>3. /\ \A u \in Threads \ {th} : i'[u] = i[u]
      /\ i'[th] = IF f THEN 0 ELSE i[th] + 1
  BY <1>1 DEF TypeOK
<1>4. ~f => pc'[th] \in {"drain", "unlock", "flush"} /\ i'[th] > 0
  BY <1>1, <1>2, <1>3
<1> HIDE DEF f, m
<1>5. CASE conn = "closed"
  <2>1. loopQueue' = <<>> /\ outbound' = <<>>
    BY <1>1, <1>5 DEF Write, nettyVars, FlushInv
  <2> QED BY <2>1 DEF FlushInv
<1>6. CASE conn = "open" /\ th = Loop
  <2>1. /\ loopQueue' = loopQueue /\ flushFirst' = flushFirst
        /\ f => outbound' = <<>>
    BY <1>1, <1>6 DEF Write
  <2>2. \A u \in Threads \ {Loop} : WillFlush(u) => WillFlush(u)'
    BY <1>1, <1>3, <1>6 DEF WillFlush
  <2>3. ~f => WillFlush(Loop)'
    BY <1>4, <1>6 DEF WillFlush
  <2>4. Loop \in Threads
    BY DEF Threads
  <2> QED BY <1>1, <1>6, <2>1, <2>2, <2>3, <2>4 DEF FlushInv
<1>7. CASE conn = "open" /\ th # Loop
  <2> DEFINE w == [message |-> m, flush |-> f]
  <2>1. loopQueue' = Append(loopQueue, w) /\ outbound' = outbound /\ flushFirst' = flushFirst
    BY <1>1, <1>7 DEF Write
  <2>2. w \in Writes /\ w.flush = f
    BY <1>2 DEF Writes
  <2> HIDE DEF w
  <2>3. loopQueue' # <<>> /\ Len(loopQueue') \in DOMAIN loopQueue' /\ loopQueue'[Len(loopQueue')] = w
    BY <2>1, <2>2, LastOfAppend DEF TypeOK, Writes
  <2>4. ~f => WillFlush(th)'
    BY <1>4 DEF WillFlush
  <2> QED BY <1>1, <1>7, <2>2, <2>3, <2>4 DEF FlushInv
<1> QED BY <1>1, <1>5, <1>6, <1>7 DEF TypeOK

LEMMA LastFlushFlush ==
  ASSUME TypeOK, FlushInv, NEW th \in Threads, LastFlush(th)
  PROVE  FlushInv'
<1>1. /\ conn' = conn /\ Flush(th) /\ pc' = [pc EXCEPT ![th] = "idle"] /\ i' = [i EXCEPT ![th] = 0]
  BY DEF LastFlush, connVars
<1>2. \A u \in Threads \ {th} : WillFlush(u) => WillFlush(u)'
  BY <1>1 DEF WillFlush, TypeOK
<1>3. CASE conn = "closed"
  BY <1>1, <1>3 DEF Flush, nettyVars, FlushInv
<1>4. CASE conn # "closed" /\ th = Loop
  <2>1. loopQueue' = loopQueue /\ outbound' = <<>>
    BY <1>1, <1>4 DEF Flush
  <2> QED BY <1>1, <1>2, <1>4, <2>1 DEF FlushInv
<1>5. CASE conn # "closed" /\ th # Loop /\ loopQueue = <<>>
  <2>1. loopQueue' = loopQueue /\ flushFirst' = TRUE /\ outbound' = outbound
    BY <1>1, <1>5 DEF Flush
  <2> QED BY <1>1, <1>5, <2>1 DEF FlushInv
<1>6. CASE conn # "closed" /\ th # Loop /\ loopQueue # <<>>
  <2>1. loopQueue' = [loopQueue EXCEPT ![Len(loopQueue)].flush = TRUE]
        /\ outbound' = outbound /\ conn' = "open"
    BY <1>1, <1>6 DEF Flush, FlushInv, TypeOK
  <2>2. /\ loopQueue' # <<>> /\ Len(loopQueue') \in DOMAIN loopQueue'
        /\ loopQueue'[Len(loopQueue')].flush
    BY <1>6, <2>1, LastOfMarked DEF TypeOK, Writes
  <2> QED BY <2>1, <2>2 DEF FlushInv
<1> QED BY <1>3, <1>4, <1>5, <1>6

LEMMA LoopWriteFlush ==
  ASSUME TypeOK, FlushInv, LoopWrite
  PROVE  FlushInv'
<1>1. /\ conn = "open" /\ conn' = conn /\ pc' = pc /\ i' = i /\ loopQueue # <<>>
      /\ loopQueue' = Tail(loopQueue) /\ flushFirst' = flushFirst
      /\ Head(loopQueue).flush => outbound' = <<>>
  BY DEF LoopWrite, LoopFree, connVars, threadVars
<1>2. /\ Len(loopQueue) \in DOMAIN loopQueue
      /\ loopQueue' # <<>> => loopQueue'[Len(loopQueue')] = loopQueue[Len(loopQueue)]
      /\ (\A k \in DOMAIN loopQueue' : ~loopQueue'[k].flush) /\ ~Head(loopQueue).flush
           => \A k \in DOMAIN loopQueue : ~loopQueue[k].flush
  BY <1>1, TailUnmarked DEF TypeOK, Writes
<1>3. ~loopQueue[Len(loopQueue)].flush => \E th \in Threads \ {Loop} : WillFlush(th)'
  BY <1>1 DEF FlushInv, WillFlush
<1> QED BY <1>1, <1>2, <1>3 DEF FlushInv

LEMMA FlushStep == TypeOK /\ FlushInv /\ [Next]_vars => FlushInv'
<1> SUFFICES ASSUME TypeOK, FlushInv, [Next]_vars PROVE FlushInv'
  OBVIOUS
<1> USE ThreadsAssumption
    DEF threadVars, lockVars, queueVars, connVars, nettyVars, clientVars, watchVars
<1>1. ASSUME NEW th \in Threads, NEW t, Enter(th, t), UNCHANGED nettyVars, conn' = conn
      PROVE  FlushInv'
  BY <1>1, OneFlusherStays DEF Enter, WillFlush, TypeOK
<1>2. ASSUME NEW th \in Threads, NEW t, Issue(th, t) PROVE FlushInv'
  BY <1>1, <1>2 DEF Issue
<1>3. ASSUME pc' = pc, i' = i, UNCHANGED nettyVars, conn' = conn PROVE FlushInv'
  BY <1>3, FlushersStay DEF WillFlush
<1>4. ASSUME NEW c \in Callers, NEW r \in Requests, RefuseRedisTask(c, r) PROVE FlushInv'
  BY <1>3, <1>4 DEF RefuseRedisTask
<1>5. ASSUME NEW th \in Threads, PipelineWrite(th) PROVE FlushInv'
  <2>1. CASE AddTask(th)
    BY <2>1, OneFlusherStays DEF AddTask, WillFlush, TypeOK
  <2>2. CASE AddMessage(th)
    BY <2>2, OneFlusherStays DEF AddMessage, WillFlush, TypeOK
  <2>3. CASE TryLock(th)
    BY <2>3, OneFlusherStays DEF TryLock, WillFlush, TypeOK
  <2>4. CASE Drain(th)
    BY <2>4, DrainFlush
  <2>5. CASE DrainToNull(th)
    BY <2>5 DEF DrainToNull, FlushInv
  <2>6. CASE DrainEnd(th)
    BY <2>6, OneFlusherStays DEF DrainEnd, WillFlush, TypeOK
  <2>7. CASE Unlock(th)
    BY <2>7, OneFlusherStays DEF Unlock, WillFlush, TypeOK
  <2>8. CASE LastFlush(th)
    BY <2>8, LastFlushFlush
  <2> QED BY <1>5, <2>1, <2>2, <2>3, <2>4, <2>5, <2>6, <2>7, <2>8 DEF PipelineWrite
<1>6. CASE Connect
  BY <1>6 DEF Connect, FlushInv
<1>7. CASE OperationComplete
  BY <1>1, <1>3, <1>7 DEF OperationComplete, Threads
<1>8. CASE LoopFlush
  <2>1. outbound' = <<>> /\ UNCHANGED <<pc, i, conn, loopQueue>>
    BY <1>8 DEF LoopFlush
  <2> QED BY <2>1 DEF FlushInv, WillFlush
<1>9. CASE LoopWrite
  BY <1>9, LoopWriteFlush
<1>10. CASE ChannelRead
  BY <1>10, FlushersStay DEF ChannelRead, WillFlush
<1>11. CASE ChannelInactive
  BY <1>11 DEF ChannelInactive, FlushInv
<1>12. CASE TimerLate
  <2>1. Timer \in Threads
    BY DEF Threads
  <2> QED BY <1>12, <2>1, OneFlusherStays DEF TimerLate, TimerRuns, WillFlush, TypeOK
<1>13. CASE TimerDeclare
  <2>1. Timer \in Threads
    BY DEF Threads
  <2> QED BY <1>13, <2>1, OneFlusherStays DEF TimerDeclare, WillFlush, TypeOK
<1>14. CASE Tick \/ UNCHANGED vars
  BY <1>3, <1>14 DEF Tick, vars
<1> QED
  BY <1>2, <1>4, <1>5, <1>6, <1>7, <1>8, <1>9, <1>10, <1>11, <1>12, <1>13, <1>14
     DEF Next, ExecuteRedisTask, FlushAll, Promote, TimerPing, Threads

\* A message is never left behind in the channel (l.173-187): as long as one is
\* written and no flush called so far will send it, a thread in pipelineWrite
\* counts in its i and will flush, whoever writes, flushes or fails meanwhile.
THEOREM NothingForgotten ==
  Spec => [](LeftUnflushed => \E th \in Threads : WillFlush(th))
<1>1. Init => TypeOK /\ FlushInv
  BY TypeInit, FlushInit
<1>2. TypeOK /\ FlushInv /\ [Next]_vars => (TypeOK /\ FlushInv)'
  BY TypeStep, FlushStep
<1>3. TypeOK /\ FlushInv => (LeftUnflushed => \E th \in Threads : WillFlush(th))
  BY DEF FlushInv, LeftUnflushed
<1> QED BY <1>1, <1>2, <1>3, PTL DEF Spec
-----------------------------------------------------------------------------
(* ... and the threads owe at least as many flushes as messages wait for one. *)

\* A nonempty set of the first n numbers has a greatest one.
LEMMA GreatestPlace ==
  ASSUME NEW n \in Nat, NEW S \in SUBSET (1 .. n), S # {}
  PROVE  Max(S) \in S /\ \A m \in S : m <= Max(S)
<1> DEFINE less == OpToRel(<, Nat)
           T == {n - m : m \in S}
<1>1. T \subseteq Nat
  <2>1. \A m \in S : n - m \in Nat
    OBVIOUS
  <2> QED BY <2>1
<1>2. T # {}
  OBVIOUS
<1>3. IsWellFoundedOn(less, Nat)
  BY NatLessThanWellFounded
<1>4. \A x, y \in Nat : x < y => <<x, y>> \in less
  BY DEF OpToRel
<1> HIDE DEF less, T
<1>5. PICK x \in T : \A y \in T : ~(<<y, x>> \in less)
  BY <1>1, <1>2, <1>3, WFMin
<1>6. PICK g \in S : x = n - g
  BY <1>5 DEF T
<1>7. ASSUME NEW m \in S PROVE g >= m
  <2>1. n - m \in T /\ n - m \in Nat /\ x \in Nat
    BY <1>1, <1>5 DEF T
  <2>2. ~(n - m < x)
    BY <1>4, <1>5, <2>1
  <2> QED BY <1>6, <2>2
<1>8. Max(S) \in S /\ \A m \in S : Max(S) >= m
  BY <1>7 DEF Max
<1> QED BY <1>8

\* What the threads other than the loop have still to flush: they queue their
\* writes and flushes to the loop, the loop's own take effect at once.
OwedByOthers == UNION {{th} \X (1 .. Owed(th)) : th \in Threads \ {Loop}}

UnmarkedAfter(q, k) == \A n \in k + 1 .. Len(q) : ~q[n].flush

\* The loop has still to be, or is, in a pipelineWrite of operationComplete.
LoopWrites == conn = "connecting" \/ todo # <<>> \/ pc[Loop] # "idle"

\* The end of netty's queue that no flush follows is owed by the other threads;
\* what the loop writes itself by the loop, which runs none of the queued writes
\* meanwhile; after that all of it is owed by the others.
QueueOwed ==
  \A k \in 0 .. Len(loopQueue) :
    UnmarkedAfter(loopQueue, k) => Len(loopQueue) - k <= Cardinality(OwedByOthers)
LoopOwes == LoopWrites => Len(outbound) <= Owed(Loop)
RestOwed ==
  UnmarkedAfter(loopQueue, 0) /\ ~flushFirst /\ ~LoopWrites =>
    Len(loopQueue) + Len(outbound) <= Cardinality(OwedByOthers)
ClosedEmpty == conn # "open" => outbound = <<>> /\ loopQueue = <<>>

OwedInv == IsFiniteSet(OwedByOthers) /\ ClosedEmpty /\ QueueOwed /\ LoopOwes /\ RestOwed

LEMMA OwedType == TypeOK => \A th \in Threads : Owed(th) \in Nat
BY BatchAssumption DEF TypeOK, Owed
LEMMA OwedTypeNext == TypeOK' => \A th \in Threads : Owed(th)' \in Nat
BY BatchAssumption DEF TypeOK, Owed

\* One thread's step leaves finitely many messages owed, and more of them if it
\* counts more.
LEMMA OthersFinite ==
  ASSUME TypeOK, TypeOK', IsFiniteSet(OwedByOthers), NEW th \in Threads,
         \A u \in Threads \ {th} : Owed(u)' = Owed(u)
  PROVE  IsFiniteSet(OwedByOthers')
<1> DEFINE mine == {th} \X (1 .. Owed(th)')
<1>1. Owed(th)' \in Nat
  BY OwedType, OwedTypeNext
<1>2. IsFiniteSet(1 .. Owed(th)') /\ IsFiniteSet({th})
  <2>1. \A n \in Nat : IsFiniteSet(1 .. n)
    BY FS_Interval
  <2> QED BY <1>1, <2>1, FS_Singleton
<1>3. IsFiniteSet(mine)
  BY <1>2, FS_Product
<1>4. IsFiniteSet(OwedByOthers \cup mine)
  BY <1>3, FS_Union
<1>5. OwedByOthers' \subseteq OwedByOthers \cup mine
  <2> SUFFICES ASSUME NEW u \in Threads \ {Loop}, NEW x \in {u} \X (1 .. Owed(u)')
               PROVE  x \in OwedByOthers \cup mine
    BY DEF OwedByOthers
  <2>1. CASE u = th
    BY <2>1
  <2>2. CASE u # th
    BY <2>2 DEF OwedByOthers
  <2> QED BY <2>1, <2>2
<1> QED BY <1>4, <1>5, FS_Subset

LEMMA OthersMore ==
  ASSUME TypeOK, TypeOK', IsFiniteSet(OwedByOthers'),
         \A u \in Threads \ {Loop} : Owed(u) <= Owed(u)'
  PROVE  Cardinality(OwedByOthers) <= Cardinality(OwedByOthers')
<1>1. OwedByOthers \subseteq OwedByOthers'
  <2> SUFFICES ASSUME NEW u \in Threads \ {Loop}, NEW x \in {u} \X (1 .. Owed(u))
               PROVE  x \in OwedByOthers'
    BY DEF OwedByOthers
  <2>1. Owed(u) \in Nat /\ Owed(u)' \in Nat
    BY OwedType, OwedTypeNext
  <2>2. x \in {u} \X (1 .. Owed(u)')
    BY <2>1
  <2> QED BY <2>2 DEF OwedByOthers
<1> QED BY <1>1, FS_Subset

\* A step that leaves netty's queues alone and after which nobody counts less.
LEMMA OwedStays ==
  ASSUME TypeOK, TypeOK', OwedInv, NEW th \in Threads,
         \A u \in Threads \ {th} : Owed(u)' = Owed(u),
         Owed(th) <= Owed(th)',
         loopQueue' = loopQueue, flushFirst' = flushFirst, outbound' = outbound,
         conn' = conn \/ conn = "connecting",
         LoopWrites' => LoopWrites,
         LoopWrites /\ ~LoopWrites' => outbound = <<>>
  PROVE  OwedInv'
<1>1. IsFiniteSet(OwedByOthers')
  BY OthersFinite DEF OwedInv
<1>2. \A u \in Threads : Owed(u) <= Owed(u)' /\ Owed(u) \in Nat /\ Owed(u)' \in Nat
  BY OwedType, OwedTypeNext
<1>3. /\ Cardinality(OwedByOthers) <= Cardinality(OwedByOthers')
      /\ Cardinality(OwedByOthers) \in Nat /\ Cardinality(OwedByOthers') \in Nat
  BY <1>1, <1>2, OthersMore, FS_CardinalityType DEF OwedInv
<1>4. Len(loopQueue) \in Nat /\ Len(outbound) \in Nat /\ Loop \in Threads
  BY LenProperties DEF TypeOK, Threads
<1>5. ClosedEmpty'
  BY DEF OwedInv, ClosedEmpty
<1>6. QueueOwed'
  BY <1>3, <1>4 DEF OwedInv, QueueOwed, UnmarkedAfter
<1>7. LoopOwes'
  BY <1>2, <1>4 DEF OwedInv, LoopOwes
<1>8. RestOwed'
  <2> SUFFICES ASSUME UnmarkedAfter(loopQueue, 0), ~flushFirst, ~LoopWrites'
               PROVE  Len(loopQueue) + Len(outbound) <= Cardinality(OwedByOthers')
    BY DEF RestOwed, UnmarkedAfter
  <2>1. CASE ~LoopWrites
    BY <1>3, <1>4, <2>1 DEF OwedInv, RestOwed
  <2>2. CASE LoopWrites
    <3>1. Len(outbound) = 0
      BY <2>2, EmptySeq
    <3>2. Len(loopQueue) - 0 <= Cardinality(OwedByOthers)
      BY <1>4 DEF OwedInv, QueueOwed
    <3> QED BY <1>3, <1>4, <3>1, <3>2
  <2> QED BY <2>1, <2>2
<1> QED BY <1>1, <1>5, <1>6, <1>7, <1>8 DEF OwedInv

\* Nothing is owed of an empty channel.
LEMMA OwedEmptied ==
  ASSUME TypeOK, TypeOK', OwedInv, NEW th \in Threads,
         \A u \in Threads \ {th} : Owed(u)' = Owed(u),
         loopQueue' = <<>>, outbound' = <<>>
  PROVE  OwedInv'
<1>1. IsFiniteSet(OwedByOthers')
  BY OthersFinite DEF OwedInv
<1>2. Cardinality(OwedByOthers') \in Nat /\ Owed(Loop)' \in Nat
  BY <1>1, FS_CardinalityType, OwedTypeNext DEF Threads
<1>3. Len(loopQueue') = 0 /\ Len(outbound') = 0
  BY EmptySeq
<1>4. ClosedEmpty' /\ LoopOwes' /\ RestOwed'
  BY <1>2, <1>3 DEF ClosedEmpty, LoopOwes, RestOwed
<1>5. QueueOwed'
  <2>1. \A k \in 0 .. 0 : 0 - k <= Cardinality(OwedByOthers')
    BY <1>2
  <2> QED BY <1>3, <2>1 DEF QueueOwed
<1> QED BY <1>1, <1>4, <1>5 DEF OwedInv

\* One turn of the loop of pipelineWrite, on a thread that is not the event loop.
LEMMA OwedQueued ==
  ASSUME TypeOK, TypeOK', OwedInv, NEW th \in Threads \ {Loop}, Drain(th), conn = "open"
  PROVE  OwedInv'
<1> DEFINE f == i[th] + 1 = BatchSize
           w == [message |-> Head(bufferQueue), flush |-> f]
           n == Len(loopQueue)
           more == Cardinality(OwedByOthers')
<1>1. /\ pc' = pc /\ conn' = conn /\ todo' = todo /\ pc[th] = "drain"
      /\ loopQueue' = Append(loopQueue, w) /\ outbound' = outbound /\ flushFirst' = flushFirst
      /\ i' = [i EXCEPT ![th] = IF f THEN 0 ELSE i[th] + 1]
  BY DEF Drain, Write, connVars
<1>2. /\ \A u \in Threads \ {th} : Owed(u)' = Owed(u)
      /\ Owed(th)' = IF f THEN 0 ELSE Owed(th) + 1
  BY <1>1 DEF Owed, TypeOK
<1>3. IsFiniteSet(OwedByOthers') /\ more \in Nat
  BY <1>2, OthersFinite, FS_CardinalityType DEF OwedInv
<1>4. Head(bufferQueue) \in Tasks
  BY HeadTailProperties DEF Drain, TypeOK
<1>5. w \in Writes /\ w.flush = f
  BY <1>4 DEF Writes
<1> HIDE DEF f, w
<1>6. /\ Len(loopQueue') = n + 1 /\ n \in Nat /\ Len(outbound) \in Nat
      /\ loopQueue'[n + 1] = w
      /\ \A k \in 1 .. n : loopQueue'[k] = loopQueue[k]
  <2>1. loopQueue \in Seq(Writes) /\ outbound \in Seq(Tasks)
    BY DEF TypeOK, Writes
  <2> QED BY <1>1, <1>5, <2>1, AppendProperties, LenProperties
<1>7. ClosedEmpty' /\ LoopOwes'
  BY <1>1, <1>2 DEF OwedInv, ClosedEmpty, LoopOwes, LoopWrites, Threads
<1> HIDE DEF n
<1>8. CASE f
  <2>1. \A k \in 0 .. n : ~UnmarkedAfter(loopQueue', k)
    <3>1. loopQueue'[n + 1].flush
      BY <1>6, <1>8, <1>5
    <3>2. \A k \in 0 .. n : n + 1 \in k + 1 .. Len(loopQueue')
      BY <1>6
    <3> QED BY <3>1, <3>2 DEF UnmarkedAfter
  <2>2. \A k \in 0 .. n + 1 : UnmarkedAfter(loopQueue', k) => (n + 1) - k <= more
    BY <1>3, <1>6, <2>1
  <2>3. QueueOwed'
    BY <1>6, <2>2 DEF QueueOwed
  <2>4. RestOwed'
    BY <1>6, <2>1 DEF RestOwed
  <2> QED BY <1>3, <1>7, <2>3, <2>4 DEF OwedInv
<1>9. CASE ~f
  <2>1. Cardinality(OwedByOthers) + 1 <= more /\ Cardinality(OwedByOthers) \in Nat
    <3> DEFINE x == <<th, Owed(th) + 1>>
    <3>1. \A u \in Threads : Owed(u) \in Nat
      BY OwedType
    <3>2. x \notin OwedByOthers
      BY <3>1 DEF OwedByOthers
    <3>3. x \in OwedByOthers'
      <4>1. x \in {th} \X (1 .. Owed(th)')
        BY <1>2, <1>9, <3>1
      <4> QED BY <4>1 DEF OwedByOthers
    <3>4. OwedByOthers \subseteq OwedByOthers'
      <4> SUFFICES ASSUME NEW u \in Threads \ {Loop}, NEW y \in {u} \X (1 .. Owed(u))
                   PROVE  y \in OwedByOthers'
        BY DEF OwedByOthers
      <4>1. y \in {u} \X (1 .. Owed(u)')
        BY <1>2, <1>9, <3>1
      <4> QED BY <4>1 DEF OwedByOthers
    <3> HIDE DEF x
    <3>5. IsFiniteSet(OwedByOthers \cup {x})
          /\ Cardinality(OwedByOthers \cup {x}) = Cardinality(OwedByOthers) + 1
      BY <3>2, FS_AddElement DEF OwedInv
    <3>6. OwedByOthers \cup {x} \subseteq OwedByOthers'
      BY <3>3, <3>4
    <3> QED BY <1>3, <3>5, <3>6, FS_Subset, FS_CardinalityType DEF OwedInv
  <2>2. \A k \in 0 .. n : UnmarkedAfter(loopQueue', k) => UnmarkedAfter(loopQueue, k)
    <3> SUFFICES ASSUME NEW k \in 0 .. n, UnmarkedAfter(loopQueue', k), NEW l \in k + 1 .. n
                 PROVE  ~loopQueue[l].flush
      BY DEF UnmarkedAfter, n
    <3>1. l \in 1 .. n /\ l \in k + 1 .. n + 1
      BY <1>6
    <3> QED BY <1>6, <3>1 DEF UnmarkedAfter
  <2>3. \A k \in 0 .. n : UnmarkedAfter(loopQueue', k) => n - k <= Cardinality(OwedByOthers)
    BY <2>2 DEF OwedInv, QueueOwed, n
  <2>4. \A k \in 0 .. n + 1 : UnmarkedAfter(loopQueue', k) => (n + 1) - k <= more
    BY <1>3, <1>6, <2>1, <2>3
  <2>5. QueueOwed'
    BY <1>6, <2>4 DEF QueueOwed
  <2>6. RestOwed'
    <3> SUFFICES ASSUME UnmarkedAfter(loopQueue', 0), ~flushFirst, ~LoopWrites'
                 PROVE  Len(loopQueue') + Len(outbound') <= more
      BY <1>1 DEF RestOwed
    <3>1. n + Len(outbound) <= Cardinality(OwedByOthers)
      BY <1>1, <1>6, <2>2 DEF OwedInv, RestOwed, LoopWrites, n
    <3> QED BY <1>1, <1>3, <1>6, <2>1, <3>1
  <2> QED BY <1>3, <1>7, <2>5, <2>6 DEF OwedInv
<1> QED BY <1>8, <1>9

\* The last flush of a pipelineWrite on a thread that is not the event loop.
LEMMA OwedMarked ==
  ASSUME TypeOK, TypeOK', OwedInv, NEW th \in Threads \ {Loop}, LastFlush(th), conn = "open"
  PROVE  OwedInv'
<1> DEFINE n == Len(loopQueue)
           more == Cardinality(OwedByOthers')
<1>1. /\ conn' = conn /\ todo' = todo /\ pc' = [pc EXCEPT ![th] = "idle"]
      /\ i' = [i EXCEPT ![th] = 0] /\ Flush(th) /\ outbound' = outbound
  BY DEF LastFlush, Flush, connVars
<1>2. /\ \A u \in Threads \ {th} : Owed(u)' = Owed(u) /\ pc'[u] = pc[u]
  BY <1>1 DEF Owed, TypeOK
<1>3. IsFiniteSet(OwedByOthers') /\ more \in Nat
  BY <1>2, OthersFinite, FS_CardinalityType DEF OwedInv
<1>4. ClosedEmpty' /\ LoopOwes'
  BY <1>1, <1>2 DEF OwedInv, ClosedEmpty, LoopOwes, LoopWrites, Threads
<1>5. CASE loopQueue = <<>>
  <2>1. loopQueue' = <<>> /\ flushFirst' = TRUE
    BY <1>1, <1>5 DEF Flush
  <2>2. \A k \in 0 .. 0 : 0 - k <= more
    BY <1>3
  <2>3. QueueOwed' /\ RestOwed'
    BY <2>1, <2>2, EmptySeq DEF QueueOwed, RestOwed
  <2> QED BY <1>3, <1>4, <2>3 DEF OwedInv
<1>6. CASE loopQueue # <<>>
  <2>1. loopQueue' = [loopQueue EXCEPT ![n].flush = TRUE]
    BY <1>1, <1>6 DEF Flush
  <2>2. loopQueue \in Seq(Writes)
    BY DEF TypeOK, Writes
  <2>3. /\ loopQueue' # <<>> /\ Len(loopQueue') \in DOMAIN loopQueue' /\ loopQueue'[Len(loopQueue')].flush
        /\ loopQueue' \in Seq(Writes)
    BY <1>6, <2>1, <2>2, LastOfMarked, MarkLast
  <2>4. Len(loopQueue') \in Nat \ {0}
    BY <2>3, EmptySeq, LenProperties
  <2>5. \A k \in 0 .. Len(loopQueue') : UnmarkedAfter(loopQueue', k) => k = Len(loopQueue')
    <3> SUFFICES ASSUME NEW k \in 0 .. Len(loopQueue'), k # Len(loopQueue')
                 PROVE  ~UnmarkedAfter(loopQueue', k)
      OBVIOUS
    <3>1. Len(loopQueue') \in k + 1 .. Len(loopQueue')
      BY <2>4
    <3> QED BY <2>3, <3>1 DEF UnmarkedAfter
  <2>6. QueueOwed'
    BY <1>3, <2>4, <2>5 DEF QueueOwed
  <2>7. RestOwed'
    BY <2>4, <2>5 DEF RestOwed
  <2> QED BY <1>3, <1>4, <2>6, <2>7 DEF OwedInv
<1> QED BY <1>5, <1>6

\* A write or a flush that the loop calls itself in operationComplete.
LEMMA OwedInline ==
  ASSUME TypeOK, TypeOK', OwedInv, Drain(Loop) \/ LastFlush(Loop), conn = "open"
  PROVE  OwedInv'
<1>1. /\ conn' = conn /\ todo' = todo /\ pc[Loop] \in {"drain", "flush"}
      /\ loopQueue' = loopQueue /\ flushFirst' = flushFirst
      /\ pc'[Loop] = "idle" => outbound' = <<>>
      /\ Loop \in Threads
  BY DEF Drain, LastFlush, Write, Flush, connVars, TypeOK, Threads
<1>2. \A u \in Threads \ {Loop} : Owed(u)' = Owed(u)
  BY DEF Drain, LastFlush, Owed, TypeOK
<1>3. OwedByOthers' = OwedByOthers
  BY <1>2 DEF OwedByOthers
<1>4. Len(outbound) <= Owed(Loop) /\ Len(outbound) \in Nat /\ Owed(Loop) \in Nat
  BY <1>1, OwedType, LenProperties DEF OwedInv, LoopOwes, LoopWrites, TypeOK
<1>5. Len(outbound') <= Owed(Loop)'
  <2>1. CASE outbound' = <<>>
    BY <1>1, <2>1, EmptySeq, OwedTypeNext
  <2>2. CASE Drain(Loop) /\ outbound' # <<>>
    <3>1. outbound' = Append(outbound, Head(bufferQueue)) /\ Owed(Loop)' = Owed(Loop) + 1
      BY <1>1, <2>2 DEF Drain, Write, Owed, TypeOK
    <3>2. Head(bufferQueue) \in Tasks /\ outbound \in Seq(Tasks)
      BY <2>2, HeadTailProperties DEF Drain, TypeOK
    <3> QED BY <1>4, <3>1, <3>2, AppendProperties
  <2>3. CASE LastFlush(Loop)
    BY <2>1, <2>3 DEF LastFlush, Flush
  <2> QED BY <2>1, <2>2, <2>3
<1>6. IsFiniteSet(OwedByOthers') /\ ClosedEmpty' /\ QueueOwed' /\ LoopOwes'
  BY <1>1, <1>3, <1>5 DEF OwedInv, ClosedEmpty, QueueOwed, LoopOwes, UnmarkedAfter
<1>7. RestOwed'
  <2> SUFFICES ASSUME UnmarkedAfter(loopQueue, 0), ~LoopWrites'
               PROVE  Len(loopQueue) + Len(outbound') <= Cardinality(OwedByOthers)
    BY <1>1, <1>3 DEF RestOwed
  <2>1. Len(outbound') = 0
    BY <1>1, EmptySeq DEF LoopWrites
  <2>2. Len(loopQueue) \in Nat
    BY LenProperties DEF TypeOK
  <2>3. Len(loopQueue) - 0 <= Cardinality(OwedByOthers)
    BY <2>2 DEF OwedInv, QueueOwed
  <2> QED BY <2>1, <2>2, <2>3
<1> QED BY <1>6, <1>7 DEF OwedInv

\* The loop runs the first write that is queued to it.
LEMMA OwedTaken ==
  ASSUME TypeOK, TypeOK', OwedInv, LoopWrite
  PROVE  OwedInv'
<1> DEFINE n == Len(loopQueue)
           m == Head(loopQueue).message
           owed == Cardinality(OwedByOthers)
<1>1. /\ conn = "open" /\ conn' = conn /\ pc' = pc /\ i' = i /\ todo' = todo
      /\ loopQueue # <<>> /\ loopQueue' = Tail(loopQueue) /\ ~flushFirst /\ ~flushFirst'
      /\ outbound' = IF Head(loopQueue).flush THEN <<>> ELSE Append(outbound, m)
      /\ ~LoopWrites /\ ~LoopWrites'
  BY DEF LoopWrite, LoopFree, LoopWrites, connVars, threadVars
<1>2. OwedByOthers' = OwedByOthers
  BY <1>1 DEF OwedByOthers, Owed
<1>3. /\ n \in Nat \ {0} /\ Len(loopQueue') = n - 1 /\ Head(loopQueue) = loopQueue[1]
      /\ \A k \in 1 .. n - 1 : loopQueue'[k] = loopQueue[k + 1]
      /\ m \in Tasks
  <2>1. loopQueue \in Seq(Writes)
    BY DEF TypeOK, Writes
  <2>2. Head(loopQueue) \in Writes
    BY <1>1, <2>1, HeadTailProperties
  <2>3. m \in Tasks
    BY <2>2 DEF Writes
  <2> QED BY <1>1, <2>1, <2>3, HeadTailProperties, EmptySeq, LenProperties
<1>4. owed \in Nat /\ Len(outbound) \in Nat
  BY FS_CardinalityType, LenProperties DEF OwedInv, TypeOK
<1>5. ASSUME NEW k \in 0 .. n - 1, UnmarkedAfter(loopQueue', k)
      PROVE  UnmarkedAfter(loopQueue, k + 1)
  <2> SUFFICES ASSUME NEW l \in k + 2 .. n PROVE ~loopQueue[l].flush
    BY <1>3, <1>5 DEF UnmarkedAfter
  <2>1. l - 1 \in k + 1 .. n - 1 /\ l - 1 \in 1 .. n - 1 /\ (l - 1) + 1 = l
    BY <1>3
  <2>2. ~loopQueue'[l - 1].flush
    BY <1>3, <1>5, <2>1 DEF UnmarkedAfter
  <2> QED BY <1>3, <2>1, <2>2
<1>6. \A k \in 0 .. n - 1 : UnmarkedAfter(loopQueue', k) => (n - 1) - k <= owed
  <2> SUFFICES ASSUME NEW k \in 0 .. n - 1, UnmarkedAfter(loopQueue', k)
               PROVE  (n - 1) - k <= owed
    OBVIOUS
  <2>1. k + 1 \in 0 .. n /\ UnmarkedAfter(loopQueue, k + 1)
    BY <1>3, <1>5
  <2>2. n - (k + 1) <= owed
    BY <2>1 DEF OwedInv, QueueOwed
  <2> QED BY <1>3, <1>4, <2>2
<1>7. IsFiniteSet(OwedByOthers') /\ ClosedEmpty' /\ QueueOwed' /\ LoopOwes'
  BY <1>1, <1>2, <1>3, <1>6 DEF OwedInv, ClosedEmpty, QueueOwed, LoopOwes
<1>8. RestOwed'
  <2> SUFFICES ASSUME UnmarkedAfter(loopQueue', 0)
               PROVE  Len(loopQueue') + Len(outbound') <= owed
    BY <1>2 DEF RestOwed
  <2>1. CASE Head(loopQueue).flush
    <3>1. Len(outbound') = 0
      BY <1>1, <2>1, EmptySeq
    <3> QED BY <1>3, <1>4, <1>6, <3>1
  <2>2. CASE ~Head(loopQueue).flush
    <3>1. Len(outbound') = Len(outbound) + 1
      BY <1>1, <1>3, <2>2, AppendProperties DEF TypeOK
    <3>2. UnmarkedAfter(loopQueue, 1)
      BY <1>3, <1>5
    <3>3. UnmarkedAfter(loopQueue, 0)
      <4> SUFFICES ASSUME NEW l \in 1 .. n PROVE ~loopQueue[l].flush
        BY DEF UnmarkedAfter
      <4>1. l = 1 \/ l \in 2 .. n
        BY <1>3
      <4> QED BY <1>3, <2>2, <3>2, <4>1 DEF UnmarkedAfter
    <3>4. n + Len(outbound) <= owed
      BY <1>1, <3>3 DEF OwedInv, RestOwed
    <3> QED BY <1>3, <1>4, <3>1, <3>4
  <2> QED BY <2>1, <2>2
<1> QED BY <1>7, <1>8 DEF OwedInv

LEMMA OwedInit == Init => OwedInv
<1> SUFFICES ASSUME Init PROVE OwedInv
  OBVIOUS
<1>1. \A th \in Threads : Owed(th) = 0
  BY DEF Init, Owed
<1>2. OwedByOthers = {}
  <2> SUFFICES ASSUME NEW th \in Threads \ {Loop} PROVE {th} \X (1 .. Owed(th)) = {}
    BY DEF OwedByOthers
  <2> QED BY <1>1
<1>3. IsFiniteSet(OwedByOthers) /\ Cardinality(OwedByOthers) = 0
  BY <1>2, FS_EmptySet
<1>4. loopQueue = <<>> /\ outbound = <<>> /\ Len(loopQueue) = 0 /\ Len(outbound) = 0
  BY EmptySeq DEF Init
<1>5. Owed(Loop) = 0
  BY <1>1 DEF Threads
<1> QED
  BY <1>3, <1>4, <1>5 DEF OwedInv, ClosedEmpty, QueueOwed, LoopOwes, RestOwed

\* The two steps that write or flush, on whatever thread and channel.
LEMMA OwedWrite ==
  ASSUME TypeOK, TypeOK', OwedInv, NEW th \in Threads, Drain(th) \/ LastFlush(th)
  PROVE  OwedInv'
<1>1. CASE conn = "open" /\ th = Loop
  BY <1>1, OwedInline
<1>2. CASE conn = "open" /\ th # Loop
  BY <1>2, OwedQueued, OwedMarked
<1>3. CASE conn # "open"
  <2>1. loopQueue = <<>> /\ outbound = <<>>
    BY <1>3 DEF OwedInv, ClosedEmpty
  <2>2. loopQueue' = <<>> /\ outbound' = <<>>
    BY <1>3, <2>1 DEF Drain, LastFlush, Write, Flush, nettyVars, TypeOK
  <2>3. \A u \in Threads \ {th} : Owed(u)' = Owed(u)
    BY DEF Drain, LastFlush, Owed, TypeOK
  <2> QED BY <2>2, <2>3, OwedEmptied
<1> QED BY <1>1, <1>2, <1>3

LEMMA OwedStep == TypeOK /\ TypeOK' /\ OwedInv /\ [Next]_vars => OwedInv'
<1> SUFFICES ASSUME TypeOK, TypeOK', OwedInv, [Next]_vars PROVE OwedInv'
  OBVIOUS
<1> USE ThreadsAssumption
    DEF threadVars, lockVars, queueVars, connVars, nettyVars, clientVars, watchVars
<1>0. Loop \in Threads /\ Timer \in Threads /\ \A th \in Threads : Owed(th) \in Nat
  BY OwedType DEF Threads
<1>1. ASSUME pc' = pc, i' = i, UNCHANGED nettyVars, conn' = conn, todo' = todo PROVE OwedInv'
  BY <1>0, <1>1, OwedStays DEF LoopWrites, Owed
\* A step of a thread in which it writes nothing and counts what it did before.
<1>2. ASSUME NEW th \in Threads, \A u \in Threads \ {th} : pc'[u] = pc[u] /\ i'[u] = i[u],
             Owed(th) <= Owed(th)', UNCHANGED nettyVars, conn' = conn, todo' = todo,
             th = Loop => pc[Loop] # "idle" /\ (pc'[Loop] = "idle" => Owed(Loop) = 0)
      PROVE  OwedInv'
  <2>1. \A u \in Threads \ {th} : Owed(u)' = Owed(u)
    BY <1>2 DEF Owed
  <2>2. LoopWrites' => LoopWrites
    BY <1>0, <1>2 DEF LoopWrites
  <2>3. ASSUME LoopWrites, ~LoopWrites' PROVE outbound = <<>>
    <3>1. Owed(Loop) = 0
      BY <1>0, <1>2, <2>3 DEF LoopWrites
    <3>2. Len(outbound) <= 0 /\ Len(outbound) \in Nat
      BY <2>3, <3>1, LenProperties DEF OwedInv, LoopOwes, TypeOK
    <3> QED BY <3>2, EmptySeq DEF TypeOK
  <2> QED BY <1>2, <2>1, <2>2, <2>3, OwedStays
<1>3. ASSUME NEW th \in Threads \ {Loop}, NEW t, Issue(th, t) PROVE OwedInv'
  <2>1. Owed(th) <= Owed(th)'
    BY <1>0, <1>3 DEF Issue, Enter, Owed, TypeOK
  <2> QED BY <1>2, <1>3, <2>1 DEF Issue, Enter, TypeOK
<1>4. ASSUME NEW c \in Callers, NEW r \in Requests, RefuseRedisTask(c, r) PROVE OwedInv'
  BY <1>1, <1>4 DEF RefuseRedisTask
<1>5. ASSUME NEW th \in Threads, PipelineWrite(th) PROVE OwedInv'
  <2>1. CASE AddTask(th) \/ AddMessage(th) \/ TryLock(th)
    <3>1. Owed(th) = 0 /\ Owed(th)' \in Nat
      BY <2>1, OwedTypeNext DEF AddTask, AddMessage, TryLock, Owed
    <3>2. /\ \A u \in Threads \ {th} : pc'[u] = pc[u] /\ i'[u] = i[u]
          /\ UNCHANGED nettyVars /\ conn' = conn /\ todo' = todo /\ pc[th] # "idle"
      BY <2>1 DEF AddTask, AddMessage, TryLock, TypeOK
    <3> QED BY <1>0, <1>2, <3>1, <3>2
  <2>2. CASE Drain(th) \/ LastFlush(th)
    BY <2>2, OwedWrite
  <2>3. CASE DrainToNull(th)
    <3>1. \A u \in Threads \ {th} : Owed(u)' = Owed(u)
      BY <2>3 DEF DrainToNull, Owed, TypeOK
    <3>2. loopQueue' = <<>> /\ outbound' = <<>>
      BY <2>3 DEF DrainToNull, OwedInv, ClosedEmpty
    <3> QED BY <3>1, <3>2, OwedEmptied
  <2>4. CASE DrainEnd(th)
    <3>1. Owed(th)' = Owed(th) /\ pc'[th] # "idle"
      BY <2>4 DEF DrainEnd, Owed, TypeOK
    <3>2. /\ \A u \in Threads \ {th} : pc'[u] = pc[u] /\ i'[u] = i[u]
          /\ UNCHANGED nettyVars /\ conn' = conn /\ todo' = todo /\ pc[th] # "idle"
      BY <2>4 DEF DrainEnd, TypeOK
    <3> QED BY <1>0, <1>2, <3>1, <3>2
  <2>5. CASE Unlock(th)
    <3>1. Owed(th)' = Owed(th) /\ (pc'[th] = "idle" => Owed(th) = 0)
      BY <2>5 DEF Unlock, Owed, TypeOK
    <3>2. /\ \A u \in Threads \ {th} : pc'[u] = pc[u] /\ i'[u] = i[u]
          /\ UNCHANGED nettyVars /\ conn' = conn /\ todo' = todo /\ pc[th] # "idle"
      BY <2>5 DEF Unlock, TypeOK
    <3> QED BY <1>0, <1>2, <3>1, <3>2
  <2> QED BY <1>5, <2>1, <2>2, <2>3, <2>4, <2>5 DEF PipelineWrite
<1>6. CASE Connect
  <2>1. /\ pc' = pc /\ i' = i /\ UNCHANGED nettyVars /\ conn = "connecting"
    BY <1>6 DEF Connect
  <2>2. outbound = <<>> /\ LoopWrites /\ \A u \in Threads : Owed(u)' = Owed(u)
    BY <2>1 DEF OwedInv, ClosedEmpty, LoopWrites, Owed
  <2> QED BY <1>0, <2>1, <2>2, OwedStays
<1>7. CASE OperationComplete
  <2>1. /\ todo # <<>> /\ pc[Loop] = "idle" /\ conn' = conn /\ UNCHANGED nettyVars
        /\ \A u \in Threads \ {Loop} : pc'[u] = pc[u] /\ i'[u] = i[u]
        /\ pc'[Loop] \in {"idle", "addTask"}
    BY <1>7 DEF OperationComplete, Enter, TypeOK
  <2>2. Owed(Loop) = 0 /\ Owed(Loop)' = 0 /\ LoopWrites
        /\ \A u \in Threads \ {Loop} : Owed(u)' = Owed(u)
    BY <2>1 DEF Owed, LoopWrites
  <2>3. Len(outbound) <= 0 /\ Len(outbound) \in Nat
    BY <2>2, LenProperties DEF OwedInv, LoopOwes, TypeOK
  <2>4. outbound = <<>>
    BY <2>3, EmptySeq DEF TypeOK
  <2> QED BY <1>0, <2>1, <2>2, <2>4, OwedStays
<1>8. CASE LoopFlush
  <2>1. /\ outbound' = <<>> /\ UNCHANGED <<pc, i, conn, todo, loopQueue>>
        /\ ~LoopWrites /\ ~LoopWrites'
    BY <1>8 DEF LoopFlush, LoopFree, LoopWrites
  <2>2. OwedByOthers' = OwedByOthers
    BY <2>1 DEF OwedByOthers, Owed
  <2>3. Len(outbound') = 0 /\ Len(loopQueue) \in Nat
    BY <2>1, EmptySeq, LenProperties DEF TypeOK
  <2>4. UnmarkedAfter(loopQueue, 0) => Len(loopQueue) - 0 <= Cardinality(OwedByOthers)
    BY <2>3 DEF OwedInv, QueueOwed
  <2> QED
    BY <2>1, <2>2, <2>3, <2>4
       DEF OwedInv, ClosedEmpty, QueueOwed, LoopOwes, RestOwed, UnmarkedAfter
<1>9. CASE LoopWrite
  BY <1>9, OwedTaken
<1>10. CASE ChannelRead
  BY <1>0, <1>10, OwedStays DEF ChannelRead, LoopWrites, Owed
<1>11. CASE ChannelInactive
  <2>1. loopQueue' = <<>> /\ outbound' = <<>> /\ \A u \in Threads \ {Loop} : Owed(u)' = Owed(u)
    BY <1>11 DEF ChannelInactive, Owed
  <2> QED BY <1>0, <2>1, OwedEmptied
<1>12. CASE TimerLate \/ TimerDeclare
  <2>1. Owed(Timer) = 0 /\ Owed(Timer)' = 0
    BY <1>0, <1>12 DEF TimerLate, TimerRuns, TimerDeclare, Owed, TypeOK
  <2> QED BY <1>0, <1>2, <1>12, <2>1 DEF TimerLate, TimerDeclare, TypeOK
<1>13. CASE Tick \/ UNCHANGED vars
  BY <1>1, <1>13 DEF Tick, vars
<1> QED
  BY <1>3, <1>4, <1>5, <1>6, <1>7, <1>8, <1>9, <1>10, <1>11, <1>12, <1>13
     DEF Next, ExecuteRedisTask, FlushAll, Promote, TimerPing, Threads

\* What is owed, of all threads, is what the others owe and what the loop does.
LEMMA PromisedParts ==
  ASSUME TypeOK, IsFiniteSet(OwedByOthers)
  PROVE  Cardinality(Promised) = Cardinality(OwedByOthers) + Owed(Loop)
<1> DEFINE own == {Loop} \X (1 .. Owed(Loop))
<1>1. Loop \in Threads /\ Owed(Loop) \in Nat
  BY OwedType DEF Threads
<1>2. Promised = OwedByOthers \cup own
  BY <1>1 DEF Promised, OwedByOthers
<1>3. OwedByOthers \cap own = {}
  BY DEF OwedByOthers
<1>4. IsFiniteSet(own) /\ Cardinality(own) = Owed(Loop)
  <2>1. \A n \in Nat : IsFiniteSet(1 .. n) /\ Cardinality(1 .. n) = n
    BY FS_Interval
  <2>2. IsFiniteSet({Loop}) /\ Cardinality({Loop}) = 1
    BY FS_Singleton
  <2>3. IsFiniteSet(own) /\ Cardinality(own) = Cardinality({Loop}) * Cardinality(1 .. Owed(Loop))
    BY <1>1, <2>1, <2>2, FS_Product
  <2> QED BY <1>1, <2>1, <2>2, <2>3
<1> HIDE DEF own
<1>5. Cardinality(Promised)
        = Cardinality(OwedByOthers) + Cardinality(own) - Cardinality(OwedByOthers \cap own)
  BY <1>2, <1>4, FS_Union
<1>6. Cardinality(OwedByOthers \cap own) = 0
  BY <1>3, FS_EmptySet
<1>7. Cardinality(OwedByOthers) \in Nat
  BY FS_CardinalityType
<1> QED BY <1>1, <1>4, <1>5, <1>6, <1>7

LEMMA OwedCounts == TypeOK /\ OwedInv => UnflushedOwed
<1> SUFFICES ASSUME TypeOK, OwedInv PROVE Unflushed <= Cardinality(Promised)
  BY DEF UnflushedOwed
<1> DEFINE marks == {k \in DOMAIN loopQueue : loopQueue[k].flush}
           n == Len(loopQueue)
           owed == Cardinality(OwedByOthers)
<1>1. Cardinality(Promised) = owed + Owed(Loop) /\ owed \in Nat /\ Owed(Loop) \in Nat
  BY PromisedParts, FS_CardinalityType, OwedType DEF OwedInv, Threads
<1>2. n \in Nat /\ DOMAIN loopQueue = 1 .. n /\ Len(outbound) \in Nat
  BY LenProperties DEF TypeOK
<1>3. CASE marks # {}
  <2>1. marks \in SUBSET (1 .. n)
    BY <1>2
  <2>2. Max(marks) \in marks /\ \A k \in marks : k <= Max(marks)
    BY <1>2, <1>3, <2>1, GreatestPlace
  <2> DEFINE g == Max(marks)
  <2>3. g \in 1 .. n /\ Unflushed = n - g
    BY <1>3, <2>1, <2>2 DEF Unflushed
  <2>4. UnmarkedAfter(loopQueue, g)
    <3> SUFFICES ASSUME NEW k \in g + 1 .. n, loopQueue[k].flush PROVE FALSE
      BY DEF UnmarkedAfter
    <3>1. k \in marks
      BY <1>2, <2>3
    <3>2. k <= g
      BY <2>2, <3>1
    <3> QED BY <1>2, <2>3, <3>2
  <2> HIDE DEF g
  <2>5. n - g <= owed
    BY <1>2, <2>3, <2>4 DEF OwedInv, QueueOwed
  <2> QED BY <1>1, <1>2, <2>3, <2>5
<1>4. CASE marks = {}
  <2>1. UnmarkedAfter(loopQueue, 0)
    BY <1>2, <1>4 DEF UnmarkedAfter
  <2>2. n - 0 <= owed
    BY <1>2, <2>1 DEF OwedInv, QueueOwed
  <2>3. Unflushed = n + (IF flushFirst THEN 0 ELSE Len(outbound))
    BY <1>4 DEF Unflushed
  <2>4. LoopWrites => Len(outbound) <= Owed(Loop)
    BY DEF OwedInv, LoopOwes
  <2>5. ~LoopWrites /\ ~flushFirst => n + Len(outbound) <= owed
    BY <2>1 DEF OwedInv, RestOwed
  <2> HIDE DEF n, owed
  <2> QED BY <1>1, <1>2, <2>2, <2>3, <2>4, <2>5
<1> QED BY <1>3, <1>4

\* No message is forgotten in the channel (l.173-187): as many messages as no
\* flush called so far will send, the threads in pipelineWrite count in their i
\* and will flush, for any number of threads, any batch size and any commands.
THEOREM NothingUnflushedForgotten == Spec => []UnflushedOwed
<1>1. Init => TypeOK /\ OwedInv
  BY TypeInit, OwedInit
<1>2. TypeOK /\ OwedInv /\ [Next]_vars => (TypeOK /\ OwedInv)'
  BY TypeStep, OwedStep
<1>3. TypeOK /\ OwedInv => UnflushedOwed
  BY OwedCounts
<1> QED BY <1>1, <1>2, <1>3, PTL DEF Spec

=============================================================================
