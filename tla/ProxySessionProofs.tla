------------------------- MODULE ProxySessionProofs -------------------------
(* Theorems about ProxySession, for every value of its constants. *)
EXTENDS ProxySession, SequenceTheorems, FiniteSetTheorems, TLAPS

-----------------------------------------------------------------------------
(* Type correctness.  TypeOK speaks of the entries of log, replies and       *)
(* pending only; the proofs also need that these are functions to sequences. *)

Reply == [to : Nat, by : {"proxy", "redis"}]
Entry == [client : Clients \cup {NoClient}, index : Nat]

LogOK ==
  /\ log \in [Clients -> Seq(Command)]
  /\ \A c \in Clients :
       /\ Len(log[c]) <= Len(Commands[c])
       /\ \A i \in DOMAIN log[c] : log[c][i] \in Commands[c][i]

RepliesOK ==
  /\ replies \in [Clients -> Seq(Reply)]
  /\ \A c \in Clients : \A j \in DOMAIN replies[c] : replies[c][j].to \in DOMAIN log[c]

PendingOK ==
  /\ pending \in [Conns -> Seq(Entry)]
  /\ \A k \in Conns : \A e \in Range(pending[k]) :
       e = FlushTask \/ (e.client \in Clients /\ e.index \in DOMAIN log[e.client])

SessionsOK ==
  /\ channel \in [Clients -> {"open", "closing", "inactive"}]
  /\ channelMessages \in [Clients -> [auth : BOOLEAN, databaseNumber : Databases] \cup {NoInfo}]

TableOK == table \in [Conns -> {"none", "connecting", "failed", "up", "lost", "silent", "down"}]

\* A thread inside initDatabase holds the lock of its database, and only such a
\* thread is about to put a client.
WorkOK ==
  /\ work \in [Clients -> [db : Databases, next : 0 .. Len(RedisList) + 1,
                           creating : Redis \cup {NoRedis}, active : BOOLEAN]]
  /\ selectLock \in [Databases -> Clients \cup {NoClient}]
  /\ \A c \in Clients : work[c].active => work[c].next >= 1 /\ selectLock[work[c].db] = c
  /\ \A c \in Clients : work[c].creating # NoRedis => work[c].active

\* ... and is executing a command it has read.
BusyOK == \A c \in Clients : work[c].active => 1 \in DOMAIN log[c]

Types == BusyOK /\ LogOK /\ RepliesOK /\ PendingOK /\ SessionsOK /\ TableOK /\ WorkOK

LEMMA TypesImply == Types => TypeOK
<1> SUFFICES ASSUME Types PROVE TypeOK
  OBVIOUS
<1>1. \A c \in Clients : replies[c] \in Seq([to : DOMAIN log[c], by : {"proxy", "redis"}])
  <2> SUFFICES ASSUME NEW c \in Clients
               PROVE  replies[c] \in Seq([to : DOMAIN log[c], by : {"proxy", "redis"}])
    OBVIOUS
  <2>1. replies[c] \in Seq(Reply) /\ \A j \in DOMAIN replies[c] : replies[c][j].to \in DOMAIN log[c]
    BY DEF Types, RepliesOK
  <2>2. \A j \in 1 .. Len(replies[c]) : replies[c][j] \in Reply
    BY <2>1, ElementOfSeq
  <2>3. \A j \in 1 .. Len(replies[c]) :
          replies[c][j] \in [to : DOMAIN log[c], by : {"proxy", "redis"}]
    BY <2>1, <2>2 DEF Reply
  <2>4. replies[c] \in Seq(Range(replies[c]))
    BY <2>1, SeqOfRange
  <2>5. Range(replies[c]) \subseteq [to : DOMAIN log[c], by : {"proxy", "redis"}]
    BY <2>1, <2>3, RangeOfSeq DEF Range
  <2> QED BY <2>4, <2>5, SeqMonotonic
<1>2. \A k \in Conns : \A e \in Range(pending[k]) :
        e = FlushTask \/ (e.client \in Clients /\ e.index \in DOMAIN log[e.client])
  BY DEF Types, PendingOK
<1> QED BY <1>1, <1>2 DEF Types, TypeOK, LogOK, SessionsOK, TableOK, WorkOK

LEMMA TypesInit == Init => Types
<1> SUFFICES ASSUME Init PROVE Types
  OBVIOUS
<1>1. LogOK
  <2>1. log = [c \in Clients |-> <<>>]
    BY DEF Init
  <2>2. \A c \in Clients : Commands[c] \in Seq(SUBSET Command)
    BY ConstantsAssumption
  <2> QED BY <2>1, <2>2, EmptySeq, LenProperties DEF LogOK
<1>2. RepliesOK
  <2>1. replies = [c \in Clients |-> <<>>]
    BY DEF Init
  <2> QED BY <2>1, EmptySeq DEF RepliesOK
<1>3. PendingOK
  <2>1. pending = [k \in Conns |-> <<>>]
    BY DEF Init
  <2>2. Range(<<>>) = {}
    BY DEF Range
  <2> QED BY <2>1, <2>2, EmptySeq DEF PendingOK
<1>4. SessionsOK
  BY ConstantsAssumption DEF Init, SessionsOK
<1>5. TableOK
  BY DEF Init, TableOK
<1>6. WorkOK
  <2>1. Len(RedisList) \in Nat
    BY ConstantsAssumption, LenProperties
  <2> QED BY <2>1, ConstantsAssumption DEF Init, WorkOK, Idle
<1>7. BusyOK
  BY DEF Init, BusyOK, Idle
<1> QED BY <1>1, <1>2, <1>3, <1>4, <1>5, <1>6, <1>7 DEF Types

\* What a step leaves of the logs: they grow at their ends.
Grows == \A c \in Clients : DOMAIN log[c] \subseteq DOMAIN log'[c]

LEMMA LogStep ==
  ASSUME LogOK, NEW c \in Clients, NEW m, MayRead(c, m), Logged(c, m)
  PROVE  /\ LogOK' /\ Grows
         /\ m \in Command
         /\ log[c] \in Seq(Command) /\ log'[c] = Append(log[c], m)
         /\ \A d \in Clients : d # c => log'[d] = log[d]
         /\ Reading(c) \in DOMAIN log'[c] /\ Reading(c) \in Nat
<1>1. log[c] \in Seq(Command) /\ Len(log[c]) \in Nat /\ DOMAIN log[c] = 1 .. Len(log[c])
  BY LenProperties DEF LogOK
<1>2. Commands[c] \in Seq(SUBSET Command) /\ Len(Commands[c]) \in Nat
  BY ConstantsAssumption, LenProperties
<1>3. Len(log[c]) + 1 \in 1 .. Len(Commands[c]) /\ m \in Commands[c][Len(log[c]) + 1]
  BY <1>1, <1>2 DEF MayRead
<1>4. m \in Command
  <2>1. Commands[c][Len(log[c]) + 1] \in SUBSET Command
    BY <1>2, <1>3, ElementOfSeq
  <2> QED BY <1>3, <2>1
<1>5. log'[c] = Append(log[c], m) /\ \A d \in Clients : d # c => log'[d] = log[d]
  BY DEF Logged, LogOK
<1>6. /\ log'[c] \in Seq(Command) /\ Len(log'[c]) = Len(log[c]) + 1
      /\ DOMAIN log'[c] = 1 .. Len(log[c]) + 1
      /\ \A i \in 1 .. Len(log[c]) : log'[c][i] = log[c][i]
      /\ log'[c][Len(log[c]) + 1] = m
  BY <1>1, <1>4, <1>5, AppendProperties, LenProperties
<1>7. log' \in [Clients -> Seq(Command)]
  <2>1. log' = [log EXCEPT ![c] = Append(log[c], m)]
    BY DEF Logged
  <2>2. Append(log[c], m) \in Seq(Command)
    BY <1>5, <1>6
  <2> QED BY <2>1, <2>2 DEF LogOK
<1>8. \A i \in DOMAIN log'[c] : log'[c][i] \in Commands[c][i]
  BY <1>1, <1>3, <1>6 DEF LogOK
<1>9. LogOK'
  <2>1. Len(log'[c]) <= Len(Commands[c])
    BY <1>1, <1>2, <1>3, <1>6
  <2>2. \A d \in Clients \ {c} : /\ Len(log'[d]) <= Len(Commands[d])
                                 /\ \A i \in DOMAIN log'[d] : log'[d][i] \in Commands[d][i]
    BY <1>5 DEF LogOK
  <2> QED BY <1>7, <1>8, <2>1, <2>2 DEF LogOK
<1>10. Grows
  BY <1>1, <1>5, <1>6 DEF Grows
<1> QED BY <1>1, <1>4, <1>5, <1>6, <1>9, <1>10 DEF Reading

LEMMA SameLog ==
  ASSUME LogOK, UNCHANGED log
  PROVE  LogOK' /\ Grows
BY DEF LogOK, Grows

LEMMA SameReplies ==
  ASSUME RepliesOK, Grows, UNCHANGED replies
  PROVE  RepliesOK'
BY DEF RepliesOK, Grows

LEMMA SamePending ==
  ASSUME PendingOK, Grows, UNCHANGED pending
  PROVE  PendingOK'
BY DEF PendingOK, Grows

LEMMA AnswerStep ==
  ASSUME RepliesOK, Grows, NEW c \in Clients, NEW i \in Nat, NEW by \in {"proxy", "redis"},
         i \in DOMAIN log'[c], Answer(c, i, by)
  PROVE  RepliesOK'
<1> DEFINE r == [to |-> i, by |-> by]
<1>1. r \in Reply /\ r.to = i
  BY DEF Reply
<1>2. CASE UNCHANGED replies
  BY <1>2, SameReplies
<1>3. CASE replies' = [replies EXCEPT ![c] = Append(@, r)]
  <2>1. replies[c] \in Seq(Reply) /\ Len(replies[c]) \in Nat
    BY LenProperties DEF RepliesOK
  <2> HIDE DEF r
  <2>2. /\ Append(replies[c], r) \in Seq(Reply)
        /\ DOMAIN Append(replies[c], r) = 1 .. Len(replies[c]) + 1
        /\ \A j \in 1 .. Len(replies[c]) : Append(replies[c], r)[j] = replies[c][j]
        /\ Append(replies[c], r)[Len(replies[c]) + 1] = r
        /\ DOMAIN replies[c] = 1 .. Len(replies[c])
    BY <1>1, <2>1, AppendProperties, LenProperties
  <2>3. replies' \in [Clients -> Seq(Reply)]
    BY <1>3, <2>2 DEF RepliesOK
  <2>4. ASSUME NEW d \in Clients, NEW j \in DOMAIN replies'[d]
        PROVE  replies'[d][j].to \in DOMAIN log'[d]
    <3>1. CASE d # c
      <4>1. replies'[d] = replies[d]
        BY <1>3, <3>1 DEF RepliesOK
      <4> QED BY <4>1, <2>4 DEF RepliesOK, Grows
    <3>2. CASE d = c
      <4>1. replies'[c] = Append(replies[c], r)
        BY <1>3 DEF RepliesOK
      <4>2. CASE j = Len(replies[c]) + 1
        BY <1>1, <2>2, <3>2, <4>1, <4>2
      <4>3. CASE j # Len(replies[c]) + 1
        <5>1. j \in 1 .. Len(replies[c])
          BY <2>1, <2>2, <2>4, <3>2, <4>1, <4>3
        <5>2. replies'[c][j] = replies[c][j]
          BY <2>2, <4>1, <5>1
        <5>3. replies[c][j].to \in DOMAIN log[c]
          BY <2>2, <5>1 DEF RepliesOK
        <5> QED BY <3>2, <5>2, <5>3 DEF Grows
      <4> QED BY <4>2, <4>3
    <3> QED BY <3>1, <3>2
  <2> QED BY <2>3, <2>4 DEF RepliesOK
<1> QED BY <1>2, <1>3 DEF Answer

LEMMA AppendRange ==
  ASSUME NEW S, NEW s \in Seq(S), NEW e \in S
  PROVE  Append(s, e) \in Seq(S) /\ Range(Append(s, e)) = Range(s) \cup {e}
<1>1. /\ Append(s, e) \in Seq(S) /\ Len(s) \in Nat
      /\ Len(Append(s, e)) = Len(s) + 1
      /\ \A i \in 1 .. Len(s) : Append(s, e)[i] = s[i]
      /\ Append(s, e)[Len(s) + 1] = e
  BY AppendProperties, LenProperties
<1>2. DOMAIN s = 1 .. Len(s) /\ DOMAIN Append(s, e) = 1 .. Len(s) + 1
  BY <1>1, LenProperties
<1>3. ASSUME NEW x \in Range(Append(s, e)) PROVE x \in Range(s) \cup {e}
  BY <1>1, <1>2, <1>3 DEF Range
<1>4. ASSUME NEW x \in Range(s) \cup {e} PROVE x \in Range(Append(s, e))
  <2>1. CASE x = e
    BY <1>1, <1>2, <2>1 DEF Range
  <2>2. CASE x \in Range(s)
    <3>1. PICK i \in 1 .. Len(s) : x = s[i]
      BY <1>2, <2>2 DEF Range
    <3>2. i \in DOMAIN Append(s, e) /\ Append(s, e)[i] = x
      BY <1>1, <1>2, <3>1
    <3> QED BY <3>2 DEF Range
  <2> QED BY <1>4, <2>1, <2>2
<1> QED BY <1>1, <1>3, <1>4

LEMMA TailRange ==
  ASSUME NEW S, NEW s \in Seq(S), s # <<>>
  PROVE  /\ Tail(s) \in Seq(S) /\ Range(Tail(s)) \subseteq Range(s)
         /\ Head(s) \in S /\ Head(s) \in Range(s)
<1>1. /\ Tail(s) \in Seq(S) /\ Len(Tail(s)) = Len(s) - 1 /\ Len(s) \in Nat \ {0}
      /\ \A i \in 1 .. Len(Tail(s)) : Tail(s)[i] = s[i + 1]
      /\ Head(s) \in S /\ Head(s) = s[1]
  BY HeadTailProperties, EmptySeq
<1>2. DOMAIN s = 1 .. Len(s) /\ DOMAIN Tail(s) = 1 .. Len(s) - 1
  BY <1>1, LenProperties
<1>3. ASSUME NEW x \in Range(Tail(s)) PROVE x \in Range(s)
  <2>1. PICK i \in 1 .. Len(s) - 1 : x = Tail(s)[i]
    BY <1>2, <1>3 DEF Range
  <2>2. i + 1 \in DOMAIN s /\ s[i + 1] = x
    BY <1>1, <1>2, <2>1
  <2> QED BY <2>2 DEF Range
<1>4. Head(s) \in Range(s)
  BY <1>1, <1>2 DEF Range
<1> QED BY <1>1, <1>3, <1>4

\* A step that hands no request to a Redis.
Derived ==
  /\ pending' \in [Conns -> Seq(Entry)]
  /\ \A k \in Conns : Range(pending'[k]) \subseteq Range(pending[k]) \cup {FlushTask}

LEMMA DerivedPending ==
  ASSUME PendingOK, Grows, Derived
  PROVE  PendingOK'
BY DEF PendingOK, Grows, Derived

LEMMA PutDerived ==
  ASSUME PendingOK, NEW c \in Clients, SelectPut(c)
  PROVE  Derived
<1> DEFINE q == Conn(work[c].creating, work[c].db)
<1>1. pending' = [pending EXCEPT ![q] = <<>>]
  BY DEF SelectPut
<1> HIDE DEF q
<1>2. <<>> \in Seq(Entry) /\ Range(<<>>) = {}
  BY EmptySeq DEF Range
<1>3. pending' \in [Conns -> Seq(Entry)]
  BY <1>1, <1>2 DEF PendingOK
<1>4. \A k \in Conns : pending'[k] = pending[k] \/ pending'[k] = <<>>
  BY <1>1 DEF PendingOK
<1> QED BY <1>2, <1>3, <1>4 DEF Derived

LEMMA ReplyDerived ==
  ASSUME PendingOK, NEW k \in Conns, RedisReplies(k)
  PROVE  Derived
<1>1. pending[k] # <<>> /\ pending' = [pending EXCEPT ![k] = Tail(pending[k])]
  BY DEF RedisReplies
<1>2. Tail(pending[k]) \in Seq(Entry) /\ Range(Tail(pending[k])) \subseteq Range(pending[k])
  BY <1>1, TailRange DEF PendingOK
<1>3. pending' \in [Conns -> Seq(Entry)]
  BY <1>1, <1>2 DEF PendingOK
<1>4. \A j \in Conns : pending'[j] = IF j = k THEN Tail(pending[k]) ELSE pending[j]
  BY <1>1 DEF PendingOK
<1> QED BY <1>2, <1>3, <1>4 DEF Derived

LEMMA FlushallDerived ==
  ASSUME PendingOK, NEW c, NEW m, Flushall(c, m)
  PROVE  Derived
<1>1. PICK reached : pending' = [k \in Conns |->
        IF k \in reached THEN Append(pending[k], FlushTask) ELSE pending[k]]
  BY DEF Flushall
<1>2. FlushTask \in Entry
  BY DEF FlushTask, Entry
<1>3. \A k \in Conns : /\ Append(pending[k], FlushTask) \in Seq(Entry)
                       /\ Range(Append(pending[k], FlushTask)) = Range(pending[k]) \cup {FlushTask}
  BY <1>2, AppendRange DEF PendingOK
<1>4. \A k \in Conns : pending'[k] \in Seq(Entry)
  BY <1>1, <1>3 DEF PendingOK
<1>5. pending' \in [Conns -> Seq(Entry)]
  BY <1>1, <1>4
<1> QED BY <1>1, <1>3, <1>5 DEF Derived

LEMMA AcceptStep ==
  ASSUME PendingOK, NEW k \in Conns, NEW e \in Entry, Accept(k, e)
  PROVE  /\ pending' \in [Conns -> Seq(Entry)]
         /\ Range(pending'[k]) = Range(pending[k]) \cup {e}
         /\ \A j \in Conns : j # k => pending'[j] = pending[j]
<1>1. pending' = [pending EXCEPT ![k] = Append(pending[k], e)]
  BY DEF Accept
<1>2. /\ Append(pending[k], e) \in Seq(Entry)
      /\ Range(Append(pending[k], e)) = Range(pending[k]) \cup {e}
  BY AppendRange DEF PendingOK
<1>3. pending' \in [Conns -> Seq(Entry)]
  BY <1>1, <1>2 DEF PendingOK
<1> QED BY <1>1, <1>2, <1>3 DEF PendingOK

\* The entry of a request: it is put where Route says, on a connection that is up.
LEMMA RequestStep ==
  ASSUME LogOK, PendingOK, NEW c \in Clients, NEW m, Request(c, m)
  PROVE  \/ UNCHANGED pending
         \/ \E k \in Route(c, m) :
              /\ k \in Conns
              /\ pending' \in [Conns -> Seq(Entry)]
              /\ Range(pending'[k]) = Range(pending[k]) \cup {[client |-> c, index |-> Reading(c)]}
              /\ \A j \in Conns : j # k => pending'[j] = pending[j]
<1>1. Reading(c) \in Nat
  BY LenProperties DEF LogOK, Reading
<1> DEFINE e == [client |-> c, index |-> Reading(c)]
<1>2. e \in Entry
  BY <1>1 DEF Entry
<1>3. CASE \E k \in Route(c, m) : Accept(k, e)
  <2>1. PICK k \in Route(c, m) : Accept(k, e)
    BY <1>3
  <2>2. k \in Conns
    BY DEF Route, Candidates
  <2> QED BY <1>2, <2>1, <2>2, AcceptStep
<1> QED BY <1>3 DEF Request

LEMMA RequestPending ==
  ASSUME LogOK, PendingOK, NEW c \in Clients, NEW m, Request(c, m)
  PROVE  PendingOK'
<1>1. Grows /\ Reading(c) \in DOMAIN log'[c]
  BY LogStep DEF Request
<1>2. CASE UNCHANGED pending
  BY <1>1, <1>2, SamePending
<1>3. CASE ~UNCHANGED pending
  <2> DEFINE e == [client |-> c, index |-> Reading(c)]
  <2>1. PICK k \in Conns : /\ pending' \in [Conns -> Seq(Entry)]
                           /\ Range(pending'[k]) = Range(pending[k]) \cup {e}
                           /\ \A j \in Conns : j # k => pending'[j] = pending[j]
    BY <1>3, RequestStep
  <2>2. e.client = c /\ e.index = Reading(c)
    OBVIOUS
  <2> HIDE DEF e
  <2> QED BY <1>1, <2>1, <2>2 DEF PendingOK, Grows
<1> QED BY <1>2, <1>3

-----------------------------------------------------------------------------
(* The types after each action.                                              *)

LEMMA ExceptionStep ==
  ASSUME SessionsOK, NEW c \in Clients, ExceptionCaught(c)
  PROVE  SessionsOK'
BY DEF SessionsOK, ExceptionCaught, Close

LEMMA SelectDatabase ==
  ASSUME LogOK, NEW c \in Clients, NEW m, Select(c, m)
  PROVE  m.db \in Databases
<1>1. Reading(c) \in DOMAIN Commands[c] /\ m \in Commands[c][Reading(c)]
  <2>1. Commands[c] \in Seq(SUBSET Command) /\ Len(Commands[c]) \in Nat
    BY ConstantsAssumption, LenProperties
  <2>2. Len(log[c]) \in Nat
    BY LenProperties DEF LogOK
  <2> QED BY <2>1, <2>2, LenProperties DEF Select, MayRead, Reading
<1>2. m \in UNION Range(Commands[c])
  BY <1>1 DEF Range
<1>3. m.kind = "select" /\ m.db \in Locks
  BY DEF Select
<1> QED BY <1>2, <1>3, ConstantsAssumption

LEMMA ReadTypes ==
  ASSUME Types, NEW c \in Clients, NEW m, ChannelRead(c, m)
  PROVE  Types'
<1> USE DEF Types
<1>1. MayRead(c, m) /\ Logged(c, m)
  BY DEF ChannelRead, Unregistered, Malformed, Auth, Local, Quit, SelectOutOfRange, SelectNoLock,
         Select, Request, Flushall
<1>2. LogOK' /\ Grows /\ m \in Command /\ Reading(c) \in DOMAIN log'[c] /\ Reading(c) \in Nat
  BY <1>1, LogStep
<1>3. RepliesOK'
  <2>1. UNCHANGED replies \/ Answer(c, Reading(c), "proxy")
    BY DEF ChannelRead, Unregistered, Malformed, Auth, Local, Quit, SelectOutOfRange, SelectNoLock,
           Select, TakeLock, LockTaken, Request, Flushall
  <2> QED BY <1>2, <2>1, SameReplies, AnswerStep
<1>4. PendingOK'
  <2>1. CASE Request(c, m)
    BY <2>1, RequestPending
  <2>2. CASE Flushall(c, m)
    BY <1>2, <2>2, FlushallDerived, DerivedPending
  <2>3. CASE UNCHANGED pending
    BY <1>2, <2>3, SamePending
  <2> QED BY <2>1, <2>2, <2>3 DEF ChannelRead, Unregistered, Malformed, Auth, Local, Quit,
             SelectOutOfRange, SelectNoLock, Select
<1>5. SessionsOK'
  <2>1. CASE Unregistered(c, m) \/ Quit(c, m)
    BY <2>1 DEF Unregistered, Quit, Close, SessionsOK
  <2>2. CASE Malformed(c, m) \/ SelectNoLock(c, m)
    BY <2>2, ExceptionStep DEF Malformed, SelectNoLock
  <2>3. CASE Flushall(c, m)
    BY <2>3, ExceptionStep DEF Flushall, SessionsOK
  <2>4. CASE Auth(c, m)
    <3>1. channelMessages[c] \in [auth : BOOLEAN, databaseNumber : Databases]
      BY <2>4 DEF SessionsOK, Auth, Registered
    <3>2. m.good \in BOOLEAN
      BY <1>2, <2>4 DEF Auth, Command
    <3>3. AuthAfter(channelMessages[c], m) \in BOOLEAN
      BY <3>1, <3>2 DEF AuthAfter
    <3> QED BY <2>4, <3>1, <3>3 DEF Auth, SessionsOK
  <2>5. CASE Select(c, m)
    <3>1. channelMessages[c] \in [auth : BOOLEAN, databaseNumber : Databases]
      BY <2>5 DEF SessionsOK, Select, Authenticated, Registered
    <3>2. m.db \in Databases
      BY <2>5, SelectDatabase
    <3> QED BY <2>5, <3>1, <3>2 DEF Select, SessionsOK
  <2>6. CASE UNCHANGED <<channel, channelMessages>>
    BY <2>6 DEF SessionsOK
  <2> QED BY <2>1, <2>2, <2>3, <2>4, <2>5, <2>6 DEF ChannelRead, Local, SelectOutOfRange, Request
<1>6. TableOK'
  <2>1. UNCHANGED table
    BY DEF ChannelRead, Unregistered, Malformed, Auth, Local, Quit, SelectOutOfRange, SelectNoLock,
           Select, Request, Flushall
  <2> QED BY <2>1 DEF TableOK
<1>7. WorkOK'
  <2>1. CASE UNCHANGED <<work, selectLock>>
    BY <2>1 DEF WorkOK
  <2>2. CASE Select(c, m) /\ TakeLock(c, m.db)
    <3>1. ~work[c].active /\ selectLock[m.db] = NoClient
      BY <1>1, <2>2 DEF MayRead, TakeLock
    <3>2. m.db \in Databases
      BY <2>2, SelectDatabase
    <3> DEFINE w == [db |-> m.db, next |-> 1, creating |-> NoRedis, active |-> TRUE]
    <3>3. w \in [db : Databases, next : 0 .. Len(RedisList) + 1,
                 creating : Redis \cup {NoRedis}, active : BOOLEAN]
      BY <3>2, ConstantsAssumption, LenProperties
    <3>4. w.db = m.db /\ w.next = 1 /\ w.creating = NoRedis /\ w.active
      OBVIOUS
    <3> HIDE DEF w
    <3>5. work' = [work EXCEPT ![c] = w] /\ selectLock' = [selectLock EXCEPT ![m.db] = c]
      BY <2>2 DEF TakeLock, w
    <3>6. work' \in [Clients -> [db : Databases, next : 0 .. Len(RedisList) + 1,
                                 creating : Redis \cup {NoRedis}, active : BOOLEAN]]
      BY <3>3, <3>5 DEF WorkOK
    <3> QED BY <3>1, <3>2, <3>4, <3>5, <3>6, ConstantsAssumption DEF WorkOK
  <2> QED BY <2>1, <2>2 DEF ChannelRead, Unregistered, Malformed, Auth, Local, Quit,
             SelectOutOfRange, SelectNoLock, Select, LockTaken, Request, Flushall
<1>8. BusyOK'
  <2>1. \A d \in Clients : d # c => work'[d] = work[d]
    BY DEF WorkOK, ChannelRead, Unregistered, Malformed, Auth, Local, Quit, SelectOutOfRange,
           SelectNoLock, Select, TakeLock, LockTaken, Request, Flushall
  <2>2. 1 \in DOMAIN log'[c]
    BY <1>2, LenProperties DEF Reading, LogOK
  <2> QED BY <1>2, <2>1, <2>2 DEF BusyOK, Grows
<1> QED BY <1>2, <1>3, <1>4, <1>5, <1>6, <1>7, <1>8

\* The record that SelectCheck writes.
LEMMA WorkRecord ==
  ASSUME NEW A, NEW N, NEW R, NEW B, NEW w \in [db : A, next : N, creating : R, active : B],
         NEW n \in N, NEW r \in R
  PROVE  /\ [w EXCEPT !.next = n, !.creating = r] \in [db : A, next : N, creating : R, active : B]
         /\ [w EXCEPT !.next = n, !.creating = r].db = w.db
         /\ [w EXCEPT !.next = n, !.creating = r].next = n
         /\ [w EXCEPT !.next = n, !.creating = r].active = w.active
OBVIOUS

LEMMA WorkTypes ==
  ASSUME Types, NEW c \in Clients, InitDatabase(c)
  PROVE  Types'
<1> USE DEF Types
<1> DEFINE W == [db : Databases, next : 0 .. Len(RedisList) + 1,
                 creating : Redis \cup {NoRedis}, active : BOOLEAN]
<1>1. LogOK' /\ Grows
  BY SameLog DEF InitDatabase, SelectCheck, SelectPut, SelectDone
<1>2. work \in [Clients -> W] /\ work[c] \in W /\ work[c].active /\ Len(RedisList) \in Nat
  BY ConstantsAssumption, LenProperties DEF WorkOK, InitDatabase, SelectCheck, SelectPut, SelectDone
<1>3. CASE SelectCheck(c)
  <2> DEFINE r == IF table[Conn(RedisList[work[c].next], work[c].db)] = "none"
                    THEN RedisList[work[c].next] ELSE NoRedis
             w == [work[c] EXCEPT !.next = work[c].next + 1, !.creating = r]
  <2>1. work[c].next \in 1 .. Len(RedisList)
    BY <1>2, <1>3 DEF WorkOK, SelectCheck
  <2>2. RedisList[work[c].next] \in Redis
    BY <2>1, ConstantsAssumption, ElementOfSeq
  <2>4. work' = [work EXCEPT ![c] = w]
    BY <1>2, <1>3 DEF SelectCheck
  <2>9. r \in Redis \cup {NoRedis} /\ work[c].next + 1 \in 1 .. Len(RedisList) + 1
    BY <1>2, <2>1, <2>2
  <2> HIDE DEF r
  <2>3. w \in W /\ w.next >= 1 /\ w.db = work[c].db /\ w.active
    <3>1. work[c].next + 1 \in 0 .. Len(RedisList) + 1 /\ work[c].next + 1 >= 1
      BY <2>9
    <3> QED BY <1>2, <2>9, <3>1, WorkRecord
  <2> HIDE DEF w
  <2>5. work' \in [Clients -> W]
    BY <1>2, <2>3, <2>4
  <2>6. WorkOK'
    <3>1. work'[c] = w /\ \A d \in Clients : d # c => work'[d] = work[d]
      BY <1>2, <2>4
    <3>2. UNCHANGED selectLock
      BY <1>3 DEF SelectCheck
    <3>3. selectLock[work[c].db] = c
      BY <1>2 DEF WorkOK
    <3> QED BY <2>3, <2>5, <3>1, <3>2, <3>3 DEF WorkOK
  <2>7. UNCHANGED <<replies, pending, channel, channelMessages, table>>
    BY <1>3 DEF SelectCheck
  <2>8. BusyOK'
    BY <1>1, <1>2, <2>4 DEF BusyOK, Grows
  <2> QED BY <1>1, <2>6, <2>7, <2>8, SameReplies, SamePending DEF SessionsOK, TableOK
<1>4. CASE SelectPut(c)
  <2> DEFINE w == [work[c] EXCEPT !.creating = NoRedis]
  <2>1. w \in W /\ w.next = work[c].next /\ w.db = work[c].db /\ w.active /\ w.creating = NoRedis
    BY <1>2
  <2>2. work' = [work EXCEPT ![c] = w] /\ UNCHANGED <<selectLock, replies, channel, channelMessages>>
    BY <1>4 DEF SelectPut
  <2> HIDE DEF w
  <2>3. work' \in [Clients -> W]
    BY <1>2, <2>1, <2>2
  <2>4. WorkOK'
    BY <1>2, <2>1, <2>2, <2>3 DEF WorkOK
  <2>5. PendingOK'
    BY <1>1, <1>4, PutDerived, DerivedPending
  <2>6. TableOK'
    BY <1>4 DEF SelectPut, TableOK
  <2>7. BusyOK'
    BY <1>1, <1>2, <2>2 DEF BusyOK, Grows
  <2> QED BY <1>1, <2>2, <2>4, <2>5, <2>6, <2>7, SameReplies DEF SessionsOK
<1>5. CASE SelectDone(c)
  <2>1. Idle \in W /\ ~Idle.active /\ Idle.creating = NoRedis
    BY <1>2, ConstantsAssumption DEF Idle
  <2>2. work' = [work EXCEPT ![c] = Idle] /\ selectLock' = [selectLock EXCEPT ![work[c].db] = NoClient]
    BY <1>5 DEF SelectDone
  <2>3. work' \in [Clients -> W]
    BY <1>2, <2>1, <2>2
  <2>4. selectLock' \in [Databases -> Clients \cup {NoClient}]
    BY <1>2, <2>2 DEF WorkOK
  <2>5. \A d \in Clients : d # c => work'[d] = work[d]
    BY <1>2, <2>2
  <2>6. work'[c] = Idle
    BY <1>2, <2>2
  <2>7. \A d \in Clients : d # c /\ work[d].active => work[d].db # work[c].db
    BY <1>2 DEF WorkOK
  <2>8. \A d \in Clients : work'[d].active => work'[d].next >= 1 /\ selectLock'[work'[d].db] = d
    BY <1>2, <2>1, <2>2, <2>5, <2>6, <2>7 DEF WorkOK
  <2>9. WorkOK'
    BY <2>1, <2>3, <2>4, <2>5, <2>6, <2>8 DEF WorkOK
  <2>10. RepliesOK'
    <3>1. Answer(c, Len(log[c]), "proxy") /\ Len(log[c]) \in Nat
      BY <1>5, LenProperties DEF SelectDone, LogOK
    <3>2. Len(log[c]) \in DOMAIN log'[c]
      <4>1. DOMAIN log[c] = 1 .. Len(log[c]) /\ 1 \in DOMAIN log[c]
        BY <1>2, LenProperties DEF BusyOK, LogOK
      <4>2. Len(log[c]) \in DOMAIN log[c]
        BY <3>1, <4>1
      <4> QED BY <1>1, <4>2 DEF Grows
    <3> QED BY <1>1, <3>1, <3>2, AnswerStep
  <2>11. BusyOK'
    BY <1>1, <2>1, <2>5, <2>6 DEF BusyOK, Grows
  <2> QED BY <1>1, <1>5, <2>9, <2>10, <2>11, SamePending DEF SelectDone, SessionsOK, TableOK
<1> QED BY <1>3, <1>4, <1>5 DEF InitDatabase

LEMMA OtherTypes ==
  ASSUME Types,
         \/ \E c \in Clients : ClientCloses(c) \/ ChannelInactive(c)
         \/ \E k \in Conns : Connected(k) \/ ConnectFailed(k) \/ Lose(k) \/ Down(k) \/ RedisReplies(k)
         \/ UNCHANGED vars
  PROVE  Types'
<1> USE DEF Types
<1>1. UNCHANGED <<log, work, selectLock>>
  BY DEF ClientCloses, ChannelInactive, Connected, ConnectFailed, Lose, Down, RedisReplies, vars
<1>2. LogOK' /\ Grows /\ BusyOK' /\ WorkOK'
  BY <1>1, SameLog DEF BusyOK, WorkOK
<1>3. RepliesOK'
  <2>1. CASE UNCHANGED replies
    BY <1>2, <2>1, SameReplies
  <2>2. ASSUME NEW k \in Conns, RedisReplies(k), ~UNCHANGED replies PROVE RepliesOK'
    <3>1. pending[k] # <<>> /\ pending[k] \in Seq(Entry)
      BY <2>2 DEF RedisReplies, PendingOK
    <3>2. Head(pending[k]) \in Range(pending[k]) /\ Head(pending[k]) \in Entry
      BY <3>1, TailRange
    <3> DEFINE task == Head(pending[k])
    <3>3. task.client # NoClient /\ Answer(task.client, task.index, "redis")
      BY <2>2 DEF RedisReplies
    <3>4. task.client \in Clients /\ task.index \in DOMAIN log[task.client] /\ task.index \in Nat
      BY <3>2, <3>3 DEF PendingOK, FlushTask, Entry
    <3> HIDE DEF task
    <3> QED BY <1>2, <3>3, <3>4, AnswerStep DEF Grows
  <2> QED BY <2>1, <2>2 DEF ClientCloses, ChannelInactive, Connected, ConnectFailed, Lose, Down, vars
<1>4. PendingOK'
  <2>1. CASE UNCHANGED pending
    BY <1>2, <2>1, SamePending
  <2>2. ASSUME NEW k \in Conns, RedisReplies(k) PROVE PendingOK'
    BY <1>2, <2>2, ReplyDerived, DerivedPending
  <2> QED BY <2>1, <2>2 DEF ClientCloses, ChannelInactive, Connected, ConnectFailed, Lose, Down, vars
<1>5. SessionsOK'
  BY DEF SessionsOK, ClientCloses, Close, ChannelInactive, Connected, ConnectFailed, Lose, Down,
         RedisReplies, vars
<1>6. TableOK'
  BY DEF TableOK, ClientCloses, ChannelInactive, Connected, ConnectFailed, Lose, Down, RedisReplies, vars
<1> QED BY <1>2, <1>3, <1>4, <1>5, <1>6

LEMMA TypesStep == Types /\ [Next]_vars => Types'
<1> SUFFICES ASSUME Types, [Next]_vars PROVE Types'
  OBVIOUS
<1>1. ASSUME NEW c \in Clients, NEW m, ChannelRead(c, m) PROVE Types'
  BY <1>1, ReadTypes
<1>2. ASSUME NEW c \in Clients, InitDatabase(c) PROVE Types'
  BY <1>2, WorkTypes
<1> QED BY <1>1, <1>2, OtherTypes DEF Next

\* Every reachable state is well typed, for any clients, commands, slices and Redis.
THEOREM SessionTypes == Spec => []TypeOK
<1>1. Types => TypeOK
  BY TypesImply
<1> QED BY <1>1, TypesInit, TypesStep, PTL DEF Spec

-----------------------------------------------------------------------------
(* The select lock.                                                          *)

\* Only the holder of the lock of a database puts clients for it, one at a time, each
\* at once after it found it missing or not at all.
LEMMA CreatesStep ==
  ASSUME Types, CreatesMissing, [Next]_vars
  PROVE  CreatesMissing'
<1> USE DEF Types
<1> SUFFICES ASSUME NEW d \in Clients, work'[d].creating # NoRedis
             PROVE  table'[Conn(work'[d].creating, work'[d].db)] = "none"
  BY DEF CreatesMissing
<1>1. ASSUME NEW c \in Clients, NEW m, ChannelRead(c, m)
      PROVE  table'[Conn(work'[d].creating, work'[d].db)] = "none"
  <2>1. UNCHANGED table
    BY <1>1 DEF ChannelRead, Unregistered, Malformed, Auth, Local, Quit, SelectOutOfRange,
                SelectNoLock, Select, Request, Flushall
  <2>2. work'[d] = work[d] \/ work'[d].creating = NoRedis
    BY <1>1 DEF WorkOK, ChannelRead, Unregistered, Malformed, Auth, Local, Quit, SelectOutOfRange,
                SelectNoLock, Select, TakeLock, LockTaken, Request, Flushall
  <2> QED BY <2>1, <2>2 DEF CreatesMissing
<1>2. ASSUME NEW c \in Clients, SelectCheck(c)
      PROVE  table'[Conn(work'[d].creating, work'[d].db)] = "none"
  <2>1. UNCHANGED table
    BY <1>2 DEF SelectCheck
  <2>2. d # c => work'[d] = work[d]
    BY <1>2 DEF SelectCheck, WorkOK
  <2>3. d = c => /\ work'[d].db = work[d].db
                 /\ table[Conn(RedisList[work[d].next], work[d].db)] = "none"
                 /\ work'[d].creating = RedisList[work[d].next]
    BY <1>2 DEF SelectCheck, WorkOK
  <2> QED BY <2>1, <2>2, <2>3 DEF CreatesMissing
<1>3. ASSUME NEW c \in Clients, SelectPut(c)
      PROVE  table'[Conn(work'[d].creating, work'[d].db)] = "none"
  <2>1. d # c /\ work'[d] = work[d]
    BY <1>3 DEF SelectPut, WorkOK
  <2>2. work[c].active /\ work[d].active /\ work[d].db # work[c].db
    BY <1>3, <2>1 DEF SelectPut, WorkOK
  <2>3. Conn(work[d].creating, work[d].db) # Conn(work[c].creating, work[c].db)
    BY <2>2 DEF Conn
  <2>4. table'[Conn(work[d].creating, work[d].db)] = table[Conn(work[d].creating, work[d].db)]
    BY <1>3, <2>3 DEF SelectPut, TableOK
  <2> QED BY <2>1, <2>4 DEF CreatesMissing
<1>4. ASSUME NEW c \in Clients, SelectDone(c)
      PROVE  table'[Conn(work'[d].creating, work'[d].db)] = "none"
  <2>1. UNCHANGED table /\ (work'[d] = work[d] \/ work'[d].creating = NoRedis)
    BY <1>4 DEF SelectDone, WorkOK, Idle
  <2> QED BY <2>1 DEF CreatesMissing
<1>5. ASSUME NEW k \in Conns, Connected(k) \/ ConnectFailed(k) \/ Lose(k) \/ Down(k)
      PROVE  table'[Conn(work'[d].creating, work'[d].db)] = "none"
  <2>1. UNCHANGED work /\ table[k] # "none" /\ \A j \in Conns : j # k => table'[j] = table[j]
    BY <1>5 DEF Connected, ConnectFailed, Lose, Down, TableOK
  <2>2. work[d] \in [db : Databases, next : 0 .. Len(RedisList) + 1,
                     creating : Redis \cup {NoRedis}, active : BOOLEAN]
    BY DEF WorkOK
  <2>3. Conn(work[d].creating, work[d].db) \in Conns
    BY <2>1, <2>2 DEF Conn, Conns, Redis
  <2> QED BY <2>1, <2>3 DEF CreatesMissing
<1>6. CASE UNCHANGED <<work, table>>
  BY <1>6 DEF CreatesMissing
<1> QED BY <1>1, <1>2, <1>3, <1>4, <1>5, <1>6
        DEF Next, InitDatabase, ClientCloses, ChannelInactive, RedisReplies, vars

\* The select lock does what RedisProxyClient.java l.65 says of it among the SELECTs:
\* no client is put where another SELECT has put one since it was found missing.
THEOREM NoRepeatedClient == Spec => []CreatesMissing
<1>1. Init => CreatesMissing
  BY DEF Init, Idle, CreatesMissing
<1> QED BY <1>1, TypesInit, TypesStep, CreatesStep, PTL DEF Spec

-----------------------------------------------------------------------------
(* A command is answered at most once.                                       *)

RequestOf(c, i) == [client |-> c, index |-> i]

RepliesOnce ==
  \A c \in Clients : \A i, j \in DOMAIN replies[c] :
    replies[c][i].to = replies[c][j].to => i = j

WaitsOnce ==
  \A k, l \in Conns : \A i \in DOMAIN pending[k], j \in DOMAIN pending[l] :
    pending[k][i].client # NoClient /\ pending[k][i] = pending[l][j] => k = l /\ i = j

\* The command i of c has no reply and waits at no Redis.
Unreplied(c, i) == \A j \in DOMAIN replies[c] : replies[c][j].to # i
Unsent(c, i) == \A k \in Conns : RequestOf(c, i) \notin Range(pending[k])

NotBoth ==
  \A c \in Clients : \A j \in DOMAIN replies[c] : Unsent(c, replies[c][j].to)

\* The SELECT that a thread inside initDatabase has still to answer.
BusyUnanswered ==
  \A c \in Clients : work[c].active => Unreplied(c, Len(log[c])) /\ Unsent(c, Len(log[c]))

Once == RepliesOnce /\ WaitsOnce /\ NotBoth /\ BusyUnanswered

LEMMA OnceIsAnsweredOnce ==
  ASSUME Types, Once
  PROVE  AnsweredOnce
<1> SUFFICES ASSUME NEW c \in Clients, NEW i \in DOMAIN log[c]
             PROVE  LET answered == {j \in DOMAIN replies[c] : replies[c][j].to = i}
                        waiting(k) == {j \in DOMAIN pending[k] : pending[k][j] = RequestOf(c, i)}
                        waits == UNION {{k} \X waiting(k) : k \in Conns}
                    IN  Cardinality(answered) + Cardinality(waits) <= 1
  BY DEF AnsweredOnce, RequestOf
<1> DEFINE answered == {j \in DOMAIN replies[c] : replies[c][j].to = i}
           waiting(k) == {j \in DOMAIN pending[k] : pending[k][j] = RequestOf(c, i)}
           waits == UNION {{k} \X waiting(k) : k \in Conns}
<1>1. \A j, l \in answered : j = l
  BY DEF Once, RepliesOnce
<1>2. \A x, y \in waits : x = y
  <2>1. RequestOf(c, i).client # NoClient
    BY ConstantsAssumption DEF RequestOf
  <2> SUFFICES ASSUME NEW x \in waits, NEW y \in waits PROVE x = y
    OBVIOUS
  <2>2. PICK k \in Conns : x \in {k} \X waiting(k)
    OBVIOUS
  <2>3. PICK l \in Conns : y \in {l} \X waiting(l)
    OBVIOUS
  <2>4. x = <<k, x[2]>> /\ x[2] \in waiting(k) /\ y = <<l, y[2]>> /\ y[2] \in waiting(l)
    BY <2>2, <2>3
  <2>5. k = l /\ x[2] = y[2]
    BY <2>1, <2>4 DEF Once, WaitsOnce
  <2> QED BY <2>4, <2>5
<1>3. answered = {} \/ waits = {}
  <2> SUFFICES ASSUME NEW j \in answered, NEW x \in waits PROVE FALSE
    OBVIOUS
  <2>1. PICK k \in Conns : x \in {k} \X waiting(k)
    OBVIOUS
  <2>2. RequestOf(c, i) \in Range(pending[k])
    BY <2>1 DEF Range
  <2> QED BY <2>2 DEF Once, NotBoth, Unsent
<1> HIDE DEF answered, waits
<1>4. \A S : (\A x, y \in S : x = y) => Cardinality(S) \in {0, 1} /\ (S = {} => Cardinality(S) = 0)
  <2> SUFFICES ASSUME NEW S, \A x, y \in S : x = y
               PROVE  Cardinality(S) \in {0, 1} /\ (S = {} => Cardinality(S) = 0)
    OBVIOUS
  <2>1. CASE S = {}
    BY <2>1, FS_EmptySet
  <2>2. CASE S # {}
    <3>1. PICK x \in S : S = {x}
      BY <2>2
    <3> QED BY <3>1, FS_Singleton
  <2> QED BY <2>1, <2>2
<1>5. Cardinality(answered) + Cardinality(waits) <= 1
  BY <1>1, <1>2, <1>3, <1>4
<1> QED BY <1>5 DEF answered, waits

\* The command that is read next is new.
LEMMA NextCommand ==
  ASSUME Types, NEW c \in Clients
  PROVE  Unreplied(c, Reading(c)) /\ Unsent(c, Reading(c))
<1>1. Reading(c) \notin DOMAIN log[c]
  BY LenProperties DEF Types, LogOK, Reading
<1>2. Unreplied(c, Reading(c))
  BY <1>1 DEF Unreplied, Types, RepliesOK
<1>3. Unsent(c, Reading(c))
  <2> SUFFICES ASSUME NEW k \in Conns, RequestOf(c, Reading(c)) \in Range(pending[k]) PROVE FALSE
    BY DEF Unsent
  <2> DEFINE e == RequestOf(c, Reading(c))
  <2>1. e.client = c /\ e.index = Reading(c)
    BY DEF RequestOf
  <2>2. e = FlushTask \/ e.index \in DOMAIN log[e.client]
    BY DEF Types, PendingOK
  <2> QED BY <1>1, <2>1, <2>2, ConstantsAssumption DEF FlushTask
<1> QED BY <1>2, <1>3

\* An answer to a command that has none.
LEMMA AnswerOnce ==
  ASSUME Types, RepliesOnce, NEW c \in Clients, NEW i \in Nat, NEW by \in {"proxy", "redis"},
         Unreplied(c, i), Answer(c, i, by)
  PROVE  /\ RepliesOnce'
         /\ \A d \in Clients : \A j \in DOMAIN replies'[d] :
              \/ \E l \in DOMAIN replies[d] : replies'[d][j].to = replies[d][l].to
              \/ d = c /\ replies'[d][j].to = i
<1> DEFINE r == [to |-> i, by |-> by]
<1>1. r \in Reply /\ r.to = i
  BY DEF Reply
<1>2. CASE UNCHANGED replies
  BY <1>2 DEF RepliesOnce
<1>3. CASE replies' = [replies EXCEPT ![c] = Append(@, r)]
  <2>1. replies[c] \in Seq(Reply) /\ Len(replies[c]) \in Nat
    BY LenProperties DEF Types, RepliesOK
  <2> HIDE DEF r
  <2>2. /\ DOMAIN replies'[c] = 1 .. Len(replies[c]) + 1
        /\ \A j \in 1 .. Len(replies[c]) : replies'[c][j] = replies[c][j]
        /\ replies'[c][Len(replies[c]) + 1] = r
        /\ DOMAIN replies[c] = 1 .. Len(replies[c])
    BY <1>1, <1>3, <2>1, AppendProperties, LenProperties DEF Types, RepliesOK
  <2>3. \A d \in Clients : d # c => replies'[d] = replies[d]
    BY <1>3 DEF Types, RepliesOK
  <2>4. \A j \in DOMAIN replies'[c] : j \in DOMAIN replies[c] \/ j = Len(replies[c]) + 1
    BY <2>1, <2>2
  <2>5. \A j \in DOMAIN replies[c] : replies'[c][j].to = replies[c][j].to /\ replies[c][j].to # i
    BY <2>2 DEF Unreplied
  <2>6. replies'[c][Len(replies[c]) + 1].to = i
    BY <1>1, <2>2
  <2>7. ASSUME NEW j \in DOMAIN replies'[c], NEW l \in DOMAIN replies'[c],
               replies'[c][j].to = replies'[c][l].to
        PROVE  j = l
    BY <2>4, <2>5, <2>6, <2>7 DEF RepliesOnce
  <2>8. RepliesOnce'
    BY <2>3, <2>7 DEF RepliesOnce
  <2> QED BY <2>3, <2>4, <2>5, <2>6, <2>8
<1> QED BY <1>2, <1>3 DEF Answer

\* A step that hands over no request: the entries of a connection are those it had,
\* all in their places, or one place ahead.
LEMMA ShiftedOnce ==
  ASSUME Types, WaitsOnce, NEW s \in [Conns -> {0, 1}],
         \A k \in Conns : \A i \in DOMAIN pending'[k] :
            \/ pending'[k][i].client = NoClient
            \/ i + s[k] \in DOMAIN pending[k] /\ pending'[k][i] = pending[k][i + s[k]],
         Derived
  PROVE  WaitsOnce'
<1> SUFFICES ASSUME NEW k \in Conns, NEW l \in Conns,
                    NEW i \in DOMAIN pending'[k], NEW j \in DOMAIN pending'[l],
                    pending'[k][i].client # NoClient, pending'[k][i] = pending'[l][j]
             PROVE  k = l /\ i = j
  BY DEF WaitsOnce
<1>1. /\ i + s[k] \in DOMAIN pending[k] /\ pending'[k][i] = pending[k][i + s[k]]
      /\ j + s[l] \in DOMAIN pending[l] /\ pending'[l][j] = pending[l][j + s[l]]
  OBVIOUS
<1>2. k = l /\ i + s[k] = j + s[l]
  <2> DEFINE x == i + s[k]
             y == j + s[l]
  <2>1. /\ x \in DOMAIN pending[k] /\ y \in DOMAIN pending[l]
        /\ pending[k][x] = pending[l][y] /\ pending[k][x].client # NoClient
    BY <1>1
  <2> HIDE DEF x, y
  <2>2. k = l /\ x = y
    BY <2>1 DEF WaitsOnce
  <2> QED BY <2>2 DEF x, y
<1>3. i \in Nat /\ j \in Nat /\ s[k] \in {0, 1}
  BY LenProperties DEF Derived
<1> QED BY <1>2, <1>3

\* The same after a step.
UnsentAfter(c, i) == \A k \in Conns : RequestOf(c, i) \notin Range(pending'[k])
UnrepliedAfter(c, i) == \A j \in DOMAIN replies'[c] : replies'[c][j].to # i

LEMMA UnsentDerived ==
  ASSUME Derived, NEW c \in Clients, NEW i, Unsent(c, i)
  PROVE  UnsentAfter(c, i)
<1>1. RequestOf(c, i) # FlushTask
  BY ConstantsAssumption DEF RequestOf, FlushTask
<1> QED BY <1>1 DEF Unsent, UnsentAfter, Derived

\* Once after a step, with the replies and the entries of the step as they are then.
LEMMA OncePrimed ==
  ASSUME RepliesOnce', WaitsOnce',
         \A c \in Clients : \A j \in DOMAIN replies'[c] : UnsentAfter(c, replies'[c][j].to),
         \A c \in Clients : work'[c].active =>
           UnrepliedAfter(c, Len(log'[c])) /\ UnsentAfter(c, Len(log'[c]))
  PROVE  Once'
<1>1. NotBoth'
  BY DEF NotBoth, Unsent, UnsentAfter
<1>2. BusyUnanswered'
  BY DEF BusyUnanswered, Unreplied, UnrepliedAfter, Unsent, UnsentAfter
<1> QED BY <1>1, <1>2 DEF Once

\* A step that writes no reply and hands over no request.
LEMMA OnceSilent ==
  ASSUME Once, Derived, WaitsOnce', UNCHANGED replies,
         \A d \in Clients : work'[d].active =>
           Unreplied(d, Len(log'[d])) /\ Unsent(d, Len(log'[d]))
  PROVE  Once'
<1>1. RepliesOnce'
  BY DEF Once, RepliesOnce
<1>2. \A c \in Clients : \A j \in DOMAIN replies'[c] : UnsentAfter(c, replies'[c][j].to)
  BY UnsentDerived DEF Once, NotBoth
<1>3. \A c \in Clients : work'[c].active =>
        UnrepliedAfter(c, Len(log'[c])) /\ UnsentAfter(c, Len(log'[c]))
  BY UnsentDerived DEF Unreplied, UnrepliedAfter
<1> QED BY <1>1, <1>2, <1>3, OncePrimed

\* A step that answers a command and hands over no request.
LEMMA OnceAnswer ==
  ASSUME Types, Once, Derived, WaitsOnce', NEW c \in Clients, NEW i \in Nat,
         NEW by \in {"proxy", "redis"}, Answer(c, i, by), Unreplied(c, i), UnsentAfter(c, i),
         \A d \in Clients : work'[d].active =>
           /\ Unreplied(d, Len(log'[d])) /\ Unsent(d, Len(log'[d]))
           /\ d = c => i # Len(log'[d])
  PROVE  Once'
<1>1. /\ RepliesOnce'
      /\ \A d \in Clients : \A j \in DOMAIN replies'[d] :
           \/ \E l \in DOMAIN replies[d] : replies'[d][j].to = replies[d][l].to
           \/ d = c /\ replies'[d][j].to = i
  BY AnswerOnce DEF Once
<1>2. \A d \in Clients : \A j \in DOMAIN replies'[d] : UnsentAfter(d, replies'[d][j].to)
  <2> SUFFICES ASSUME NEW d \in Clients, NEW j \in DOMAIN replies'[d]
               PROVE  UnsentAfter(d, replies'[d][j].to)
    OBVIOUS
  <2>1. CASE d = c /\ replies'[d][j].to = i
    BY <2>1
  <2>2. ASSUME NEW l \in DOMAIN replies[d], replies'[d][j].to = replies[d][l].to
        PROVE  UnsentAfter(d, replies'[d][j].to)
    BY <2>2, UnsentDerived DEF Once, NotBoth
  <2> QED BY <1>1, <2>1, <2>2
<1>3. \A d \in Clients : work'[d].active =>
        UnrepliedAfter(d, Len(log'[d])) /\ UnsentAfter(d, Len(log'[d]))
  BY <1>1, UnsentDerived DEF Unreplied, UnrepliedAfter
<1> QED BY <1>1, <1>2, <1>3, OncePrimed

\* A step that hands one request to a connection, and writes no reply.
LEMMA OnceAccept ==
  ASSUME Types, Once, NEW c \in Clients, NEW k \in Conns, NEW i \in Nat,
         Accept(k, RequestOf(c, i)), UNCHANGED replies, Unreplied(c, i), Unsent(c, i),
         \A d \in Clients : work'[d].active =>
           /\ Unreplied(d, Len(log'[d])) /\ Unsent(d, Len(log'[d]))
           /\ d = c => i # Len(log'[d])
  PROVE  Once'
<1> DEFINE e == RequestOf(c, i)
<1>1. e \in Entry /\ e.client = c /\ e.index = i
  BY DEF RequestOf, Entry
<1>2. \A d, x : RequestOf(d, x) = e => d = c /\ x = i
  BY DEF RequestOf
<1>3. pending[k] \in Seq(Entry) /\ Len(pending[k]) \in Nat
  BY LenProperties DEF Types, PendingOK
<1>4. pending' = [pending EXCEPT ![k] = Append(pending[k], e)]
  BY DEF Accept
<1> HIDE DEF e
<1>5. /\ DOMAIN pending[k] = 1 .. Len(pending[k])
      /\ DOMAIN pending'[k] = 1 .. Len(pending[k]) + 1
      /\ \A j \in 1 .. Len(pending[k]) : pending'[k][j] = pending[k][j]
      /\ pending'[k][Len(pending[k]) + 1] = e
  BY <1>1, <1>3, <1>4, AppendProperties, LenProperties DEF Types, PendingOK
<1>6. \A l \in Conns : l # k => pending'[l] = pending[l]
  BY <1>4 DEF Types, PendingOK
<1>7. \A l \in Conns : Range(pending'[l]) \subseteq Range(pending[l]) \cup {e}
  <2>1. Range(pending'[k]) = Range(pending[k]) \cup {e}
    BY <1>1, AcceptStep DEF e, Types
  <2> QED BY <1>6, <2>1
<1>8. \A l \in Conns : \A j \in DOMAIN pending'[l] :
        \/ j \in DOMAIN pending[l] /\ pending'[l][j] = pending[l][j] /\ pending[l][j] # e
        \/ l = k /\ j = Len(pending[k]) + 1 /\ pending'[l][j] = e
  <2> SUFFICES ASSUME NEW l \in Conns, NEW j \in DOMAIN pending'[l]
               PROVE  \/ /\ j \in DOMAIN pending[l] /\ pending'[l][j] = pending[l][j]
                         /\ pending[l][j] # e
                      \/ l = k /\ j = Len(pending[k]) + 1 /\ pending'[l][j] = e
    OBVIOUS
  <2>1. j \in DOMAIN pending[l] => pending[l][j] # e
    BY DEF Unsent, Range, e
  <2>2. CASE l # k
    BY <1>6, <2>1, <2>2
  <2>3. CASE l = k
    <3>1. j \in 1 .. Len(pending[k]) \/ j = Len(pending[k]) + 1
      BY <1>3, <1>5, <2>3
    <3> QED BY <1>5, <2>1, <2>3, <3>1
  <2> QED BY <2>2, <2>3
<1>9. WaitsOnce'
  <2> SUFFICES ASSUME NEW a \in Conns, NEW b \in Conns,
                      NEW j \in DOMAIN pending'[a], NEW l \in DOMAIN pending'[b],
                      pending'[a][j].client # NoClient, pending'[a][j] = pending'[b][l]
               PROVE  a = b /\ j = l
    BY DEF WaitsOnce
  <2>1. \/ /\ j \in DOMAIN pending[a] /\ pending'[a][j] = pending[a][j]
           /\ l \in DOMAIN pending[b] /\ pending'[b][l] = pending[b][l]
        \/ a = k /\ b = k /\ j = Len(pending[k]) + 1 /\ l = Len(pending[k]) + 1
    BY <1>8
  <2> QED BY <2>1 DEF Once, WaitsOnce
<1>10. RepliesOnce'
  BY DEF Once, RepliesOnce
<1>11. \A d \in Clients : \A x : Unsent(d, x) /\ ~(d = c /\ x = i) => UnsentAfter(d, x)
  BY <1>2, <1>7 DEF Unsent, UnsentAfter
<1>12. \A d \in Clients : \A j \in DOMAIN replies'[d] : UnsentAfter(d, replies'[d][j].to)
  BY <1>11 DEF Once, NotBoth, Unreplied
<1>13. \A d \in Clients : work'[d].active =>
         UnrepliedAfter(d, Len(log'[d])) /\ UnsentAfter(d, Len(log'[d]))
  BY <1>11 DEF Unreplied, UnrepliedAfter
<1> QED BY <1>9, <1>10, <1>12, <1>13, OncePrimed

-----------------------------------------------------------------------------

\* Nothing in the connections: the entries of the unchanged ones stay where they are.
LEMMA SameWaits ==
  ASSUME Types, Once, UNCHANGED pending
  PROVE  Derived /\ WaitsOnce'
BY DEF Types, PendingOK, Derived, Once, WaitsOnce

LEMMA FlushallOnce ==
  ASSUME Types, Once, NEW c \in Clients, NEW m, Flushall(c, m)
  PROVE  Derived /\ WaitsOnce'
<1>1. PICK reached : pending' = [k \in Conns |->
        IF k \in reached THEN Append(pending[k], FlushTask) ELSE pending[k]]
  BY DEF Flushall
<1>2. Derived
  BY FlushallDerived DEF Types
<1>3. FlushTask \in Entry /\ FlushTask.client = NoClient
  BY DEF FlushTask, Entry
<1> DEFINE s == [k \in Conns |-> 0]
<1>4. s \in [Conns -> {0, 1}] /\ \A k \in Conns : s[k] = 0
  OBVIOUS
<1> HIDE DEF s
<1>5. ASSUME NEW k \in Conns, NEW i \in DOMAIN pending'[k]
      PROVE  \/ pending'[k][i].client = NoClient
             \/ i + s[k] \in DOMAIN pending[k] /\ pending'[k][i] = pending[k][i + s[k]]
  <2>1. pending[k] \in Seq(Entry) /\ Len(pending[k]) \in Nat /\ DOMAIN pending[k] = 1 .. Len(pending[k])
    BY LenProperties DEF Types, PendingOK
  <2>2. CASE pending'[k] = pending[k]
    BY <1>4, <1>5, <2>1, <2>2
  <2>3. CASE pending'[k] = Append(pending[k], FlushTask)
    <3>1. /\ DOMAIN pending'[k] = 1 .. Len(pending[k]) + 1
          /\ \A j \in 1 .. Len(pending[k]) : pending'[k][j] = pending[k][j]
          /\ pending'[k][Len(pending[k]) + 1] = FlushTask
      BY <1>3, <2>1, <2>3, AppendProperties, LenProperties
    <3>2. i \in 1 .. Len(pending[k]) \/ i = Len(pending[k]) + 1
      BY <2>1, <3>1
    <3>3. CASE i = Len(pending[k]) + 1
      BY <1>3, <3>1, <3>3
    <3>4. CASE i \in 1 .. Len(pending[k])
      BY <1>4, <2>1, <3>1, <3>4
    <3> QED BY <3>2, <3>3, <3>4
  <2> QED BY <1>1, <2>2, <2>3
<1> QED BY <1>2, <1>4, <1>5, ShiftedOnce DEF Once

LEMMA PutOnce ==
  ASSUME Types, Once, NEW c \in Clients, SelectPut(c)
  PROVE  Derived /\ WaitsOnce'
<1>1. Derived
  BY PutDerived DEF Types
<1>2. \A k \in Conns : pending'[k] = pending[k] \/ pending'[k] = <<>>
  BY DEF SelectPut, Types, PendingOK
<1>3. \A k \in Conns : \A i \in DOMAIN pending'[k] :
        i \in DOMAIN pending[k] /\ pending'[k][i] = pending[k][i]
  BY <1>2
<1>4. WaitsOnce'
  BY <1>3 DEF Once, WaitsOnce
<1> QED BY <1>1, <1>4

\* The oldest request leaves its connection; the others move ahead by one place.
LEMMA ReplyOnce ==
  ASSUME Types, Once, NEW k \in Conns, RedisReplies(k)
  PROVE  /\ Derived /\ WaitsOnce'
         /\ Head(pending[k]).client # NoClient => Head(pending[k]) \notin UNION {Range(pending'[l]) : l \in Conns}
         /\ Head(pending[k]) \in Range(pending[k]) /\ Head(pending[k]) \in Entry
<1>1. /\ pending[k] \in Seq(Entry) /\ pending[k] # <<>>
      /\ pending' = [pending EXCEPT ![k] = Tail(pending[k])]
  BY DEF RedisReplies, Types, PendingOK
<1>2. Derived
  BY ReplyDerived DEF Types
<1> DEFINE s == [l \in Conns |-> IF l = k THEN 1 ELSE 0]
<1>3. s \in [Conns -> {0, 1}] /\ s[k] = 1 /\ \A l \in Conns : l # k => s[l] = 0
  OBVIOUS
<1> HIDE DEF s
<1>4. /\ Len(pending[k]) \in Nat \ {0} /\ DOMAIN pending[k] = 1 .. Len(pending[k])
      /\ DOMAIN Tail(pending[k]) = 1 .. Len(pending[k]) - 1
      /\ \A i \in 1 .. Len(pending[k]) - 1 : Tail(pending[k])[i] = pending[k][i + 1]
      /\ Head(pending[k]) = pending[k][1]
  BY <1>1, HeadTailProperties, EmptySeq, LenProperties
<1>5. pending'[k] = Tail(pending[k]) /\ \A l \in Conns : l # k => pending'[l] = pending[l]
  BY <1>1 DEF Types, PendingOK
<1>6. \A l \in Conns : \A i \in DOMAIN pending[l] : i \in Nat \ {0}
  BY LenProperties DEF Types, PendingOK
<1>7. \A l \in Conns : \A i \in DOMAIN pending'[l] :
        /\ i \in Nat \ {0} /\ i + s[l] \in DOMAIN pending[l]
        /\ pending'[l][i] = pending[l][i + s[l]]
  <2> SUFFICES ASSUME NEW l \in Conns, NEW i \in DOMAIN pending'[l]
               PROVE  /\ i \in Nat \ {0} /\ i + s[l] \in DOMAIN pending[l]
                      /\ pending'[l][i] = pending[l][i + s[l]]
    OBVIOUS
  <2>1. CASE l = k
    <3>1. i \in 1 .. Len(pending[k]) - 1 /\ pending'[l][i] = pending[k][i + 1]
      BY <1>4, <1>5, <2>1
    <3>2. i \in Nat \ {0} /\ i + 1 \in DOMAIN pending[k]
      BY <1>4, <3>1
    <3> QED BY <1>3, <2>1, <3>1, <3>2
  <2>2. CASE l # k
    BY <1>3, <1>5, <1>6, <2>2
  <2> QED BY <2>1, <2>2
<1>8. WaitsOnce'
  BY <1>2, <1>3, <1>7, ShiftedOnce DEF Once
<1>9. ASSUME Head(pending[k]).client # NoClient, NEW l \in Conns, Head(pending[k]) \in Range(pending'[l])
      PROVE  FALSE
  <2>1. PICK i \in DOMAIN pending'[l] : pending'[l][i] = pending[k][1]
    BY <1>4, <1>9 DEF Range
  <2>2. 1 \in DOMAIN pending[k]
    BY <1>4
  <2>3. k = l /\ 1 = i + s[l]
    BY <1>4, <1>7, <1>9, <2>1, <2>2 DEF Once, WaitsOnce
  <2> QED BY <1>3, <1>7, <2>3
<1> QED BY <1>1, <1>2, <1>8, <1>9, TailRange

LEMMA OnceRead ==
  ASSUME Types, Once, NEW c \in Clients, NEW m, ChannelRead(c, m)
  PROVE  Once'
<1>1. MayRead(c, m) /\ Logged(c, m)
  BY DEF ChannelRead, Unregistered, Malformed, Auth, Local, Quit, SelectOutOfRange, SelectNoLock,
         Select, Request, Flushall
<1>2. /\ \A d \in Clients : d # c => log'[d] = log[d]
      /\ log[c] \in Seq(Command) /\ log'[c] = Append(log[c], m) /\ m \in Command
      /\ Reading(c) \in Nat
  BY <1>1, LogStep DEF Types
<1>3. Len(log'[c]) = Reading(c)
  BY <1>2, AppendProperties DEF Reading
<1>4. Unreplied(c, Reading(c)) /\ Unsent(c, Reading(c))
  BY NextCommand
<1>5. \A d \in Clients : work'[d].active => Unreplied(d, Len(log'[d])) /\ Unsent(d, Len(log'[d]))
  <2>1. \A d \in Clients : d # c => work'[d] = work[d]
    BY DEF Types, WorkOK, ChannelRead, Unregistered, Malformed, Auth, Local, Quit,
           SelectOutOfRange, SelectNoLock, Select, TakeLock, LockTaken, Request, Flushall
  <2> QED BY <1>2, <1>3, <1>4, <2>1 DEF Once, BusyUnanswered
<1>6. ~(Select(c, m) /\ TakeLock(c, m.db)) => ~work'[c].active
  BY <1>1 DEF MayRead, ChannelRead, Unregistered, Malformed, Auth, Local, Quit,
              SelectOutOfRange, SelectNoLock, Select, LockTaken, Request, Flushall
<1>7. CASE Select(c, m) /\ TakeLock(c, m.db)
  <2>1. UNCHANGED <<pending, replies>>
    BY <1>7 DEF Select, TakeLock
  <2> QED BY <1>5, <2>1, SameWaits, OnceSilent
<1>8. CASE ~(Select(c, m) /\ TakeLock(c, m.db)) /\ Request(c, m)
  <2>1. CASE \E k \in Conns : Accept(k, RequestOf(c, Reading(c))) /\ UNCHANGED replies
    BY <1>2, <1>4, <1>5, <1>6, <1>8, <2>1, OnceAccept
  <2>2. CASE Answer(c, Reading(c), "proxy") /\ UNCHANGED pending
    <3>1. Derived /\ WaitsOnce'
      BY <2>2, SameWaits
    <3>2. UnsentAfter(c, Reading(c))
      BY <1>4, <3>1, UnsentDerived
    <3> QED BY <1>2, <1>4, <1>5, <1>6, <1>8, <2>2, <3>1, <3>2, OnceAnswer
  <2>3. Route(c, m) \subseteq Conns
    BY DEF Route, Candidates
  <2> QED BY <1>8, <2>1, <2>2, <2>3 DEF Request, RequestOf
<1>9. CASE ~(Select(c, m) /\ TakeLock(c, m.db)) /\ ~Request(c, m)
  <2>1. Derived /\ WaitsOnce'
    <3>1. CASE Flushall(c, m)
      BY <3>1, FlushallOnce
    <3>2. CASE ~Flushall(c, m)
      <4>1. UNCHANGED pending
        BY <1>9, <3>2 DEF ChannelRead, Unregistered, Malformed, Auth, Local, Quit,
                          SelectOutOfRange, SelectNoLock, Select
      <4> QED BY <4>1, SameWaits
    <3> QED BY <3>1, <3>2
  <2>2. UNCHANGED replies \/ Answer(c, Reading(c), "proxy")
    BY <1>9 DEF ChannelRead, Unregistered, Malformed, Auth, Local, Quit, SelectOutOfRange,
                SelectNoLock, Select, LockTaken, Flushall
  <2>3. UnsentAfter(c, Reading(c))
    BY <1>4, <2>1, UnsentDerived
  <2>4. CASE UNCHANGED replies
    BY <1>5, <2>1, <2>4, OnceSilent
  <2>5. CASE Answer(c, Reading(c), "proxy")
    BY <1>2, <1>4, <1>5, <1>6, <1>9, <2>1, <2>3, <2>5, OnceAnswer
  <2> QED BY <2>2, <2>4, <2>5
<1> QED BY <1>7, <1>8, <1>9

LEMMA OnceStep ==
  ASSUME Types, Once, [Next]_vars
  PROVE  Once'
<1>1. ASSUME NEW c \in Clients, NEW m, ChannelRead(c, m) PROVE Once'
  BY <1>1, OnceRead
<1>2. ASSUME UNCHANGED log, \A c \in Clients : work'[c].active => work[c].active
      PROVE  \A c \in Clients : work'[c].active =>
               Unreplied(c, Len(log'[c])) /\ Unsent(c, Len(log'[c]))
  BY <1>2 DEF Once, BusyUnanswered
<1>3. ASSUME NEW c \in Clients, SelectDone(c) PROVE Once'
  <2>1. /\ UNCHANGED <<log, pending>> /\ Answer(c, Len(log[c]), "proxy") /\ work[c].active
        /\ \A d \in Clients : d # c => work'[d] = work[d]
        /\ ~work'[c].active
    BY <1>3 DEF SelectDone, Idle, Types, WorkOK
  <2>2. Unreplied(c, Len(log[c])) /\ Unsent(c, Len(log[c])) /\ Len(log[c]) \in Nat
    BY <2>1, LenProperties DEF Once, BusyUnanswered, Types, LogOK
  <2>3. Derived /\ WaitsOnce'
    BY <2>1, SameWaits
  <2>4. UnsentAfter(c, Len(log[c]))
    BY <2>2, <2>3, UnsentDerived
  <2>5. \A d \in Clients : work'[d].active =>
          /\ Unreplied(d, Len(log'[d])) /\ Unsent(d, Len(log'[d]))
          /\ d = c => Len(log[c]) # Len(log'[d])
    BY <1>2, <2>1
  <2> QED BY <2>1, <2>2, <2>3, <2>4, <2>5, OnceAnswer
<1>4. ASSUME NEW c \in Clients, SelectPut(c) PROVE Once'
  <2>1. UNCHANGED <<log, replies>> /\ \A d \in Clients : work'[d].active => work[d].active
    BY <1>4 DEF SelectPut, Types, WorkOK
  <2>2. \A d \in Clients : work'[d].active =>
          Unreplied(d, Len(log'[d])) /\ Unsent(d, Len(log'[d]))
    BY <1>2, <2>1
  <2> QED BY <1>4, <2>1, <2>2, PutOnce, OnceSilent
<1>5. ASSUME NEW k \in Conns, RedisReplies(k) PROVE Once'
  <2> DEFINE task == Head(pending[k])
  <2>1. /\ Derived /\ WaitsOnce' /\ task \in Range(pending[k]) /\ task \in Entry
        /\ task.client # NoClient => task \notin UNION {Range(pending'[l]) : l \in Conns}
    BY <1>5, ReplyOnce
  <2>2. UNCHANGED <<log, work>>
    BY <1>5 DEF RedisReplies
  <2>3. \A d \in Clients : work'[d].active =>
          Unreplied(d, Len(log'[d])) /\ Unsent(d, Len(log'[d]))
    BY <1>2, <2>2
  <2>4. CASE UNCHANGED replies
    BY <2>1, <2>3, <2>4, OnceSilent
  <2>5. CASE ~UNCHANGED replies
    <3>1. task.client # NoClient /\ Answer(task.client, task.index, "redis")
      BY <1>5, <2>5 DEF RedisReplies
    <3>2. task.client \in Clients /\ task.index \in Nat
          /\ task = RequestOf(task.client, task.index)
      BY <2>1, <3>1 DEF Entry, RequestOf
    <3> HIDE DEF task
    <3>3. UnsentAfter(task.client, task.index)
      BY <2>1, <3>1, <3>2 DEF UnsentAfter
    <3>4. Unreplied(task.client, task.index)
      BY <2>1, <3>2 DEF Once, NotBoth, Unsent, Unreplied
    <3>5. work'[task.client].active => task.index # Len(log'[task.client])
      BY <2>1, <2>3, <3>2 DEF Unsent
    <3> QED BY <2>1, <2>3, <3>1, <3>2, <3>3, <3>4, <3>5, OnceAnswer
  <2> QED BY <2>4, <2>5
<1>6. CASE UNCHANGED <<log, replies, pending>> /\ \A c \in Clients : work'[c].active => work[c].active
  BY <1>2, <1>6, SameWaits, OnceSilent
<1>7. ASSUME NEW c \in Clients, SelectCheck(c) PROVE Once'
  BY <1>6, <1>7 DEF SelectCheck, Types, WorkOK
<1> QED BY <1>1, <1>3, <1>4, <1>5, <1>6, <1>7
        DEF Next, InitDatabase, ClientCloses, ChannelInactive, Connected, ConnectFailed, Lose, Down, vars

LEMMA OnceInit == Init => Once
<1>1. Range(<<>>) = {}
  BY DEF Range
<1> QED BY <1>1 DEF Init, Idle, Once, RepliesOnce, WaitsOnce, NotBoth, BusyUnanswered, Unreplied, Unsent

\* Every command has one answer at most, from the proxy or from one Redis, for any
\* number of clients that send any commands without waiting for the answers.
THEOREM NoSecondAnswer == Spec => []AnsweredOnce
<1>1. Types /\ Once => AnsweredOnce
  BY OnceIsAnsweredOnce
<1>2. (Types /\ Once) /\ [Next]_vars => (Types /\ Once)'
  BY TypesStep, OnceStep
<1> QED BY <1>1, <1>2, TypesInit, OnceInit, PTL DEF Spec
=============================================================================
