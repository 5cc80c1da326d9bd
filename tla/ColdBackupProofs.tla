-------------------------- MODULE ColdBackupProofs --------------------------
(* Theorems about ColdBackup, for every value of its constants: the types, *)
(* the state that a page shows, and the backups on disk.                   *)
EXTENDS ColdBackup, SequenceTheorems, TLAPS

Zips == [kind : {"file"}, time : Times, clean : BOOLEAN]
ConnType ==
  [link : {"open", "silent", "cut", "closed"}, known : BOOLEAN, mute : BOOLEAN,
   toServer : Seq(Messages), toClient : Seq(Messages),
   job : {Idle} \cup Zips]
FileType == [folder : Days, name : Times, clean : BOOLEAN, whole : BOOLEAN]
PageType == [at : {"idle", "next", "send", "name", "sent", "lock"}, host : Hosts \cup {NoHost},
             conn : Nat, time : Times, name : Times]

HistoryTypes ==
  /\ format1 \subseteq Times /\ format2 \subseteq Days
  /\ torn \subseteq Hosts /\ unzipped \subseteq Times /\ raced \subseteq Times

Types ==
  /\ now \in Times
  /\ dialing \in [Hosts -> BOOLEAN] /\ connect \in [Hosts -> BOOLEAN]
  /\ conns \in [Hosts -> Seq(ConnType)] /\ data \in [Hosts -> Nat]
  /\ loop \in [Hosts -> {Idle, Auth} \cup Work]
  /\ files \subseteq FileType
  /\ page \in [Pullers \cup Viewers -> PageType]
  /\ failures \in 0 .. MaxFailures
  /\ HistoryTypes

\* A client has one connection at a time, and none while it connects; data and
\* the flag belong to the last one.
Clients ==
  \A h \in Hosts :
    /\ data[h] <= Last(h)
    /\ \A j \in DOMAIN conns[h] : j < Last(h) \/ dialing[h] => conns[h][j].link = "closed"
    /\ dialing[h] => loop[h] = Idle /\ ~connect[h]
    /\ connect[h] \/ loop[h] = Auth => Last(h) > 0 /\ data[h] = Last(h)

\* What a page holds of the flag that it has read.
Pages ==
  \A p \in Pullers \cup Viewers :
    /\ page[p].at = "lock" => page[p].host \in Hosts /\ page[p].conn <= data[page[p].host]
    /\ page[p].at = "send" => page[p].host \in Hosts /\ Last(page[p].host) > 0

Inv == Types /\ Clients /\ Pages

-----------------------------------------------------------------------------
(* Constants, times and messages.                                            *)

LEMMA Constants ==
  /\ MasterHost \in Hosts /\ SlaveHost \in Hosts /\ NoHost \notin Hosts
  /\ 0 \in Times /\ Times \subseteq Nat /\ MaxTime \in Times
BY HostsAssumption, BoundsAssumption DEF Hosts, Times

\* A later time is on the same day or on a later one.
LEMMA DaysGrow ==
  ASSUME NEW t \in Times
  PROVE  Day(t) \in Days /\ 0 \in Days
<1>1. DayLength \in Nat /\ DayLength > 0 /\ MaxTime \in Nat /\ t \in Nat /\ t <= MaxTime
  BY BoundsAssumption DEF Times
<1>2. /\ t = DayLength * (t \div DayLength) + (t % DayLength)
      /\ t % DayLength \in 0 .. (DayLength - 1) /\ t \div DayLength \in Int
  BY <1>1
<1>3. /\ MaxTime = DayLength * (MaxTime \div DayLength) + (MaxTime % DayLength)
      /\ MaxTime % DayLength \in 0 .. (DayLength - 1) /\ MaxTime \div DayLength \in Int
  BY <1>1
<1>4. \A d \in Nat, q, r \in Int : d > 0 /\ r < q => d * (q - r) >= d
  OBVIOUS
<1>5. \A d \in Nat, q, r, a, b \in Int :
        d > 0 /\ d * q + a <= d * r + b /\ a >= 0 /\ b < d => q <= r
  BY <1>4
<1>6. t \div DayLength <= MaxTime \div DayLength
  BY <1>1, <1>2, <1>3, <1>5
<1>7. t \div DayLength >= 0
  BY <1>1
<1> QED
  BY <1>2, <1>3, <1>6, <1>7 DEF Day, Days

LEMMA MessageTypes ==
  /\ Auth \in Messages /\ State \in Messages /\ NoFile \in Messages /\ Idle \in Messages
  /\ Auth.clean /\ State.clean /\ Idle.clean
  /\ \A t \in Times, b \in BOOLEAN :
       File(t, b) \in Messages /\ File(t, b).clean = b /\ File(t, b) # Idle /\ File(t, b) # Auth
  /\ \A m \in Messages : m.time \in Times /\ m.clean \in BOOLEAN
  /\ \A m \in Messages : m.kind = "file" => m # Idle /\ m # Auth
  /\ Auth # Idle
<1>1. /\ Auth \in Messages /\ State \in Messages /\ NoFile \in Messages /\ Idle \in Messages
      /\ Auth.clean /\ State.clean /\ Idle.clean /\ Auth # Idle
  BY Constants DEF Auth, State, Idle, Messages
<1>2. \A t \in Times, b \in BOOLEAN : File(t, b) \in Messages
  BY DEF Messages
<1>3. \A t, b : File(t, b).clean = b /\ File(t, b).time = t /\ File(t, b).kind = "file"
  BY DEF File
<1>4. Auth.kind # "file" /\ Idle.kind # "file"
  BY DEF Auth, Idle
<1>5. \A m \in Messages : m.time \in Times /\ m.clean \in BOOLEAN
  <2> SUFFICES ASSUME NEW m \in Messages
               PROVE  m.time \in Times /\ m.clean \in BOOLEAN
    OBVIOUS
  <2>1. m \in {Auth, State, NoFile, Idle} \/ \E t \in Times, b \in BOOLEAN : m = File(t, b)
    BY DEF Messages
  <2>2. CASE m \in {Auth, State, NoFile, Idle}
    <3>1. m.time = 0 /\ m.clean = TRUE
      BY <2>2 DEF Auth, State, NoFile, Idle
    <3> QED
      BY <3>1, Constants
  <2>3. CASE \E t \in Times, b \in BOOLEAN : m = File(t, b)
    BY <2>3, <1>3
  <2> QED
    BY <2>1, <2>2, <2>3
<1> QED
  BY <1>1, <1>2, <1>3, <1>4, <1>5

LEMMA WorkTypes ==
  \A w \in Work :
    /\ w # Idle /\ w # Auth /\ w.kind # "idle" /\ w.kind # "auth"
    /\ w.folder \in Days /\ w.name \in Times /\ w.time \in Times /\ w.clean \in BOOLEAN
BY DEF Work, Idle, Auth

LEMMA HistoryKept ==
  ASSUME HistoryTypes, UNCHANGED <<formatVars, history>>
  PROVE  HistoryTypes'
BY DEF HistoryTypes, formatVars, history

LEMMA NewConnType ==
  /\ NewConn \in ConnType /\ NewConn.link = "open" /\ NewConn.job = Idle /\ NewConn.toClient = <<>>
<1>1. <<Auth>> \in Seq(Messages)
  BY MessageTypes
<1> QED
  BY <1>1, MessageTypes, EmptySeq DEF NewConn, ConnType

LEMMA ZipTypes ==
  /\ Zips \subseteq Messages /\ Idle \notin Zips
  /\ \A t \in Times, b \in BOOLEAN : File(t, b) \in Zips
  /\ \A m \in Messages : m.kind = "file" => m \in Zips
<1>1. \A t \in Times, b \in BOOLEAN : File(t, b) \in Zips
  BY DEF Zips, File
<1>2. \A z \in Zips : z = File(z.time, z.clean)
  BY DEF Zips, File
<1>3. \A z \in Zips : z.time \in Times /\ z.clean \in BOOLEAN
  BY DEF Zips
<1>4. Zips \subseteq Messages
  BY <1>2, <1>3, MessageTypes
<1>5. Idle \notin Zips
  BY DEF Zips, Idle
<1>6. \A m \in Messages : m.kind = "file" => m \in Zips
  BY <1>1 DEF Messages, Auth, State, NoFile, Idle
<1> QED
  BY <1>1, <1>4, <1>5, <1>6

\* A zip keeps its type when it is marked as no zip of one request.
LEMMA MixedZip ==
  ASSUME NEW m \in Zips
  PROVE  [m EXCEPT !.clean = FALSE] \in Zips
BY DEF Zips

-----------------------------------------------------------------------------
(* Changes of one connection.                                                *)

LEMMA FunctionIsSeq ==
  ASSUME NEW S, NEW n \in Nat, NEW q \in [1 .. n -> S]
  PROVE  q \in Seq(S)
OBVIOUS

LEMMA OneConn ==
  ASSUME Types, NEW h \in Hosts, NEW j \in DOMAIN conns[h]
  PROVE  /\ conns[h] \in Seq(ConnType) /\ conns[h][j] \in ConnType
         /\ Last(h) \in Nat /\ DOMAIN conns[h] = 1 .. Last(h) /\ Last(h) > 0
<1>1. conns[h] \in Seq(ConnType)
  BY DEF Types
<1> QED
  BY <1>1, LenProperties, ElementOfSeq DEF Last

LEMMA LastInDomain ==
  ASSUME Types, NEW h \in Hosts
  PROVE  /\ Last(h) \in Nat /\ conns[h] \in Seq(ConnType)
         /\ Last(h) > 0 => Last(h) \in DOMAIN conns[h]
<1>1. conns[h] \in Seq(ConnType)
  BY DEF Types
<1> QED
  BY <1>1, LenProperties DEF Last

LEMMA ConnUpdated ==
  ASSUME Types, NEW h \in Hosts, NEW j \in DOMAIN conns[h], NEW c \in ConnType,
         conns' = [conns EXCEPT ![h] = [conns[h] EXCEPT ![j] = c]]
  PROVE  /\ conns' \in [Hosts -> Seq(ConnType)]
         /\ \A g \in Hosts : Len(conns'[g]) = Len(conns[g]) /\ DOMAIN conns'[g] = DOMAIN conns[g]
         /\ \A g \in Hosts : \A k \in DOMAIN conns[g] :
              conns'[g][k] = IF g = h /\ k = j THEN c ELSE conns[g][k]
<1> DEFINE s == [conns[h] EXCEPT ![j] = c]
<1>1. conns \in [Hosts -> Seq(ConnType)] /\ conns[h] \in Seq(ConnType)
  BY DEF Types
<1>2. s \in Seq(ConnType) /\ Len(s) = Len(conns[h]) /\ DOMAIN s = DOMAIN conns[h]
  BY <1>1, ExceptSeq
<1>3. \A k \in DOMAIN conns[h] : s[k] = IF k = j THEN c ELSE conns[h][k]
  BY <1>1
<1> HIDE DEF s
<1>4. conns' = [conns EXCEPT ![h] = s]
  BY DEF s
<1>5. \A g \in Hosts : conns'[g] = IF g = h THEN s ELSE conns[g]
  BY <1>1, <1>4
<1>6. conns' \in [Hosts -> Seq(ConnType)]
  BY <1>1, <1>2, <1>4
<1>7. \A g \in Hosts : Len(conns'[g]) = Len(conns[g]) /\ DOMAIN conns'[g] = DOMAIN conns[g]
  BY <1>2, <1>5
<1>8. \A g \in Hosts : \A k \in DOMAIN conns[g] :
        conns'[g][k] = IF g = h /\ k = j THEN c ELSE conns[g][k]
  BY <1>3, <1>5
<1> QED
  BY <1>6, <1>7, <1>8

\* A step that lets the numbers of connections be, and closed ones closed.
LEMMA ClosedStay ==
  ASSUME Types, Clients, Pages,
         dialing' = dialing, connect' = connect, data' = data, loop' = loop,
         \A g \in Hosts : Len(conns'[g]) = Len(conns[g]) /\ DOMAIN conns'[g] = DOMAIN conns[g],
         \A g \in Hosts : \A k \in DOMAIN conns[g] :
           conns[g][k].link = "closed" => conns'[g][k].link = "closed"
  PROVE  /\ Clients' /\ \A g \in Hosts : Last(g)' = Last(g)
         /\ page' = page => Pages'
<1>1. \A g \in Hosts : Last(g)' = Last(g)
  BY DEF Last
<1>2. Clients'
  <2> SUFFICES ASSUME NEW g \in Hosts
               PROVE  /\ data[g] <= Last(g)
                      /\ \A k \in DOMAIN conns[g] :
                           k < Last(g) \/ dialing[g] => conns'[g][k].link = "closed"
                      /\ dialing[g] => loop[g] = Idle /\ ~connect[g]
                      /\ connect[g] \/ loop[g] = Auth => Last(g) > 0 /\ data[g] = Last(g)
    BY <1>1 DEF Clients
  <2> QED
    BY DEF Clients
<1>3. page' = page => Pages'
  BY <1>1 DEF Pages
<1> QED
  BY <1>1, <1>2, <1>3

LEMMA OneConnStays ==
  ASSUME Inv, NEW h \in Hosts, NEW j \in DOMAIN conns[h], NEW c \in ConnType,
         conns' = [conns EXCEPT ![h] = [conns[h] EXCEPT ![j] = c]],
         conns[h][j].link = "closed" => c.link = "closed",
         now' = now, dialing' = dialing, connect' = connect, data' = data, loop' = loop,
         files' = files, page' = page, failures' \in 0 .. MaxFailures, HistoryTypes'
  PROVE  Inv'
<1> USE DEF Inv
<1>1. /\ conns' \in [Hosts -> Seq(ConnType)]
      /\ \A g \in Hosts : Len(conns'[g]) = Len(conns[g]) /\ DOMAIN conns'[g] = DOMAIN conns[g]
      /\ \A g \in Hosts : \A k \in DOMAIN conns[g] :
           conns'[g][k] = IF g = h /\ k = j THEN c ELSE conns[g][k]
  BY ConnUpdated
<1>2. Types'
  BY <1>1 DEF Types
<1>3. Clients' /\ Pages'
  BY <1>1, ClosedStay
<1> QED
  BY <1>2, <1>3

LEMMA OneHostStays ==
  ASSUME Inv, NEW h \in Hosts, NEW s \in Seq(ConnType), conns' = [conns EXCEPT ![h] = s],
         Len(s) = Len(conns[h]), DOMAIN s = DOMAIN conns[h],
         \A k \in DOMAIN conns[h] : conns[h][k].link = "closed" => s[k].link = "closed",
         now' = now, dialing' = dialing, connect' = connect, data' = data, loop' = loop,
         files' = files, page' = page, failures' \in 0 .. MaxFailures, HistoryTypes'
  PROVE  Inv'
<1> USE DEF Inv
<1>1. conns \in [Hosts -> Seq(ConnType)]
  BY DEF Types
<1>2. \A g \in Hosts : conns'[g] = IF g = h THEN s ELSE conns[g]
  BY <1>1
<1>3. \A g \in Hosts : Len(conns'[g]) = Len(conns[g]) /\ DOMAIN conns'[g] = DOMAIN conns[g]
  BY <1>2
<1>4. \A g \in Hosts : \A k \in DOMAIN conns[g] :
        conns[g][k].link = "closed" => conns'[g][k].link = "closed"
  BY <1>2
<1>5. Types'
  BY <1>1 DEF Types
<1>6. Clients' /\ Pages'
  BY <1>3, <1>4, ClosedStay
<1> QED
  BY <1>5, <1>6

-----------------------------------------------------------------------------
(* Inv holds at the start.                                                   *)

LEMMA InvInit == ASSUME Init PROVE Inv
<1>1. Types
  <2>1. page \in [Pullers \cup Viewers -> PageType]
    BY Constants DEF Init, NoPage, PageType
  <2>2. conns \in [Hosts -> Seq(ConnType)]
    BY EmptySeq DEF Init
  <2>3. loop \in [Hosts -> {Idle, Auth} \cup Work]
    BY DEF Init
  <2>4. HistoryTypes
    BY DEF Init, HistoryTypes
  <2> QED
    BY <2>1, <2>2, <2>3, <2>4, Constants, BoundsAssumption DEF Init, Types
<1>2. Clients
  <2>1. \A h \in Hosts : conns[h] = <<>> /\ Last(h) = 0 /\ data[h] = 0 /\ ~connect[h] /\ loop[h] = Idle
    BY DEF Init, Last
  <2> QED
    BY <2>1, MessageTypes DEF Clients
<1>3. Pages
  BY DEF Init, NoPage, Pages
<1> QED
  BY <1>1, <1>2, <1>3 DEF Inv

-----------------------------------------------------------------------------
(* The steps of the client.                                                  *)

LEMMA ConnectedInv ==
  ASSUME Inv, NEW h \in Hosts, Connected(h)
  PROVE  Inv'
<1> USE DEF Inv
<1>1. conns \in [Hosts -> Seq(ConnType)] /\ Last(h) \in Nat /\ conns[h] \in Seq(ConnType)
  BY LastInDomain DEF Types
<1> DEFINE s == Append(conns[h], NewConn)
<1>2. /\ s \in Seq(ConnType) /\ Len(s) = Last(h) + 1
      /\ \A k \in 1 .. Last(h) : s[k] = conns[h][k]
      /\ DOMAIN s = 1 .. Last(h) + 1 /\ DOMAIN conns[h] = 1 .. Last(h)
  BY <1>1, NewConnType, AppendProperties, LenProperties DEF Last
<1>3. conns' = [conns EXCEPT ![h] = s]
  BY DEF Connected
<1> HIDE DEF s
<1>4. \A g \in Hosts : conns'[g] = IF g = h THEN s ELSE conns[g]
  BY <1>1, <1>3
<1>5. \A g \in Hosts : Last(g)' = IF g = h THEN Last(h) + 1 ELSE Last(g)
  BY <1>2, <1>4 DEF Last
<1>6. Types'
  BY <1>1, <1>2, <1>3, HistoryKept DEF Types, Connected, handlerVars
<1>7. Clients'
  <2> SUFFICES ASSUME NEW g \in Hosts
               PROVE  /\ data[g] <= Last(g)'
                      /\ \A j \in DOMAIN conns'[g] :
                           j < Last(g)' \/ dialing'[g] => conns'[g][j].link = "closed"
                      /\ dialing'[g] => loop[g] = Idle /\ ~connect[g]
                      /\ connect[g] \/ loop[g] = Auth => Last(g)' > 0 /\ data[g] = Last(g)'
    BY DEF Clients, Connected, handlerVars
  <2>1. CASE g = h
    <3>1. dialing[h] /\ ~connect[h] /\ loop[h] # Auth /\ data[h] <= Last(h) /\ data[h] \in Nat /\ ~dialing'[h]
      BY MessageTypes DEF Clients, Connected, Types
    <3>2. \A j \in 1 .. Last(h) : conns[h][j].link = "closed"
      BY <1>2, <3>1 DEF Clients
    <3>3. conns'[g] = s /\ Last(g)' = Last(h) + 1 /\ data[g] <= Last(h) + 1 /\ Last(h) + 1 > 0
      BY <1>1, <1>4, <1>5, <2>1, <3>1
    <3>4. \A j \in DOMAIN s : j < Last(h) + 1 => s[j].link = "closed"
      BY <1>1, <1>2, <3>2
    <3> QED
      BY <2>1, <3>1, <3>3, <3>4
  <2>2. CASE g # h
    <3>1. conns'[g] = conns[g] /\ Last(g)' = Last(g) /\ dialing'[g] = dialing[g]
      BY <1>4, <1>5, <2>2 DEF Connected, Types
    <3> QED
      BY <3>1 DEF Clients
  <2> QED
    BY <2>1, <2>2
<1>8. Pages'
  <2>1. page' = page /\ data' = data
    BY DEF Connected, handlerVars
  <2>2. \A g \in Hosts : Last(g) > 0 => Last(g)' > 0
    BY <1>1, <1>5
  <2> QED
    BY <2>1, <2>2 DEF Pages
<1> QED
  BY <1>6, <1>7, <1>8

LEMMA ConnectFailedInv ==
  ASSUME Inv, NEW h \in Hosts, ConnectFailed(h)
  PROVE  Inv'
<1>1. failures' \in 0 .. MaxFailures
  BY BoundsAssumption DEF Inv, Types, ConnectFailed, Fails
<1>2. Types'
  BY <1>1, HistoryKept DEF Inv, Types, ConnectFailed, clientVars, handlerVars
<1>3. Clients' /\ Pages'
  BY DEF Inv, Clients, Pages, Last, ConnectFailed, clientVars, handlerVars
<1> QED
  BY <1>2, <1>3 DEF Inv

LEMMA PollInv ==
  ASSUME Inv, NEW h \in Hosts, Poll(h)
  PROVE  Inv'
<1> DEFINE c == [conns[h][Last(h)] EXCEPT !.toServer = <<State>>]
<1>1. Last(h) \in DOMAIN conns[h] /\ conns[h][Last(h)].link = "open"
  BY LastInDomain DEF Poll, Active, Inv
<1>2. conns[h][Last(h)] \in ConnType
  BY <1>1, OneConn DEF Inv
<1>3. <<State>> \in Seq(Messages)
  BY MessageTypes
<1>4. c \in ConnType /\ c.link = "open"
  BY <1>1, <1>2, <1>3 DEF ConnType
<1>5. conns' = [conns EXCEPT ![h] = [conns[h] EXCEPT ![Last(h)] = c]]
  BY DEF Poll
<1> HIDE DEF c
<1>6. /\ now' = now /\ dialing' = dialing /\ connect' = connect /\ data' = data /\ loop' = loop
      /\ files' = files /\ page' = page /\ failures' \in 0 .. MaxFailures /\ HistoryTypes'
  BY HistoryKept DEF Poll, handlerVars, Inv, Types
<1> QED
  BY <1>1, <1>4, <1>5, <1>6, OneConnStays

LEMMA ActiveConn ==
  ASSUME Inv, NEW h \in Hosts, Active(h)
  PROVE  /\ Last(h) \in DOMAIN conns[h] /\ conns[h][Last(h)] \in ConnType
         /\ conns[h][Last(h)].link # "closed" /\ ~dialing[h]
<1>1. Last(h) \in DOMAIN conns[h] /\ conns[h][Last(h)].link # "closed"
  BY LastInDomain DEF Active, Inv
<1> QED
  BY <1>1, OneConn DEF Inv, Clients

\* The message that HandleData takes, and the connection it leaves.
LEMMA MessageTaken ==
  ASSUME Inv, NEW h \in Hosts, HandleData(h)
  PROVE  /\ Head(conns[h][Last(h)].toClient) \in Messages
         /\ [conns[h][Last(h)] EXCEPT !.toClient = Tail(@)] \in ConnType
         /\ ~dialing[h]
<1>1. Last(h) \in DOMAIN conns[h] /\ conns[h][Last(h)] \in ConnType /\ ~dialing[h]
  BY ActiveConn DEF HandleData
<1>2. conns[h][Last(h)].toClient \in Seq(Messages) /\ conns[h][Last(h)].toClient # <<>>
  BY <1>1 DEF HandleData, ConnType
<1>3. /\ Head(conns[h][Last(h)].toClient) \in Messages
      /\ Tail(conns[h][Last(h)].toClient) \in Seq(Messages)
  BY <1>2, HeadTailProperties
<1> QED
  BY <1>1, <1>3 DEF ConnType

\* A call of format keeps the dates that other calls may find.
LEMMA NameTypes ==
  ASSUME HistoryTypes, NEW t \in Times, SetName(t)
  PROVE  format1' \subseteq Times /\ raced' \subseteq Times
BY DEF SetName, HistoryTypes

\* A step of handleData that writes a file.
LEMMA WorkStep ==
  ASSUME Inv, NEW h \in Hosts, NEW w \in {Idle} \cup Work, loop' = [loop EXCEPT ![h] = w],
         w = Idle \/ ~dialing[h], dialing' = dialing, connect' = connect, data' = data, page' = page,
         \A g \in Hosts : Len(conns'[g]) = Len(conns[g]) /\ DOMAIN conns'[g] = DOMAIN conns[g],
         \A g \in Hosts : \A k \in DOMAIN conns[g] : conns'[g][k].link = conns[g][k].link
  PROVE  Clients' /\ Pages'
<1> USE DEF Inv
<1>1. \A g \in Hosts : Last(g)' = Last(g)
  BY DEF Last
<1>2. w # Auth /\ \A g \in Hosts : loop'[g] = IF g = h THEN w ELSE loop[g]
  BY WorkTypes, MessageTypes DEF Types
<1>3. Clients'
  <2> SUFFICES ASSUME NEW g \in Hosts
               PROVE  /\ data[g] <= Last(g)
                      /\ \A j \in DOMAIN conns[g] :
                           j < Last(g) \/ dialing[g] => conns'[g][j].link = "closed"
                      /\ dialing[g] => loop'[g] = Idle /\ ~connect[g]
                      /\ connect[g] \/ loop'[g] = Auth => Last(g) > 0 /\ data[g] = Last(g)
    BY <1>1 DEF Clients
  <2> QED
    BY <1>2 DEF Clients
<1>4. Pages'
  BY <1>1 DEF Pages
<1> QED
  BY <1>3, <1>4

LEMMA WorkKinds ==
  ASSUME Types, NEW h \in Hosts, loop[h].kind \in {"folder", "name", "write"}
  PROVE  loop[h] \in Work
<1>1. loop[h] \in {Idle, Auth} \cup Work
  BY DEF Types
<1>2. Idle.kind = "idle" /\ Auth.kind = "auth"
  BY DEF Idle, Auth
<1> QED
  BY <1>1, <1>2

\* The work that HandleFile begins.
LEMMA NewWork ==
  ASSUME Types, NEW h \in Hosts, NEW m \in Messages, HandleFile(h, m)
  PROVE  /\ \E w \in Work : /\ w.kind = "folder" /\ w.time = m.time /\ w.clean = m.clean
                            /\ loop' = [loop EXCEPT ![h] = w]
         /\ format2' \subseteq Days /\ raced' \subseteq Times /\ format1' = format1
<1> DEFINE w == [kind |-> "folder", folder |-> 0, name |-> 0, time |-> m.time, clean |-> m.clean]
<1>1. m.time \in Times /\ m.clean \in BOOLEAN /\ Day(now) \in Days /\ 0 \in Days
  BY MessageTypes, DaysGrow DEF Types
<1>2. w \in Work /\ w.kind = "folder" /\ w.time = m.time /\ w.clean = m.clean
  BY <1>1, Constants DEF Work
<1>3. loop' = [loop EXCEPT ![h] = w]
  BY DEF HandleFile
<1>4. {loop[g].time : g \in {k \in Hosts : Foldering(k)}} \subseteq Times
  <2> SUFFICES ASSUME NEW g \in Hosts, Foldering(g)
               PROVE  loop[g].time \in Times
    OBVIOUS
  <2>1. loop[g] \in Work
    BY WorkKinds DEF Foldering
  <2> QED
    BY <2>1, WorkTypes
<1>5. format2' \subseteq Days /\ raced' \subseteq Times /\ format1' = format1
  BY <1>1, <1>4 DEF HandleFile, Types, HistoryTypes
<1> HIDE DEF w
<1> QED
  BY <1>2, <1>3, <1>5

LEMMA HandleDataInv ==
  ASSUME Inv, NEW h \in Hosts, HandleData(h)
  PROVE  Inv'
<1> DEFINE m == Head(conns[h][Last(h)].toClient)
           c == [conns[h][Last(h)] EXCEPT !.toClient = Tail(@)]
<1>1. m \in Messages /\ c \in ConnType /\ ~dialing[h]
  BY MessageTaken
<1>2. Last(h) \in DOMAIN conns[h] /\ Last(h) \in Nat /\ Last(h) > 0
  BY ActiveConn, LastInDomain, OneConn DEF HandleData, Inv
<1>3. c.link = conns[h][Last(h)].link
  BY ActiveConn DEF HandleData, ConnType
<1>4. conns' = [conns EXCEPT ![h] = [conns[h] EXCEPT ![Last(h)] = c]]
  BY DEF HandleData
<1>5. HandleState(h, m) \/ HandleFile(h, m) \/ HandleNull(h, m)
  BY DEF HandleData
<1> HIDE DEF m, c
<1>6. /\ conns' \in [Hosts -> Seq(ConnType)]
      /\ \A g \in Hosts : Len(conns'[g]) = Len(conns[g]) /\ DOMAIN conns'[g] = DOMAIN conns[g]
      /\ \A g \in Hosts : \A k \in DOMAIN conns[g] :
           conns'[g][k] = IF g = h /\ k = Last(h) THEN c ELSE conns[g][k]
  BY <1>1, <1>2, <1>4, ConnUpdated DEF Inv
<1>7. \A g \in Hosts : \A k \in DOMAIN conns[g] : conns'[g][k].link = conns[g][k].link
  BY <1>3, <1>6
<1>8. \A g \in Hosts : Last(g)' = Last(g)
  BY <1>6 DEF Last
<1>9. now' = now /\ dialing' = dialing /\ page' = page /\ failures' = failures /\ loop[h] = Idle
  BY DEF HandleData
<1>10. CASE HandleState(h, m)
  <2>1. /\ data' = [data EXCEPT ![h] = Last(h)] /\ connect' = connect /\ files' = files
        /\ loop' = [loop EXCEPT ![h] = IF m = Auth THEN m ELSE Idle]
    BY <1>10 DEF HandleState
  <2>2. Types'
    <3>1. UNCHANGED <<formatVars, history>>
      BY <1>10 DEF HandleData, HandleState
    <3> QED
      BY <1>1, <1>2, <1>6, <1>9, <2>1, <3>1, HistoryKept DEF Inv, Types
  <2>3. \A g \in Hosts : /\ data'[g] = (IF g = h THEN Last(h) ELSE data[g]) /\ data[g] <= data'[g]
                         /\ loop'[g] = IF g = h THEN (IF m = Auth THEN m ELSE Idle) ELSE loop[g]
    BY <1>2, <2>1 DEF Inv, Types, Clients
  <2>4. Clients'
    <3> SUFFICES ASSUME NEW g \in Hosts
                 PROVE  /\ data'[g] <= Last(g)
                        /\ \A j \in DOMAIN conns[g] :
                             j < Last(g) \/ dialing[g] => conns'[g][j].link = "closed"
                        /\ dialing[g] => loop'[g] = Idle /\ ~connect[g]
                        /\ connect[g] \/ loop'[g] = Auth => Last(g) > 0 /\ data'[g] = Last(g)
      BY <1>6, <1>8, <1>9, <2>1 DEF Clients
    <3> QED
      BY <1>1, <1>2, <1>7, <2>3 DEF Inv, Clients
  <2>5. Pages'
    <3> SUFFICES ASSUME NEW p \in Pullers \cup Viewers
                 PROVE  /\ page[p].at = "lock" =>
                             page[p].host \in Hosts /\ page[p].conn <= data'[page[p].host]
                        /\ page[p].at = "send" => page[p].host \in Hosts /\ Last(page[p].host)' > 0
      BY <1>9 DEF Pages
    <3>1. page[p].conn \in Nat
      BY DEF Inv, Types, PageType
    <3>2. \A g \in Hosts : data[g] \in Nat /\ data'[g] \in Nat
      BY <2>2 DEF Inv, Types
    <3>3. /\ page[p].at = "lock" => page[p].host \in Hosts /\ page[p].conn <= data[page[p].host]
          /\ page[p].at = "send" => page[p].host \in Hosts /\ Last(page[p].host) > 0
      BY DEF Inv, Pages
    <3>4. \A a, b, d \in Nat : a <= b /\ b <= d => a <= d
      OBVIOUS
    <3>5. \A g \in Hosts : page[p].conn <= data[g] => page[p].conn <= data'[g]
      BY <2>3, <3>1, <3>2, <3>4
    <3>6. page[p].at = "lock" =>
            page[p].host \in Hosts /\ page[p].conn <= data'[page[p].host]
      BY <3>3, <3>5
    <3>7. page[p].at = "send" => page[p].host \in Hosts /\ Last(page[p].host)' > 0
      BY <1>8, <1>9, <3>3
    <3> QED
      BY <3>6, <3>7
  <2> QED
    BY <2>2, <2>4, <2>5 DEF Inv
<1>11. CASE HandleFile(h, m)
  <2>1. data' = data /\ connect' = connect /\ files' = files /\ history' = history
    BY <1>11 DEF HandleFile, HandleData
  <2>2. PICK w \in Work : loop' = [loop EXCEPT ![h] = w]
    BY <1>1, <1>11, NewWork DEF Inv
  <2>3. HistoryTypes'
    BY <1>1, <1>11, <2>1, NewWork DEF history, HistoryTypes, Inv, Types
  <2>4. Types'
    BY <1>6, <1>9, <2>1, <2>2, <2>3 DEF Inv, Types
  <2>5. Clients' /\ Pages'
    BY <1>1, <1>6, <1>7, <1>9, <2>1, <2>2, WorkStep
  <2> QED
    BY <2>4, <2>5 DEF Inv
<1>12. CASE HandleNull(h, m)
  <2>1. /\ data' = data /\ connect' = connect /\ files' = files /\ loop' = loop
        /\ UNCHANGED <<formatVars, history>>
    BY <1>12 DEF HandleNull, HandleData
  <2>2. conns[h][Last(h)].link # "closed"
    BY ActiveConn DEF HandleData
  <2> QED
    BY <1>1, <1>2, <1>3, <1>4, <1>9, <2>1, <2>2, HistoryKept, OneConnStays DEF Inv, Types
<1> QED
  BY <1>5, <1>10, <1>11, <1>12

\* What the event loop does between the two calls of format, and after them.
LEMMA Busy ==
  ASSUME Inv, NEW h \in Hosts, loop[h].kind \in {"folder", "name", "write"}
  PROVE  loop[h] \in Work /\ ~dialing[h]
<1>1. loop[h] \in Work
  BY WorkKinds DEF Inv
<1> QED
  BY <1>1, WorkTypes DEF Inv, Clients

LEMMA HandleFolderInv ==
  ASSUME Inv, NEW h \in Hosts, HandleFolder(h)
  PROVE  Inv'
<1>1. loop[h] \in Work /\ ~dialing[h]
  BY Busy DEF HandleFolder, Foldering
<1>2. PICK d \in format2 : loop' = [loop EXCEPT ![h].kind = "name", ![h].folder = d]
  BY DEF HandleFolder
<1> DEFINE w == [loop[h] EXCEPT !.kind = "name", !.folder = d]
<1>3. d \in Days
  BY DEF Inv, Types, HistoryTypes
<1>4. w \in Work
  BY <1>1, <1>3 DEF Work
<1>5. loop' = [loop EXCEPT ![h] = w]
  BY <1>2
<1> HIDE DEF w
<1>6. /\ now' = now /\ dialing' = dialing /\ conns' = conns /\ connect' = connect /\ data' = data
      /\ files' = files /\ page' = page /\ failures' = failures /\ history' = history
  BY DEF HandleFolder, clientVars
<1>7. HistoryTypes'
  <2>1. loop[h].time \in Times
    BY <1>1, WorkTypes
  <2> QED
    BY <1>6, <2>1, NameTypes DEF HandleFolder, history, HistoryTypes, Inv, Types
<1>8. Types'
  BY <1>4, <1>5, <1>6, <1>7 DEF Inv, Types
<1>9. Clients' /\ Pages'
  BY <1>1, <1>4, <1>5, <1>6, WorkStep
<1> QED
  BY <1>8, <1>9 DEF Inv

\* The file that HandleName opens and the work that is left.
LEMMA NewFile ==
  ASSUME Inv, NEW h \in Hosts, HandleName(h)
  PROVE  \E n \in format1, w \in Work, f \in FileType :
           /\ n \in Times /\ loop[h] \in Work /\ loop' = [loop EXCEPT ![h] = w]
           /\ w.kind = "write" /\ w.name = n /\ w.time = loop[h].time /\ w.clean = loop[h].clean
           /\ f.name = n /\ f.clean = (loop[h].clean /\ ~Shared(h, loop[h].folder, n))
           /\ files' \subseteq files \cup {f}
<1>1. loop[h] \in Work
  BY Busy DEF HandleName, Naming
<1>2. PICK n \in format1 :
        /\ loop' = [loop EXCEPT ![h].kind = "write", ![h].name = n]
        /\ files' = {f \in files : <<f.folder, f.name>> # <<loop[h].folder, n>>}
             \cup {[folder |-> loop[h].folder, name |-> n,
                    clean |-> loop[h].clean /\ ~Shared(h, loop[h].folder, n), whole |-> FALSE]}
  BY DEF HandleName
<1> DEFINE w == [loop[h] EXCEPT !.kind = "write", !.name = n]
           b == loop[h].clean /\ ~Shared(h, loop[h].folder, n)
           f == [folder |-> loop[h].folder, name |-> n, clean |-> b, whole |-> FALSE]
<1>3. n \in Times
  BY DEF Inv, Types, HistoryTypes
<1>4. w \in Work /\ w.kind = "write" /\ w.name = n /\ w.time = loop[h].time /\ w.clean = loop[h].clean
  BY <1>1, <1>3 DEF Work
<1>5. f \in FileType /\ f.name = n /\ f.clean = b
  <2>1. b \in BOOLEAN
    BY Zenon
  <2> HIDE DEF b
  <2> QED
    BY <1>1, <1>3, <2>1, WorkTypes DEF FileType
<1>6. loop' = [loop EXCEPT ![h] = w] /\ files' \subseteq files \cup {f}
  BY <1>2
<1> HIDE DEF w, f
<1> QED
  BY <1>1, <1>3, <1>4, <1>5, <1>6

LEMMA HandleNameInv ==
  ASSUME Inv, NEW h \in Hosts, HandleName(h)
  PROVE  Inv'
<1>1. PICK w \in Work, f \in FileType : loop' = [loop EXCEPT ![h] = w] /\ files' \subseteq files \cup {f}
  BY NewFile
<1>2. ~dialing[h]
  BY Busy DEF HandleName, Naming
<1>3. /\ now' = now /\ dialing' = dialing /\ conns' = conns /\ connect' = connect /\ data' = data
      /\ page' = page /\ failures' = failures /\ history' = history
  BY DEF HandleName, clientVars
<1>4. HistoryTypes'
  BY <1>3 DEF HandleName, NameDone, history, HistoryTypes, Inv, Types
<1>5. Types'
  BY <1>1, <1>3, <1>4 DEF Inv, Types
<1>6. Clients' /\ Pages'
  BY <1>1, <1>2, <1>3, WorkStep
<1> QED
  BY <1>5, <1>6 DEF Inv

LEMMA HandleDataEndsInv ==
  ASSUME Inv, NEW h \in Hosts, HandleDataEnds(h)
  PROVE  Inv'
<1> USE DEF Inv
<1>1. /\ now' = now /\ dialing' = dialing /\ conns' = conns /\ data' = data /\ page' = page
      /\ failures' = failures /\ loop' = [loop EXCEPT ![h] = Idle] /\ loop[h] # Idle
  BY MessageTypes DEF HandleDataEnds, Idle
<1>2. ~dialing[h]
  BY <1>1 DEF Clients
<1>3. files' \subseteq FileType /\ connect' \in [Hosts -> BOOLEAN]
  <2>1. CASE loop[h] = Auth
    BY <2>1 DEF HandleDataEnds, Types
  <2>2. CASE loop[h] # Auth
    <3>1. \A f \in files' : \E g \in files : f = g \/ f = [g EXCEPT !.whole = TRUE]
      BY <2>2 DEF HandleDataEnds
    <3>2. \A f \in FileType : [f EXCEPT !.whole = TRUE] \in FileType
      BY DEF FileType
    <3> QED
      BY <2>2, <3>1, <3>2 DEF HandleDataEnds, Types
  <2> QED
    BY <2>1, <2>2
<1>4. Types'
  <2>1. UNCHANGED <<formatVars, history>>
    BY DEF HandleDataEnds
  <2> QED
    BY <1>1, <1>3, <2>1, HistoryKept DEF Types
<1>5. \A g \in Hosts : Last(g)' = Last(g)
  BY <1>1 DEF Last
<1>6. Clients'
  <2>1. \A g \in Hosts : connect'[g] => connect[g] \/ (g = h /\ loop[h] = Auth)
    BY DEF HandleDataEnds, Types
  <2>2. \A g \in Hosts : loop'[g] = IF g = h THEN Idle ELSE loop[g]
    BY <1>1 DEF Types
  <2> SUFFICES ASSUME NEW g \in Hosts
               PROVE  /\ data[g] <= Last(g)
                      /\ \A j \in DOMAIN conns[g] :
                           j < Last(g) \/ dialing[g] => conns[g][j].link = "closed"
                      /\ dialing[g] => loop'[g] = Idle /\ ~connect'[g]
                      /\ connect'[g] \/ loop'[g] = Auth => Last(g) > 0 /\ data[g] = Last(g)
    BY <1>1, <1>5 DEF Clients
  <2> QED
    BY <1>2, <2>1, <2>2, MessageTypes DEF Clients
<1>7. Pages'
  BY <1>1, <1>5 DEF Pages
<1> QED
  BY <1>4, <1>6, <1>7

LEMMA ReaderIdleInv ==
  ASSUME Inv, NEW h \in Hosts, ReaderIdle(h)
  PROVE  Inv'
<1> DEFINE c == [conns[h][Last(h)] EXCEPT !.link = "cut"]
<1>1. /\ Last(h) \in DOMAIN conns[h] /\ conns[h][Last(h)] \in ConnType
      /\ conns[h][Last(h)].link # "closed"
  BY ActiveConn DEF ReaderIdle
<1>2. c \in ConnType
  BY <1>1 DEF ConnType
<1>3. conns' = [conns EXCEPT ![h] = [conns[h] EXCEPT ![Last(h)] = c]]
  BY DEF ReaderIdle
<1> HIDE DEF c
<1>4. /\ now' = now /\ dialing' = dialing /\ connect' = connect /\ data' = data /\ loop' = loop
      /\ files' = files /\ page' = page /\ failures' \in 0 .. MaxFailures /\ HistoryTypes'
  BY HistoryKept DEF ReaderIdle, handlerVars, Inv, Types
<1> QED
  BY <1>1, <1>2, <1>3, <1>4, OneConnStays

\* The connection that ChannelInactive leaves.
LEMMA ClosedConn ==
  ASSUME Inv, NEW h \in Hosts, Last(h) > 0
  PROVE  LET d == conns[h][Last(h)]
             c == [d EXCEPT !.link = "closed"]
         IN  /\ d \in ConnType /\ c \in ConnType /\ c.link = "closed" /\ c.job = d.job
             /\ c.toServer = d.toServer /\ c.toClient = d.toClient
<1>1. conns[h][Last(h)] \in ConnType
  BY LastInDomain, OneConn DEF Inv
<1> QED
  BY <1>1 DEF ConnType

LEMMA ChannelInactiveInv ==
  ASSUME Inv, NEW h \in Hosts, ChannelInactive(h)
  PROVE  Inv'
<1> USE DEF Inv
<1> DEFINE c == [conns[h][Last(h)] EXCEPT !.link = "closed"]
<1>1. /\ Last(h) \in DOMAIN conns[h] /\ Last(h) \in Nat /\ DOMAIN conns[h] = 1 .. Last(h)
  BY LastInDomain, OneConn DEF ChannelInactive
<1>2. c \in ConnType /\ c.link = "closed"
  BY ClosedConn DEF ChannelInactive
<1>3. conns' = [conns EXCEPT ![h] = [conns[h] EXCEPT ![Last(h)] = c]]
  BY DEF ChannelInactive, CloseConn
<1> HIDE DEF c
<1>4. /\ now' = now /\ data' = data /\ loop' = loop /\ files' = files /\ page' = page
      /\ failures' = failures /\ connect' = [connect EXCEPT ![h] = FALSE]
      /\ dialing' = [dialing EXCEPT ![h] = TRUE] /\ loop[h] = Idle
  BY DEF ChannelInactive, handlerVars
<1>5. /\ conns' \in [Hosts -> Seq(ConnType)]
      /\ \A g \in Hosts : Len(conns'[g]) = Len(conns[g]) /\ DOMAIN conns'[g] = DOMAIN conns[g]
      /\ \A g \in Hosts : \A k \in DOMAIN conns[g] :
           conns'[g][k] = IF g = h /\ k = Last(h) THEN c ELSE conns[g][k]
  BY <1>1, <1>2, <1>3, ConnUpdated
<1>6. Types'
  BY <1>4, <1>5, HistoryKept DEF Types, ChannelInactive
<1>7. \A g \in Hosts : Last(g)' = Last(g)
  BY <1>5 DEF Last
<1>8. Clients'
  <2> SUFFICES ASSUME NEW g \in Hosts
               PROVE  /\ data[g] <= Last(g)
                      /\ \A j \in DOMAIN conns[g] :
                           j < Last(g) \/ dialing'[g] => conns'[g][j].link = "closed"
                      /\ dialing'[g] => loop[g] = Idle /\ ~connect'[g]
                      /\ connect'[g] \/ loop[g] = Auth => Last(g) > 0 /\ data[g] = Last(g)
    BY SMTT(30), <1>4, <1>5, <1>7 DEF Clients
  <2>1. CASE g = h
    <3>1. \A j \in DOMAIN conns[h] : j # Last(h) => j < Last(h)
      BY <1>1
    <3>2. \A j \in DOMAIN conns[h] : conns'[h][j].link = "closed"
      BY <1>2, <1>5, <3>1 DEF Clients
    <3> QED
      BY <1>4, <2>1, <3>2, MessageTypes DEF Types, Clients
  <2>2. CASE g # h
    BY <1>4, <1>5, <2>2 DEF Types, Clients
  <2> QED
    BY <2>1, <2>2
<1>9. Pages'
  BY <1>4, <1>7 DEF Pages
<1> QED
  BY <1>6, <1>8, <1>9

-----------------------------------------------------------------------------
(* The steps of a server.                                                    *)

LEMMA ReplyType ==
  ASSUME NEW c \in ConnType, NEW m \in Messages
  PROVE  /\ Reply(c, m) \in ConnType /\ Reply(c, m).link = c.link /\ Reply(c, m).job = c.job
         /\ Reply(c, m).toServer = c.toServer
         /\ Reply(c, m).toClient = IF c.link = "open" THEN Append(c.toClient, m) ELSE c.toClient
<1>1. Append(c.toClient, m) \in Seq(Messages)
  BY AppendProperties DEF ConnType
<1> QED
  BY <1>1 DEF Reply, ConnType

\* What the server reads, and what is left to read.
LEMMA RequestRead ==
  ASSUME Types, NEW h \in Hosts, NEW j \in DOMAIN conns[h], conns[h][j].toServer # <<>>
  PROVE  /\ Head(conns[h][j].toServer) \in Messages
         /\ Tail(conns[h][j].toServer) \in Seq(Messages)
<1>1. conns[h][j].toServer \in Seq(Messages)
  BY OneConn DEF ConnType
<1> QED
  BY <1>1, HeadTailProperties

LEMMA ServerAuthInv ==
  ASSUME Inv, NEW h \in Hosts, NEW j \in DOMAIN conns[h], ServerReads(h, j), ServerAuth(h, j)
  PROVE  Inv'
<1>1. /\ now' = now /\ dialing' = dialing /\ connect' = connect /\ data' = data /\ loop' = loop
      /\ files' = files /\ page' = page /\ conns[h][j].toServer # <<>> /\ HistoryTypes'
  BY HistoryKept DEF ServerReads, handlerVars, Inv, Types
<1> DEFINE c == [conns[h][j] EXCEPT !.toServer = Tail(@), !.known = TRUE]
           d == [c EXCEPT !.mute = TRUE]
           r == Reply(c, Auth)
<1>2. conns[h][j] \in ConnType /\ Tail(conns[h][j].toServer) \in Seq(Messages)
  BY <1>1, OneConn, RequestRead DEF Inv
<1>3. c \in ConnType /\ c.link = conns[h][j].link
  BY <1>2 DEF ConnType
<1>4. d \in ConnType /\ d.link = conns[h][j].link
  BY <1>2 DEF ConnType
<1>5. r \in ConnType /\ r.link = conns[h][j].link
  BY <1>3, MessageTypes, ReplyType
<1>6. \/ failures' = failures /\ conns' = [conns EXCEPT ![h][j] = r]
      \/ Fails("first", h) /\ conns' = [conns EXCEPT ![h][j] = d]
  BY DEF ServerAuth
<1> HIDE DEF c, d, r
<1>7. failures' \in 0 .. MaxFailures
  BY <1>6, BoundsAssumption DEF Inv, Types, Fails
<1>8. CASE conns' = [conns EXCEPT ![h][j] = r]
  <2>1. conns' = [conns EXCEPT ![h] = [conns[h] EXCEPT ![j] = r]]
    BY <1>8
  <2> QED
    BY <1>1, <1>5, <1>7, <2>1, OneConnStays
<1>9. CASE conns' = [conns EXCEPT ![h][j] = d]
  <2>1. conns' = [conns EXCEPT ![h] = [conns[h] EXCEPT ![j] = d]]
    BY <1>9
  <2> QED
    BY <1>1, <1>4, <1>7, <2>1, OneConnStays
<1> QED
  BY <1>6, <1>8, <1>9

LEMMA ServerStateInv ==
  ASSUME Inv, NEW h \in Hosts, NEW j \in DOMAIN conns[h], ServerReads(h, j), ServerState(h, j)
  PROVE  Inv'
<1>1. /\ now' = now /\ dialing' = dialing /\ connect' = connect /\ data' = data /\ loop' = loop
      /\ files' = files /\ page' = page /\ conns[h][j].toServer # <<>> /\ HistoryTypes'
  BY HistoryKept DEF ServerReads, handlerVars, Inv, Types
<1> DEFINE c == [conns[h][j] EXCEPT !.toServer = Tail(@)]
           r == Reply(c, State)
<1>2. conns[h][j] \in ConnType /\ Tail(conns[h][j].toServer) \in Seq(Messages)
  BY <1>1, OneConn, RequestRead DEF Inv
<1>3. c \in ConnType /\ c.link = conns[h][j].link
  BY <1>2 DEF ConnType
<1>4. r \in ConnType /\ r.link = conns[h][j].link
  BY <1>3, MessageTypes, ReplyType
<1>5. conns' = [conns EXCEPT ![h] = [conns[h] EXCEPT ![j] = r]]
  BY DEF ServerState
<1> HIDE DEF c, r
<1>6. failures' \in 0 .. MaxFailures
  BY DEF ServerState, Inv, Types
<1> QED
  BY <1>1, <1>4, <1>5, <1>6, OneConnStays

\* The connections of the host that ServerZip leaves.
ZipConns(h, j) ==
  LET m == Head(conns[h][j].toServer)
      others == {k \in DOMAIN conns[h] : conns[h][k].job # Idle} IN
    [k \in DOMAIN conns[h] |->
       IF k = j THEN [conns[h][k] EXCEPT !.toServer = Tail(@), !.job = File(m.time, others = {})]
       ELSE IF k \in others THEN [conns[h][k] EXCEPT !.job.clean = FALSE]
       ELSE conns[h][k]]

LEMMA ServerZipInv ==
  ASSUME Inv, NEW h \in Hosts, NEW j \in DOMAIN conns[h], ServerReads(h, j), ServerZip(h, j)
  PROVE  Inv'
<1>1. /\ now' = now /\ dialing' = dialing /\ connect' = connect /\ data' = data /\ loop' = loop
      /\ files' = files /\ page' = page /\ conns[h][j].toServer # <<>> /\ HistoryTypes'
  BY HistoryKept DEF ServerReads, handlerVars, Inv, Types
<1>2. failures' \in 0 .. MaxFailures
  BY DEF ServerZip, Inv, Types
<1> DEFINE m == Head(conns[h][j].toServer)
           others == {k \in DOMAIN conns[h] : conns[h][k].job # Idle}
           c == [conns[h][j] EXCEPT !.toServer = Tail(@), !.job = File(m.time, others = {})]
           s == ZipConns(h, j)
<1>3. conns[h] \in Seq(ConnType) /\ DOMAIN conns[h] = 1 .. Len(conns[h]) /\ Len(conns[h]) \in Nat
  BY OneConn DEF Inv, Last
<1>4. File(m.time, others = {}) \in Zips
  <2>1. m.time \in Times
    BY <1>1, RequestRead, MessageTypes DEF Inv
  <2>2. (others = {}) \in BOOLEAN
    OBVIOUS
  <2> QED
    BY <2>1, <2>2, ZipTypes
<1>5. c \in ConnType /\ c.link = conns[h][j].link
  <2> DEFINE z == File(m.time, others = {})
             t == Tail(conns[h][j].toServer)
  <2>1. conns[h][j] \in ConnType /\ t \in Seq(Messages) /\ z \in Zips
    BY <1>1, <1>4, OneConn, RequestRead DEF Inv
  <2>2. c = [conns[h][j] EXCEPT !.toServer = t, !.job = z]
    OBVIOUS
  <2> HIDE DEF z, t, c
  <2> QED
    BY <2>1, <2>2 DEF ConnType
<1>6. \A k \in DOMAIN conns[h] :
        conns[h][k].job # Idle =>
          LET d == [conns[h][k] EXCEPT !.job.clean = FALSE] IN
            d \in ConnType /\ d.link = conns[h][k].link
  <2> SUFFICES ASSUME NEW k \in DOMAIN conns[h], conns[h][k].job # Idle
               PROVE  LET d == [conns[h][k] EXCEPT !.job.clean = FALSE] IN
                        d \in ConnType /\ d.link = conns[h][k].link
    OBVIOUS
  <2>1. conns[h][k] \in ConnType /\ conns[h][k].job \in Zips
    BY OneConn DEF Inv, ConnType
  <2>2. [conns[h][k].job EXCEPT !.clean = FALSE] \in Zips
    BY <2>1, MixedZip
  <2> QED
    BY <2>1, <2>2 DEF ConnType
<1>7. /\ DOMAIN s = DOMAIN conns[h]
      /\ \A k \in DOMAIN conns[h] :
           s[k] = IF k = j THEN c
                  ELSE IF conns[h][k].job # Idle THEN [conns[h][k] EXCEPT !.job.clean = FALSE]
                  ELSE conns[h][k]
  BY DEF ZipConns
<1>8. \A k \in DOMAIN conns[h] : s[k] \in ConnType /\ s[k].link = conns[h][k].link
  BY <1>5, <1>6, <1>7, OneConn DEF Inv
<1>9. s \in Seq(ConnType) /\ Len(s) = Len(conns[h])
  <2>1. s \in [1 .. Len(conns[h]) -> ConnType]
    <3>1. s = [k \in DOMAIN conns[h] |-> s[k]]
      BY DEF ZipConns
    <3> QED
      BY <1>3, <1>7, <1>8, <3>1
  <2> HIDE DEF s
  <2>2. s \in Seq(ConnType)
    BY <1>3, <2>1, FunctionIsSeq
  <2>3. \A a, b \in Nat : 1 .. a = 1 .. b => a = b
    <3> SUFFICES ASSUME NEW a \in Nat, NEW b \in Nat, 1 .. a = 1 .. b
                 PROVE  a <= b /\ b <= a
      OBVIOUS
    <3>1. a > 0 => a \in 1 .. b
      OBVIOUS
    <3>2. b > 0 => b \in 1 .. a
      OBVIOUS
    <3> QED
      BY <3>1, <3>2
  <2>4. Len(s) \in Nat /\ DOMAIN s = 1 .. Len(s)
    BY <2>2, LenProperties
  <2> QED
    BY <1>3, <1>7, <2>2, <2>3, <2>4
<1>10. conns' = [conns EXCEPT ![h] = s]
  BY DEF ServerZip, ZipConns
<1> HIDE DEF s
<1> QED
  BY <1>1, <1>2, <1>7, <1>8, <1>9, <1>10, OneHostStays

LEMMA ServerReadsInv ==
  ASSUME Inv, NEW h \in Hosts, NEW j \in DOMAIN conns[h], ServerReads(h, j)
  PROVE  Inv'
BY ServerAuthInv, ServerStateInv, ServerZipInv DEF ServerReads

LEMMA ServerSendsFileInv ==
  ASSUME Inv, NEW h \in Hosts, NEW j \in DOMAIN conns[h], ServerSendsFile(h, j)
  PROVE  Inv'
<1> DEFINE m == conns[h][j].job
           c == [conns[h][j] EXCEPT !.job = Idle]
<1>1. /\ now' = now /\ dialing' = dialing /\ connect' = connect /\ data' = data /\ loop' = loop
      /\ files' = files /\ page' = page
  BY DEF ServerSendsFile, handlerVars
<1>2. conns[h][j] \in ConnType /\ m \in Zips
  BY OneConn DEF Inv, ConnType, ServerSendsFile
<1>3. c \in ConnType /\ c.link = conns[h][j].link
  BY <1>2 DEF ConnType
<1>4. m \in Messages /\ m.time \in Times /\ File(m.time, FALSE) \in Messages
  BY <1>2, ZipTypes, MessageTypes
<1>5. failures' \in 0 .. MaxFailures /\ HistoryTypes'
  <2>1. /\ \/ failures' = failures /\ unzipped' = unzipped
           \/ Fails("zip", h) /\ unzipped' = unzipped \cup {m.time}
        /\ format1' = format1 /\ format2' = format2 /\ raced' = raced /\ torn' = torn
    BY DEF ServerSendsFile, formatVars
  <2> HIDE DEF m
  <2>2. failures' \in 0 .. MaxFailures
    BY <2>1, BoundsAssumption DEF Fails, Inv, Types
  <2>3. HistoryTypes'
    BY <1>4, <2>1 DEF HistoryTypes, Inv, Types
  <2> QED
    BY <2>2, <2>3
<1>6. \E z \in {m, NoFile, File(m.time, FALSE)} : conns' = [conns EXCEPT ![h][j] = Reply(c, z)]
  BY DEF ServerSendsFile
<1> HIDE DEF c, m
<1>7. PICK z \in Messages : conns' = [conns EXCEPT ![h][j] = Reply(c, z)]
  BY <1>4, <1>6, MessageTypes
<1> DEFINE r == Reply(c, z)
<1>8. r \in ConnType /\ r.link = conns[h][j].link
  BY <1>3, ReplyType
<1>9. conns' = [conns EXCEPT ![h] = [conns[h] EXCEPT ![j] = r]]
  BY <1>7
<1> HIDE DEF r
<1> QED
  BY <1>1, <1>5, <1>8, <1>9, OneConnStays

-----------------------------------------------------------------------------
(* The steps of pages, time and failures.                                    *)

\* A step of one page that changes nothing else.
LEMMA PageStep ==
  ASSUME Inv, NEW p \in Pullers \cup Viewers, NEW g \in PageType, page' = [page EXCEPT ![p] = g],
         now' = now, dialing' = dialing, conns' = conns, connect' = connect, data' = data,
         loop' = loop, files' = files, failures' = failures, HistoryTypes',
         g.at = "lock" => g.host \in Hosts /\ g.conn <= data[g.host],
         g.at = "send" => g.host \in Hosts /\ Last(g.host) > 0
  PROVE  Inv'
<1> USE DEF Inv
<1>1. Types'
  BY DEF Types
<1>2. \A h \in Hosts : Last(h)' = Last(h)
  BY DEF Last
<1>3. Clients'
  BY <1>2, ClosedStay
<1>4. Pages'
  <2> SUFFICES ASSUME NEW q \in Pullers \cup Viewers
               PROVE  /\ page'[q].at = "lock" => page'[q].host \in Hosts /\ page'[q].conn <= data[page'[q].host]
                      /\ page'[q].at = "send" => page'[q].host \in Hosts /\ Last(page'[q].host) > 0
    BY <1>2 DEF Pages
  <2>1. page'[q] = IF q = p THEN g ELSE page[q]
    BY DEF Types
  <2> QED
    BY <2>1 DEF Pages
<1> QED
  BY <1>1, <1>3, <1>4

LEMMA NoPageType ==
  NoPage \in PageType /\ NoPage.at = "idle"
BY Constants DEF NoPage, PageType

\* Who is connected has a connection, whose state is the data.
LEMMA ConnectedData ==
  ASSUME Inv, NEW h \in Hosts, connect[h]
  PROVE  Last(h) > 0 /\ Last(h) \in Nat /\ data[h] = Last(h)
BY LastInDomain DEF Inv, Clients

LEMMA PullInv ==
  ASSUME Inv, NEW p \in Pullers, Pull(p)
  PROVE  Inv'
<1> DEFINE g == [NoPage EXCEPT !.host = MasterHost, !.time = now,
                               !.at = IF connect[MasterHost] THEN "send" ELSE "next"]
<1>1. g \in PageType /\ g.host = MasterHost /\ g.at = IF connect[MasterHost] THEN "send" ELSE "next"
  BY NoPageType, Constants DEF PageType, Inv, Types
<1>2. page' = [page EXCEPT ![p] = g]
  BY DEF Pull
<1> HIDE DEF g
<1>3. g.at = "send" => Last(g.host) > 0
  BY <1>1, Constants, ConnectedData
<1>4. /\ now' = now /\ dialing' = dialing /\ conns' = conns /\ connect' = connect /\ data' = data
      /\ loop' = loop /\ files' = files /\ failures' = failures /\ HistoryTypes'
  BY HistoryKept DEF Pull, clientVars, handlerVars, Inv, Types
<1>5. g.at # "lock" /\ g.host \in Hosts
  BY <1>1, Constants
<1> QED
  BY <1>1, <1>2, <1>3, <1>4, <1>5, PageStep

LEMMA PullNextInv ==
  ASSUME Inv, NEW p \in Pullers, PullNext(p)
  PROVE  Inv'
<1> DEFINE g == IF connect[SlaveHost] THEN [page[p] EXCEPT !.at = "send", !.host = SlaveHost]
                ELSE NoPage
<1>1. g \in PageType /\ g.at # "lock" /\ (g.at = "send" => connect[SlaveHost] /\ g.host = SlaveHost)
  <2>1. page[p] \in PageType
    BY DEF Inv, Types
  <2>2. LET d == [page[p] EXCEPT !.at = "send", !.host = SlaveHost] IN
          d \in PageType /\ d.at = "send" /\ d.host = SlaveHost
    BY <2>1, Constants DEF PageType
  <2> QED
    BY <2>2, NoPageType
<1>2. page' = [page EXCEPT ![p] = g]
  BY DEF PullNext
<1> HIDE DEF g
<1>3. g.at = "send" => g.host \in Hosts /\ Last(g.host) > 0
  BY <1>1, Constants, ConnectedData
<1>4. /\ now' = now /\ dialing' = dialing /\ conns' = conns /\ connect' = connect /\ data' = data
      /\ loop' = loop /\ files' = files /\ failures' = failures /\ HistoryTypes'
  BY HistoryKept DEF PullNext, clientVars, handlerVars, Inv, Types
<1> QED
  BY <1>1, <1>2, <1>3, <1>4, PageStep

\* The connection that a pull writes to.
LEMMA PullSent ==
  ASSUME Inv, NEW p \in Pullers, PullSend(p)
  PROVE  LET h == page[p].host
             c == [conns[h][Last(h)] EXCEPT !.toServer = Append(@, File(page[p].time, TRUE))]
         IN  /\ h \in Hosts /\ Last(h) > 0 /\ Last(h) \in DOMAIN conns[h]
             /\ c \in ConnType /\ c.link = conns[h][Last(h)].link
<1> DEFINE h == page[p].host
           t == Append(conns[h][Last(h)].toServer, File(page[p].time, TRUE))
<1>1. h \in Hosts /\ Last(h) > 0
  BY DEF Inv, Pages, PullSend
<1>2. Last(h) \in DOMAIN conns[h] /\ conns[h][Last(h)] \in ConnType
  BY <1>1, LastInDomain, OneConn DEF Inv
<1>3. File(page[p].time, TRUE) \in Messages
  BY MessageTypes DEF Inv, Types, PageType
<1>4. t \in Seq(Messages)
  BY <1>2, <1>3, AppendProperties DEF ConnType
<1> HIDE DEF t
<1>5. LET c == [conns[h][Last(h)] EXCEPT !.toServer = t] IN
        c \in ConnType /\ c.link = conns[h][Last(h)].link
  BY <1>2, <1>4 DEF ConnType
<1> QED
  BY <1>1, <1>2, <1>5 DEF t

LEMMA PullSendInv ==
  ASSUME Inv, NEW p \in Pullers, PullSend(p)
  PROVE  Inv'
<1> USE DEF Inv
<1>0. PICK h : h = page[p].host
  OBVIOUS
<1> DEFINE c == [conns[h][Last(h)] EXCEPT !.toServer = Append(@, File(page[p].time, TRUE))]
<1>1. /\ h \in Hosts /\ Last(h) > 0 /\ Last(h) \in DOMAIN conns[h]
      /\ c \in ConnType /\ c.link = conns[h][Last(h)].link
  BY <1>0, PullSent
<1>2. /\ now' = now /\ dialing' = dialing /\ connect' = connect /\ data' = data
      /\ loop' = loop /\ files' = files /\ failures' = failures /\ HistoryTypes'
  BY <1>0, NameTypes DEF PullSend, handlerVars, history, Types, HistoryTypes, PageType
<1>3. \/ conns' = [conns EXCEPT ![h] = [conns[h] EXCEPT ![Last(h)] = c]]
      \/ conns' = conns
  BY <1>0 DEF PullSend
<1>4. page' = [page EXCEPT ![p].at = "name", ![p].conn = Last(h)]
  BY <1>0 DEF PullSend
<1> HIDE DEF c
<1>5. /\ conns' \in [Hosts -> Seq(ConnType)]
      /\ \A g \in Hosts : Len(conns'[g]) = Len(conns[g]) /\ DOMAIN conns'[g] = DOMAIN conns[g]
      /\ \A g \in Hosts : \A k \in DOMAIN conns[g] :
           conns[g][k].link = "closed" => conns'[g][k].link = "closed"
  <2>1. CASE conns' = conns
    BY <2>1 DEF Types
  <2>2. CASE conns' = [conns EXCEPT ![h] = [conns[h] EXCEPT ![Last(h)] = c]]
    <3>1. /\ conns' \in [Hosts -> Seq(ConnType)]
          /\ \A g \in Hosts : Len(conns'[g]) = Len(conns[g]) /\ DOMAIN conns'[g] = DOMAIN conns[g]
          /\ \A g \in Hosts : \A k \in DOMAIN conns[g] :
               conns'[g][k] = IF g = h /\ k = Last(h) THEN c ELSE conns[g][k]
      BY <1>1, <2>2, ConnUpdated
    <3> QED
      BY <1>1, <3>1
  <2> QED
    BY <1>3, <2>1, <2>2
<1>6. Clients' /\ \A g \in Hosts : Last(g)' = Last(g)
  BY <1>2, <1>5, ClosedStay
<1>7. page' \in [Pullers \cup Viewers -> PageType] /\ page'[p].at = "name"
      /\ \A q \in Pullers \cup Viewers : q # p => page'[q] = page[q]
  <2>1. Last(h) \in Nat /\ page[p] \in PageType
    BY <1>1, LastInDomain DEF Types
  <2>2. LET d == [page[p] EXCEPT !.at = "name", !.conn = Last(h)] IN d \in PageType /\ d.at = "name"
    BY <2>1 DEF PageType
  <2> QED
    BY <1>4, <2>2 DEF Types
<1>8. Types'
  BY <1>2, <1>5, <1>7 DEF Types
<1>9. Pages'
  <2>1. \A q \in Pullers \cup Viewers : q # p =>
          /\ page[q].at = "lock" => page[q].host \in Hosts /\ page[q].conn <= data[page[q].host]
          /\ page[q].at = "send" => page[q].host \in Hosts /\ Last(page[q].host) > 0
    BY DEF Pages
  <2>2. \A g : g \in Hosts /\ Last(g) > 0 => g \in Hosts /\ Last(g)' > 0
    BY <1>6
  <2>3. \A q \in Pullers \cup Viewers : q # p =>
          /\ page[q].at = "lock" => page[q].host \in Hosts /\ page[q].conn <= data'[page[q].host]
          /\ page[q].at = "send" => page[q].host \in Hosts /\ Len(conns'[page[q].host]) > 0
    BY <1>2, <2>1, <2>2 DEF Last
  <2>4. \A q \in Pullers \cup Viewers :
          /\ page'[q].at = "lock" => page'[q].host \in Hosts /\ page'[q].conn <= data'[page'[q].host]
          /\ page'[q].at = "send" => page'[q].host \in Hosts /\ Len(conns'[page'[q].host]) > 0
    BY <1>7, <2>3
  <2> QED
    BY <2>4 DEF Pages, Last
<1> QED
  BY <1>6, <1>8, <1>9

LEMMA PullNameInv ==
  ASSUME Inv, NEW p \in Pullers, PullName(p)
  PROVE  Inv'
<1>1. PICK n \in format1 : page' = [page EXCEPT ![p].at = "sent", ![p].name = n]
  BY DEF PullName
<1> DEFINE g == [page[p] EXCEPT !.at = "sent", !.name = n]
<1>2. page[p] \in PageType /\ n \in Times
  BY DEF Inv, Types, HistoryTypes
<1>3. g \in PageType /\ g.at = "sent"
  BY <1>2 DEF PageType
<1>4. page' = [page EXCEPT ![p] = g]
  BY <1>1
<1> HIDE DEF g
<1>5. /\ now' = now /\ dialing' = dialing /\ conns' = conns /\ connect' = connect /\ data' = data
      /\ loop' = loop /\ files' = files /\ failures' = failures
  BY DEF PullName, clientVars, handlerVars
<1>6. HistoryTypes'
  BY DEF PullName, NameDone, history, HistoryTypes, Inv, Types
<1> QED
  BY <1>3, <1>4, <1>5, <1>6, PageStep

LEMMA ViewInv ==
  ASSUME Inv, NEW p \in Viewers, NEW h \in Hosts, View(p, h)
  PROVE  Inv'
<1> DEFINE g == [NoPage EXCEPT !.at = "lock", !.host = h, !.conn = Last(h)]
<1>1. Last(h) \in Nat /\ data[h] = Last(h)
  BY ConnectedData DEF View
<1>2. g \in PageType /\ g.at = "lock" /\ g.host = h /\ g.conn = Last(h)
  BY <1>1, NoPageType DEF PageType
<1>3. page' = [page EXCEPT ![p] = g]
  BY DEF View
<1> HIDE DEF g
<1>4. /\ now' = now /\ dialing' = dialing /\ conns' = conns /\ connect' = connect /\ data' = data
      /\ loop' = loop /\ files' = files /\ failures' = failures /\ HistoryTypes'
  BY HistoryKept DEF View, clientVars, handlerVars, Inv, Types
<1>5. g.conn <= data[g.host]
  BY <1>1, <1>2
<1> QED
  BY <1>2, <1>3, <1>4, <1>5, PageStep

LEMMA ShowInv ==
  ASSUME Inv, NEW p \in Viewers, Show(p)
  PROVE  Inv'
<1>1. page' = [page EXCEPT ![p] = NoPage]
  BY DEF Show
<1>2. /\ now' = now /\ dialing' = dialing /\ conns' = conns /\ connect' = connect /\ data' = data
      /\ loop' = loop /\ files' = files /\ failures' = failures /\ HistoryTypes'
  BY HistoryKept DEF Show, clientVars, handlerVars, Inv, Types
<1> QED
  BY <1>1, <1>2, NoPageType, PageStep

LEMMA TickInv ==
  ASSUME Inv, Tick
  PROVE  Inv'
<1>1. now' \in Times
  BY BoundsAssumption DEF Inv, Types, Tick, Times
<1>2. Types'
  BY <1>1, HistoryKept DEF Inv, Types, Tick, clientVars, handlerVars
<1>3. Clients' /\ Pages'
  BY DEF Inv, Clients, Pages, Last, Tick, clientVars, handlerVars
<1> QED
  BY <1>2, <1>3 DEF Inv

\* The connection that a failure leaves.
LEMMA Dropped ==
  ASSUME Inv, NEW h \in Hosts, NEW l \in {"cut", "silent"}, Drop(h, l)
  PROVE  /\ Last(h) \in DOMAIN conns[h] /\ conns[h][Last(h)] \in ConnType
         /\ conns[h][Last(h)].link # "closed"
         /\ \E c \in ConnType :
              /\ c.link = l /\ c.job = conns[h][Last(h)].job /\ c.toClient = <<>>
              /\ c.toServer \in {<<>>, conns[h][Last(h)].toServer}
              /\ conns' = [conns EXCEPT ![h] = [conns[h] EXCEPT ![Last(h)] = c]]
<1> DEFINE d == conns[h][Last(h)]
<1>1. /\ Last(h) \in DOMAIN conns[h] /\ d \in ConnType /\ d.link # "closed"
  BY ActiveConn DEF Drop
<1>2. PICK q \in {<<>>, d.toServer} :
        conns' = [conns EXCEPT ![h][Last(h)] = [d EXCEPT !.link = l, !.toServer = q, !.toClient = <<>>]]
  BY DEF Drop
<1> DEFINE c == [d EXCEPT !.link = l, !.toServer = q, !.toClient = <<>>]
<1>3. c \in ConnType /\ c.link = l /\ c.job = d.job /\ c.toClient = <<>> /\ c.toServer = q
  BY <1>1, EmptySeq DEF ConnType
<1>4. conns' = [conns EXCEPT ![h] = [conns[h] EXCEPT ![Last(h)] = c]]
  BY <1>2
<1> HIDE DEF c
<1> QED
  BY <1>1, <1>3, <1>4

LEMMA DropInv ==
  ASSUME Inv, NEW h \in Hosts, NEW l \in {"cut", "silent"}, Drop(h, l),
         failures' \in 0 .. MaxFailures
  PROVE  Inv'
<1>1. PICK c \in ConnType : conns' = [conns EXCEPT ![h] = [conns[h] EXCEPT ![Last(h)] = c]]
  BY Dropped
<1>2. Last(h) \in DOMAIN conns[h] /\ conns[h][Last(h)].link # "closed"
  BY Dropped
<1>3. /\ now' = now /\ dialing' = dialing /\ connect' = connect /\ data' = data /\ loop' = loop
      /\ files' = files /\ page' = page
  BY DEF Drop, handlerVars
<1>4. HistoryTypes'
  BY DEF Drop, formatVars, HistoryTypes, Inv, Types
<1> QED
  BY <1>1, <1>2, <1>3, <1>4, OneConnStays

LEMMA InvStep ==
  ASSUME Inv, [Next]_vars
  PROVE  Inv'
<1>1. CASE UNCHANGED vars
  BY <1>1, HistoryKept DEF Inv, Types, Clients, Pages, Last, vars, clientVars, handlerVars
<1>2. CASE \E h \in Hosts : ClientStep(h) \/ ConnectFailed(h) \/ Poll(h) \/ Break(h) \/ Silence(h)
  <2>1. \A h \in Hosts : \A kind : Fails(kind, h) => failures' \in 0 .. MaxFailures
    BY BoundsAssumption DEF Inv, Types, Fails
  <2>2. \A h \in Hosts : Break(h) \/ Silence(h) => Inv'
    BY <2>1, DropInv DEF Break, Silence
  <2>3. \A h \in Hosts : ClientStep(h) => Inv'
    BY ConnectedInv, HandleDataInv, HandleFolderInv, HandleNameInv, HandleDataEndsInv,
       ReaderIdleInv, ChannelInactiveInv DEF ClientStep
  <2> QED
    BY <1>2, <2>2, <2>3, ConnectFailedInv, PollInv
<1>3. CASE \E h \in Hosts : \E j \in DOMAIN conns[h] : ServerStep(h, j)
  BY <1>3, ServerReadsInv, ServerSendsFileInv DEF ServerStep
<1>4. CASE \E p \in Pullers : Pull(p) \/ PullNext(p) \/ PullSend(p) \/ PullName(p)
  BY <1>4, PullInv, PullNextInv, PullSendInv, PullNameInv
<1>5. CASE \E p \in Viewers : Show(p) \/ \E h \in Hosts : View(p, h)
  BY <1>5, ShowInv, ViewInv
<1>6. CASE Tick
  BY <1>6, TickInv
<1> QED
  BY <1>1, <1>2, <1>3, <1>4, <1>5, <1>6 DEF Next

LEMMA TypesSuffice == ASSUME Inv PROVE TypeOK
<1>1. PageType = [at : {"idle", "next", "send", "name", "sent", "lock"}, host : Hosts \cup {NoHost},
                  conn : Nat, time : Times, name : Times]
  BY DEF PageType
<1>2. \A h \in Hosts :
        conns[h] \in Seq([link : {"open", "silent", "cut", "closed"}, known : BOOLEAN,
                          mute : BOOLEAN, toServer : Seq(Messages), toClient : Seq(Messages),
                          job : Messages])
  <2> DEFINE T == [link : {"open", "silent", "cut", "closed"}, known : BOOLEAN, mute : BOOLEAN,
                   toServer : Seq(Messages), toClient : Seq(Messages), job : Messages]
  <2>1. ConnType \subseteq T
    BY ZipTypes, MessageTypes DEF ConnType
  <2> HIDE DEF T
  <2>2. \A h \in Hosts : conns[h] \in Seq(ConnType)
    BY DEF Inv, Types
  <2>3. \A h \in Hosts : conns[h] \in Seq(T)
    BY <2>1, <2>2, SeqMonotonic
  <2> QED
    BY <2>3 DEF T
<1>3. \A h \in Hosts : data[h] \in 0 .. Last(h)
  BY LastInDomain DEF Inv, Types, Clients
<1>4. \A h \in Hosts : loop[h] \in {Idle, Auth} \cup Work
  BY DEF Inv, Types
<1>5. \A h \in Hosts : \A j \in DOMAIN conns[h] :
        j < Last(h) \/ dialing[h] => conns[h][j].link = "closed"
  BY DEF Inv, Clients
<1> QED
  BY <1>1, <1>2, <1>3, <1>4, <1>5 DEF Inv, Types, HistoryTypes, FileType, TypeOK

\* Every variable has its type, and a client has one connection at a time: the
\* event loop of HeartBeatVisualizationClient connects again only when the
\* channel that it had is closed.
THEOREM ColdBackupTypes == Spec => []TypeOK
<1>1. Init => Inv
  BY InvInit
<1>2. Inv /\ [Next]_vars => Inv'
  BY InvStep
<1>3. Inv => TypeOK
  BY TypesSuffice
<1> QED
  BY <1>1, <1>2, <1>3, PTL DEF Spec

\* A page that saw a client connected shows a state of that connection or of a
\* later one, although getStateData reads the flag without the lock under which
\* the event loop changes the data.
THEOREM FreshPages == Spec => []FreshState
<1>1. Init => Inv
  BY InvInit
<1>2. Inv /\ [Next]_vars => Inv'
  BY InvStep
<1>3. Inv => FreshState
  <2> SUFFICES ASSUME Inv, NEW p \in Viewers, page[p].at = "lock"
               PROVE  data[page[p].host] >= page[p].conn
    BY DEF FreshState
  <2>1. page[p].host \in Hosts /\ page[p].conn <= data[page[p].host]
    BY DEF Inv, Pages
  <2>2. page[p].conn \in Nat /\ data[page[p].host] \in Nat
    BY <2>1 DEF Inv, Types, PageType
  <2> QED
    BY <2>1, <2>2
<1> QED
  BY <1>1, <1>2, <1>3, PTL DEF Spec

-----------------------------------------------------------------------------
(* The backups.                                                              *)

\* What comes over the connections of host h was asked by a page, and is one zip
\* unless its zip failed or h lost a connection with a pull unanswered.
Arrives(h, m, A, U, T) == <<h, m.time>> \in A /\ (m.clean \/ m.time \in U \/ h \in T)

\* As long as a host has lost no connection with a pull unanswered, only an open one,
\* and so its last, has requests for a file or a zip: no zip disturbs another.
CleanConn(h, c, A, U, T) ==
  /\ h \notin T /\ c.link # "open" =>
       c.job = Idle /\ \A i \in DOMAIN c.toServer : c.toServer[i].kind # "file"
  /\ \A i \in DOMAIN c.toServer : c.toServer[i].kind = "file" => <<h, c.toServer[i].time>> \in A
  /\ c.job # Idle => (h \notin T => c.job.clean) /\ <<h, c.job.time>> \in A
  /\ \A i \in DOMAIN c.toClient : c.toClient[i].kind = "file" => Arrives(h, c.toClient[i], A, U, T)

\* A file gets the name of its pull, unless the calls of format overlapped.
CleanWork(h, w, F, A, U, T, R) ==
  w \in Work =>
    /\ Arrives(h, w, A, U, T)
    /\ w.kind = "name" => w.time \in F
    /\ w.kind = "write" => w.name = w.time \/ w.name \in R

CleanConns == \A h \in Hosts : \A j \in DOMAIN conns[h] : CleanConn(h, conns[h][j], Asked, unzipped, torn)
CleanWorks == \A h \in Hosts : CleanWork(h, loop[h], format1, Asked, unzipped, torn, raced)
Names == \A t, u \in format1 : t # u => t \in raced

Clean == CleanConns /\ CleanWorks /\ Names /\ CleanBackups

Grow == Asked \subseteq Asked' /\ unzipped \subseteq unzipped' /\ raced \subseteq raced' /\ torn \subseteq torn'

\* Pages do not take back what they asked.
LEMMA AskedGrows ==
  ASSUME Inv, NEW p \in Pullers \cup Viewers, NEW g, page' = [page EXCEPT ![p] = g],
         page[p].at \in {"name", "sent"} =>
           g.at \in {"name", "sent"} /\ g.host = page[p].host /\ g.time = page[p].time
  PROVE  Asked \subseteq Asked'
<1>1. \A q \in Pullers : page'[q] = IF q = p THEN g ELSE page[q]
  BY DEF Inv, Types
<1> SUFFICES ASSUME NEW q \in Pullers, page[q].at \in {"name", "sent"}
             PROVE  <<page[q].host, page[q].time>> \in Asked'
  BY DEF Asked
<1>2. /\ page'[q].at \in {"name", "sent"}
      /\ page'[q].host = page[q].host /\ page'[q].time = page[q].time
  BY <1>1
<1> QED
  BY <1>2 DEF Asked

LEMMA SamePages ==
  ASSUME page' = page, unzipped \subseteq unzipped', raced \subseteq raced', torn \subseteq torn'
  PROVE  Grow
BY DEF Grow, Asked

LEMMA NamesSet ==
  ASSUME NEW t, Names, SetName(t)
  PROVE  /\ Names' /\ format1' = format1 \cup {t} /\ raced \subseteq raced'
BY DEF Names, SetName

LEMMA ConnGrows ==
  ASSUME NEW h, NEW c, NEW A, NEW U, NEW T, NEW B, NEW V, NEW W,
         A \subseteq B, U \subseteq V, T \subseteq W,
         CleanConn(h, c, A, U, T)
  PROVE  CleanConn(h, c, B, V, W)
BY DEF CleanConn, Arrives

LEMMA WorkGrows ==
  ASSUME NEW h, NEW w, NEW F, NEW A, NEW U, NEW T, NEW R, NEW G, NEW B, NEW V, NEW W, NEW S,
         A \subseteq B, U \subseteq V, T \subseteq W, R \subseteq S,
         w.kind = "name" => F \subseteq G, CleanWork(h, w, F, A, U, T, R)
  PROVE  CleanWork(h, w, G, B, V, W, S)
BY DEF CleanWork, Arrives

\* What a step keeps when it lets some variables be.
LEMMA ConnsKept ==
  ASSUME CleanConns, Grow, conns' = conns
  PROVE  CleanConns'
<1> SUFFICES ASSUME NEW h \in Hosts, NEW j \in DOMAIN conns[h]
             PROVE  CleanConn(h, conns'[h][j], Asked', unzipped', torn')
  BY DEF CleanConns
<1>1. CleanConn(h, conns[h][j], Asked, unzipped, torn)
  BY DEF CleanConns
<1> QED
  BY <1>1, ConnGrows DEF Grow

LEMMA OneConnChanged ==
  ASSUME Inv, CleanConns, Grow, NEW h \in Hosts, NEW j \in DOMAIN conns[h], NEW c \in ConnType,
         conns' = [conns EXCEPT ![h] = [conns[h] EXCEPT ![j] = c]],
         CleanConn(h, c, Asked, unzipped, torn) \/ CleanConn(h, c, Asked', unzipped', torn')
  PROVE  CleanConns'
<1>1. /\ \A g \in Hosts : DOMAIN conns'[g] = DOMAIN conns[g]
      /\ \A g \in Hosts : \A k \in DOMAIN conns[g] :
           conns'[g][k] = IF g = h /\ k = j THEN c ELSE conns[g][k]
  BY ConnUpdated DEF Inv
<1>2. CleanConn(h, c, Asked', unzipped', torn')
  BY ConnGrows DEF Grow
<1> SUFFICES ASSUME NEW g \in Hosts, NEW k \in DOMAIN conns[g]
             PROVE  CleanConn(g, conns'[g][k], Asked', unzipped', torn')
  BY <1>1 DEF CleanConns
<1>3. CASE g = h /\ k = j
  BY <1>1, <1>2, <1>3
<1>4. CASE ~(g = h /\ k = j)
  <2>1. CleanConn(g, conns[g][k], Asked, unzipped, torn) /\ conns'[g][k] = conns[g][k]
    BY <1>1, <1>4 DEF CleanConns
  <2> QED
    BY <2>1, ConnGrows DEF Grow
<1> QED
  BY <1>3, <1>4

LEMMA OneWorkChanged ==
  ASSUME Inv, CleanWorks, Grow, NEW h \in Hosts, NEW w, loop' = [loop EXCEPT ![h] = w],
         CleanWork(h, w, format1', Asked', unzipped', torn', raced'),
         \A g \in Hosts \ {h} : Naming(g) => format1 \subseteq format1'
  PROVE  CleanWorks'
<1> SUFFICES ASSUME NEW g \in Hosts
             PROVE  CleanWork(g, loop'[g], format1', Asked', unzipped', torn', raced')
  BY DEF CleanWorks
<1>1. loop'[g] = IF g = h THEN w ELSE loop[g]
  BY DEF Inv, Types
<1>2. CASE g = h
  BY <1>1, <1>2
<1>3. CASE g # h
  <2>1. CleanWork(g, loop[g], format1, Asked, unzipped, torn, raced) /\ loop'[g] = loop[g]
    BY <1>1, <1>3 DEF CleanWorks
  <2>2. loop[g].kind = "name" => format1 \subseteq format1'
    BY <1>3 DEF Naming
  <2> QED
    BY <2>1, <2>2, WorkGrows DEF Grow
<1> QED
  BY <1>2, <1>3

LEMMA WorksKept ==
  ASSUME Inv, CleanWorks, Grow, loop' = loop,
         \A g \in Hosts : Naming(g) => format1 \subseteq format1'
  PROVE  CleanWorks'
<1> SUFFICES ASSUME NEW g \in Hosts
             PROVE  CleanWork(g, loop'[g], format1', Asked', unzipped', torn', raced')
  BY DEF CleanWorks
<1>1. CleanWork(g, loop[g], format1, Asked, unzipped, torn, raced)
  BY DEF CleanWorks
<1>2. loop[g].kind = "name" => format1 \subseteq format1'
  BY DEF Naming
<1> QED
  BY <1>1, <1>2, WorkGrows DEF Grow

LEMMA NamesKept ==
  ASSUME Names, format1' \subseteq format1, raced \subseteq raced'
  PROVE  Names'
BY DEF Names

LEMMA FilesKept ==
  ASSUME CleanBackups, Grow, files' = files
  PROVE  CleanBackups'
BY DEF CleanBackups, Twice, Disturbed, Grow

\* A step of connections and pages only.
LEMMA OthersKept ==
  ASSUME Inv, Clean, Grow, CleanConns => CleanConns',
         loop' = loop, files' = files, formatVars' = formatVars
  PROVE  Clean'
<1>1. /\ CleanConns' /\ CleanWorks /\ Names /\ CleanBackups
      /\ format1' = format1 /\ raced' = raced
  BY DEF Clean, formatVars
<1>2. CleanWorks' /\ Names'
  BY <1>1, WorksKept, NamesKept
<1>3. CleanBackups'
  BY <1>1, FilesKept
<1> QED
  BY <1>1, <1>2, <1>3 DEF Clean

\* Elements of sequences of messages.
LEMMA TailElements ==
  ASSUME NEW q \in Seq(Messages), q # <<>>
  PROVE  /\ \A i \in DOMAIN Tail(q) : \E k \in DOMAIN q : Tail(q)[i] = q[k]
         /\ \E k \in DOMAIN q : Head(q) = q[k]
<1>1. /\ Head(q) = q[1] /\ Tail(q) \in Seq(Messages) /\ Len(Tail(q)) = Len(q) - 1
      /\ \A i \in 1 .. Len(Tail(q)) : Tail(q)[i] = q[i + 1]
      /\ Len(q) \in Nat \ {0} /\ DOMAIN q = 1 .. Len(q) /\ DOMAIN Tail(q) = 1 .. Len(Tail(q))
  BY HeadTailProperties, LenProperties, EmptySeq
<1>2. 1 \in DOMAIN q /\ \A i \in 1 .. Len(Tail(q)) : i + 1 \in DOMAIN q
  BY <1>1
<1> QED
  BY <1>1, <1>2

LEMMA AppendElements ==
  ASSUME NEW q \in Seq(Messages), NEW m \in Messages
  PROVE  \A i \in DOMAIN Append(q, m) :
           Append(q, m)[i] = m \/ \E k \in DOMAIN q : Append(q, m)[i] = q[k]
<1>1. /\ Len(Append(q, m)) = Len(q) + 1 /\ Append(q, m) \in Seq(Messages)
      /\ \A i \in 1 .. Len(q) : Append(q, m)[i] = q[i]
      /\ Append(q, m)[Len(q) + 1] = m
  BY AppendProperties
<1>2. /\ DOMAIN Append(q, m) = 1 .. Len(q) + 1
      /\ DOMAIN q = 1 .. Len(q) /\ Len(q) \in Nat
  BY <1>1, LenProperties
<1>3. \A i \in 1 .. Len(q) + 1 : i \in 1 .. Len(q) \/ i = Len(q) + 1
  BY <1>2
<1> QED
  BY <1>1, <1>2, <1>3

LEMMA ReplyClean ==
  ASSUME NEW h, NEW A, NEW U, NEW T, NEW c \in ConnType, NEW m \in Messages, CleanConn(h, c, A, U, T),
         m.kind = "file" => Arrives(h, m, A, U, T)
  PROVE  CleanConn(h, Reply(c, m), A, U, T)
<1> DEFINE r == Reply(c, m)
<1>1. /\ r.link = c.link /\ r.job = c.job /\ r.toServer = c.toServer
      /\ r.toClient = IF c.link = "open" THEN Append(c.toClient, m) ELSE c.toClient
  BY ReplyType
<1> HIDE DEF r
<1>2. \A i \in DOMAIN Append(c.toClient, m) :
        Append(c.toClient, m)[i] = m \/ \E k \in DOMAIN c.toClient : Append(c.toClient, m)[i] = c.toClient[k]
  BY AppendElements DEF ConnType
<1>3. \A i \in DOMAIN r.toClient : r.toClient[i].kind = "file" => Arrives(h, r.toClient[i], A, U, T)
  BY <1>1, <1>2 DEF CleanConn
<1>4. CleanConn(h, r, A, U, T)
  BY <1>1, <1>3 DEF CleanConn
<1> QED
  BY <1>4 DEF r

\* A connection whose server has read a request.
LEMMA ReadClean ==
  ASSUME NEW h, NEW A, NEW U, NEW T, NEW c \in ConnType, NEW d \in ConnType, CleanConn(h, c, A, U, T),
         d.link = c.link, d.job = c.job, d.toClient = c.toClient, c.toServer # <<>>,
         d.toServer = Tail(c.toServer)
  PROVE  CleanConn(h, d, A, U, T)
<1>1. \A i \in DOMAIN d.toServer : \E k \in DOMAIN c.toServer : d.toServer[i] = c.toServer[k]
  BY TailElements DEF ConnType
<1> QED
  BY <1>1 DEF CleanConn

LEMMA CleanInit == ASSUME Init PROVE Clean
<1>1. CleanConns
  BY DEF Init, CleanConns
<1>2. CleanWorks
  BY WorkTypes DEF Init, CleanWorks, CleanWork
<1> QED
  BY <1>1, <1>2 DEF Init, Clean, Names, CleanBackups

-----------------------------------------------------------------------------
(* The steps of the client.                                                  *)

LEMMA ConnectedClean ==
  ASSUME Inv, Clean, NEW h \in Hosts, Connected(h)
  PROVE  Clean'
<1>0. /\ page' = page /\ loop' = loop /\ files' = files /\ formatVars' = formatVars
      /\ torn' = torn /\ unzipped' = unzipped
  BY DEF Connected, handlerVars, history
<1>00. Grow
  BY <1>0, SamePages DEF formatVars
<1>1. conns \in [Hosts -> Seq(ConnType)] /\ Last(h) \in Nat /\ conns[h] \in Seq(ConnType)
  BY LastInDomain DEF Inv, Types
<1> DEFINE s == Append(conns[h], NewConn)
<1>2. /\ s \in Seq(ConnType) /\ DOMAIN s = 1 .. Last(h) + 1 /\ DOMAIN conns[h] = 1 .. Last(h)
      /\ \A k \in 1 .. Last(h) : s[k] = conns[h][k]
      /\ s[Last(h) + 1] = NewConn
  BY <1>1, NewConnType, AppendProperties, LenProperties DEF Last
<1>3. conns' = [conns EXCEPT ![h] = s]
  BY DEF Connected
<1> HIDE DEF s
<1>4. \A g \in Hosts : conns'[g] = IF g = h THEN s ELSE conns[g]
  BY <1>1, <1>3
<1>5. CleanConn(h, NewConn, Asked', unzipped', torn')
  <2>1. \A i \in DOMAIN <<Auth>> : <<Auth>>[i].kind # "file"
    BY DEF Auth
  <2>2. NewConn.toServer = <<Auth>>
    BY DEF NewConn
  <2> QED
    BY <2>1, <2>2, NewConnType DEF CleanConn
<1>6. \A k \in DOMAIN s : k \in 1 .. Last(h) \/ k = Last(h) + 1
  BY <1>1, <1>2
<1>7. CleanConns => CleanConns'
  <2> SUFFICES ASSUME CleanConns, NEW g \in Hosts, NEW k \in DOMAIN conns'[g]
               PROVE  CleanConn(g, conns'[g][k], Asked', unzipped', torn')
    BY DEF CleanConns
  <2>1. CASE g = h /\ k = Last(h) + 1
    BY <1>2, <1>4, <1>5, <2>1
  <2>2. CASE ~(g = h /\ k = Last(h) + 1)
    <3>1. k \in DOMAIN conns[g] /\ conns'[g][k] = conns[g][k]
      BY <1>2, <1>4, <1>6, <2>2
    <3>2. CleanConn(g, conns[g][k], Asked, unzipped, torn)
      BY <3>1 DEF CleanConns
    <3> QED
      BY <1>00, <3>1, <3>2, ConnGrows DEF Grow
  <2> QED
    BY <2>1, <2>2
<1> QED
  BY <1>0, <1>00, <1>7, OthersKept

LEMMA PollClean ==
  ASSUME Inv, Clean, NEW h \in Hosts, Poll(h)
  PROVE  Clean'
<1> DEFINE c == [conns[h][Last(h)] EXCEPT !.toServer = <<State>>]
<1>0. /\ page' = page /\ loop' = loop /\ files' = files /\ formatVars' = formatVars
      /\ torn' = torn /\ unzipped' = unzipped
  BY DEF Poll, handlerVars, history
<1>00. Grow
  BY <1>0, SamePages DEF formatVars
<1>1. Last(h) \in DOMAIN conns[h] /\ conns[h][Last(h)].link = "open"
  BY LastInDomain DEF Poll, Active, Inv
<1>2. conns[h][Last(h)] \in ConnType /\ <<State>> \in Seq(Messages)
  BY <1>1, OneConn, MessageTypes DEF Inv
<1>3. c \in ConnType /\ c.link = "open" /\ c.job = conns[h][Last(h)].job
      /\ c.toClient = conns[h][Last(h)].toClient /\ c.toServer = <<State>>
  BY <1>1, <1>2 DEF ConnType
<1>4. conns' = [conns EXCEPT ![h] = [conns[h] EXCEPT ![Last(h)] = c]]
  BY DEF Poll
<1> HIDE DEF c
<1>5. \A i \in DOMAIN <<State>> : <<State>>[i].kind # "file"
  BY DEF State
<1>6. CleanConns => CleanConn(h, c, Asked, unzipped, torn)
  BY <1>1, <1>3, <1>5 DEF CleanConns, CleanConn
<1>7. CleanConns => CleanConns'
  BY <1>00, <1>1, <1>3, <1>4, <1>6, OneConnChanged
<1> QED
  BY <1>0, <1>00, <1>7, OthersKept

\* Neither the idle event nor channelInactive changes more than the link.
LEMMA LinkClean ==
  ASSUME Inv, Clean, NEW h \in Hosts, Last(h) \in DOMAIN conns[h], NEW c \in ConnType,
         conns[h][Last(h)].link # "open", c.job = conns[h][Last(h)].job,
         c.toServer = conns[h][Last(h)].toServer, c.toClient = conns[h][Last(h)].toClient,
         conns' = [conns EXCEPT ![h] = [conns[h] EXCEPT ![Last(h)] = c]],
         UNCHANGED <<handlerVars, page, formatVars, history>>
  PROVE  Clean'
<1>1. /\ page' = page /\ loop' = loop /\ files' = files /\ formatVars' = formatVars
      /\ torn' = torn /\ unzipped' = unzipped
  BY DEF handlerVars, history
<1>2. Grow
  BY <1>1, SamePages DEF formatVars
<1>3. CleanConns => CleanConn(h, c, Asked, unzipped, torn)
  BY DEF CleanConns, CleanConn
<1>4. CleanConns => CleanConns'
  BY <1>2, <1>3, OneConnChanged
<1> QED
  BY <1>1, <1>2, <1>4, OthersKept

LEMMA ReaderIdleClean ==
  ASSUME Inv, Clean, NEW h \in Hosts, ReaderIdle(h)
  PROVE  Clean'
<1> DEFINE c == [conns[h][Last(h)] EXCEPT !.link = "cut"]
<1>1. /\ Last(h) \in DOMAIN conns[h] /\ conns[h][Last(h)] \in ConnType
      /\ conns[h][Last(h)].link # "open"
  BY ActiveConn DEF ReaderIdle
<1>2. c \in ConnType /\ c.job = conns[h][Last(h)].job /\ c.toServer = conns[h][Last(h)].toServer
      /\ c.toClient = conns[h][Last(h)].toClient
  BY <1>1 DEF ConnType
<1>3. conns' = [conns EXCEPT ![h] = [conns[h] EXCEPT ![Last(h)] = c]]
  BY DEF ReaderIdle
<1>4. UNCHANGED <<handlerVars, page, formatVars, history>>
  BY DEF ReaderIdle
<1> HIDE DEF c
<1> QED
  BY <1>1, <1>2, <1>3, <1>4, LinkClean

LEMMA ChannelInactiveClean ==
  ASSUME Inv, Clean, NEW h \in Hosts, ChannelInactive(h)
  PROVE  Clean'
<1> DEFINE c == [conns[h][Last(h)] EXCEPT !.link = "closed"]
<1>1. Last(h) \in DOMAIN conns[h] /\ conns[h][Last(h)].link # "open"
  BY LastInDomain DEF ChannelInactive, Inv
<1>2. c \in ConnType /\ c.job = conns[h][Last(h)].job /\ c.toServer = conns[h][Last(h)].toServer
      /\ c.toClient = conns[h][Last(h)].toClient
  BY ClosedConn DEF ChannelInactive
<1>3. conns' = [conns EXCEPT ![h] = [conns[h] EXCEPT ![Last(h)] = c]]
  BY DEF ChannelInactive, CloseConn
<1>4. UNCHANGED <<handlerVars, page, formatVars, history>>
  BY DEF ChannelInactive
<1> HIDE DEF c
<1> QED
  BY <1>1, <1>2, <1>3, <1>4, LinkClean

LEMMA HandleDataClean ==
  ASSUME Inv, Clean, NEW h \in Hosts, HandleData(h)
  PROVE  Clean'
<1> DEFINE q == conns[h][Last(h)].toClient
           m == Head(q)
           c == [conns[h][Last(h)] EXCEPT !.toClient = Tail(@)]
<1>1. Last(h) \in DOMAIN conns[h] /\ conns[h][Last(h)] \in ConnType
  BY ActiveConn DEF HandleData
<1>2. q \in Seq(Messages) /\ q # <<>> /\ m \in Messages /\ Tail(q) \in Seq(Messages)
  <2>1. q \in Seq(Messages) /\ q # <<>>
    BY <1>1 DEF HandleData, ConnType
  <2> QED
    BY <2>1, HeadTailProperties
<1>3. c \in ConnType /\ c.link = conns[h][Last(h)].link /\ c.job = conns[h][Last(h)].job
      /\ c.toServer = conns[h][Last(h)].toServer /\ c.toClient = Tail(q)
  BY <1>1, <1>2 DEF ConnType
<1>4. conns' = [conns EXCEPT ![h] = [conns[h] EXCEPT ![Last(h)] = c]]
  BY DEF HandleData
<1>5. HandleState(h, m) \/ HandleFile(h, m) \/ HandleNull(h, m)
  BY DEF HandleData
<1>6. page' = page /\ torn' = torn /\ unzipped' = unzipped /\ loop[h] = Idle
  BY DEF HandleData, history
<1> HIDE DEF c, m
<1>7. Grow
  BY <1>5, <1>6, SamePages DEF HandleState, HandleFile, HandleNull, formatVars
<1>8. /\ \A i \in DOMAIN Tail(q) : \E k \in DOMAIN q : Tail(q)[i] = q[k]
      /\ \E k \in DOMAIN q : m = q[k]
  BY <1>2, TailElements DEF m
<1>9. CleanConns => CleanConns' /\ (m.kind = "file" => Arrives(h, m, Asked, unzipped, torn))
  <2> SUFFICES ASSUME CleanConns
               PROVE  CleanConns' /\ (m.kind = "file" => Arrives(h, m, Asked, unzipped, torn))
    OBVIOUS
  <2>1. CleanConn(h, conns[h][Last(h)], Asked, unzipped, torn)
    BY <1>1 DEF CleanConns
  <2>2. \A i \in DOMAIN c.toClient : c.toClient[i].kind = "file" => Arrives(h, c.toClient[i], Asked, unzipped, torn)
    BY <1>3, <1>8, <2>1 DEF CleanConn
  <2>3. CleanConn(h, c, Asked, unzipped, torn)
    BY <1>3, <2>1, <2>2 DEF CleanConn
  <2>4. m.kind = "file" => Arrives(h, m, Asked, unzipped, torn)
    BY <1>8, <2>1 DEF CleanConn
  <2> QED
    BY <1>1, <1>3, <1>4, <1>7, <2>3, <2>4, OneConnChanged
<1>10. CASE HandleFile(h, m)
  <2> SUFFICES CleanConns' /\ CleanWorks' /\ Names' /\ CleanBackups'
    BY DEF Clean
  <2>1. CleanConns /\ CleanWorks /\ Names /\ CleanBackups
    BY <1>6 DEF Clean
  <2>2. PICK w \in Work : /\ w.kind = "folder" /\ w.time = m.time /\ w.clean = m.clean
                          /\ loop' = [loop EXCEPT ![h] = w]
    BY <1>2, <1>10, NewWork DEF Inv
  <2>3. /\ m.kind = "file" /\ files' = files /\ format1' = format1 /\ raced \subseteq raced'
        /\ Asked \subseteq Asked' /\ unzipped \subseteq unzipped' /\ torn \subseteq torn'
    BY <1>7, <1>10 DEF HandleFile, Grow
  <2>4. CleanWork(h, w, format1', Asked', unzipped', torn', raced')
    BY <1>9, <2>1, <2>2, <2>3 DEF CleanWork, Arrives
  <2>5. CleanWorks'
    BY <1>7, <2>1, <2>2, <2>3, <2>4, OneWorkChanged
  <2>6. Names' /\ CleanBackups'
    BY <1>7, <2>1, <2>3, NamesKept, FilesKept
  <2> QED
    BY <1>9, <2>1, <2>5, <2>6
<1>11. CASE HandleNull(h, m)
  <2>1. loop' = loop /\ files' = files /\ formatVars' = formatVars
    BY <1>11 DEF HandleNull
  <2> QED
    BY <1>6, <1>7, <1>9, <2>1, OthersKept
<1>12. CASE HandleState(h, m)
  <2> SUFFICES CleanConns' /\ CleanWorks' /\ Names' /\ CleanBackups'
    BY DEF Clean
  <2>1. CleanConns /\ CleanWorks /\ Names /\ CleanBackups
    BY <1>6 DEF Clean
  <2>2. format1' = format1 /\ raced' = raced /\ files' = files
    BY <1>12 DEF HandleState, formatVars
  <2>3. PICK w \in {Idle, Auth} : loop' = [loop EXCEPT ![h] = w]
    BY <1>12 DEF HandleState
  <2>4. CleanWork(h, w, format1', Asked', unzipped', torn', raced')
    BY WorkTypes DEF CleanWork
  <2>5. CleanWorks'
    BY <1>7, <2>1, <2>2, <2>3, <2>4, OneWorkChanged
  <2>6. Names' /\ CleanBackups'
    BY <1>7, <2>1, <2>2, NamesKept, FilesKept
  <2> QED
    BY <1>9, <2>1, <2>5, <2>6
<1> QED
  BY <1>5, <1>10, <1>11, <1>12

LEMMA HandleFolderClean ==
  ASSUME Inv, Clean, NEW h \in Hosts, HandleFolder(h)
  PROVE  Clean'
<1> SUFFICES CleanConns' /\ CleanWorks' /\ Names' /\ CleanBackups'
  BY DEF Clean
<1>1. /\ page' = page /\ torn' = torn /\ unzipped' = unzipped /\ conns' = conns /\ files' = files
      /\ SetName(loop[h].time)
  BY DEF HandleFolder, history, clientVars
<1>2. CleanConns /\ CleanWorks /\ Names /\ CleanBackups
  BY <1>1 DEF Clean
<1>3. Names' /\ format1' = format1 \cup {loop[h].time} /\ raced \subseteq raced'
  BY <1>1, <1>2, NamesSet
<1>4. Grow
  BY <1>1, <1>3, SamePages
<1>5. loop[h] \in Work
  BY Busy DEF HandleFolder, Foldering
<1>6. PICK d \in format2 : loop' = [loop EXCEPT ![h].kind = "name", ![h].folder = d]
  BY DEF HandleFolder
<1> DEFINE w == [loop[h] EXCEPT !.kind = "name", !.folder = d]
<1>7. w.kind = "name" /\ w.time = loop[h].time /\ w.clean = loop[h].clean
  BY <1>5 DEF Work
<1>8. loop' = [loop EXCEPT ![h] = w]
  BY <1>6
<1> HIDE DEF w
<1>9. Arrives(h, loop[h], Asked, unzipped, torn)
  BY <1>2, <1>5 DEF CleanWorks, CleanWork
<1>10. CleanWork(h, w, format1', Asked', unzipped', torn', raced')
  BY <1>3, <1>4, <1>7, <1>9 DEF CleanWork, Arrives, Grow
<1>11. CleanWorks'
  BY <1>2, <1>3, <1>4, <1>8, <1>10, OneWorkChanged
<1>12. CleanConns' /\ CleanBackups'
  BY <1>1, <1>2, <1>4, ConnsKept, FilesKept
<1> QED
  BY <1>3, <1>11, <1>12

\* The new file is the zip of one request, unless one of the excuses holds for its
\* name: here the two clients may write the same file.
LEMMA HandleNameClean ==
  ASSUME Inv, Clean, NEW h \in Hosts, HandleName(h)
  PROVE  Clean'
<1> SUFFICES CleanConns' /\ CleanWorks' /\ Names' /\ CleanBackups'
  BY DEF Clean
<1>1. /\ page' = page /\ torn' = torn /\ unzipped' = unzipped /\ conns' = conns /\ raced' = raced
      /\ format1' \subseteq format1 /\ \A g \in Hosts \ {h} : Naming(g) => format1' = format1
  BY DEF HandleName, NameDone, history, clientVars
<1>2. CleanConns /\ CleanWorks /\ Names /\ CleanBackups
  BY <1>1 DEF Clean
<1>3. Grow
  BY <1>1, SamePages
<1>4. PICK n \in format1, w \in Work, f \in FileType :
           /\ n \in Times /\ loop[h] \in Work /\ loop' = [loop EXCEPT ![h] = w]
           /\ w.kind = "write" /\ w.name = n /\ w.time = loop[h].time /\ w.clean = loop[h].clean
           /\ f.name = n /\ f.clean = (loop[h].clean /\ ~Shared(h, loop[h].folder, n))
           /\ files' \subseteq files \cup {f}
  BY NewFile
<1>5. Arrives(h, loop[h], Asked, unzipped, torn) /\ loop[h].time \in format1
  BY <1>2, <1>4 DEF CleanWorks, CleanWork, HandleName, Naming
<1>6. n = loop[h].time \/ n \in raced
  BY <1>2, <1>5 DEF Names
<1>7. CleanWork(h, w, format1', Asked', unzipped', torn', raced')
  BY <1>1, <1>3, <1>4, <1>5, <1>6 DEF CleanWork, Arrives, Grow
<1>8. CleanWorks'
  BY <1>1, <1>2, <1>3, <1>4, <1>7, OneWorkChanged
<1>9. f.clean \/ f.name \in unzipped \cup raced \/ Twice(f.name) \/ Disturbed(f.name)
  <2>1. CASE ~loop[h].clean
    BY <1>4, <1>5, <1>6, <2>1 DEF Arrives, Disturbed
  <2>2. CASE Shared(h, loop[h].folder, n) /\ n \notin raced
    <3>1. PICK g \in Hosts \ {h} : loop[g].kind = "write" /\ loop[g].name = n
      BY <2>2 DEF Shared
    <3>2. loop[g] \in Work
      BY <3>1, Busy
    <3>3. Arrives(g, loop[g], Asked, unzipped, torn) /\ loop[g].time = n
      BY <1>2, <2>2, <3>1, <3>2 DEF CleanWorks, CleanWork
    <3>4. <<h, n>> \in Asked /\ <<g, n>> \in Asked
      BY <1>5, <1>6, <2>2, <3>3 DEF Arrives
    <3>5. {h, g} = {MasterHost, SlaveHost}
      BY <3>1 DEF Hosts
    <3> QED
      BY <1>4, <3>4, <3>5 DEF Twice
  <2> QED
    BY <1>4, <2>1, <2>2
<1>10. CleanBackups'
  <2> SUFFICES ASSUME NEW b \in files'
               PROVE  (b.clean \/ b.name \in unzipped \cup raced \/ Twice(b.name) \/ Disturbed(b.name))'
    BY DEF CleanBackups
  <2>1. b.clean \/ b.name \in unzipped \cup raced \/ Twice(b.name) \/ Disturbed(b.name)
    BY <1>2, <1>4, <1>9 DEF CleanBackups
  <2> QED
    BY <1>3, <2>1 DEF Twice, Disturbed, Grow
<1>11. CleanConns' /\ Names'
  BY <1>1, <1>2, <1>3, ConnsKept, NamesKept
<1> QED
  BY <1>8, <1>10, <1>11

LEMMA HandleDataEndsClean ==
  ASSUME Inv, Clean, NEW h \in Hosts, HandleDataEnds(h)
  PROVE  Clean'
<1> SUFFICES CleanConns' /\ CleanWorks' /\ Names' /\ CleanBackups'
  BY DEF Clean
<1>1. /\ page' = page /\ torn' = torn /\ unzipped' = unzipped /\ conns' = conns
      /\ raced' = raced /\ format1' = format1 /\ loop' = [loop EXCEPT ![h] = Idle]
  BY DEF HandleDataEnds, history, formatVars
<1>2. CleanConns /\ CleanWorks /\ Names /\ CleanBackups
  BY <1>1 DEF Clean
<1>3. Grow
  BY <1>1, SamePages
<1>4. CleanWork(h, Idle, format1', Asked', unzipped', torn', raced')
  BY WorkTypes DEF CleanWork
<1>5. CleanWorks'
  BY <1>1, <1>2, <1>3, <1>4, OneWorkChanged
<1>6. CleanBackups'
  <2>1. \A f \in FileType : LET b == [f EXCEPT !.whole = TRUE] IN b.clean = f.clean /\ b.name = f.name
    BY DEF FileType
  <2>2. \A b \in files' : \E f \in files : b = f \/ b = [f EXCEPT !.whole = TRUE]
    <3>1. CASE loop[h] = Auth
      BY <3>1 DEF HandleDataEnds
    <3>2. CASE loop[h] # Auth
      BY <3>2 DEF HandleDataEnds
    <3> QED
      BY <3>1, <3>2
  <2>3. \A b \in files' : \E f \in files : b.clean = f.clean /\ b.name = f.name
    BY <2>1, <2>2 DEF Inv, Types
  <2> SUFFICES ASSUME NEW b \in files'
               PROVE  (b.clean \/ b.name \in unzipped \cup raced \/ Twice(b.name) \/ Disturbed(b.name))'
    BY DEF CleanBackups
  <2>4. b.clean \/ b.name \in unzipped \cup raced \/ Twice(b.name) \/ Disturbed(b.name)
    BY <1>2, <2>3 DEF CleanBackups
  <2> QED
    BY <1>3, <2>4 DEF Twice, Disturbed, Grow
<1>7. CleanConns' /\ Names'
  BY <1>1, <1>2, <1>3, ConnsKept, NamesKept
<1> QED
  BY <1>5, <1>6, <1>7

-----------------------------------------------------------------------------
(* The steps of a server.                                                    *)

LEMMA ServerAuthClean ==
  ASSUME Inv, Clean, NEW h \in Hosts, NEW j \in DOMAIN conns[h], ServerReads(h, j), ServerAuth(h, j)
  PROVE  Clean'
<1>1. /\ page' = page /\ loop' = loop /\ files' = files /\ formatVars' = formatVars
      /\ torn' = torn /\ unzipped' = unzipped /\ conns[h][j].toServer # <<>>
  BY DEF ServerReads, handlerVars, history
<1>2. Grow
  BY <1>1, SamePages DEF formatVars
<1> DEFINE b == conns[h][j]
           c == [b EXCEPT !.toServer = Tail(@), !.known = TRUE]
           d == [c EXCEPT !.mute = TRUE]
           r == Reply(c, Auth)
<1>3. b \in ConnType /\ Tail(b.toServer) \in Seq(Messages)
  BY <1>1, OneConn, RequestRead DEF Inv
<1>4. /\ c \in ConnType /\ c.link = b.link /\ c.job = b.job /\ c.toClient = b.toClient
      /\ c.toServer = Tail(b.toServer)
  BY <1>3 DEF ConnType
<1>5. /\ d \in ConnType /\ d.link = b.link /\ d.job = b.job /\ d.toClient = b.toClient
      /\ d.toServer = Tail(b.toServer)
  BY <1>3 DEF ConnType
<1>6. conns' = [conns EXCEPT ![h] = [conns[h] EXCEPT ![j] = r]]
        \/ conns' = [conns EXCEPT ![h] = [conns[h] EXCEPT ![j] = d]]
  BY DEF ServerAuth
<1>7. r \in ConnType
  BY <1>4, MessageTypes, ReplyType
<1>8. Auth.kind # "file"
  BY DEF Auth
<1> HIDE DEF c, d, r
<1>9. CleanConns => CleanConn(h, d, Asked, unzipped, torn) /\ CleanConn(h, r, Asked, unzipped, torn)
  <2> SUFFICES ASSUME CleanConns
               PROVE  CleanConn(h, d, Asked, unzipped, torn) /\ CleanConn(h, r, Asked, unzipped, torn)
    OBVIOUS
  <2>1. CleanConn(h, b, Asked, unzipped, torn)
    BY DEF CleanConns
  <2>2. CleanConn(h, c, Asked, unzipped, torn) /\ CleanConn(h, d, Asked, unzipped, torn)
    BY <1>1, <1>3, <1>4, <1>5, <2>1, ReadClean
  <2>3. CleanConn(h, r, Asked, unzipped, torn)
    BY <1>4, <1>8, <2>2, MessageTypes, ReplyClean DEF r
  <2> QED
    BY <2>2, <2>3
<1>10. CleanConns => CleanConns'
  BY <1>2, <1>5, <1>6, <1>7, <1>9, OneConnChanged
<1> QED
  BY <1>1, <1>2, <1>10, OthersKept

LEMMA ServerStateClean ==
  ASSUME Inv, Clean, NEW h \in Hosts, NEW j \in DOMAIN conns[h], ServerReads(h, j), ServerState(h, j)
  PROVE  Clean'
<1>1. /\ page' = page /\ loop' = loop /\ files' = files /\ formatVars' = formatVars
      /\ torn' = torn /\ unzipped' = unzipped /\ conns[h][j].toServer # <<>>
  BY DEF ServerReads, handlerVars, history
<1>2. Grow
  BY <1>1, SamePages DEF formatVars
<1> DEFINE b == conns[h][j]
           c == [b EXCEPT !.toServer = Tail(@)]
           r == Reply(c, State)
<1>3. b \in ConnType /\ Tail(b.toServer) \in Seq(Messages)
  BY <1>1, OneConn, RequestRead DEF Inv
<1>4. /\ c \in ConnType /\ c.link = b.link /\ c.job = b.job /\ c.toClient = b.toClient
      /\ c.toServer = Tail(b.toServer)
  BY <1>3 DEF ConnType
<1>5. conns' = [conns EXCEPT ![h] = [conns[h] EXCEPT ![j] = r]]
  BY DEF ServerState
<1>6. r \in ConnType /\ State.kind # "file"
  BY <1>4, MessageTypes, ReplyType DEF State
<1> HIDE DEF c, r
<1>7. CleanConns => CleanConn(h, r, Asked, unzipped, torn)
  <2> SUFFICES ASSUME CleanConns
               PROVE  CleanConn(h, r, Asked, unzipped, torn)
    OBVIOUS
  <2>1. CleanConn(h, b, Asked, unzipped, torn)
    BY DEF CleanConns
  <2>2. CleanConn(h, c, Asked, unzipped, torn)
    BY <1>1, <1>3, <1>4, <2>1, ReadClean
  <2> QED
    BY <1>4, <1>6, <2>2, MessageTypes, ReplyClean DEF r
<1>8. CleanConns => CleanConns'
  BY <1>2, <1>5, <1>6, <1>7, OneConnChanged
<1> QED
  BY <1>1, <1>2, <1>8, OthersKept

\* On a host that lost none with a pull unanswered, the one open connection is the
\* only one that may have a zip.
LEMMA OneZip ==
  ASSUME Inv, CleanConns, NEW h \in Hosts, NEW j \in DOMAIN conns[h], NEW k \in DOMAIN conns[h],
         h \notin torn, conns[h][j].link = "open", conns[h][k].job # Idle
  PROVE  k = j
<1>1. conns[h][k].link = "open"
  BY DEF CleanConns, CleanConn
<1>2. j \in 1 .. Last(h) /\ k \in 1 .. Last(h) /\ Last(h) \in Nat
  BY OneConn DEF Inv
<1>3. ~(j < Last(h)) /\ ~(k < Last(h))
  BY <1>1 DEF Inv, Clients
<1> QED
  BY <1>2, <1>3

LEMMA ServerZipClean ==
  ASSUME Inv, Clean, NEW h \in Hosts, NEW j \in DOMAIN conns[h], ServerReads(h, j), ServerZip(h, j)
  PROVE  Clean'
<1>1. /\ page' = page /\ loop' = loop /\ files' = files /\ formatVars' = formatVars
      /\ torn' = torn /\ unzipped' = unzipped /\ conns[h][j].toServer # <<>> /\ conns[h][j].job = Idle
  BY DEF ServerReads, handlerVars, history
<1>2. Grow
  BY <1>1, SamePages DEF formatVars
<1> DEFINE b == conns[h][j]
           m == Head(b.toServer)
           others == {k \in DOMAIN conns[h] : conns[h][k].job # Idle}
           z == File(m.time, others = {})
           c == [b EXCEPT !.toServer = Tail(@), !.job = z]
<1>3. b \in ConnType /\ Tail(b.toServer) \in Seq(Messages) /\ b.toServer \in Seq(Messages) /\ m.time \in Times
  BY <1>1, OneConn, RequestRead, MessageTypes DEF Inv, ConnType
<1>4. /\ \A i \in DOMAIN Tail(b.toServer) : \E k \in DOMAIN b.toServer : Tail(b.toServer)[i] = b.toServer[k]
      /\ \E k \in DOMAIN b.toServer : m = b.toServer[k]
  BY <1>1, <1>3, TailElements
<1>5. m.kind = "file"
  BY DEF ServerZip
<1>6. CASE h \notin torn
  <2>1. CleanConns /\ CleanConn(h, b, Asked, unzipped, torn)
    BY DEF Clean, CleanConns
  <2>2. b.link = "open" /\ <<h, m.time>> \in Asked
    BY <1>4, <1>5, <1>6, <2>1 DEF CleanConn
  <2>3. others = {}
    BY <1>1, <1>6, <2>1, <2>2, OneZip
  <2>4. z = File(m.time, TRUE) /\ z \in Zips /\ z.clean /\ z.time = m.time
    BY <1>3, <2>3, ZipTypes DEF File
  <2>5. ZipConns(h, j) = [k \in DOMAIN conns[h] |-> IF k = j THEN c ELSE conns[h][k]]
    BY <2>3 DEF ZipConns
  <2>6. conns' = [conns EXCEPT ![h] = ZipConns(h, j)]
    BY DEF ServerZip, ZipConns
  <2>7. /\ c \in ConnType /\ c.link = b.link /\ c.job = z /\ c.toClient = b.toClient
        /\ c.toServer = Tail(b.toServer)
    <3> HIDE DEF z
    <3> QED
      BY <1>3, <2>4 DEF ConnType
  <2> HIDE DEF c, z
  <2>8. CleanConn(h, c, Asked, unzipped, torn)
    BY <1>4, <2>1, <2>2, <2>4, <2>7 DEF CleanConn
  <2>9. ZipConns(h, j) = [conns[h] EXCEPT ![j] = c]
    BY <2>5
  <2>10. CleanConns'
    BY <1>2, <2>1, <2>6, <2>7, <2>8, <2>9, OneConnChanged
  <2> QED
    BY <1>1, <1>2, <2>10, OthersKept
<1>7. CASE h \in torn
  <2>1. CleanConns /\ Asked' = Asked /\ unzipped' = unzipped /\ torn' = torn
    BY <1>1 DEF Clean, Asked
  <2>2. /\ DOMAIN ZipConns(h, j) = DOMAIN conns[h]
        /\ \A k \in DOMAIN conns[h] : CleanConn(h, ZipConns(h, j)[k], Asked, unzipped, torn)
    <3> SUFFICES ASSUME NEW k \in DOMAIN conns[h]
                 PROVE  CleanConn(h, ZipConns(h, j)[k], Asked, unzipped, torn)
      BY DEF ZipConns
    <3>1. CleanConn(h, conns[h][k], Asked, unzipped, torn) /\ conns[h][k] \in ConnType
      BY <2>1, OneConn DEF CleanConns, Inv
    <3>2. CASE k = j
      <4>1. ZipConns(h, j)[k] = c
        BY <3>2 DEF ZipConns
      <4>2. z \in Zips /\ z.time = m.time
        BY <1>3, ZipTypes DEF File
      <4>3. /\ c.link = b.link /\ c.job = z /\ c.toClient = b.toClient
            /\ c.toServer = Tail(b.toServer)
        <5> HIDE DEF z
        <5> QED
          BY <1>3 DEF ConnType
      <4>4. <<h, m.time>> \in Asked
        BY <1>4, <1>5, <3>1, <3>2 DEF CleanConn
      <4> HIDE DEF c, z, m
      <4>5. c.job # Idle => (h \notin torn => c.job.clean) /\ <<h, c.job.time>> \in Asked
        BY <1>7, <4>2, <4>3, <4>4
      <4>6. \A i \in DOMAIN c.toServer : c.toServer[i].kind = "file" => <<h, c.toServer[i].time>> \in Asked
        BY <1>4, <3>1, <3>2, <4>3 DEF CleanConn
      <4>7. \A i \in DOMAIN c.toClient :
              c.toClient[i].kind = "file" => Arrives(h, c.toClient[i], Asked, unzipped, torn)
        BY <3>1, <3>2, <4>3 DEF CleanConn
      <4>8. CleanConn(h, c, Asked, unzipped, torn)
        BY <1>7, <4>5, <4>6, <4>7 DEF CleanConn
      <4> QED
        BY <4>1, <4>8
    <3>3. CASE k # j /\ k \in others
      <4> DEFINE d == [conns[h][k] EXCEPT !.job.clean = FALSE]
      <4>1. ZipConns(h, j)[k] = d
        BY <3>3 DEF ZipConns
      <4>2. /\ d.link = conns[h][k].link /\ d.toClient = conns[h][k].toClient
            /\ d.toServer = conns[h][k].toServer /\ d.job.time = conns[h][k].job.time
        BY <3>1, <3>3 DEF ConnType, Zips
      <4> HIDE DEF d
      <4> QED
        BY <1>7, <3>1, <3>3, <4>1, <4>2 DEF CleanConn
    <3>4. CASE k # j /\ k \notin others
      <4>1. ZipConns(h, j)[k] = conns[h][k]
        BY <3>4 DEF ZipConns
      <4> QED
        BY <3>1, <4>1
    <3> QED
      BY <3>2, <3>3, <3>4
  <2>3. conns' = [conns EXCEPT ![h] = ZipConns(h, j)]
    BY DEF ServerZip, ZipConns
  <2>4. \A g \in Hosts : conns'[g] = IF g = h THEN ZipConns(h, j) ELSE conns[g]
    BY <2>3 DEF Inv, Types
  <2>5. CleanConns'
    BY <2>1, <2>2, <2>4 DEF CleanConns
  <2> QED
    BY <1>1, <1>2, <2>5, OthersKept
<1> QED
  BY <1>6, <1>7

\* A zip that fails is excused by its time.
LEMMA ServerSendsFileClean ==
  ASSUME Inv, Clean, NEW h \in Hosts, NEW j \in DOMAIN conns[h], ServerSendsFile(h, j)
  PROVE  Clean'
<1> DEFINE b == conns[h][j]
           m == b.job
           c == [b EXCEPT !.job = Idle]
<1>1. /\ page' = page /\ loop' = loop /\ files' = files /\ formatVars' = formatVars
      /\ torn' = torn /\ unzipped \subseteq unzipped'
  BY DEF ServerSendsFile, handlerVars
<1>2. Grow
  BY <1>1, SamePages DEF formatVars
<1>3. b \in ConnType /\ m \in Zips /\ m \in Messages /\ m.time \in Times
  <2>1. b \in ConnType /\ m \in Zips
    BY OneConn DEF Inv, ConnType, ServerSendsFile
  <2> QED
    BY <2>1, ZipTypes, MessageTypes
<1>4. /\ c \in ConnType /\ c.link = b.link /\ c.job = Idle /\ c.toServer = b.toServer
      /\ c.toClient = b.toClient
  BY <1>3 DEF ConnType
<1>5. \E z \in {m, NoFile, File(m.time, FALSE)} :
        /\ conns' = [conns EXCEPT ![h] = [conns[h] EXCEPT ![j] = Reply(c, z)]]
        /\ z = File(m.time, FALSE) => m.time \in unzipped' \/ z = m
  BY DEF ServerSendsFile
<1>6. m # Idle /\ NoFile.kind # "file" /\ NoFile \in Messages
      /\ File(m.time, FALSE) \in Messages /\ File(m.time, FALSE).time = m.time
  BY <1>3, MessageTypes DEF ServerSendsFile, NoFile, File
<1> HIDE DEF c, m
<1>7. PICK z \in {m, NoFile, File(m.time, FALSE)} :
        /\ conns' = [conns EXCEPT ![h] = [conns[h] EXCEPT ![j] = Reply(c, z)]]
        /\ z = File(m.time, FALSE) => m.time \in unzipped' \/ z = m
  BY <1>5
<1>8. z \in Messages
  BY <1>3, <1>6
<1>9. CleanConns => CleanConns'
  <2> SUFFICES ASSUME CleanConns
               PROVE  CleanConns'
    OBVIOUS
  <2>1. CleanConn(h, b, Asked, unzipped, torn) /\ Asked \subseteq Asked' /\ unzipped \subseteq unzipped' /\ torn' = torn
    BY <1>1, <1>2 DEF CleanConns, Grow
  <2>2. (m.clean \/ h \in torn') /\ <<h, m.time>> \in Asked
    BY <1>1, <1>6, <2>1 DEF CleanConn, m
  <2>3. CleanConn(h, c, Asked', unzipped', torn')
    BY <1>4, <2>1 DEF CleanConn, Arrives
  <2>4. z.kind = "file" => Arrives(h, z, Asked', unzipped', torn')
    BY <1>6, <1>7, <2>1, <2>2 DEF Arrives
  <2>5. Reply(c, z) \in ConnType /\ CleanConn(h, Reply(c, z), Asked', unzipped', torn')
    BY <1>4, <1>8, <2>3, <2>4, ReplyType, ReplyClean
  <2> QED
    BY <1>2, <1>7, <2>5, OneConnChanged
<1> QED
  BY <1>1, <1>2, <1>9, OthersKept

-----------------------------------------------------------------------------
(* The steps of pages and failures.                                          *)

LEMMA PullSendClean ==
  ASSUME Inv, Clean, NEW p \in Pullers, PullSend(p)
  PROVE  Clean'
<1> SUFFICES CleanConns' /\ CleanWorks' /\ Names' /\ CleanBackups'
  BY DEF Clean
<1>0. PICK h : h = page[p].host
  BY Zenon
<1> DEFINE m == File(page[p].time, TRUE)
           b == conns[h][Last(h)]
           c == [b EXCEPT !.toServer = Append(@, m)]
           g == [page[p] EXCEPT !.at = "name", !.conn = Last(h)]
<1>1. /\ h \in Hosts /\ Last(h) > 0 /\ Last(h) \in DOMAIN conns[h]
      /\ c \in ConnType /\ c.link = b.link
  BY <1>0, PullSent
<1>2. /\ torn' = torn /\ unzipped' = unzipped /\ loop' = loop /\ files' = files
      /\ page[p].at = "send" /\ SetName(page[p].time)
  BY DEF PullSend, handlerVars, history
<1>3. CleanConns /\ CleanWorks /\ Names /\ CleanBackups
  BY <1>2 DEF Clean
<1>4. \/ b.link = "open" /\ conns' = [conns EXCEPT ![h] = [conns[h] EXCEPT ![Last(h)] = c]]
      \/ conns' = conns
  BY <1>0 DEF PullSend
<1>5. page[p] \in PageType /\ page' = [page EXCEPT ![p] = g]
  BY <1>0 DEF PullSend, Inv, Types
<1>6. g.at = "name" /\ g.host = h /\ g.time = page[p].time
  BY <1>0, <1>5 DEF PageType
<1> HIDE DEF g
<1>7. Names' /\ format1' = format1 \cup {page[p].time} /\ raced \subseteq raced'
  BY <1>2, <1>3, NamesSet
<1>8. Grow
  BY <1>2, <1>5, <1>7, AskedGrows DEF Grow
<1>9. <<h, page[p].time>> \in Asked'
  <2>1. page'[p] = g
    BY <1>5 DEF Inv, Types
  <2> QED
    BY <1>6, <2>1 DEF Asked
<1>10. CleanConns'
  <2>1. CASE conns' = conns
    BY <1>3, <1>8, <2>1, ConnsKept
  <2>2. CASE b.link = "open" /\ conns' = [conns EXCEPT ![h] = [conns[h] EXCEPT ![Last(h)] = c]]
    <3>1. b \in ConnType /\ m \in Messages /\ m.time = page[p].time
      BY <1>1, <1>5, OneConn, MessageTypes DEF Inv, PageType, File
    <3>2. c.job = b.job /\ c.toClient = b.toClient /\ c.toServer = Append(b.toServer, m)
      <4> HIDE DEF m
      <4> QED
        BY <3>1 DEF ConnType
    <3> HIDE DEF c, m
    <3>3. \A i \in DOMAIN c.toServer : c.toServer[i] = m \/ \E k \in DOMAIN b.toServer : c.toServer[i] = b.toServer[k]
      BY <3>1, <3>2, AppendElements DEF ConnType
    <3>4. CleanConn(h, b, Asked', unzipped', torn')
      <4>1. CleanConn(h, b, Asked, unzipped, torn)
        BY <1>1, <1>3 DEF CleanConns
      <4> QED
        BY <1>8, <4>1, ConnGrows DEF Grow
    <3>5. CleanConn(h, c, Asked', unzipped', torn')
      BY <1>1, <1>9, <2>2, <3>1, <3>2, <3>3, <3>4 DEF CleanConn
    <3> QED
      BY <1>1, <1>3, <1>8, <2>2, <3>5, OneConnChanged
  <2> QED
    BY <1>4, <2>1, <2>2
<1>11. CleanWorks' /\ CleanBackups'
  BY <1>2, <1>3, <1>7, <1>8, WorksKept, FilesKept
<1> QED
  BY <1>7, <1>10, <1>11

\* A step of a page that sends and formats nothing.
LEMMA PageClean ==
  ASSUME Inv, Clean, NEW p \in Pullers \cup Viewers, NEW g, page' = [page EXCEPT ![p] = g],
         page[p].at \in {"name", "sent"} =>
           g.at \in {"name", "sent"} /\ g.host = page[p].host /\ g.time = page[p].time,
         conns' = conns, loop' = loop, files' = files, raced' = raced, history' = history,
         format1' \subseteq format1, \A h \in Hosts : Naming(h) => format1' = format1
  PROVE  Clean'
<1>1. Grow
  BY AskedGrows DEF Grow, history
<1> SUFFICES CleanConns' /\ CleanWorks' /\ Names' /\ CleanBackups'
  BY DEF Clean
<1>2. CleanConns /\ CleanWorks /\ Names /\ CleanBackups
  BY DEF Clean, history
<1> QED
  BY <1>1, <1>2, ConnsKept, WorksKept, NamesKept, FilesKept

LEMMA PullerClean ==
  ASSUME Inv, Clean, NEW p \in Pullers, Pull(p) \/ PullNext(p) \/ PullName(p)
  PROVE  Clean'
<1>1. conns' = conns /\ loop' = loop /\ files' = files /\ history' = history /\ raced' = raced
  BY DEF Pull, PullNext, PullName, clientVars, handlerVars, formatVars
<1>2. format1' \subseteq format1 /\ \A h \in Hosts : Naming(h) => format1' = format1
  BY DEF Pull, PullNext, PullName, NameDone, formatVars
<1>3. CASE Pull(p) \/ PullNext(p)
  <2>1. page[p].at \notin {"name", "sent"} /\ \E g : page' = [page EXCEPT ![p] = g]
    BY <1>3 DEF Pull, PullNext
  <2> QED
    BY <1>1, <1>2, <2>1, PageClean
<1>4. CASE PullName(p)
  <2>1. PICK n \in format1 : page' = [page EXCEPT ![p].at = "sent", ![p].name = n]
    BY <1>4 DEF PullName
  <2> DEFINE g == [page[p] EXCEPT !.at = "sent", !.name = n]
  <2>2. g.at = "sent" /\ g.host = page[p].host /\ g.time = page[p].time
    BY DEF Inv, Types, PageType
  <2>3. page' = [page EXCEPT ![p] = g]
    BY <2>1
  <2> HIDE DEF g
  <2> QED
    BY <1>1, <1>2, <2>2, <2>3, PageClean
<1> QED
  BY <1>3, <1>4

LEMMA ViewerClean ==
  ASSUME Inv, Clean, NEW p \in Viewers, Show(p) \/ \E h \in Hosts : View(p, h)
  PROVE  Clean'
<1>1. conns' = conns /\ loop' = loop /\ files' = files /\ history' = history
      /\ raced' = raced /\ format1' = format1
  BY DEF Show, View, clientVars, handlerVars, formatVars
<1>2. page[p].at \notin {"name", "sent"} /\ \E g : page' = [page EXCEPT ![p] = g]
  BY DEF Show, View
<1> QED
  BY <1>1, <1>2, PageClean

\* A connection lost with a pull unanswered is in torn; any other one had no request
\* for a file and no zip.
LEMMA DropClean ==
  ASSUME Inv, Clean, NEW h \in Hosts, NEW l \in {"cut", "silent"}, Drop(h, l)
  PROVE  Clean'
<1> DEFINE b == conns[h][Last(h)]
<1>1. PICK c \in ConnType :
        /\ c.link = l /\ c.job = b.job /\ c.toClient = <<>> /\ c.toServer \in {<<>>, b.toServer}
        /\ conns' = [conns EXCEPT ![h] = [conns[h] EXCEPT ![Last(h)] = c]]
  BY Dropped
<1>2. Last(h) \in DOMAIN conns[h]
  BY Dropped
<1>3. /\ page' = page /\ loop' = loop /\ files' = files /\ formatVars' = formatVars
      /\ torn \subseteq torn' /\ unzipped' = unzipped
  BY DEF Drop, handlerVars
<1>4. Grow
  BY <1>3, SamePages DEF formatVars
<1>5. h \notin torn' => b.job = Idle /\ \A i \in DOMAIN b.toServer : b.toServer[i].kind # "file"
  BY DEF Drop, Pulls
<1>6. CleanConn(h, c, Asked', unzipped', torn')
  <2>1. CleanConn(h, b, Asked', unzipped', torn')
    BY <1>2, <1>4, ConnGrows DEF Clean, CleanConns, Grow
  <2> QED
    BY <1>1, <1>5, <2>1 DEF CleanConn
<1>7. CleanConns => CleanConns'
  BY <1>1, <1>2, <1>4, <1>6, OneConnChanged
<1> QED
  BY <1>3, <1>4, <1>7, OthersKept

LEMMA CleanStep ==
  ASSUME Inv, Clean, [Next]_vars
  PROVE  Clean'
<1>1. conns' = conns /\ UNCHANGED <<handlerVars, page, formatVars, history>> => Clean'
  BY SamePages, ConnsKept, OthersKept DEF handlerVars, formatVars, history
<1>2. CASE UNCHANGED vars
  BY <1>1, <1>2 DEF vars, clientVars
<1>3. CASE \E h \in Hosts : ClientStep(h) \/ ConnectFailed(h) \/ Poll(h) \/ Break(h) \/ Silence(h)
  <2>1. \A h \in Hosts : Break(h) \/ Silence(h) => Clean'
    BY DropClean DEF Break, Silence
  <2>2. \A h \in Hosts : ClientStep(h) => Clean'
    BY ConnectedClean, HandleDataClean, HandleFolderClean, HandleNameClean, HandleDataEndsClean,
       ReaderIdleClean, ChannelInactiveClean DEF ClientStep
  <2>3. \A h \in Hosts : ConnectFailed(h) => Clean'
    BY <1>1 DEF ConnectFailed, clientVars
  <2> QED
    BY <1>3, <2>1, <2>2, <2>3, PollClean
<1>4. CASE \E h \in Hosts : \E j \in DOMAIN conns[h] : ServerStep(h, j)
  <2>1. \A h \in Hosts : \A j \in DOMAIN conns[h] : ServerReads(h, j) => Clean'
    BY ServerAuthClean, ServerStateClean, ServerZipClean DEF ServerReads
  <2> QED
    BY <1>4, <2>1, ServerSendsFileClean DEF ServerStep
<1>5. CASE \E p \in Pullers : Pull(p) \/ PullNext(p) \/ PullSend(p) \/ PullName(p)
  BY <1>5, PullerClean, PullSendClean
<1>6. CASE \E p \in Viewers : Show(p) \/ \E h \in Hosts : View(p, h)
  BY <1>6, ViewerClean
<1>7. CASE Tick
  BY <1>1, <1>7 DEF Tick, clientVars
<1> QED
  BY <1>2, <1>3, <1>4, <1>5, <1>6, <1>7 DEF Next

\* A backup on disk is the zip of one request, although the event loop of
\* HeartBeatServerHandler makes every zip in the same file and the two clients write
\* into the same folder.  Its name is among the excuses when its zip failed, when
\* calls of the unlocked format overlapped, or when two pages pulled through both
\* clients in that second, or when it was pulled through a client that lost a
\* connection with a pull unanswered, whose zip may still be under way.
THEOREM OneZipPerBackup == Spec => []CleanBackups
<1>1. Init => Inv /\ Clean
  BY InvInit, CleanInit
<1>2. Inv /\ Clean /\ [Next]_vars => (Inv /\ Clean)'
  BY InvStep, CleanStep
<1>3. Inv /\ Clean => CleanBackups
  BY DEF Clean, CleanBackups
<1> QED
  BY <1>1, <1>2, <1>3, PTL DEF Spec
=============================================================================
