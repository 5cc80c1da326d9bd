-------------------------- MODULE RightPlaceProofs --------------------------
(* RightPlace and SelectedExists of ProxySession.  What the session of a client *)
(* says is what the commands read from it say, and every request carries it to *)
(* its Redis; the database of a session has been put into the table, or a thread *)
(* that holds its lock is about to put it there.                             *)
EXTENDS ProxySessionProofs

-----------------------------------------------------------------------------
(* A command more changes nothing for the commands before it.                 *)

LEMMA AppendedCommand ==
  ASSUME NEW h \in Seq(Command), NEW m \in Command
  PROVE  /\ Len(h) \in Nat /\ DOMAIN h = 1 .. Len(h)
         /\ Append(h, m) \in Seq(Command)
         /\ Len(Append(h, m)) = Len(h) + 1 /\ DOMAIN Append(h, m) = 1 .. Len(h) + 1
         /\ \A j \in 1 .. Len(h) : Append(h, m)[j] = h[j]
         /\ Append(h, m)[Len(h) + 1] = m
BY AppendProperties, LenProperties

\* Entitled and Selects look at the k commands before the i-th.
LEMMA EntitledFirst ==
  ASSUME NEW h, NEW k \in Nat, NEW i \in Nat, i - 1 = k
  PROVE  Entitled(h, i) <=>
           \/ ~HasPassword
           \/ \E j \in 1 .. k : /\ h[j].kind = "auth" /\ h[j].good
                               /\ \A l \in j + 1 .. k : h[l].kind = "auth" => h[l].good
BY DEF Entitled

LEMMA SelectsFirst ==
  ASSUME NEW h, NEW k \in Nat, NEW i \in Nat, i - 1 = k
  PROVE  Selects(h, i) =
           {j \in 1 .. k : h[j].kind = "select" /\ h[j].db \in Locks /\ Entitled(h, j)}
BY DEF Selects

LEMMA EntitledPrefix ==
  ASSUME NEW h \in Seq(Command), NEW m \in Command, NEW i \in 1 .. Len(h) + 1
  PROVE  Entitled(Append(h, m), i) <=> Entitled(h, i)
<1>1. /\ Len(h) \in Nat
      /\ \A j \in 1 .. Len(h) : Append(h, m)[j] = h[j]
  BY AppendedCommand
<1>2. \A j \in 1 .. i - 1 : j \in 1 .. Len(h) /\ Append(h, m)[j] = h[j]
  BY <1>1
<1>3. \A j \in 1 .. i - 1 : \A l \in j + 1 .. i - 1 : Append(h, m)[l] = h[l]
  BY <1>1, <1>2
<1> QED BY <1>2, <1>3 DEF Entitled

LEMMA SelectsPrefix ==
  ASSUME NEW h \in Seq(Command), NEW m \in Command, NEW i \in 1 .. Len(h) + 1
  PROVE  Selects(Append(h, m), i) = Selects(h, i) /\ Selects(h, i) \subseteq 1 .. Len(h)
<1>1. /\ Len(h) \in Nat
      /\ \A j \in 1 .. Len(h) : Append(h, m)[j] = h[j]
  BY AppendedCommand
<1>2. \A j \in 1 .. i - 1 : j \in 1 .. Len(h)
  BY <1>1
<1>3. \A j \in 1 .. i - 1 : /\ Append(h, m)[j] = h[j]
                            /\ Entitled(Append(h, m), j) <=> Entitled(h, j)
  BY <1>1, <1>2, EntitledPrefix
<1> QED BY <1>2, <1>3 DEF Selects

LEMMA FatalPrefix ==
  ASSUME NEW h \in Seq(Command), NEW m \in Command, NEW j \in 1 .. Len(h)
  PROVE  Fatal(Append(h, m), j) <=> Fatal(h, j)
<1>1. Append(h, m)[j] = h[j] /\ j \in 1 .. Len(h) + 1
  BY AppendedCommand
<1> QED BY <1>1, EntitledPrefix DEF Fatal

\* Among the SELECTs before a command there is a last one.
HasLast(h) ==
  \A i \in 1 .. Len(h) + 1 : Selects(h, i) # {} =>
    \E j \in Selects(h, i) : \A l \in Selects(h, i) : l <= j

LEMMA DatabasePrefix ==
  ASSUME NEW h \in Seq(Command), NEW m \in Command, NEW i \in 1 .. Len(h) + 1, HasLast(h)
  PROVE  DatabaseOf(Append(h, m), i) = DatabaseOf(h, i)
<1> DEFINE S == Selects(h, i)
           last == CHOOSE j \in S : \A l \in S : l <= j
<1>1. Selects(Append(h, m), i) = S /\ S \subseteq 1 .. Len(h)
  BY SelectsPrefix
<1>2. CASE S = {}
  BY <1>1, <1>2 DEF DatabaseOf
<1>3. CASE S # {}
  <2>1. last \in S
    BY <1>3 DEF HasLast
  <2>2. Append(h, m)[last] = h[last]
    BY <1>1, <2>1, AppendedCommand
  <2> QED BY <1>1, <1>3, <2>2 DEF DatabaseOf
<1> QED BY <1>2, <1>3

-----------------------------------------------------------------------------
(* What a command more does for those after it.                               *)

LEMMA EntitledAppend ==
  ASSUME NEW h \in Seq(Command), NEW m \in Command
  PROVE  Entitled(Append(h, m), Len(h) + 2) <=>
           IF m.kind = "auth" THEN ~HasPassword \/ m.good ELSE Entitled(h, Len(h) + 1)
<1> DEFINE g == Append(h, m)
           n == Len(h)
<1>1. n \in Nat /\ (\A j \in 1 .. n : g[j] = h[j]) /\ g[n + 1] = m
  BY AppendedCommand
<1> HIDE DEF g, n
<1>2. CASE ~HasPassword
  BY <1>2 DEF Entitled
<1> DEFINE p == n + 1
           q == n + 2
<1>5. p \in Nat /\ q \in Nat /\ q - 1 = p /\ n + 1 \in Nat /\ n + 1 - 1 = n
  BY <1>1
<1> HIDE DEF p, q
<1>8. Entitled(g, q) <=>
        \/ ~HasPassword
        \/ \E j \in 1 .. p : /\ g[j].kind = "auth" /\ g[j].good
                            /\ \A l \in j + 1 .. p : g[l].kind = "auth" => g[l].good
  BY <1>5, EntitledFirst
<1>6. Entitled(g, n + 2) <=>
        \/ ~HasPassword
        \/ \E j \in 1 .. n + 1 : /\ g[j].kind = "auth" /\ g[j].good
                                /\ \A l \in j + 1 .. n + 1 : g[l].kind = "auth" => g[l].good
  BY <1>8 DEF p, q
<1>7. Entitled(h, n + 1) <=>
        \/ ~HasPassword
        \/ \E j \in 1 .. n : /\ h[j].kind = "auth" /\ h[j].good
                            /\ \A l \in j + 1 .. n : h[l].kind = "auth" => h[l].good
  BY <1>1, <1>5, EntitledFirst
<1>3. CASE HasPassword /\ m.kind = "auth"
  <2>1. ASSUME Entitled(g, n + 2) PROVE m.good
    <3>1. PICK j \in 1 .. n + 1 : /\ g[j].kind = "auth" /\ g[j].good
                                  /\ \A l \in j + 1 .. n + 1 : g[l].kind = "auth" => g[l].good
      BY <1>3, <1>6, <2>1
    <3>2. CASE j = n + 1
      BY <1>1, <3>1, <3>2
    <3>3. CASE j # n + 1
      <4>1. n + 1 \in j + 1 .. n + 1
        BY <1>1, <3>3
      <4> QED BY <1>1, <1>3, <3>1, <4>1
    <3> QED BY <3>2, <3>3
  <2>2. ASSUME m.good PROVE Entitled(g, n + 2)
    <3>1. n + 1 \in 1 .. n + 1 /\ (n + 1) + 1 .. n + 1 = {}
      BY <1>1
    <3>2. g[n + 1].kind = "auth" /\ g[n + 1].good
      BY <1>1, <1>3, <2>2
    <3> QED BY <1>6, <3>1, <3>2
  <2> QED BY <1>3, <2>1, <2>2 DEF g, n
<1>4. CASE HasPassword /\ m.kind # "auth"
  <2>1. ASSUME Entitled(g, n + 2) PROVE Entitled(h, n + 1)
    <3>1. PICK j \in 1 .. n + 1 : /\ g[j].kind = "auth" /\ g[j].good
                                  /\ \A l \in j + 1 .. n + 1 : g[l].kind = "auth" => g[l].good
      BY <1>4, <1>6, <2>1
    <3>2. j \in 1 .. n
      BY <1>1, <1>4, <3>1
    <3>3. h[j].kind = "auth" /\ h[j].good
      BY <1>1, <3>1, <3>2
    <3>4. \A l \in j + 1 .. n : h[l].kind = "auth" => h[l].good
      BY <1>1, <3>1, <3>2
    <3> QED BY <1>7, <3>2, <3>3, <3>4
  <2>2. ASSUME Entitled(h, n + 1) PROVE Entitled(g, n + 2)
    <3>1. PICK j \in 1 .. n : /\ h[j].kind = "auth" /\ h[j].good
                              /\ \A l \in j + 1 .. n : h[l].kind = "auth" => h[l].good
      BY <1>4, <1>7, <2>2
    <3>2. j \in 1 .. n + 1 /\ g[j].kind = "auth" /\ g[j].good
      BY <1>1, <3>1
    <3>3. \A l \in j + 1 .. n + 1 : g[l].kind = "auth" => g[l].good
      BY <1>1, <1>4, <3>1
    <3> QED BY <1>6, <3>2, <3>3
  <2> QED BY <1>4, <2>1, <2>2 DEF g, n
<1> QED BY <1>2, <1>3, <1>4, ConstantsAssumption DEF g, n

\* m is a SELECT that its client may send after the commands of h.
Chooses(h, m) == m.kind = "select" /\ m.db \in Locks /\ Entitled(h, Len(h) + 1)

LEMMA SelectsAppend ==
  ASSUME NEW h \in Seq(Command), NEW m \in Command
  PROVE  Selects(Append(h, m), Len(h) + 2) =
           Selects(h, Len(h) + 1) \cup (IF Chooses(h, m) THEN {Len(h) + 1} ELSE {})
<1> DEFINE g == Append(h, m)
           n == Len(h)
<1>1. n \in Nat /\ (\A j \in 1 .. n : g[j] = h[j]) /\ g[n + 1] = m
  BY AppendedCommand
<1>2. \A j \in 1 .. n + 1 : Entitled(g, j) <=> Entitled(h, j)
  BY EntitledPrefix
<1> HIDE DEF g, n
<1> DEFINE p == n + 1
           q == n + 2
<1>3. /\ 1 .. p = 1 .. n \cup {n + 1}
      /\ p \in Nat /\ q \in Nat /\ q - 1 = p /\ p - 1 = n
  BY <1>1
<1> HIDE DEF p, q
<1>4. Selects(g, q) = {j \in 1 .. p :
        g[j].kind = "select" /\ g[j].db \in Locks /\ Entitled(g, j)}
  BY <1>3, SelectsFirst
<1>5. Selects(h, p) = {j \in 1 .. n :
        h[j].kind = "select" /\ h[j].db \in Locks /\ Entitled(h, j)}
  <2>1. n \in Nat /\ p \in Nat /\ p - 1 = n
    BY <1>1, <1>3
  <2> QED BY <2>1, SelectsFirst
<1>6. Chooses(h, m) <=> g[n + 1].kind = "select" /\ g[n + 1].db \in Locks /\ Entitled(g, n + 1)
  BY <1>1, <1>2 DEF Chooses, n
<1>7. \A j \in 1 .. n : j # n + 1 /\ g[j] = h[j] /\ (Entitled(g, j) <=> Entitled(h, j))
  BY <1>1, <1>2
<1>8. Selects(g, q) = Selects(h, p) \cup (IF Chooses(h, m) THEN {n + 1} ELSE {})
  BY <1>3, <1>4, <1>5, <1>6, <1>7
<1> QED BY <1>8 DEF g, n, p, q

LEMMA HasLastAppend ==
  ASSUME NEW h \in Seq(Command), NEW m \in Command, HasLast(h)
  PROVE  HasLast(Append(h, m))
<1> DEFINE g == Append(h, m)
           n == Len(h)
<1>1. n \in Nat /\ Len(g) = n + 1
  BY AppendedCommand
<1>2. ASSUME NEW i \in 1 .. n + 2, Selects(g, i) # {}
      PROVE  \E j \in Selects(g, i) : \A l \in Selects(g, i) : l <= j
  <2>1. CASE i \in 1 .. n + 1
    <3>1. Selects(g, i) = Selects(h, i)
      BY <2>1, SelectsPrefix
    <3> QED BY <1>2, <2>1, <3>1 DEF HasLast
  <2>2. CASE i = n + 2
    <3>1. Selects(g, i) = Selects(h, n + 1) \cup (IF Chooses(h, m) THEN {n + 1} ELSE {})
      BY <2>2, SelectsAppend
    <3>2. n + 1 \in 1 .. n + 1 /\ Selects(h, n + 1) \subseteq 1 .. n
      BY <1>1, SelectsPrefix
    <3>3. CASE Chooses(h, m)
      <4>1. n + 1 \in Selects(g, i) /\ \A l \in Selects(g, i) : l <= n + 1
        BY <1>1, <3>1, <3>2, <3>3
      <4> QED BY <4>1
    <3>4. CASE ~Chooses(h, m)
      <4>1. Selects(g, i) = Selects(h, n + 1)
        BY <3>1, <3>4
      <4> QED BY <1>2, <3>2, <4>1 DEF HasLast
    <3> QED BY <3>3, <3>4
  <2> QED BY <1>1, <2>1, <2>2
<1> QED BY <1>1, <1>2 DEF HasLast

LEMMA DatabaseAppend ==
  ASSUME NEW h \in Seq(Command), NEW m \in Command, HasLast(h)
  PROVE  DatabaseOf(Append(h, m), Len(h) + 2) =
           IF Chooses(h, m) THEN m.db ELSE DatabaseOf(h, Len(h) + 1)
<1> DEFINE g == Append(h, m)
           n == Len(h)
           S == Selects(h, n + 1)
           T == Selects(g, n + 2)
<1>1. n \in Nat /\ (\A j \in 1 .. n : g[j] = h[j]) /\ g[n + 1] = m
  BY AppendedCommand
<1>2. T = S \cup (IF Chooses(h, m) THEN {n + 1} ELSE {})
  BY SelectsAppend
<1>3. n + 1 \in 1 .. n + 1 /\ S \subseteq 1 .. n
  BY <1>1, SelectsPrefix
<1>4. CASE Chooses(h, m)
  <2>1. T # {} /\ n + 1 \in T /\ \A l \in T : l <= n + 1
    BY <1>1, <1>2, <1>3, <1>4
  <2>2. \A j \in T : (\A l \in T : l <= j) => j = n + 1
    BY <1>1, <1>2, <1>3, <2>1
  <2> HIDE DEF T
  <2>3. (CHOOSE j \in T : \A l \in T : l <= j) = n + 1
    BY <2>1, <2>2
  <2> QED BY <1>1, <1>4, <2>1, <2>3 DEF DatabaseOf, T
<1>5. CASE ~Chooses(h, m)
  <2>1. T = S
    BY <1>2, <1>5
  <2> HIDE DEF S, T, g
  <2>2. CASE S = {}
    BY <1>5, <2>1, <2>2 DEF DatabaseOf, S, T, g
  <2>3. CASE S # {}
    <3>1. (CHOOSE j \in S : \A l \in S : l <= j) \in S
      BY <1>3, <2>3 DEF HasLast, S
    <3>2. g[CHOOSE j \in S : \A l \in S : l <= j] = h[CHOOSE j \in S : \A l \in S : l <= j]
      BY <1>1, <1>3, <3>1
    <3>3. DatabaseOf(g, n + 2) = g[CHOOSE j \in T : \A l \in T : l <= j].db
      BY <2>1, <2>3 DEF DatabaseOf, T
    <3>4. DatabaseOf(h, n + 1) = h[CHOOSE j \in S : \A l \in S : l <= j].db
      BY <2>3 DEF DatabaseOf, S
    <3> QED BY <1>5, <2>1, <3>2, <3>3, <3>4 DEF g
  <2> QED BY <2>2, <2>3
<1> QED BY <1>4, <1>5

-----------------------------------------------------------------------------
(* What a registered client's ChannelInfo says of the commands read so far.   *)

SessionOf(h, info) ==
  /\ info.auth <=> Entitled(h, Len(h) + 1)
  /\ info.databaseNumber = DatabaseOf(h, Len(h) + 1)
  /\ \A j \in 1 .. Len(h) : ~Fatal(h, j)

Sessions ==
  \A c \in Clients :
    /\ HasLast(log[c])
    /\ Registered(c) => SessionOf(log[c], channelMessages[c])

\* A command changes the session as the handler does, and does not end it.
Follows(info, new, m) ==
  /\ new.auth <=> IF m.kind = "auth" THEN ~HasPassword \/ m.good ELSE info.auth
  /\ new.databaseNumber = IF m.kind = "select" /\ m.db \in Locks /\ info.auth
                            THEN m.db ELSE info.databaseNumber
  /\ m.kind # "empty"
  /\ ~(m.kind = "select" /\ m.db <= 16 /\ m.db \notin Locks /\ info.auth)

LEMMA SessionAppend ==
  ASSUME NEW h \in Seq(Command), NEW m \in Command, HasLast(h), NEW info, NEW new,
         SessionOf(h, info), Follows(info, new, m)
  PROVE  SessionOf(Append(h, m), new)
<1> DEFINE g == Append(h, m)
           n == Len(h)
<1>1. n \in Nat /\ Len(g) = n + 1 /\ Len(g) + 1 = n + 2 /\ g[n + 1] = m /\ n + 1 \in 1 .. n + 1
  BY AppendedCommand
<1>2. info.auth <=> Entitled(h, n + 1)
  BY DEF SessionOf
<1>3. new.auth <=> Entitled(g, n + 2)
  <2>1. Entitled(g, n + 2) <=>
          IF m.kind = "auth" THEN ~HasPassword \/ m.good ELSE Entitled(h, n + 1)
    BY EntitledAppend
  <2> HIDE DEF g, n
  <2> QED BY <1>2, <2>1 DEF Follows
<1>4. new.databaseNumber = DatabaseOf(g, n + 2)
  <2>1. DatabaseOf(g, n + 2) = IF Chooses(h, m) THEN m.db ELSE DatabaseOf(h, n + 1)
    BY DatabaseAppend
  <2>2. Chooses(h, m) <=> m.kind = "select" /\ m.db \in Locks /\ info.auth
    BY <1>2 DEF Chooses
  <2>3. info.databaseNumber = DatabaseOf(h, n + 1)
    BY DEF SessionOf
  <2> HIDE DEF g, n
  <2> QED BY <2>1, <2>2, <2>3 DEF Follows
<1>5. ASSUME NEW j \in 1 .. n + 1 PROVE ~Fatal(g, j)
  <2>1. CASE j = n + 1
    <3>1. Entitled(g, j) <=> info.auth
      BY <1>1, <1>2, <2>1, EntitledPrefix
    <3> QED BY <1>1, <2>1, <3>1 DEF Fatal, Follows
  <2>2. CASE j # n + 1
    <3>1. j \in 1 .. n
      BY <1>1, <2>2
    <3> QED BY <3>1, FatalPrefix DEF SessionOf
  <2> QED BY <2>1, <2>2
<1> HIDE DEF g
<1> QED BY <1>1, <1>3, <1>4, <1>5 DEF SessionOf, g

\* A client that is still registered after a command has the session it should have.
LEMMA ReadFollows ==
  ASSUME Types, Sessions, NEW c \in Clients, NEW m \in Command, ChannelRead(c, m),
         Registered(c)'
  PROVE  Registered(c) /\ Follows(channelMessages[c], channelMessages'[c], m)
<1> DEFINE info == channelMessages[c]
<1>1. Registered(c) => info \in [auth : BOOLEAN, databaseNumber : Databases]
  BY DEF Types, SessionsOK, Registered
<1>2. ~Unregistered(c, m)
  BY DEF Unregistered, Registered
<1>3. ~Malformed(c, m) /\ ~SelectNoLock(c, m)
  BY DEF Malformed, SelectNoLock, ExceptionCaught, Registered, Types, SessionsOK
<1>4. CASE Auth(c, m)
  <2>1. Registered(c) /\ m.kind = "auth"
    BY <1>4 DEF Auth
  <2>2. channelMessages'[c].auth = AuthAfter(info, m)
    BY <1>1, <1>4, <2>1 DEF Auth, Types, SessionsOK
  <2>3. channelMessages'[c].databaseNumber = info.databaseNumber
    BY <1>1, <1>4, <2>1 DEF Auth, Types, SessionsOK
  <2>4. ~HasPassword => info.auth
    BY <2>1 DEF Sessions, SessionOf, Entitled
  <2>5. m.good \in BOOLEAN /\ info.auth \in BOOLEAN
    BY <1>1, <2>1 DEF Command
  <2>6. channelMessages'[c].auth <=> ~HasPassword \/ m.good
    BY <2>2, <2>4, <2>5, ConstantsAssumption DEF AuthAfter
  <2>7. Follows(info, channelMessages'[c], m)
    BY <2>1, <2>3, <2>6 DEF Follows
  <2> QED BY <2>1, <2>7
<1>5. CASE Select(c, m)
  <2>1. Registered(c) /\ info.auth /\ m.kind = "select" /\ m.db \in Locks
    BY <1>5 DEF Select, Authenticated
  <2>2. channelMessages'[c].auth = info.auth /\ channelMessages'[c].databaseNumber = m.db
    BY <1>1, <1>5, <2>1 DEF Select, Types, SessionsOK
  <2> QED BY <2>1, <2>2 DEF Follows
<1>6. CASE Local(c, m)
  <2>1. Registered(c) /\ channelMessages'[c] = info
    BY <1>6 DEF Local
  <2>2. /\ m.kind # "auth" /\ m.kind # "empty"
        /\ m.kind = "select" => ~info.auth
    BY <1>6 DEF Local, Authenticated
  <2> QED BY <2>1, <2>2 DEF Follows
<1>7. CASE SelectOutOfRange(c, m)
  <2>1. Registered(c) /\ channelMessages'[c] = info /\ m.kind = "select" /\ m.db > 16
    BY <1>7 DEF SelectOutOfRange, Authenticated
  <2>2. m.db \in Int
    BY <2>1 DEF Command
  <2>3. ~(m.db <= 16) /\ m.db \notin Locks
    BY <2>1, <2>2 DEF Locks
  <2> QED BY <2>1, <2>3 DEF Follows
<1>8. CASE Quit(c, m) \/ Request(c, m)
  <2>1. Registered(c) /\ channelMessages'[c] = info /\ m.kind \in {"quit", "read", "write"}
    BY <1>8 DEF Quit, Request, Authenticated
  <2> QED BY <2>1 DEF Follows
<1>9. CASE Flushall(c, m)
  <2>1. Registered(c) /\ m.kind = "flushall"
    BY <1>9 DEF Flushall, Authenticated
  <2>2. channelMessages'[c] = info
    BY <1>9 DEF Flushall, ExceptionCaught, Registered, Types, SessionsOK
  <2> QED BY <2>1, <2>2 DEF Follows
<1> QED BY <1>2, <1>3, <1>4, <1>5, <1>6, <1>7, <1>8, <1>9 DEF ChannelRead

LEMMA ReadOther ==
  ASSUME Types, NEW c \in Clients, NEW m, ChannelRead(c, m), NEW d \in Clients, d # c
  PROVE  channelMessages'[d] = channelMessages[d] /\ log'[d] = log[d]
BY DEF Types, SessionsOK, LogOK, ChannelRead, Unregistered, Malformed, Auth, Local, Quit,
       SelectOutOfRange, SelectNoLock, Select, Request, Flushall, ExceptionCaught, Logged

\* Every command is logged by the step that reads it.
LEMMA ReadLogs ==
  ASSUME Types, NEW c \in Clients, NEW m, ChannelRead(c, m)
  PROVE  /\ m \in Command /\ log[c] \in Seq(Command) /\ log'[c] = Append(log[c], m)
         /\ \A d \in Clients : d # c => log'[d] = log[d]
<1>1. MayRead(c, m) /\ Logged(c, m)
  BY DEF ChannelRead, Unregistered, Malformed, Auth, Local, Quit, SelectOutOfRange, SelectNoLock,
         Select, Request, Flushall
<1> QED BY <1>1, LogStep DEF Types

LEMMA OtherLogs ==
  ASSUME Types, [Next]_vars, ~\E c \in Clients : \E m \in UNION Range(Commands[c]) : ChannelRead(c, m)
  PROVE  /\ UNCHANGED log
         /\ \A c \in Clients : channelMessages'[c] = channelMessages[c]
                               \/ channelMessages'[c] = NoInfo
BY DEF Types, SessionsOK, Next, InitDatabase, SelectCheck, SelectPut, SelectDone, ClientCloses,
       ChannelInactive, Connected, ConnectFailed, Lose, Down, RedisReplies, vars

LEMMA SessionsStep ==
  ASSUME Types, Sessions, [Next]_vars
  PROVE  Sessions'
<1>1. ASSUME NEW c \in Clients, NEW m, ChannelRead(c, m) PROVE Sessions'
  <2>1. m \in Command /\ log[c] \in Seq(Command) /\ log'[c] = Append(log[c], m)
    BY <1>1, ReadLogs
  <2>2. HasLast(log'[c])
    BY <2>1, HasLastAppend DEF Sessions
  <2>3. Registered(c)' => SessionOf(log'[c], channelMessages'[c])
    <3> SUFFICES ASSUME Registered(c)' PROVE SessionOf(log'[c], channelMessages'[c])
      OBVIOUS
    <3>1. Registered(c) /\ Follows(channelMessages[c], channelMessages'[c], m)
      BY <1>1, <2>1, ReadFollows
    <3>2. HasLast(log[c]) /\ SessionOf(log[c], channelMessages[c])
      BY <3>1 DEF Sessions
    <3> QED BY <2>1, <3>1, <3>2, SessionAppend
  <2>4. ASSUME NEW d \in Clients, d # c
        PROVE  /\ HasLast(log'[d])
               /\ Registered(d)' => SessionOf(log'[d], channelMessages'[d])
    BY <1>1, <2>4, ReadOther DEF Sessions, Registered
  <2> QED BY <2>2, <2>3, <2>4 DEF Sessions
<1>2. CASE ~\E c \in Clients : \E m \in UNION Range(Commands[c]) : ChannelRead(c, m)
  BY <1>2, OtherLogs DEF Sessions, Registered
<1> QED BY <1>1, <1>2

LEMMA SessionsInit == Init => Sessions
<1> SUFFICES ASSUME Init, NEW c \in Clients
             PROVE  HasLast(log[c]) /\ (Registered(c) => SessionOf(log[c], channelMessages[c]))
  BY DEF Sessions
<1>1. log[c] = <<>> /\ Len(log[c]) = 0 /\ channelMessages[c] = [auth |-> ~HasPassword, databaseNumber |-> 0]
  BY EmptySeq DEF Init
<1>2. Selects(log[c], 1) = {}
  BY DEF Selects
<1>3. HasLast(log[c])
  BY <1>1, <1>2 DEF HasLast
<1>4. Entitled(log[c], 1) <=> ~HasPassword
  BY DEF Entitled
<1>5. DatabaseOf(log[c], 1) = 0
  BY <1>2 DEF DatabaseOf
<1>6. SessionOf(log[c], channelMessages[c])
  <2>1. Len(log[c]) + 1 = 1 /\ 1 .. Len(log[c]) = {}
    BY <1>1
  <2>2. channelMessages[c].auth = ~HasPassword /\ channelMessages[c].databaseNumber = 0
    BY <1>1
  <2> QED BY <1>4, <1>5, <2>1, <2>2, Zenon DEF SessionOf
<1> QED BY <1>3, <1>6

-----------------------------------------------------------------------------
(* The requests that wait at a Redis.                                         *)

\* What RightPlace says of the request i of a client with the commands h that waits
\* on connection k.
Rightly(h, k, i) ==
  /\ h[i].kind \in {"read", "write"}
  /\ Entitled(h, i)
  /\ k.db = DatabaseOf(h, i)
  /\ k.slice = SliceNumber(h[i].hash)
  /\ h[i].kind = "write" => k.master
  /\ \A j \in 1 .. i - 1 : ~Fatal(h, j)

Placed == \A k \in Conns : \A e \in Range(pending[k]) :
            e.client # NoClient => Rightly(log[e.client], k, e.index)

LEMMA PlacedIsRightPlace == Placed <=> RightPlace
BY DEF Placed, Rightly, RightPlace

LEMMA RightlyPrefix ==
  ASSUME NEW h \in Seq(Command), NEW m \in Command, NEW k, NEW i \in DOMAIN h,
         HasLast(h), Rightly(h, k, i)
  PROVE  Rightly(Append(h, m), k, i)
<1> DEFINE g == Append(h, m)
<1>1. g[i] = h[i] /\ i \in 1 .. Len(h) /\ i \in 1 .. Len(h) + 1
  BY AppendedCommand
<1>2. (Entitled(g, i) <=> Entitled(h, i)) /\ DatabaseOf(g, i) = DatabaseOf(h, i)
  BY <1>1, EntitledPrefix, DatabasePrefix
<1>3. \A j \in 1 .. i - 1 : j \in 1 .. Len(h)
  BY <1>1
<1>4. \A j \in 1 .. i - 1 : Fatal(g, j) <=> Fatal(h, j)
  BY <1>3, FatalPrefix
<1> HIDE DEF g
<1> QED BY <1>1, <1>2, <1>4 DEF Rightly, g

\* A request that the handler accepts is put where it belongs.
LEMMA RequestRightly ==
  ASSUME Types, Sessions, NEW c \in Clients, NEW m \in Command, Request(c, m),
         NEW k \in Route(c, m)
  PROVE  Rightly(Append(log[c], m), k, Reading(c))
<1> DEFINE h == log[c]
           g == Append(h, m)
           n == Len(h)
           info == channelMessages[c]
<1>1. h \in Seq(Command) /\ HasLast(h) /\ n \in Nat /\ Reading(c) = n + 1
  BY LenProperties DEF Types, LogOK, Sessions, Reading
<1>2. Registered(c) /\ info.auth /\ m.kind \in {"read", "write"}
  BY DEF Request, Authenticated
<1>3. SessionOf(h, info)
  BY <1>2 DEF Sessions
<1>4. g[n + 1] = m /\ n + 1 \in 1 .. n + 1 /\ n + 1 - 1 = n
  BY <1>1, AppendedCommand
<1>5. (Entitled(g, n + 1) <=> Entitled(h, n + 1)) /\ DatabaseOf(g, n + 1) = DatabaseOf(h, n + 1)
  BY <1>1, <1>4, EntitledPrefix, DatabasePrefix
<1>6. \A j \in 1 .. n : ~Fatal(g, j)
  BY <1>1, <1>3, FatalPrefix DEF SessionOf
<1>7. k.db = info.databaseNumber /\ k.slice = SliceNumber(m.hash) /\ (m.kind = "write" => k.master)
  BY DEF Route, Candidates
<1> HIDE DEF g, h, n, info
<1>8. Entitled(g, n + 1) /\ k.db = DatabaseOf(g, n + 1)
  BY <1>2, <1>3, <1>5, <1>7 DEF SessionOf, n
<1>9. Rightly(g, k, n + 1)
  <2> DEFINE p == n + 1
  <2>1. p - 1 = n /\ g[p] = m /\ Entitled(g, p) /\ k.db = DatabaseOf(g, p)
    <3>1. p - 1 = n /\ g[p] = m
      BY <1>1, <1>4
    <3>2. Entitled(g, p)
      BY <1>8
    <3>3. k.db = DatabaseOf(g, p)
      BY <1>8
    <3> QED BY <3>1, <3>2, <3>3
  <2> HIDE DEF p
  <2>2. Rightly(g, k, p)
    BY <1>2, <1>6, <1>7, <2>1 DEF Rightly
  <2> QED BY <2>2 DEF p
<1> QED BY <1>1, <1>9 DEF g, h, n

LEMMA PlacedStep ==
  ASSUME Types, Sessions, Placed, [Next]_vars
  PROVE  Placed'
<1>1. ASSUME NEW d \in Clients, NEW k, NEW i \in DOMAIN log[d], Rightly(log[d], k, i)
      PROVE  Rightly(log'[d], k, i)
  <2>1. CASE log'[d] = log[d]
    BY <1>1, <2>1
  <2>2. ASSUME NEW m, ChannelRead(d, m) PROVE Rightly(log'[d], k, i)
    BY <1>1, <2>2, ReadLogs, RightlyPrefix DEF Sessions
  <2>3. ASSUME NEW c \in Clients, NEW m, ChannelRead(c, m), c # d PROVE log'[d] = log[d]
    BY <2>3, ReadLogs
  <2>4. (~\E c \in Clients : \E m \in UNION Range(Commands[c]) : ChannelRead(c, m))
          => log'[d] = log[d]
    BY OtherLogs
  <2> QED BY <2>1, <2>2, <2>3, <2>4
<1>2. ASSUME NEW k \in Conns, NEW e \in Range(pending[k]), e.client # NoClient
      PROVE  Rightly(log'[e.client], k, e.index)
  <2>1. e.client \in Clients /\ e.index \in DOMAIN log[e.client]
    BY <1>2 DEF Types, PendingOK, FlushTask
  <2> QED BY <1>1, <1>2, <2>1 DEF Placed
<1>3. CASE Derived \/ UNCHANGED pending
  <2>1. FlushTask.client = NoClient
    BY DEF FlushTask
  <2> QED BY <1>2, <1>3, <2>1 DEF Placed, Derived
<1>4. ASSUME NEW c \in Clients, NEW m, Request(c, m) PROVE Placed'
  <2>1. ChannelRead(c, m)
    BY <1>4 DEF ChannelRead
  <2>2. m \in Command /\ log'[c] = Append(log[c], m)
    BY <2>1, ReadLogs
  <2>3. CASE UNCHANGED pending
    BY <1>3, <2>3
  <2>4. CASE ~UNCHANGED pending
    <3> DEFINE new == [client |-> c, index |-> Reading(c)]
    <3>1. PICK k \in Route(c, m) :
            /\ Range(pending'[k]) = Range(pending[k]) \cup {new}
            /\ \A j \in Conns : j # k => pending'[j] = pending[j]
      BY <1>4, <2>4, RequestStep DEF Types
    <3>2. Rightly(log'[c], k, Reading(c))
      BY <1>4, <2>2, RequestRightly
    <3>3. new.client = c /\ new.index = Reading(c)
      OBVIOUS
    <3> HIDE DEF new
    <3> QED BY <1>2, <3>1, <3>2, <3>3 DEF Placed
  <2> QED BY <2>3, <2>4
<1>5. PendingOK
  BY DEF Types
<1>6. ASSUME NEW c \in Clients, NEW m, ChannelRead(c, m) PROVE Placed'
  <2>1. CASE Flushall(c, m)
    BY <1>3, <1>5, <2>1, FlushallDerived
  <2>2. CASE ~Flushall(c, m) /\ ~Request(c, m)
    <3>1. UNCHANGED pending
      BY <1>6, <2>2 DEF ChannelRead, Unregistered, Malformed, Auth, Local, Quit,
                        SelectOutOfRange, SelectNoLock, Select
    <3> QED BY <1>3, <3>1
  <2> QED BY <1>4, <2>1, <2>2
<1>7. ASSUME NEW c \in Clients, SelectPut(c) PROVE Placed'
  BY <1>3, <1>5, <1>7, PutDerived
<1>8. ASSUME NEW k \in Conns, RedisReplies(k) PROVE Placed'
  BY <1>3, <1>5, <1>8, ReplyDerived
<1>9. CASE UNCHANGED pending
  BY <1>3, <1>9
<1> QED BY <1>6, <1>7, <1>8, <1>9
        DEF Next, InitDatabase, SelectCheck, SelectDone, ClientCloses, ChannelInactive,
            Connected, ConnectFailed, Lose, Down, vars

LEMMA PlacedInit == Init => Placed
<1>1. Range(<<>>) = {}
  BY DEF Range
<1> QED BY <1>1 DEF Init, Placed

\* Every request that waits at a Redis is one its client was entitled to send, on the
\* connection of the database it had selected, of the slice of its key, of the master
\* if it writes, and after no command that ended the session: for any number of
\* clients, any commands in any order, any slices and databases.
THEOREM RequestsRightlyPlaced == Spec => []RightPlace
<1>1. Init => Types /\ Sessions /\ Placed
  BY TypesInit, SessionsInit, PlacedInit
<1>2. (Types /\ Sessions /\ Placed) /\ [Next]_vars => (Types /\ Sessions /\ Placed)'
  BY TypesStep, SessionsStep, PlacedStep
<1>3. Placed => RightPlace
  BY PlacedIsRightPlace
<1> QED BY <1>1, <1>2, <1>3, PTL DEF Spec

-----------------------------------------------------------------------------
(* What a SELECT may rely on.                                                 *)

\* Who is inside initDatabase has left no Redis behind that it went past.
Visited ==
  \A c \in Clients : work[c].active => \A i \in 1 .. work[c].next - 1 :
    RedisList[i] = work[c].creating \/ table[Conn(RedisList[i], work[c].db)] # "none"

\* A lock that is taken is held by a thread inside initDatabase for its database.
Held ==
  \A n \in Databases : selectLock[n] # NoClient =>
    work[selectLock[n]].active /\ work[selectLock[n]].db = n

Opened(n) == \A r \in Range(RedisList) : table[Conn(r, n)] # "none"

LEMMA ReadTable ==
  ASSUME NEW c \in Clients, NEW m, ChannelRead(c, m)
  PROVE  /\ table' = table
         /\ \/ work' = work /\ selectLock' = selectLock
            \/ Select(c, m) /\ TakeLock(c, m.db)
<1>1. CASE Select(c, m)
  <2>1. table' = table /\ (TakeLock(c, m.db) \/ LockTaken(c, m.db))
    BY <1>1 DEF Select
  <2> QED BY <1>1, <2>1 DEF LockTaken
<1>2. CASE ~Select(c, m)
  <2>1. table' = table /\ work' = work /\ selectLock' = selectLock
    BY <1>2 DEF ChannelRead, Unregistered, Malformed, Auth, Local, Quit, SelectOutOfRange,
                SelectNoLock, Request, Flushall
  <2> QED BY <2>1
<1> QED BY <1>1, <1>2

LEMMA OpenedStays ==
  ASSUME Types, [Next]_vars, NEW k \in Conns, table[k] # "none"
  PROVE  table'[k] # "none"
<1>1. ASSUME NEW c \in Clients, NEW m, ChannelRead(c, m) PROVE table'[k] # "none"
  BY <1>1, ReadTable
<1>2. ASSUME NEW c \in Clients, InitDatabase(c) PROVE table'[k] # "none"
  BY <1>2 DEF InitDatabase, SelectCheck, SelectPut, SelectDone, Types, TableOK
<1>3. ASSUME NEW j \in Conns, Connected(j) \/ ConnectFailed(j) \/ Lose(j) \/ Down(j) \/ RedisReplies(j)
      PROVE  table'[k] # "none"
  BY <1>3 DEF Connected, ConnectFailed, Lose, Down, RedisReplies, Types, TableOK
<1>4. CASE UNCHANGED table
  BY <1>4
<1> QED BY <1>1, <1>2, <1>3, <1>4 DEF Next, ClientCloses, ChannelInactive, vars

LEMMA RedisListed ==
  /\ Len(RedisList) \in Nat
  /\ \A i \in 1 .. Len(RedisList) : RedisList[i] \in Redis
  /\ Range(RedisList) = {RedisList[i] : i \in 1 .. Len(RedisList)}
  /\ \A r \in Redis, n \in Databases : Conn(r, n) \in Conns
<1>1. RedisList \in Seq(Redis)
  BY ConstantsAssumption
<1>2. \A i \in 1 .. Len(RedisList) : RedisList[i] \in Redis
  BY <1>1, ElementOfSeq
<1>3. Range(RedisList) = {RedisList[i] : i \in 1 .. Len(RedisList)}
  BY <1>1, LenProperties DEF Range
<1>4. \A r \in Redis, n \in Databases : Conn(r, n) \in Conns
  BY DEF Redis, Conn, Conns
<1> QED BY <1>1, <1>2, <1>3, <1>4, LenProperties

\* Only the first part of initDatabase takes a lock, only its end frees one.
LEMMA LockStep ==
  ASSUME [Next]_vars
  PROVE  \/ UNCHANGED <<work, selectLock>>
         \/ \E c \in Clients : \E m : Select(c, m) /\ TakeLock(c, m.db)
         \/ \E c \in Clients : InitDatabase(c)
<1>1. CASE \E c \in Clients : \E m \in UNION Range(Commands[c]) : ChannelRead(c, m)
  BY <1>1, ReadTable
<1>2. CASE ~\E c \in Clients : \E m \in UNION Range(Commands[c]) : ChannelRead(c, m)
  BY <1>2 DEF Next, ClientCloses, ChannelInactive, Connected, ConnectFailed, Lose, Down, RedisReplies,
              vars
<1> QED BY <1>1, <1>2

LEMMA VisitedStep ==
  ASSUME Types, Visited, [Next]_vars
  PROVE  Visited'
<1> USE DEF Types
<1>1. \A c \in Clients : /\ work[c].active \in BOOLEAN /\ work[c].db \in Databases
                         /\ work[c].next \in 0 .. Len(RedisList) + 1
                         /\ work[c].creating \in Redis \cup {NoRedis}
  BY DEF WorkOK
<1>2. ASSUME NEW c \in Clients, work[c].active, NEW i \in 1 .. work[c].next - 1
      PROVE  /\ i \in 1 .. Len(RedisList) /\ RedisList[i] \in Redis
             /\ Conn(RedisList[i], work[c].db) \in Conns
  <2>1. i \in 1 .. Len(RedisList)
    BY <1>1, <1>2, RedisListed
  <2> QED BY <1>1, <2>1, RedisListed
<1>3. ASSUME NEW c \in Clients, work'[c] = work[c], work[c].active,
             NEW i \in 1 .. work[c].next - 1
      PROVE  \/ RedisList[i] = work'[c].creating
             \/ table'[Conn(RedisList[i], work[c].db)] # "none"
  BY <1>2, <1>3, OpenedStays DEF Visited
<1>4. ASSUME NEW c \in Clients, NEW m, Select(c, m), TakeLock(c, m.db) PROVE Visited'
  <2>1. \A d \in Clients : work'[d] = work[d] \/ work'[d].next = 1
    BY <1>4 DEF TakeLock, WorkOK
  <2> QED BY <1>3, <2>1 DEF Visited
<1>5. ASSUME NEW c \in Clients, SelectCheck(c) PROVE Visited'
  <2>1. \A d \in Clients : d # c => work'[d] = work[d]
    BY <1>5 DEF SelectCheck, WorkOK
  <2> DEFINE n == work[c].next
  <2>2. /\ n \in 1 .. Len(RedisList) /\ work[c].active /\ work[c].creating = NoRedis
        /\ work'[c].db = work[c].db /\ work'[c].next = n + 1
        /\ work'[c].creating = IF table[Conn(RedisList[n], work[c].db)] = "none"
                                 THEN RedisList[n] ELSE NoRedis
    BY <1>1, <1>5 DEF SelectCheck, WorkOK
  <2>3. ASSUME NEW i \in 1 .. work'[c].next - 1
        PROVE  \/ RedisList[i] = work'[c].creating
               \/ table'[Conn(RedisList[i], work'[c].db)] # "none"
    <3>1. UNCHANGED table
      BY <1>5 DEF SelectCheck
    <3>2. i \in 1 .. n - 1 \/ i = n
      BY <2>2, <2>3
    <3>3. CASE i = n
      BY <2>2, <3>1, <3>3
    <3>4. CASE i \in 1 .. n - 1
      <4>1. RedisList[i] \in Redis
        BY <1>2, <2>2, <3>4
      <4>2. RedisList[i] # NoRedis
        BY <4>1, ConstantsAssumption
      <4> QED BY <2>2, <3>1, <3>4, <4>2 DEF Visited
    <3> QED BY <3>2, <3>3, <3>4
  <2> QED BY <1>3, <2>1, <2>3 DEF Visited
<1>6. ASSUME NEW c \in Clients, SelectPut(c) PROVE Visited'
  <2>1. \A d \in Clients : d # c => work'[d] = work[d]
    BY <1>6 DEF SelectPut, WorkOK
  <2>2. /\ work'[c].db = work[c].db /\ work'[c].next = work[c].next /\ work[c].active
        /\ work[c].creating \in Redis
        /\ table'[Conn(work[c].creating, work[c].db)] = "connecting"
    <3>1. work[c].creating \in Redis /\ work[c].active
      BY <1>1, <1>6 DEF SelectPut, WorkOK
    <3>2. Conn(work[c].creating, work[c].db) \in Conns
      BY <1>1, <3>1, RedisListed
    <3> QED BY <1>6, <3>1, <3>2 DEF SelectPut, WorkOK, TableOK
  <2>3. ASSUME NEW i \in 1 .. work[c].next - 1
        PROVE  table'[Conn(RedisList[i], work[c].db)] # "none"
    <3>1. CASE RedisList[i] = work[c].creating
      BY <2>2, <3>1
    <3>2. CASE RedisList[i] # work[c].creating
      BY <1>2, <2>2, <3>2, OpenedStays DEF Visited
    <3> QED BY <3>1, <3>2
  <2> QED BY <1>3, <2>1, <2>2, <2>3 DEF Visited
<1>7. ASSUME NEW c \in Clients, SelectDone(c) PROVE Visited'
  <2>1. \A d \in Clients : work'[d] = work[d] \/ ~work'[d].active
    BY <1>7 DEF SelectDone, WorkOK, Idle
  <2> QED BY <1>3, <2>1 DEF Visited
<1>8. CASE UNCHANGED work
  BY <1>3, <1>8 DEF Visited
<1> QED BY <1>4, <1>5, <1>6, <1>7, <1>8, LockStep DEF InitDatabase

LEMMA HeldStep ==
  ASSUME Types, Held, [Next]_vars
  PROVE  Held'
<1> USE DEF Types
<1>1. NoClient \notin Clients
  BY ConstantsAssumption
<1>2. CASE UNCHANGED <<work, selectLock>>
  BY <1>2 DEF Held
<1>3. ASSUME NEW c \in Clients, NEW m, Select(c, m), TakeLock(c, m.db) PROVE Held'
  <2>1. ~work[c].active
    BY <1>3 DEF Select, MayRead
  <2>2. /\ selectLock' = [selectLock EXCEPT ![m.db] = c]
        /\ \A d \in Clients : d # c => work'[d] = work[d]
        /\ work'[c].active /\ work'[c].db = m.db
    BY <1>3 DEF TakeLock, WorkOK
  <2> QED BY <2>1, <2>2 DEF Held, WorkOK
<1>4. ASSUME NEW c \in Clients, SelectCheck(c) \/ SelectPut(c) PROVE Held'
  <2>1. /\ UNCHANGED selectLock
        /\ \A d \in Clients : work'[d].active = work[d].active /\ work'[d].db = work[d].db
    BY <1>4 DEF SelectCheck, SelectPut, WorkOK
  <2> QED BY <2>1 DEF Held, WorkOK
<1>5. ASSUME NEW c \in Clients, SelectDone(c) PROVE Held'
  <2>1. /\ selectLock' = [selectLock EXCEPT ![work[c].db] = NoClient]
        /\ \A d \in Clients : d # c => work'[d] = work[d]
    BY <1>5 DEF SelectDone, WorkOK
  <2>2. \A n \in Databases : n # work[c].db => selectLock[n] # c
    BY <1>1 DEF Held
  <2> QED BY <2>1, <2>2 DEF Held, WorkOK
<1> QED BY <1>2, <1>3, <1>4, <1>5, LockStep DEF InitDatabase

\* The commands of a client that still has its session: its choice of a database
\* changes only when it takes the lock of that database, or finds it taken.
LEMMA ChoiceStep ==
  ASSUME Types, Sessions, [Next]_vars, NEW d \in Clients, Registered(d)'
  PROVE  LET n == DatabaseOf(log'[d], Len(log'[d]) + 1) IN
         \/ selectLock'[n] # NoClient
         \/ /\ Registered(d) /\ n = DatabaseOf(log[d], Len(log[d]) + 1)
            /\ Selects(log'[d], Len(log'[d]) + 1) = Selects(log[d], Len(log[d]) + 1)
<1>1. ASSUME NEW m, ChannelRead(d, m)
      PROVE  LET n == DatabaseOf(log'[d], Len(log'[d]) + 1) IN
             \/ selectLock'[n] # NoClient
             \/ /\ Registered(d) /\ n = DatabaseOf(log[d], Len(log[d]) + 1)
                /\ Selects(log'[d], Len(log'[d]) + 1) = Selects(log[d], Len(log[d]) + 1)
  <2> DEFINE h == log[d]
             g == Append(h, m)
  <2>1. m \in Command /\ h \in Seq(Command) /\ log'[d] = g
    BY <1>1, ReadLogs
  <2>2. Registered(d)
    BY <1>1, <2>1, ReadFollows
  <2>3. HasLast(h) /\ SessionOf(h, channelMessages[d])
    BY <2>2 DEF Sessions
  <2>4. Len(g) + 1 = Len(h) + 2
    BY <2>1, AppendedCommand
  <2>5. DatabaseOf(g, Len(h) + 2) = IF Chooses(h, m) THEN m.db ELSE DatabaseOf(h, Len(h) + 1)
    BY <2>1, <2>3, DatabaseAppend
  <2>6. Selects(g, Len(h) + 2) =
          Selects(h, Len(h) + 1) \cup (IF Chooses(h, m) THEN {Len(h) + 1} ELSE {})
    BY <2>1, SelectsAppend
  <2> HIDE DEF g, h
  <2>7. CASE ~Chooses(h, m)
    <3>1. /\ DatabaseOf(g, Len(g) + 1) = DatabaseOf(h, Len(h) + 1)
          /\ Selects(g, Len(g) + 1) = Selects(h, Len(h) + 1)
      BY <2>4, <2>5, <2>6, <2>7
    <3> QED BY <2>1, <2>2, <3>1 DEF h
  <2>8. CASE Chooses(h, m)
    <3>1. m.kind = "select" /\ m.db \in Locks /\ channelMessages[d].auth
      BY <2>3, <2>8 DEF Chooses, SessionOf, h
    <3>2. ~(m.db > 16)
      BY <3>1 DEF Locks
    <3>3. Select(d, m)
      BY <1>1, <2>2, <3>1, <3>2
         DEF ChannelRead, Unregistered, Malformed, Auth, Local, Authenticated, Quit,
             SelectOutOfRange, SelectNoLock, Request, Flushall
    <3>4. m.db \in Databases
      BY <3>3, SelectDatabase DEF Types
    <3>5. selectLock'[m.db] # NoClient
      BY <3>3, <3>4, ConstantsAssumption DEF Select, TakeLock, LockTaken, Types, WorkOK
    <3>6. DatabaseOf(g, Len(g) + 1) = m.db
      BY <2>4, <2>5, <2>8
    <3> QED BY <2>1, <3>5, <3>6
  <2> QED BY <2>7, <2>8
<1>2. CASE log'[d] = log[d] /\ (channelMessages'[d] = channelMessages[d] \/ channelMessages'[d] = NoInfo)
  BY <1>2 DEF Registered
<1>3. ASSUME NEW c \in Clients, NEW m, ChannelRead(c, m), c # d
      PROVE  log'[d] = log[d] /\ channelMessages'[d] = channelMessages[d]
  BY <1>3, ReadOther
<1>4. (~\E c \in Clients : \E m \in UNION Range(Commands[c]) : ChannelRead(c, m))
        => log'[d] = log[d] /\ (channelMessages'[d] = channelMessages[d] \/ channelMessages'[d] = NoInfo)
  BY OtherLogs
<1> QED BY <1>1, <1>2, <1>3, <1>4

\* The database of a session has a lock.
LEMMA ChosenDatabase ==
  ASSUME Types, Sessions, NEW c \in Clients, Registered(c)
  PROVE  DatabaseOf(log[c], Len(log[c]) + 1) \in Databases
BY DEF Types, SessionsOK, Sessions, SessionOf, Registered

\* A lock is freed only when all clients of its database are there.
LEMMA FreedOpened ==
  ASSUME Types, Visited, Held, [Next]_vars, NEW n \in Databases, selectLock'[n] = NoClient
  PROVE  selectLock[n] = NoClient \/ Opened(n)
<1>1. ASSUME NEW c \in Clients, SelectDone(c), n = work[c].db PROVE Opened(n)
  <2>1. work[c].active /\ work[c].next - 1 >= Len(RedisList) /\ work[c].creating = NoRedis
    BY <1>1, RedisListed DEF SelectDone, Types, WorkOK
  <2>2. \A i \in 1 .. Len(RedisList) : i \in 1 .. work[c].next - 1 /\ RedisList[i] # NoRedis
    BY <2>1, RedisListed, ConstantsAssumption DEF Types, WorkOK
  <2>3. \A i \in 1 .. Len(RedisList) : table[Conn(RedisList[i], n)] # "none"
    BY <1>1, <2>1, <2>2 DEF Visited
  <2> QED BY <2>3, RedisListed DEF Opened
<1>2. ASSUME NEW c \in Clients, SelectDone(c), n # work[c].db PROVE selectLock'[n] = selectLock[n]
  BY <1>2 DEF SelectDone, Types, WorkOK
<1>3. ASSUME NEW c \in Clients, NEW m, Select(c, m), TakeLock(c, m.db)
      PROVE  selectLock[n] = NoClient
  BY <1>3, ConstantsAssumption DEF TakeLock, Types, WorkOK
<1>4. ASSUME NEW c \in Clients, SelectCheck(c) \/ SelectPut(c) PROVE selectLock[n] = NoClient
  BY <1>4 DEF SelectCheck, SelectPut
<1> QED BY <1>1, <1>2, <1>3, <1>4, LockStep DEF InitDatabase

LEMMA SelectedStep ==
  ASSUME Types, Sessions, Visited, Held, SelectedExists, [Next]_vars
  PROVE  SelectedExists'
<1> SUFFICES ASSUME NEW c \in Clients, Registered(c)',
                    Selects(log'[c], Len(log'[c]) + 1) # {},
                    selectLock'[DatabaseOf(log'[c], Len(log'[c]) + 1)] = NoClient,
                    NEW r \in Range(RedisList)
             PROVE  table'[Conn(r, DatabaseOf(log'[c], Len(log'[c]) + 1))] # "none"
  BY DEF SelectedExists
<1> DEFINE n == DatabaseOf(log'[c], Len(log'[c]) + 1)
<1>1. /\ Registered(c) /\ n = DatabaseOf(log[c], Len(log[c]) + 1)
      /\ Selects(log[c], Len(log[c]) + 1) # {}
  BY ChoiceStep
<1>2. n \in Databases
  BY <1>1, ChosenDatabase
<1>3. selectLock[n] = NoClient \/ Opened(n)
  BY <1>2, FreedOpened
<1>4. selectLock[n] = NoClient => Opened(n)
  BY <1>1 DEF SelectedExists, Opened
<1>5. r \in Redis
  BY RedisListed
<1>6. Conn(r, n) \in Conns /\ table[Conn(r, n)] # "none"
  BY <1>2, <1>3, <1>4, <1>5, RedisListed DEF Opened
<1> QED BY <1>6, OpenedStays

LEMMA SelectedInit == Init => Visited /\ Held /\ SelectedExists
<1> SUFFICES ASSUME Init PROVE Visited /\ Held /\ SelectedExists
  OBVIOUS
<1>1. Visited /\ Held
  BY DEF Init, Idle, Visited, Held
<1>2. ASSUME NEW c \in Clients PROVE Selects(log[c], Len(log[c]) + 1) = {}
  <2>1. log[c] = <<>> /\ Len(log[c]) + 1 = 1
    BY EmptySeq DEF Init
  <2>2. Selects(log[c], 1) = {}
    BY DEF Selects
  <2> QED BY <2>1, <2>2
<1> QED BY <1>1, <1>2 DEF SelectedExists

\* A SELECT is answered OK although the clients of its database may still be to come;
\* whoever has selected a database finds them in the table once no thread is at work
\* for it: the holder of the lock leaves no Redis out and no one takes a client away.
THEOREM SelectedDatabasesOpened == Spec => []SelectedExists
<1>1. Init => Types /\ Sessions /\ Visited /\ Held /\ SelectedExists
  BY TypesInit, SessionsInit, SelectedInit
<1>2. (Types /\ Sessions /\ Visited /\ Held /\ SelectedExists) /\ [Next]_vars
        => (Types /\ Sessions /\ Visited /\ Held /\ SelectedExists)'
  BY TypesStep, SessionsStep, VisitedStep, HeldStep, SelectedStep
<1> QED BY <1>1, <1>2, PTL DEF Spec
=============================================================================
