--------------------------- MODULE HeartbeatProofs ---------------------------
(* Theorems about Heartbeat, for any number of connections and of failures:    *)
(* the types, and what holds of the connections and the machines, whenever     *)
(* failures come; one address, its flag and the roles when failures meet two   *)
(* settled proxies (Calm) and handlers are quicker than timeouts (Timely).     *)
EXTENDS Heartbeat, TLAPS

-----------------------------------------------------------------------------
(* The nodes and the types.                                                  *)

LinkType == [
  from : Nodes \cup {NoNode}, client : {"open", "closed"},
  server : {"accepted", "registered", "closed"}, silent : BOOLEAN, request : BOOLEAN,
  answer : [haveVirtualIp : BOOLEAN, master : BOOLEAN] \cup {NoAnswer},
  handling : {"no", "add", "flag", "roles"}, role : BOOLEAN,
  down : {"no", "begin", "del", "add", "restart", "close"}, idle : BOOLEAN]

Flags == [Nodes -> BOOLEAN]

\* The server runs remoteHARedisDown for a connection that it has closed, or that has
\* been silent.
Apart(l) == l.down # "no" => l.server = "closed" \/ (l.server = "accepted" /\ l.silent)

LinksOK ==
  /\ link \in [Links -> LinkType]
  /\ \A k \in Links : Apart(link[k])

Types ==
  /\ host \in Flags /\ address \in Flags /\ up \in Flags /\ init \in Flags
  /\ haveVirtualIp \in Flags /\ remoteHARedisIsRun \in Flags /\ remoteNames \in Flags
  /\ master \in Flags /\ channel \in Flags
  /\ LinksOK
  /\ slowStart \in StartSpeeds /\ failures \in 0 .. MaxFailures

\* A connection of which nothing is left.
Over(l) == l.client = "closed" /\ l.server = "closed" /\ l.down = "no" /\ l.handling = "no"

\* What is left of a connection of which l would be left.
Left(l) == IF Over(l) THEN Free ELSE l

\* The connection l after the process at its client, or at its server, has ended.
NoClient(l, hostToo) ==
  [l EXCEPT !.client = "closed", !.answer = NoAnswer, !.handling = "no", !.silent = l.silent \/ hostToo]
NoServer(l, hostToo) ==
  [l EXCEPT !.server = "closed", !.request = FALSE, !.down = "no", !.idle = FALSE,
            !.silent = l.silent \/ hostToo]

LEMMA Hosts ==
  /\ MasterNode \in Nodes
  /\ \A n \in Nodes : /\ Peer(n) \in Nodes /\ Peer(n) # n /\ Peer(Peer(n)) = n /\ n # NoNode
                      /\ \A m \in Nodes : m = n \/ m = Peer(n)
BY HeartbeatAssumption DEF Peer

LEMMA PeerType == \A n : Peer(n) \in Nodes
BY HeartbeatAssumption DEF Peer

LEMMA FreeType ==
  /\ Free \in LinkType
  /\ Free.from = NoNode /\ Free.client = "closed" /\ Free.server = "closed" /\ ~Free.silent
  /\ ~Free.request /\ Free.answer = NoAnswer /\ Free.handling = "no" /\ ~Free.role
  /\ Free.down = "no" /\ ~Free.idle
BY DEF Free, LinkType

LEMMA LeftType == ASSUME NEW l \in LinkType PROVE Left(l) \in LinkType
BY FreeType DEF Left

\* The connections after one of them has become rec.
LEMMA SetLink ==
  ASSUME link \in [Links -> LinkType], NEW k \in Links, NEW rec \in LinkType, Set(k, rec)
  PROVE  /\ link' \in [Links -> LinkType]
         /\ link'[k] = Left(rec)
         /\ \A j \in Links : j # k => link'[j] = Left(link[j])
<1> DEFINE new == [link EXCEPT ![k] = rec]
<1>1. new \in [Links -> LinkType] /\ new[k] = rec /\ \A j \in Links : j # k => new[j] = link[j]
  OBVIOUS
<1>2. link' = [j \in Links |-> Left(new[j])]
  BY DEF Set, Forget, Left, Over
<1>3. \A j \in Links : Left(new[j]) \in LinkType
  BY <1>1, LeftType
<1> HIDE DEF new
<1> QED BY <1>1, <1>2, <1>3

LEMMA LinksSet ==
  ASSUME LinksOK, NEW k \in Links, NEW rec \in LinkType, Set(k, rec),
         Apart(rec)
  PROVE  LinksOK'
<1>1. /\ link' \in [Links -> LinkType] /\ link'[k] = Left(rec)
      /\ \A j \in Links : j # k => link'[j] = Left(link[j])
  BY SetLink DEF LinksOK
<1>2. Apart(Left(rec)) /\ \A j \in Links : Apart(Left(link[j]))
  BY FreeType DEF Left, LinksOK, Apart
<1>3. ASSUME NEW j \in Links PROVE Apart(link'[j])
  <2>1. CASE j = k
    BY <1>1, <1>2, <2>1
  <2>2. CASE j # k
    BY <1>1, <1>2, <2>2
  <2> QED BY <2>1, <2>2
<1> QED BY <1>1, <1>3 DEF LinksOK

LEMMA EndsType ==
  ASSUME NEW l \in LinkType, NEW b \in BOOLEAN
  PROVE  /\ NoClient(l, b) \in LinkType /\ (Apart(l) => Apart(NoClient(l, b)))
         /\ NoServer(l, b) \in LinkType /\ Apart(NoServer(l, b))
<1>1. l.silent \/ b \in BOOLEAN
  OBVIOUS
<1> DEFINE s == l.silent \/ b
<1>2. NoClient(l, b) = [l EXCEPT !.client = "closed", !.answer = NoAnswer, !.handling = "no", !.silent = s]
  BY DEF NoClient
<1>3. NoServer(l, b) = [l EXCEPT !.server = "closed", !.request = FALSE, !.down = "no", !.idle = FALSE, !.silent = s]
  BY DEF NoServer
<1>4. s \in BOOLEAN /\ (l.silent => s)
  OBVIOUS
<1> HIDE DEF s
<1>5. NoClient(l, b) \in LinkType
  BY <1>2, <1>4 DEF LinkType
<1>6. NoServer(l, b) \in LinkType
  BY <1>3, <1>4 DEF LinkType
<1>7. Apart(l) => Apart(NoClient(l, b))
  BY <1>2, <1>4 DEF LinkType, Apart
<1>8. Apart(NoServer(l, b))
  BY <1>3, <1>4 DEF LinkType, Apart
<1> QED BY <1>5, <1>6, <1>7, <1>8

\* The connections of a process that ends.
LEMMA DeadLinks ==
  ASSUME LinksOK, NEW n, NEW b \in BOOLEAN
  PROVE  /\ Dead(n, b) \in [Links -> LinkType]
         /\ \A k \in Links :
              /\ link[k].from = n => Dead(n, b)[k] = Left(NoClient(link[k], b))
              /\ link[k].from # n /\ link[k].from = Peer(n) => Dead(n, b)[k] = Left(NoServer(link[k], b))
              /\ link[k].from # n /\ link[k].from # Peer(n) => Dead(n, b)[k] = Left(link[k])
         /\ \A k \in Links : Apart(Dead(n, b)[k])
<1> DEFINE new == [k \in Links |-> IF link[k].from = n THEN NoClient(link[k], b)
                                   ELSE IF link[k].from = Peer(n) THEN NoServer(link[k], b) ELSE link[k]]
<1>1. \A l \in LinkType : /\ NoClient(l, b) \in LinkType /\ (Apart(l) => Apart(NoClient(l, b)))
                          /\ NoServer(l, b) \in LinkType /\ Apart(NoServer(l, b))
  BY EndsType
<1>2. Dead(n, b) = [k \in Links |-> Left(new[k])]
  BY DEF Dead, Forget, Left, Over, NoClient, NoServer
<1>3. \A k \in Links : new[k] = IF link[k].from = n THEN NoClient(link[k], b)
                                   ELSE IF link[k].from = Peer(n) THEN NoServer(link[k], b) ELSE link[k]
  OBVIOUS
<1> HIDE DEF new
<1>4. \A k \in Links : link[k] \in LinkType /\ Apart(link[k])
  BY DEF LinksOK
<1>5. \A k \in Links : new[k] \in LinkType /\ Apart(new[k])
  BY <1>1, <1>3, <1>4
<1>6. \A k \in Links : Dead(n, b)[k] = Left(new[k])
  BY <1>2
<1>7. \A k \in Links : Left(new[k]) \in LinkType /\ Apart(Left(new[k]))
  BY <1>5, LeftType, FreeType DEF Left, Apart
<1>8. Dead(n, b) \in [Links -> LinkType]
  BY <1>2, <1>7
<1> QED BY <1>3, <1>6, <1>7, <1>8

LEMMA BlankType ==
  ASSUME Types, NEW n, Blank(n)
  PROVE  /\ init' \in Flags /\ haveVirtualIp' \in Flags /\ remoteHARedisIsRun' \in Flags
         /\ remoteNames' \in Flags /\ master' \in Flags /\ channel' \in Flags
BY DEF Types, Blank, Flags

LEMMA TypesInit == Init => Types
<1> SUFFICES ASSUME Init PROVE Types
  OBVIOUS
<1>1. link = [k \in Links |-> Free] /\ LinksOK
  BY FreeType DEF Init, LinksOK, Apart
<1> QED BY <1>1, HeartbeatAssumption DEF Init, Types, Flags

LEMMA TypesClient ==
  ASSUME Types, NEW k \in Links, ClientStep(k)
  PROVE  Types'
<1> DEFINE l == link[k]
<1>0. l \in LinkType /\ Apart(l)
  BY DEF Types, LinksOK
<1>1. CASE AuthSuccess(k)
  <2> DEFINE rec == [l EXCEPT
       !.answer = NoAnswer,
       !.role = ~init[l.from] /\ LocalRole(l.from, l.answer),
       !.handling = IF init[l.from] THEN "no"
                    ELSE IF ~l.answer.haveVirtualIp /\ l.from = MasterNode THEN "add"
                    ELSE "roles"]
  <2>1. rec \in LinkType /\ Apart(rec)
    BY <1>0 DEF LinkType, Apart
  <2>2. Set(k, rec)
    BY <1>1 DEF AuthSuccess
  <2> HIDE DEF rec
  <2>3. LinksOK'
    BY <1>0, <2>1, <2>2, LinksSet DEF Types
  <2> QED BY <1>1, <2>3 DEF AuthSuccess, Types, Flags
<1>2. CASE InitAdd(k)
  <2> DEFINE rec == [l EXCEPT !.handling = "flag"]
  <2>1. rec \in LinkType /\ Apart(rec)
    BY <1>0 DEF LinkType, Apart
  <2>2. Set(k, rec)
    BY <1>2 DEF InitAdd
  <2> HIDE DEF rec
  <2>3. LinksOK'
    BY <1>0, <2>1, <2>2, LinksSet DEF Types
  <2> QED BY <1>2, <2>3 DEF InitAdd, Types, Flags, NodeVars
<1>3. CASE InitFlag(k)
  <2> DEFINE rec == [l EXCEPT !.handling = "roles"]
  <2>1. rec \in LinkType /\ Apart(rec)
    BY <1>0 DEF LinkType, Apart
  <2>2. Set(k, rec)
    BY <1>3 DEF InitFlag
  <2> HIDE DEF rec
  <2>3. LinksOK'
    BY <1>0, <2>1, <2>2, LinksSet DEF Types
  <2> QED BY <1>3, <2>3 DEF InitFlag, Types, Flags
<1>4. CASE InitRoles(k)
  <2> DEFINE rec == [l EXCEPT !.handling = "no", !.role = FALSE]
  <2>1. rec \in LinkType /\ Apart(rec)
    BY <1>0 DEF LinkType, Apart
  <2>2. Set(k, rec)
    BY <1>4 DEF InitRoles
  <2> HIDE DEF rec
  <2>3. LinksOK'
    BY <1>0, <2>1, <2>2, LinksSet DEF Types
  <2>4. l.role \in BOOLEAN
    BY <1>0 DEF LinkType
  <2> QED BY <1>4, <2>3, <2>4 DEF InitRoles, Types, Flags
<1>5. CASE ClientInactive(k)
  <2> DEFINE rec == [l EXCEPT !.client = "closed", !.answer = NoAnswer]
  <2>1. rec \in LinkType /\ Apart(rec)
    BY <1>0 DEF LinkType, Apart
  <2>2. Set(k, rec)
    BY <1>5 DEF ClientInactive
  <2> HIDE DEF rec
  <2>3. LinksOK'
    BY <1>0, <2>1, <2>2, LinksSet DEF Types
  <2> QED BY <1>5, <2>3 DEF ClientInactive, Types, NodeVars
<1> QED BY <1>1, <1>2, <1>3, <1>4, <1>5 DEF ClientStep

LEMMA TypesServer ==
  ASSUME Types, NEW k \in Links, ServerAuth(k) \/ ReaderIdle(k) \/ ServerInactive(k)
  PROVE  Types'
<1> DEFINE l == link[k]
<1>0. l \in LinkType /\ Apart(l)
  BY DEF Types, LinksOK
<1>1. CASE ServerAuth(k)
  <2> DEFINE n == Peer(l.from)
             answer == IF l.client = "open"
                    THEN [haveVirtualIp |-> haveVirtualIp[n], master |-> master[n]]
                    ELSE NoAnswer
             rec == [l EXCEPT !.server = "registered", !.request = FALSE, !.answer = answer]
  <2>1. answer \in [haveVirtualIp : BOOLEAN, master : BOOLEAN] \cup {NoAnswer}
    BY PeerType DEF Types, Flags
  <2>2. Set(k, rec) /\ l.down = "no"
    BY <1>0, <1>1 DEF ServerAuth, Apart
  <2> HIDE DEF answer
  <2>3. rec \in LinkType /\ rec.down = "no"
    BY <1>0, <2>1, <2>2 DEF LinkType
  <2> HIDE DEF rec
  <2>4. LinksOK'
    BY <2>2, <2>3, LinksSet DEF Types, Apart
  <2> QED BY <1>1, <2>4 DEF ServerAuth, Types, NodeVars
<1>2. CASE ReaderIdle(k)
  <2> DEFINE rec == [l EXCEPT !.server = "accepted", !.down = "begin", !.idle = TRUE]
  <2>1. rec \in LinkType /\ Apart(rec)
    BY <1>0, <1>2 DEF LinkType, Apart, ReaderIdle
  <2>2. Set(k, rec)
    BY <1>2 DEF ReaderIdle
  <2> HIDE DEF rec
  <2>3. LinksOK'
    BY <1>0, <2>1, <2>2, LinksSet DEF Types
  <2> QED BY <1>2, <2>3 DEF ReaderIdle, Types, NodeVars
<1>3. CASE ServerInactive(k)
  <2> DEFINE rec == [l EXCEPT !.server = "closed",
                      !.down = IF l.server = "registered" THEN "begin" ELSE "no"]
  <2>1. rec \in LinkType /\ Apart(rec)
    BY <1>0 DEF LinkType, Apart
  <2>2. Set(k, rec)
    BY <1>3 DEF ServerInactive
  <2> HIDE DEF rec
  <2>3. LinksOK'
    BY <1>0, <2>1, <2>2, LinksSet DEF Types
  <2> QED BY <1>3, <2>3 DEF ServerInactive, Types, NodeVars
<1> QED BY <1>1, <1>2, <1>3
\* The connection that n opens.
Fresh(n) == [Free EXCEPT !.from = n, !.client = "open", !.server = "accepted", !.request = TRUE]

LEMMA FreshType ==
  ASSUME NEW n \in Nodes
  PROVE  /\ Fresh(n) \in LinkType /\ Apart(Fresh(n))
         /\ Fresh(n).from = n /\ Fresh(n).client = "open" /\ Fresh(n).server = "accepted"
         /\ Fresh(n).request /\ ~Fresh(n).silent /\ Fresh(n).answer = NoAnswer
         /\ Fresh(n).handling = "no" /\ ~Fresh(n).role /\ Fresh(n).down = "no"
BY DEF Fresh, Free, LinkType, Apart

LEMMA FailingType == \A kind : Types /\ Failing(kind) => failures' \in 0 .. MaxFailures
BY HeartbeatAssumption DEF Failing, Types

\* The connections after remoteHARedisDown for k has restarted the other proxy.
Restarted(k) == link' = Forget([Dead(link[k].from, FALSE) EXCEPT ![k].down = "close"])

LEMMA RestartLinks ==
  ASSUME LinksOK, NEW k \in Links, link[k].down = "restart", Restarted(k)
  PROVE  /\ LinksOK'
         /\ \A j \in Links :
              /\ j # k /\ link[j].from = link[k].from => link'[j] = Left(NoClient(link[j], FALSE))
              /\ link[j].from # link[k].from /\ link[j].from = Peer(link[k].from)
                   => link'[j] = Left(NoServer(link[j], FALSE))
              /\ link[j].from # link[k].from /\ link[j].from # Peer(link[k].from)
                   => link'[j] = Left(link[j])
         /\ link'[k] = [NoClient(link[k], FALSE) EXCEPT !.down = "close"]
<1> DEFINE p == link[k].from
           dead == Dead(p, FALSE)
           rec == [NoClient(link[k], FALSE) EXCEPT !.down = "close"]
<1>1. /\ dead \in [Links -> LinkType]
      /\ \A j \in Links :
              /\ link[j].from = p => dead[j] = Left(NoClient(link[j], FALSE))
              /\ link[j].from # p /\ link[j].from = Peer(p) => dead[j] = Left(NoServer(link[j], FALSE))
              /\ link[j].from # p /\ link[j].from # Peer(p) => dead[j] = Left(link[j])
      /\ \A j \in Links : Apart(dead[j])
  <2>1. FALSE \in BOOLEAN
    OBVIOUS
  <2> QED BY <2>1, DeadLinks
<1> HIDE DEF dead
<1>2. link[k] \in LinkType /\ Apart(link[k])
  BY DEF LinksOK
<1>3. /\ NoClient(link[k], FALSE) \in LinkType /\ NoClient(link[k], FALSE).down = "restart"
      /\ NoClient(link[k], FALSE).server = link[k].server
      /\ NoClient(link[k], FALSE).silent = link[k].silent
  BY <1>2 DEF NoClient, LinkType
<1>4. dead[k] = NoClient(link[k], FALSE)
  BY <1>1, <1>3 DEF Left, Over
<1>5. rec \in LinkType /\ rec.down = "close" /\ Apart(rec)
  BY <1>2, <1>3 DEF Apart, LinkType
<1> DEFINE new == [dead EXCEPT ![k].down = "close"]
<1>6. new[k] = rec /\ \A j \in Links : j # k => new[j] = dead[j]
  BY <1>1, <1>4
<1>7. link' = [j \in Links |-> Left(new[j])]
  BY DEF Restarted, Forget, Left, Over, dead
<1> HIDE DEF new, rec
<1>8. link'[k] = rec
  BY <1>5, <1>6, <1>7 DEF Left, Over
<1>9. \A j \in Links : j # k => link'[j] = Left(dead[j])
  BY <1>6, <1>7
<1>10. \A l : Left(Left(l)) = Left(l)
  BY FreeType DEF Left
<1>11. \A j \in Links : Left(dead[j]) \in LinkType /\ Apart(Left(dead[j]))
  BY <1>1, LeftType, FreeType DEF Left, Apart
<1>12. DOMAIN link' = Links /\ \A j \in Links : link'[j] \in LinkType /\ Apart(link'[j])
  BY <1>5, <1>7, <1>8, <1>9, <1>11
<1>13. LinksOK'
  BY <1>7, <1>12 DEF LinksOK
<1>14. ASSUME NEW j \in Links
       PROVE  /\ j # k /\ link[j].from = p => link'[j] = Left(NoClient(link[j], FALSE))
              /\ link[j].from # p /\ link[j].from = Peer(p) => link'[j] = Left(NoServer(link[j], FALSE))
              /\ link[j].from # p /\ link[j].from # Peer(p) => link'[j] = Left(link[j])
  BY <1>1, <1>9, <1>10
<1> QED BY <1>8, <1>13, <1>14 DEF rec

\* What the end of handleReaderIdle makes of the connection k, when open says that the
\* proxy has a client channel, and of the connections of the same proxy.
ClosedHere(l, open) ==
  [l EXCEPT !.down = "no", !.idle = FALSE, !.server = IF l.idle /\ open THEN "closed" ELSE l.server]
ClosedThere(l) == [l EXCEPT !.client = "closed", !.answer = NoAnswer, !.handling = "no"]

LEMMA ClosedThereType ==
  ASSUME NEW l \in LinkType
  PROVE  ClosedThere(l) \in LinkType /\ (Apart(l) => Apart(ClosedThere(l)))
<1>1. ClosedThere(l) \in LinkType
  BY DEF ClosedThere, LinkType
<1>2. Apart(l) => Apart(ClosedThere(l))
  BY DEF ClosedThere, LinkType, Apart
<1> QED BY <1>1, <1>2

LEMMA CloseLinks ==
  ASSUME LinksOK, NEW k \in Links, DownClose(k)
  PROVE  /\ LinksOK'
         /\ link'[k] = Left(ClosedHere(link[k], channel[Peer(link[k].from)]))
         /\ \A j \in Links : j # k =>
              /\ link[k].idle /\ link[j].from = Peer(link[k].from) => link'[j] = Left(ClosedThere(link[j]))
              /\ ~(link[k].idle /\ link[j].from = Peer(link[k].from)) => link'[j] = Left(link[j])
<1> DEFINE open == channel[Peer(link[k].from)]
           new == [j \in Links |->
             IF j = k THEN ClosedHere(link[k], open)
             ELSE IF link[k].idle /\ link[j].from = Peer(link[k].from) THEN ClosedThere(link[j])
             ELSE link[j]]
<1>1. link' = [j \in Links |-> Left(new[j])]
  BY DEF DownClose, Forget, Left, Over, ClosedHere, ClosedThere
<1>2. \A j \in Links : link[j] \in LinkType /\ Apart(link[j])
  BY DEF LinksOK
<1>3. ClosedHere(link[k], open) \in LinkType /\ Apart(ClosedHere(link[k], open))
  BY <1>2 DEF ClosedHere, LinkType, Apart
<1>4. \A j \in Links : ClosedThere(link[j]) \in LinkType /\ Apart(ClosedThere(link[j]))
  BY <1>2, ClosedThereType
<1>5. \A j \in Links : new[j] \in LinkType /\ Apart(new[j])
  BY <1>2, <1>3, <1>4
<1>6. \A j \in Links : new[j] = 
             IF j = k THEN ClosedHere(link[k], open)
             ELSE IF link[k].idle /\ link[j].from = Peer(link[k].from) THEN ClosedThere(link[j])
             ELSE link[j]
  OBVIOUS
<1> HIDE DEF new
<1>7. \A j \in Links : Left(new[j]) \in LinkType /\ Apart(Left(new[j]))
  BY <1>5, LeftType, FreeType DEF Left, Apart
<1>8. LinksOK'
  BY <1>1, <1>7 DEF LinksOK
<1> QED BY <1>1, <1>6, <1>8

LEMMA TypesDown ==
  ASSUME Types, NEW k \in Links, RemoteHARedisDown(k)
  PROVE  Types'
<1> DEFINE l == link[k]
<1>0. l \in LinkType /\ Apart(l)
  BY DEF Types, LinksOK
<1>1. CASE DownBegin(k)
  <2> DEFINE d == IF haveVirtualIp[Peer(l.from)] THEN "restart" ELSE "del"
             rec == [l EXCEPT !.down = d]
  <2>1. rec \in LinkType /\ Apart(rec)
    BY <1>0, <1>1 DEF LinkType, Apart, DownBegin
  <2>2. Set(k, rec)
    BY <1>1 DEF DownBegin
  <2> HIDE DEF rec
  <2>3. LinksOK'
    BY <2>1, <2>2, LinksSet DEF Types
  <2> QED BY <1>1, <2>3 DEF DownBegin, Types, Flags
<1>2. CASE DownDel(k)
  <2> DEFINE rec == [l EXCEPT !.down = IF Ssh(Peer(l.from)) THEN "add" ELSE "close"]
  <2>1. rec \in LinkType /\ Apart(rec)
    BY <1>0, <1>2 DEF LinkType, Apart, DownDel
  <2>2. Set(k, rec)
    BY <1>2 DEF DownDel
  <2> HIDE DEF rec
  <2>3. LinksOK'
    BY <2>1, <2>2, LinksSet DEF Types
  <2> QED BY <1>2, <2>3 DEF DownDel, Types, Flags, NodeVars
<1>3. CASE DownAdd(k)
  <2> DEFINE rec == [l EXCEPT !.down = "restart"]
  <2>1. rec \in LinkType /\ Apart(rec)
    BY <1>0, <1>3 DEF LinkType, Apart, DownAdd
  <2>2. Set(k, rec)
    BY <1>3 DEF DownAdd
  <2> HIDE DEF rec
  <2>3. LinksOK'
    BY <2>1, <2>2, LinksSet DEF Types
  <2> QED BY <1>3, <2>3 DEF DownAdd, Types, Flags, NodeVars
<1>4. CASE DownRestart(k)
  <2>1. CASE Ssh(Peer(l.from)) /\ remoteNames[Peer(l.from)]
    <3>1. Blank(l.from) /\ Restarted(k) /\ up' = [up EXCEPT ![l.from] = TRUE]
      BY <1>4, <2>1 DEF DownRestart, Restarted
    <3>2. LinksOK'
      BY <1>4, <3>1, RestartLinks DEF Types, DownRestart
    <3> QED BY <1>4, <3>1, <3>2, BlankType DEF DownRestart, Types, Flags
  <2>2. CASE ~(Ssh(Peer(l.from)) /\ remoteNames[Peer(l.from)])
    <3> DEFINE rec == [l EXCEPT !.down = "close"]
    <3>1. rec \in LinkType /\ Apart(rec)
      BY <1>0, <1>4 DEF LinkType, Apart, DownRestart
    <3>2. Set(k, rec) /\ UNCHANGED <<up, NodeVars>>
      BY <1>4, <2>2 DEF DownRestart
    <3> HIDE DEF rec
    <3>3. LinksOK'
      BY <3>1, <3>2, LinksSet DEF Types
    <3> QED BY <1>4, <3>2, <3>3 DEF DownRestart, Types, NodeVars
  <2> QED BY <2>1, <2>2
<1>5. CASE DownClose(k)
  <2>1. LinksOK'
    BY <1>5, CloseLinks DEF Types, DownClose
  <2> QED BY <1>5, <2>1 DEF DownClose, Types, NodeVars
<1> QED BY <1>1, <1>2, <1>3, <1>4, <1>5 DEF RemoteHARedisDown

LEMMA TypesNode ==
  ASSUME Types, NEW n \in Nodes, DoConnect(n) \/ ProcessCrash(n) \/ HostCrash(n) \/ Boot(n)
  PROVE  Types'
<1>1. CASE DoConnect(n)
  <2>1. PICK k \in Links : link' = [link EXCEPT ![k] = Fresh(n)]
    BY <1>1 DEF DoConnect, Fresh
  <2>2. Fresh(n) \in LinkType /\ Apart(Fresh(n))
    BY FreshType
  <2>3. LinksOK'
    BY <2>1, <2>2 DEF Types, LinksOK
  <2> QED BY <1>1, <2>3 DEF DoConnect, Types, Flags
<1>2. CASE ProcessCrash(n)
  <2>1. LinksOK' /\ Blank(n)
    BY <1>2, DeadLinks DEF Types, LinksOK, ProcessCrash
  <2> QED BY <1>2, <2>1, BlankType, FailingType DEF ProcessCrash, Failing, Types, Flags
<1>3. CASE HostCrash(n)
  <2>1. LinksOK' /\ Blank(n)
    BY <1>3, DeadLinks DEF Types, LinksOK, HostCrash
  <2> QED BY <1>3, <2>1, BlankType, FailingType DEF HostCrash, Failing, Types, Flags
<1>4. CASE Boot(n)
  BY <1>4 DEF Boot, Types, LinksOK, Flags, NodeVars
<1> QED BY <1>1, <1>2, <1>3, <1>4

LEMMA TypesBreak ==
  ASSUME Types, NEW k \in Links, LinkBreaks(k) \/ Silence(k)
  PROVE  Types'
<1> DEFINE l == link[k]
<1>0. l \in LinkType /\ Apart(l)
  BY DEF Types, LinksOK
<1>1. CASE LinkBreaks(k)
  <2> DEFINE rec == [l EXCEPT !.client = "closed", !.answer = NoAnswer, !.request = FALSE]
  <2>1. rec \in LinkType /\ Apart(rec)
    BY <1>0 DEF LinkType, Apart
  <2>2. Set(k, rec)
    BY <1>1 DEF LinkBreaks
  <2> HIDE DEF rec
  <2>3. LinksOK'
    BY <2>1, <2>2, LinksSet DEF Types
  <2> QED BY <1>1, <2>3, FailingType DEF LinkBreaks, Failing, Types, NodeVars
<1>2. CASE Silence(k)
  <2> DEFINE rec == [l EXCEPT !.silent = TRUE, !.request = FALSE]
  <2>1. rec \in LinkType /\ Apart(rec)
    BY <1>0 DEF LinkType, Apart
  <2>2. Set(k, rec)
    BY <1>2 DEF Silence
  <2> HIDE DEF rec
  <2>3. LinksOK'
    BY <2>1, <2>2, LinksSet DEF Types
  <2> QED BY <1>2, <2>3, FailingType DEF Silence, Failing, Types, NodeVars
<1> QED BY <1>1, <1>2

LEMMA TypesStep == Types /\ [Next]_vars => Types'
<1> SUFFICES ASSUME Types, [Next]_vars PROVE Types'
  OBVIOUS
<1>1. CASE \E n \in Nodes : DoConnect(n) \/ ProcessCrash(n) \/ HostCrash(n) \/ Boot(n)
  BY <1>1, TypesNode
<1>2. CASE \E k \in Links : ClientStep(k) \/ ServerStep(k) \/ LinkBreaks(k) \/ Silence(k)
  BY <1>2, TypesClient, TypesServer, TypesDown, TypesBreak DEF ServerStep
<1>3. CASE UNCHANGED vars
  BY <1>3 DEF vars, Types, LinksOK
<1> QED BY <1>1, <1>2, <1>3 DEF Next

\* The types, for any number of failures at any time.
THEOREM HeartbeatTypes == Spec => []TypeOK
<1>1. Types => TypeOK
  <2> SUFFICES ASSUME Types PROVE TypeOK
    OBVIOUS
  <2>1. {host, address, up, init, haveVirtualIp, remoteHARedisIsRun, remoteNames, master, channel}
          \subseteq [Nodes -> BOOLEAN]
    BY DEF Types, Flags
  <2>2. \A k \in Links : link[k].down # "no" => link[k].server # "registered"
    BY DEF Types, LinksOK, Apart
  <2> QED BY <2>1, <2>2 DEF Types, LinksOK, LinkType, TypeOK
<1>2. Spec => []Types
  BY TypesInit, TypesStep, PTL DEF Spec
<1> QED BY <1>1, <1>2, PTL

-----------------------------------------------------------------------------
(* What holds of the connections and the machines, whatever fails and when.  *)

\* A connection is asked for AUTH, then answered, then the answer is handled.
Turn(l) ==
  /\ l.request => l.answer = NoAnswer /\ l.handling = "no"
  /\ l.answer # NoAnswer => l.handling = "no"

Shape(l) ==
  /\ Over(l) \/ l.from = NoNode => l = Free
  /\ l.client = "closed" => l.answer = NoAnswer /\ l.handling = "no"
  /\ l.request => l.server = "accepted" /\ l.down = "no"
  /\ Turn(l)

Connected(l) ==
  /\ l.client = "open" => up[l.from] /\ channel[l.from]
  /\ l.handling # "no" => remoteNames[l.from]

Tidy == \A k \in Links : Shape(link[k]) /\ Connected(link[k])

\* A proxy has one connection to the other one at a time.
OneClient ==
  \A j, k \in Links :
    link[j].from = link[k].from /\ link[j].client = "open" /\ link[k].client = "open" => j = k

\* A process that does not run has no end of a connection.
DeadEnds == \A n \in Nodes : ~up[n] => \A k \in Into(n) : link[k].server = "closed" /\ link[k].down = "no"

Machines ==
  \A n \in Nodes :
    /\ up[n] => host[n]
    /\ ~host[n] => ~address[n]
    /\ init[n] => up[n] /\ remoteNames[n] /\ channel[n]
    /\ haveVirtualIp[n] => up[n]

Base == Types /\ Tidy /\ OneClient /\ DeadEnds /\ Machines

LEMMA LinkFacts ==
  ASSUME Types, Tidy, NEW k \in Links
  PROVE  /\ link[k] \in LinkType /\ Apart(link[k]) /\ Shape(link[k]) /\ Connected(link[k])
         /\ \/ link[k] = Free
            \/ /\ link[k].from \in Nodes /\ link[k].from # NoNode /\ ~Over(link[k])
               /\ Peer(link[k].from) \in Nodes /\ Peer(link[k].from) # link[k].from
         /\ Left(link[k]) = link[k]
<1>1. link[k] \in LinkType /\ Apart(link[k]) /\ Shape(link[k]) /\ Connected(link[k])
  BY DEF Types, LinksOK, Tidy
<1>2. link[k].from \in Nodes \cup {NoNode}
  BY <1>1 DEF LinkType
<1> QED BY <1>1, <1>2, Hosts DEF Shape, Left

\* One connection changes, the others stay as they are.
LEMMA SetTidy ==
  ASSUME Types, Tidy, NEW k \in Links, NEW rec \in LinkType, Set(k, rec)
  PROVE  link'[k] = Left(rec) /\ \A j \in Links : j # k => link'[j] = link[j]
BY SetLink, LinkFacts DEF Types, LinksOK

\* k is a connection somebody has, and it becomes rec.
Becomes(k, rec) ==
  /\ link[k] \in LinkType /\ rec \in LinkType /\ Apart(link[k])
  /\ link[k].from \in Nodes /\ link[k].from # NoNode
  /\ Peer(link[k].from) \in Nodes /\ Peer(link[k].from) # link[k].from
  /\ Shape(link[k]) /\ Connected(link[k])
  /\ link'[k] = Left(rec)
  /\ \A j \in Links : j # k => link'[j] = link[j]

LEMMA BecomesSet ==
  ASSUME Base, NEW k \in Links, NEW rec \in LinkType, Set(k, rec), link[k] # Free
  PROVE  Becomes(k, rec)
BY SetTidy, LinkFacts DEF Becomes, Base

LEMMA AuthSuccessLink ==
  ASSUME Base, NEW k \in Links, AuthSuccess(k)
  PROVE  /\ Becomes(k, [link[k] EXCEPT
              !.answer = NoAnswer,
              !.role = ~init[link[k].from] /\ LocalRole(link[k].from, link[k].answer),
              !.handling = IF init[link[k].from] THEN "no"
                    ELSE IF ~link[k].answer.haveVirtualIp /\ link[k].from = MasterNode THEN "add"
                    ELSE "roles"])
         /\ link[k].client = "open"
<1> DEFINE l == link[k]
           role == ~init[l.from] /\ LocalRole(l.from, l.answer)
           handling == IF init[l.from] THEN "no"
                       ELSE IF ~l.answer.haveVirtualIp /\ l.from = MasterNode THEN "add" ELSE "roles"
           rec == [l EXCEPT !.answer = NoAnswer, !.role = role, !.handling = handling]
<1>1. l \in LinkType
  BY LinkFacts DEF Base
<1>2. role \in BOOLEAN /\ handling \in {"no", "add", "roles"}
  OBVIOUS
<1>3. Set(k, rec) /\ l.client = "open"
  BY DEF AuthSuccess
<1> HIDE DEF role, handling
<1>4. rec \in LinkType
  BY <1>1, <1>2 DEF LinkType
<1>5. Becomes(k, rec)
  BY <1>3, <1>4, BecomesSet, FreeType
<1> QED BY <1>3, <1>5 DEF role, handling

LEMMA HandlingLink ==
  ASSUME Base, NEW k \in Links, link[k].handling # "no", NEW h \in {"no", "flag", "roles"},
         NEW role \in BOOLEAN, Set(k, [link[k] EXCEPT !.handling = h, !.role = role])
  PROVE  /\ Becomes(k, [link[k] EXCEPT !.handling = h, !.role = role])
         /\ link[k].client = "open"
<1> DEFINE rec == [link[k] EXCEPT !.handling = h, !.role = role]
<1>1. link[k] \in LinkType /\ Shape(link[k])
  BY LinkFacts DEF Base
<1>2. rec \in LinkType /\ Set(k, rec) /\ link[k] # Free
  BY <1>1, FreeType DEF LinkType
<1> HIDE DEF rec
<1>3. Becomes(k, rec)
  BY <1>2, BecomesSet
<1>4. link[k].client = "open"
  BY <1>1 DEF LinkType, Shape
<1> QED BY <1>3, <1>4 DEF rec

LEMMA InitAddLink ==
  ASSUME Base, NEW k \in Links, InitAdd(k)
  PROVE  /\ Becomes(k, [link[k] EXCEPT !.handling = "flag", !.role = link[k].role])
         /\ link[k].client = "open"
<1>1. link[k].role \in BOOLEAN /\ [link[k] EXCEPT !.handling = "flag", !.role = link[k].role] = [link[k] EXCEPT !.handling = "flag"]
  BY LinkFacts DEF Base, LinkType
<1> QED BY <1>1, HandlingLink DEF InitAdd

LEMMA InitFlagLink ==
  ASSUME Base, NEW k \in Links, InitFlag(k)
  PROVE  /\ Becomes(k, [link[k] EXCEPT !.handling = "roles", !.role = link[k].role])
         /\ link[k].client = "open"
<1>1. link[k].role \in BOOLEAN /\ [link[k] EXCEPT !.handling = "roles", !.role = link[k].role] = [link[k] EXCEPT !.handling = "roles"]
  BY LinkFacts DEF Base, LinkType
<1> QED BY <1>1, HandlingLink DEF InitFlag

LEMMA InitRolesLink ==
  ASSUME Base, NEW k \in Links, InitRoles(k)
  PROVE  /\ Becomes(k, [link[k] EXCEPT !.handling = "no", !.role = FALSE])
         /\ link[k].client = "open"
<1>1. FALSE \in BOOLEAN /\ link[k].handling # "no" /\ Set(k, [link[k] EXCEPT !.handling = "no", !.role = FALSE])
  BY DEF InitRoles
<1> QED BY <1>1, HandlingLink

LEMMA ClientInactiveLink ==
  ASSUME Base, NEW k \in Links, ClientInactive(k)
  PROVE  Becomes(k, [link[k] EXCEPT !.client = "closed", !.answer = NoAnswer])
<1> DEFINE rec == [link[k] EXCEPT !.client = "closed", !.answer = NoAnswer]
<1>1. link[k] \in LinkType
  BY LinkFacts DEF Base
<1>2. rec \in LinkType /\ Set(k, rec) /\ link[k] # Free
  BY <1>1, FreeType DEF LinkType, ClientInactive
<1> HIDE DEF rec
<1>3. Becomes(k, rec)
  BY <1>2, BecomesSet
<1> QED BY <1>3 DEF rec

LEMMA ServerAuthLink ==
  ASSUME Base, NEW k \in Links, ServerAuth(k)
  PROVE  \E answer \in [haveVirtualIp : BOOLEAN, master : BOOLEAN] \cup {NoAnswer} :
           /\ Becomes(k, [link[k] EXCEPT !.server = "registered", !.request = FALSE, !.answer = answer])
           /\ link[k].client = "open" =>
                /\ answer \in [haveVirtualIp : BOOLEAN, master : BOOLEAN]
                /\ answer.haveVirtualIp = haveVirtualIp[Peer(link[k].from)]
                /\ answer.master = master[Peer(link[k].from)]
           /\ link[k].client = "closed" => answer = NoAnswer
<1> DEFINE l == link[k]
           n == Peer(l.from)
           snapshot == [haveVirtualIp |-> haveVirtualIp[n], master |-> master[n]]
           answer == IF l.client = "open" THEN snapshot ELSE NoAnswer
           rec == [l EXCEPT !.server = "registered", !.request = FALSE, !.answer = answer]
<1>1. l \in LinkType
  BY LinkFacts DEF Base
<1>2. /\ snapshot \in [haveVirtualIp : BOOLEAN, master : BOOLEAN]
      /\ snapshot.haveVirtualIp = haveVirtualIp[n] /\ snapshot.master = master[n]
  BY PeerType DEF Base, Types, Flags
<1>3. Set(k, rec) /\ link[k] # Free
  BY FreeType DEF ServerAuth
<1> HIDE DEF snapshot
<1>4. answer \in [haveVirtualIp : BOOLEAN, master : BOOLEAN] \cup {NoAnswer}
  BY <1>2
<1>5. /\ l.client = "open" => /\ answer \in [haveVirtualIp : BOOLEAN, master : BOOLEAN]
                /\ answer.haveVirtualIp = haveVirtualIp[n] /\ answer.master = master[n]
      /\ l.client = "closed" => answer = NoAnswer
  BY <1>2
<1> HIDE DEF answer
<1>6. rec \in LinkType
  BY <1>1, <1>4 DEF LinkType
<1> HIDE DEF rec
<1>7. Becomes(k, rec)
  BY <1>3, <1>6, BecomesSet
<1> QED BY <1>4, <1>5, <1>7 DEF rec

LEMMA ReaderIdleLink ==
  ASSUME Base, NEW k \in Links, ReaderIdle(k)
  PROVE  Becomes(k, [link[k] EXCEPT !.server = "accepted", !.down = "begin", !.idle = TRUE])
<1> DEFINE rec == [link[k] EXCEPT !.server = "accepted", !.down = "begin", !.idle = TRUE]
<1>1. link[k] \in LinkType
  BY LinkFacts DEF Base
<1>2. rec \in LinkType /\ Set(k, rec) /\ link[k] # Free
  BY <1>1, FreeType DEF LinkType, ReaderIdle
<1> HIDE DEF rec
<1>3. Becomes(k, rec)
  BY <1>2, BecomesSet
<1> QED BY <1>3 DEF rec

LEMMA ServerInactiveLink ==
  ASSUME Base, NEW k \in Links, ServerInactive(k)
  PROVE  Becomes(k, [link[k] EXCEPT !.server = "closed",
                       !.down = IF link[k].server = "registered" THEN "begin" ELSE "no"])
<1> DEFINE rec == [link[k] EXCEPT !.server = "closed",
                       !.down = IF link[k].server = "registered" THEN "begin" ELSE "no"]
<1>1. link[k] \in LinkType
  BY LinkFacts DEF Base
<1>2. rec \in LinkType /\ Set(k, rec) /\ link[k] # Free
  BY <1>1, FreeType DEF LinkType, ServerInactive
<1> HIDE DEF rec
<1>3. Becomes(k, rec)
  BY <1>2, BecomesSet
<1> QED BY <1>3 DEF rec

LEMMA DownLink ==
  ASSUME Base, NEW k \in Links, link[k].down # "no", NEW d \in {"del", "add", "restart", "close"},
         Set(k, [link[k] EXCEPT !.down = d])
  PROVE  /\ Becomes(k, [link[k] EXCEPT !.down = d])
         /\ up[Peer(link[k].from)]
<1> DEFINE rec == [link[k] EXCEPT !.down = d]
<1>1. link[k] \in LinkType
  BY LinkFacts DEF Base
<1>2. rec \in LinkType /\ link[k] # Free
  BY <1>1, FreeType DEF LinkType
<1> HIDE DEF rec
<1>3. Becomes(k, rec)
  BY <1>2, BecomesSet DEF rec
<1>4. k \in Into(Peer(link[k].from))
  BY <1>3, Hosts DEF Becomes, Into, From
<1>5. up[Peer(link[k].from)]
  BY <1>3, <1>4 DEF Base, DeadEnds, Becomes
<1> QED BY <1>3, <1>5 DEF rec

LEMMA LinkBreaksLink ==
  ASSUME Base, NEW k \in Links, LinkBreaks(k)
  PROVE  Becomes(k, [link[k] EXCEPT !.client = "closed", !.answer = NoAnswer, !.request = FALSE])
<1> DEFINE rec == [link[k] EXCEPT !.client = "closed", !.answer = NoAnswer, !.request = FALSE]
<1>1. link[k] \in LinkType
  BY LinkFacts DEF Base
<1>2. rec \in LinkType /\ Set(k, rec) /\ link[k] # Free
  BY <1>1, FreeType DEF LinkType, LinkBreaks, Open
<1> HIDE DEF rec
<1>3. Becomes(k, rec)
  BY <1>2, BecomesSet
<1> QED BY <1>3 DEF rec

LEMMA SilenceLink ==
  ASSUME Base, NEW k \in Links, Silence(k)
  PROVE  Becomes(k, [link[k] EXCEPT !.silent = TRUE, !.request = FALSE])
<1> DEFINE rec == [link[k] EXCEPT !.silent = TRUE, !.request = FALSE]
<1>1. link[k] \in LinkType
  BY LinkFacts DEF Base
<1>2. rec \in LinkType /\ Set(k, rec) /\ link[k] # Free
  BY <1>1, FreeType DEF LinkType, Silence, Open
<1> HIDE DEF rec
<1>3. Becomes(k, rec)
  BY <1>2, BecomesSet
<1> QED BY <1>3 DEF rec

LEMMA BaseSet ==
  ASSUME Base, NEW k \in Links, NEW rec, Becomes(k, rec), rec.from = link[k].from,
         rec.server # "closed" \/ rec.down # "no" => link[k].server # "closed" \/ link[k].down # "no",
         rec.client = "closed" => rec.answer = NoAnswer /\ rec.handling = "no",
         rec.request => rec.server = "accepted" /\ rec.down = "no", Turn(rec),
         rec.client = "open" => link[k].client = "open",
         rec.handling # "no" => remoteNames'[rec.from],
         up' = up, channel' = channel, \A n \in Nodes : remoteNames[n] => remoteNames'[n]
  PROVE  Tidy' /\ OneClient' /\ DeadEnds'
<1>1. link'[k] = Left(rec) /\ \A j \in Links : j # k => link'[j] = link[j]
  BY DEF Becomes
<1>0. link[k].from # NoNode /\ Types /\ Tidy /\ OneClient /\ DeadEnds
  BY DEF Becomes, Base
<1>2. ASSUME NEW j \in Links PROVE (Shape(link[j]) /\ Connected(link[j]))'
  <2>1. CASE j = k
    <3>1. CASE Over(rec)
      <4>1. link'[j] = Free
        BY <1>1, <2>1, <3>1 DEF Left
      <4> QED BY <4>1, FreeType DEF Shape, Turn, Connected
    <3>2. CASE ~Over(rec)
      <4>1. link'[j] = rec
        BY <1>1, <2>1, <3>2 DEF Left
      <4>2. Connected(link[k])
        BY DEF Becomes
      <4> QED BY <1>0, <3>2, <4>1, <4>2 DEF Shape, Connected
    <3> QED BY <3>1, <3>2
  <2>2. CASE j # k
    <3>1. link'[j] = link[j] /\ Shape(link[j]) /\ Connected(link[j])
      BY <1>0, <1>1, <2>2 DEF Tidy
    <3>2. link[j] = Free \/ link[j].from \in Nodes
      BY <1>0, LinkFacts
    <3>3. CASE link[j] = Free
      BY <3>1, <3>3, FreeType DEF Shape, Turn, Connected
    <3>4. CASE link[j].from \in Nodes
      BY <3>1, <3>4 DEF Shape, Connected
    <3> QED BY <3>2, <3>3, <3>4
  <2> QED BY <2>1, <2>2
<1>3. \A j \in Links : link'[j].client = "open" => link[j].client = "open" /\ link'[j].from = link[j].from
  <2>1. Left(rec).client = "open" => Left(rec) = rec
    BY FreeType DEF Left
  <2> QED BY <1>1, <2>1
<1>4. OneClient'
  <2>1. SUFFICES ASSUME NEW i \in Links, NEW j \in Links, link'[i].from = link'[j].from,
                        link'[i].client = "open", link'[j].client = "open"
                 PROVE  i = j
    BY DEF OneClient
  <2>2. link[i].from = link[j].from /\ link[i].client = "open" /\ link[j].client = "open"
    BY <1>3, <2>1
  <2> QED BY <1>0, <2>2 DEF OneClient
<1>5. DeadEnds'
  <2>1. Left(rec) = rec \/ Left(rec) = Free
    BY DEF Left
  <2>2. SUFFICES ASSUME NEW n \in Nodes, ~up[n], NEW j \in Links, link'[j].from = Peer(n)
                 PROVE  link'[j].server = "closed" /\ link'[j].down = "no"
    BY DEF DeadEnds, Into, From
  <2>3. CASE j # k
    BY <1>0, <1>1, <2>2, <2>3 DEF DeadEnds, Into, From
  <2>4. CASE j = k
    <3>1. CASE Left(rec) = Free
      BY <1>1, <2>4, <3>1, FreeType
    <3>2. CASE Left(rec) = rec
      BY <1>0, <1>1, <2>2, <2>4, <3>2 DEF DeadEnds, Into, From
    <3> QED BY <2>1, <3>1, <3>2
  <2> QED BY <2>3, <2>4
<1> QED BY <1>2, <1>4, <1>5 DEF Tidy

LEMMA BaseInit == Init => Base
<1> SUFFICES ASSUME Init PROVE Base
  OBVIOUS
<1>1. Types
  BY TypesInit
<1>2. \A k \in Links : link[k] = Free
  BY DEF Init
<1>3. Tidy
  BY <1>2, FreeType DEF Tidy, Shape, Turn, Connected
<1>4. OneClient
  BY <1>2, FreeType DEF OneClient
<1>5. DeadEnds
  BY <1>2, FreeType DEF DeadEnds, Into, From
<1>6. Machines
  BY DEF Init, Machines
<1> QED BY <1>1, <1>3, <1>4, <1>5, <1>6 DEF Base

LEMMA BaseClient ==
  ASSUME Base, Types', NEW k \in Links, ClientStep(k)
  PROVE  Base'
<1> DEFINE l == link[k]
<1>0. Types /\ Machines
  BY DEF Base
<1>1. CASE AuthSuccess(k)
  <2> DEFINE rec == [l EXCEPT
              !.answer = NoAnswer,
              !.role = ~init[l.from] /\ LocalRole(l.from, l.answer),
              !.handling = IF init[l.from] THEN "no"
                    ELSE IF ~l.answer.haveVirtualIp /\ l.from = MasterNode THEN "add"
                    ELSE "roles"]
  <2>1. Becomes(k, rec) /\ l.client = "open"
    BY <1>1, AuthSuccessLink
  <2>2. /\ rec.from = l.from /\ rec.server = l.server /\ rec.down = l.down /\ rec.answer = NoAnswer
        /\ rec.client = l.client /\ rec.request = l.request
    BY <2>1 DEF Becomes, LinkType
  <2>3. /\ remoteNames'[l.from] /\ UNCHANGED <<up, channel, host, address, init, haveVirtualIp>>
        /\ \A n \in Nodes : remoteNames[n] => remoteNames'[n]
    BY <1>0, <1>1, <2>1 DEF AuthSuccess, Becomes, Types, Flags
  <2>4. (l.request => l.server = "accepted" /\ l.down = "no") /\ Turn(rec)
    BY <1>1, <2>1, <2>2 DEF Becomes, Shape, Turn, AuthSuccess
  <2> HIDE DEF rec
  <2>5. Tidy' /\ OneClient' /\ DeadEnds'
    BY <2>1, <2>2, <2>3, <2>4, BaseSet
  <2>6. Machines'
    BY <1>0, <2>3 DEF Machines
  <2> QED BY <2>5, <2>6 DEF Base
<1>2. CASE InitAdd(k) \/ InitFlag(k) \/ InitRoles(k)
  <2>1. PICK h \in {"no", "flag", "roles"}, role \in BOOLEAN :
          Becomes(k, [l EXCEPT !.handling = h, !.role = role])
    <3>1. l.role \in BOOLEAN
      BY LinkFacts DEF Base, LinkType
    <3>2. CASE InitAdd(k)
      BY <3>1, <3>2, InitAddLink
    <3>3. CASE InitFlag(k)
      BY <3>1, <3>3, InitFlagLink
    <3>4. CASE InitRoles(k)
      BY <3>4, InitRolesLink
    <3> QED BY <1>2, <3>2, <3>3, <3>4
  <2> DEFINE rec == [l EXCEPT !.handling = h, !.role = role]
  <2>2. /\ rec.from = l.from /\ rec.server = l.server /\ rec.down = l.down /\ rec.answer = l.answer
        /\ rec.client = l.client /\ rec.request = l.request
    BY <2>1 DEF Becomes, LinkType
  <2>3. /\ l.client = "open" /\ l.handling # "no" 
        /\ UNCHANGED <<up, channel, host, remoteNames>>
    BY <1>2, InitAddLink, InitFlagLink, InitRolesLink DEF InitAdd, InitFlag, InitRoles, NodeVars
  <2>4. /\ l.request => l.server = "accepted" /\ l.down = "no"
        /\ up[l.from] /\ channel[l.from] /\ remoteNames[l.from] /\ l.from \in Nodes
        /\ Turn(rec)
    BY <2>1, <2>2, <2>3 DEF Becomes, Shape, Turn, Connected
  <2>5. Becomes(k, rec)
    BY <2>1
  <2> HIDE DEF rec
  <2>6. Tidy' /\ OneClient' /\ DeadEnds'
    BY <2>2, <2>3, <2>4, <2>5, BaseSet
  <2>7. Machines'
    BY <1>0, <1>2, <2>3, <2>4 DEF Machines, InitAdd, InitFlag, InitRoles, NodeVars, Types, Flags
  <2> QED BY SMTT(30), <2>6, <2>7 DEF Base
<1>3. CASE ClientInactive(k)
  <2> DEFINE rec == [l EXCEPT !.client = "closed", !.answer = NoAnswer]
  <2>1. Becomes(k, rec)
    BY <1>3, ClientInactiveLink
  <2>2. /\ rec.from = l.from /\ rec.server = l.server /\ rec.down = l.down /\ rec.answer = NoAnswer
        /\ rec.client = "closed" /\ rec.request = l.request /\ rec.handling = l.handling
    BY <2>1 DEF Becomes, LinkType
  <2>3. /\ l.handling = "no" /\ UNCHANGED <<up, channel, host, address, init, haveVirtualIp, remoteNames>>
    BY <1>3 DEF ClientInactive, NodeVars
  <2>4. (l.request => l.server = "accepted" /\ l.down = "no") /\ Turn(rec)
    BY <2>1, <2>2 DEF Becomes, Shape, Turn
  <2> HIDE DEF rec
  <2>5. Tidy' /\ OneClient' /\ DeadEnds'
    BY <2>1, <2>2, <2>3, <2>4, BaseSet
  <2>6. Machines'
    BY <1>0, <2>3 DEF Machines
  <2> QED BY <2>5, <2>6 DEF Base
<1> QED BY <1>1, <1>2, <1>3 DEF ClientStep

LEMMA BaseServer ==
  ASSUME Base, Types', NEW k \in Links, ServerAuth(k) \/ ReaderIdle(k) \/ ServerInactive(k)
  PROVE  Base'
<1> DEFINE l == link[k]
<1>0. Types /\ Machines
  BY DEF Base
<1>1. PICK rec : /\ Becomes(k, rec) /\ rec.from = l.from /\ rec.client = l.client
                 /\ rec.handling = l.handling
                 /\ rec.request => rec.server = "accepted" /\ rec.down = "no"
                 /\ rec.client = "closed" => rec.answer = NoAnswer
                 /\ l.server # "closed" /\ Turn(rec)
  <2>1. CASE ServerAuth(k)
    <3>1. PICK answer \in [haveVirtualIp : BOOLEAN, master : BOOLEAN] \cup {NoAnswer} :
           /\ Becomes(k, [l EXCEPT !.server = "registered", !.request = FALSE, !.answer = answer])
           /\ l.client = "closed" => answer = NoAnswer
      BY <2>1, ServerAuthLink
    <3> DEFINE rec == [l EXCEPT !.server = "registered", !.request = FALSE, !.answer = answer]
    <3>2. /\ rec.from = l.from /\ rec.client = l.client /\ rec.handling = l.handling
          /\ ~rec.request /\ rec.answer = answer
      BY <3>1 DEF Becomes, LinkType
    <3>3. Becomes(k, rec) /\ l.server # "closed"
      BY <2>1, <3>1 DEF ServerAuth
    <3>4. Turn(rec)
      BY <2>1, <3>1, <3>2, <3>3 DEF Becomes, Shape, Turn, ServerAuth
    <3> HIDE DEF rec
    <3> QED BY <3>1, <3>2, <3>3, <3>4
  <2>2. CASE ReaderIdle(k)
    <3> DEFINE rec == [l EXCEPT !.server = "accepted", !.down = "begin", !.idle = TRUE]
    <3>1. Becomes(k, rec) /\ l.server = "registered"
      BY <2>2, ReaderIdleLink DEF ReaderIdle
    <3>2. /\ rec.from = l.from /\ rec.client = l.client /\ rec.handling = l.handling
          /\ rec.request = l.request /\ rec.answer = l.answer /\ rec.server = "accepted"
      BY <3>1 DEF Becomes, LinkType
    <3>3. (l.client = "closed" => l.answer = NoAnswer) /\ ~l.request
      BY <3>1 DEF Becomes, Shape
    <3>4. Turn(rec)
      BY <3>1, <3>2, <3>3 DEF Becomes, Shape, Turn
    <3> HIDE DEF rec
    <3> QED BY <3>1, <3>2, <3>3, <3>4
  <2>3. CASE ServerInactive(k)
    <3> DEFINE rec == [l EXCEPT !.server = "closed",
                       !.down = IF l.server = "registered" THEN "begin" ELSE "no"]
    <3>1. Becomes(k, rec) /\ l.server # "closed" /\ ~l.request
      BY <2>3, ServerInactiveLink DEF ServerInactive
    <3>2. /\ rec.from = l.from /\ rec.client = l.client /\ rec.handling = l.handling
          /\ rec.request = l.request /\ rec.answer = l.answer
      BY <3>1 DEF Becomes, LinkType
    <3>3. l.client = "closed" => l.answer = NoAnswer
      BY <3>1 DEF Becomes, Shape
    <3>4. Turn(rec)
      BY <3>1, <3>2, <3>3 DEF Becomes, Shape, Turn
    <3> HIDE DEF rec
    <3> QED BY <3>1, <3>2, <3>3, <3>4
  <2> QED BY <2>1, <2>2, <2>3
<1>2. UNCHANGED <<up, channel, host, address, init, haveVirtualIp, remoteNames>>
  BY DEF ServerAuth, ReaderIdle, ServerInactive, NodeVars
<1>3. /\ l.client = "closed" => l.handling = "no"
      /\ l.handling # "no" => remoteNames[l.from]
      /\ l.request => l.server = "accepted" /\ l.down = "no"
  BY <1>1 DEF Becomes, Shape, Connected
<1>4. Tidy' /\ OneClient' /\ DeadEnds'
  <2>1. Becomes(k, rec) /\ rec.from = link[k].from /\ link[k].server # "closed"
    BY <1>1
  <2>3. rec.client = "closed" => rec.answer = NoAnswer /\ rec.handling = "no"
    BY <1>1, <1>3
  <2>4. rec.request => rec.server = "accepted" /\ rec.down = "no"
    BY <1>1
  <2>5. rec.client = "open" => link[k].client = "open"
    BY <1>1
  <2>6. rec.handling # "no" => remoteNames'[rec.from]
    BY <1>1, <1>2, <1>3
  <2>2. up' = up /\ channel' = channel /\ \A n \in Nodes : remoteNames[n] => remoteNames'[n]
    BY <1>2
  <2> QED BY <1>1, <2>1, <2>2, <2>3, <2>4, <2>5, <2>6, BaseSet
<1>5. Machines'
  BY <1>0, <1>2 DEF Machines
<1> QED BY <1>4, <1>5 DEF Base

\* Does ssh reach the other host, for the thread of the connection k?
Reaches(k) == Ssh(Peer(link[k].from)) /\ remoteNames[Peer(link[k].from)]

LEMMA BaseDown ==
  ASSUME Base, Types', NEW k \in Links,
         DownBegin(k) \/ DownDel(k) \/ DownAdd(k) \/ (DownRestart(k) /\ ~Reaches(k))
  PROVE  Base'
<1> DEFINE l == link[k]
<1>0. Types /\ Machines
  BY DEF Base
<1>1. PICK d \in {"del", "add", "restart", "close"} : Set(k, [l EXCEPT !.down = d]) /\ l.down # "no"
  <2>1. CASE DownBegin(k)
    BY <2>1 DEF DownBegin
  <2>2. CASE DownDel(k)
    BY <2>2 DEF DownDel
  <2>3. CASE DownAdd(k)
    BY <2>3 DEF DownAdd
  <2>4. CASE DownRestart(k) /\ ~Reaches(k)
    BY <2>4 DEF DownRestart, Reaches
  <2> QED BY <2>1, <2>2, <2>3, <2>4
<1> DEFINE rec == [l EXCEPT !.down = d]
<1>2. Becomes(k, rec) /\ up[Peer(l.from)]
  BY <1>1, DownLink
<1>3. /\ rec.from = l.from /\ rec.server = l.server /\ rec.client = l.client /\ rec.answer = l.answer
      /\ rec.handling = l.handling /\ rec.request = l.request
  BY <1>1, <1>2 DEF Becomes, LinkType
<1>4. /\ l.client = "closed" => l.answer = NoAnswer /\ l.handling = "no"
      /\ l.handling # "no" => remoteNames[l.from]
      /\ l.request => l.server = "accepted" /\ l.down = "no"
  BY <1>2 DEF Becomes, Shape, Connected
<1>8. Turn(rec)
  BY <1>2, <1>3 DEF Becomes, Shape, Turn
<1>5. UNCHANGED <<up, channel, host, init, remoteNames>>
  BY DEF DownBegin, DownDel, DownAdd, DownRestart, Reaches, NodeVars
<1> HIDE DEF rec
<1>6. Tidy' /\ OneClient' /\ DeadEnds'
  <2>1. rec.handling # "no" => remoteNames'[rec.from]
    BY <1>3, <1>4, <1>5
  <2>2. up' = up /\ channel' = channel /\ \A n \in Nodes : remoteNames[n] => remoteNames'[n]
    BY <1>5
  <2> QED BY <1>1, <1>2, <1>3, <1>4, <1>8, <2>1, <2>2, BaseSet
<1>7. Machines'
  <2> DEFINE n == Peer(l.from)
  <2>1. n \in Nodes /\ up[n] /\ host[n]
    BY <1>0, <1>2 DEF Becomes, Machines
  <2>2. \A m \in Nodes : haveVirtualIp'[m] => haveVirtualIp[m] \/ m = n
    <3>1. CASE DownBegin(k)
      BY <1>0, <3>1 DEF DownBegin, Types, Flags
    <3>2. CASE UNCHANGED haveVirtualIp
      BY <3>2
    <3> QED BY <3>1, <3>2 DEF DownDel, DownAdd, DownRestart, Reaches, NodeVars
  <2>3. \A m \in Nodes : address'[m] => address[m] \/ m = n
    <3>1. CASE DownDel(k)
      BY <1>0, <3>1 DEF DownDel, Types, Flags
    <3>2. CASE DownAdd(k)
      BY <1>0, <3>2 DEF DownAdd, Types, Flags
    <3>3. CASE UNCHANGED address
      BY <3>3
    <3> QED BY <3>1, <3>2, <3>3 DEF DownBegin, DownRestart
  <2> HIDE DEF n
  <2> QED BY <1>0, <1>5, <2>1, <2>2, <2>3 DEF Machines
<1> QED BY <1>6, <1>7 DEF Base

LEMMA BaseBreak ==
  ASSUME Base, Types', NEW k \in Links, LinkBreaks(k) \/ Silence(k)
  PROVE  Base'
<1> DEFINE l == link[k]
<1>0. Types /\ Machines
  BY DEF Base
<1>1. UNCHANGED <<up, channel, host, address, init, haveVirtualIp, remoteNames>> /\ l.server # "closed"
  BY DEF LinkBreaks, Silence, NodeVars, Open
<1>2. Tidy' /\ OneClient' /\ DeadEnds'
  <2>1. CASE LinkBreaks(k)
    <3> DEFINE rec == [l EXCEPT !.client = "closed", !.answer = NoAnswer, !.request = FALSE]
    <3>1. Becomes(k, rec) /\ l.handling = "no"
      BY <2>1, LinkBreaksLink DEF LinkBreaks
    <3>2. /\ rec.from = l.from /\ rec.client = "closed" /\ rec.handling = l.handling
          /\ rec.answer = NoAnswer /\ ~rec.request
      BY <3>1 DEF Becomes, LinkType
    <3>3. Turn(rec)
      BY <3>1, <3>2 DEF Becomes, Shape, Turn
    <3> HIDE DEF rec
    <3> QED BY <1>1, <3>1, <3>2, <3>3, BaseSet
  <2>2. CASE Silence(k)
    <3> DEFINE rec == [l EXCEPT !.silent = TRUE, !.request = FALSE]
    <3>1. Becomes(k, rec)
      BY <2>2, SilenceLink
    <3>2. /\ rec.from = l.from /\ rec.client = l.client /\ rec.handling = l.handling
          /\ rec.answer = l.answer /\ ~rec.request
      BY <3>1 DEF Becomes, LinkType
    <3>3. /\ l.client = "closed" => l.answer = NoAnswer /\ l.handling = "no"
          /\ l.handling # "no" => remoteNames'[l.from]
      BY <1>1, <3>1 DEF Becomes, Shape, Connected
    <3>4. Turn(rec)
      BY <3>1, <3>2 DEF Becomes, Shape, Turn
    <3> HIDE DEF rec
    <3> QED BY <1>1, <3>1, <3>2, <3>3, <3>4, BaseSet
  <2> QED BY <2>1, <2>2
<1>3. Machines'
  BY <1>0, <1>1 DEF Machines
<1> QED BY <1>2, <1>3 DEF Base

LEMMA NoClientFields ==
  ASSUME NEW l \in LinkType, NEW b \in BOOLEAN
  PROVE  /\ NoClient(l, b) \in LinkType /\ NoClient(l, b).from = l.from
         /\ NoClient(l, b).client = "closed" /\ NoClient(l, b).answer = NoAnswer
         /\ NoClient(l, b).handling = "no" /\ NoClient(l, b).server = l.server
         /\ NoClient(l, b).request = l.request /\ NoClient(l, b).down = l.down
         /\ NoClient(l, b).silent = (l.silent \/ b) /\ NoClient(l, b).idle = l.idle
         /\ NoClient(l, b).role = l.role
<1>1. NoClient(l, b) \in LinkType
  BY EndsType
<1> QED BY <1>1 DEF NoClient, LinkType

LEMMA NoServerFields ==
  ASSUME NEW l \in LinkType, NEW b \in BOOLEAN
  PROVE  /\ NoServer(l, b) \in LinkType /\ NoServer(l, b).from = l.from
         /\ NoServer(l, b).server = "closed" /\ ~NoServer(l, b).request
         /\ NoServer(l, b).down = "no" /\ ~NoServer(l, b).idle
         /\ NoServer(l, b).client = l.client /\ NoServer(l, b).answer = l.answer
         /\ NoServer(l, b).handling = l.handling /\ NoServer(l, b).role = l.role
         /\ NoServer(l, b).silent = (l.silent \/ b)
<1>1. NoServer(l, b) \in LinkType
  BY EndsType
<1> QED BY <1>1 DEF NoServer, LinkType

\* Each connection becomes one of the same proxy with no more at either end, or Free.
Fades(j) ==
  \/ link'[j] = Free
  \/ /\ link'[j].from = link[j].from /\ link[j].from # NoNode /\ ~Over(link'[j])
     /\ link'[j].client = "open" => link[j].client = "open"
     /\ link'[j].handling # "no" => link[j].handling # "no"
     /\ link'[j].client = "closed" => link'[j].answer = NoAnswer /\ link'[j].handling = "no"
     /\ link'[j].request => link'[j].server = "accepted" /\ link'[j].down = "no"
     /\ Turn(link'[j])
     /\ link'[j].server # "closed" \/ link'[j].down # "no" => link[j].server # "closed" \/ link[j].down # "no"

LEMMA FadesLeft ==
  ASSUME Base, NEW j \in Links, NEW rec \in LinkType, link'[j] = Left(rec), rec.from = link[j].from,
         rec.client = "open" => link[j].client = "open",
         rec.handling # "no" => link[j].handling # "no",
         rec.client = "closed" => rec.answer = NoAnswer /\ rec.handling = "no",
         rec.request => rec.server = "accepted" /\ rec.down = "no", Turn(rec),
         rec.server # "closed" \/ rec.down # "no" => link[j].server # "closed" \/ link[j].down # "no"
  PROVE  Fades(j)
<1>1. CASE Over(rec)
  BY <1>1 DEF Left, Fades
<1>2. CASE ~Over(rec)
  <2>1. link'[j] = rec
    BY <1>2 DEF Left
  <2>2. link[j] \in LinkType /\ (link[j].from = NoNode => link[j] = Free)
    BY LinkFacts, Hosts DEF Base
  <2>3. link[j].from # NoNode
    <3>1. rec.client = "open" \/ rec.server # "closed" \/ rec.down # "no" \/ rec.handling # "no"
      BY <1>2 DEF Over, LinkType
    <3>2. CASE rec.client = "open" \/ rec.handling # "no"
      BY <2>2, <3>2, FreeType
    <3>3. CASE rec.server # "closed" \/ rec.down # "no"
      BY <2>2, <3>3, FreeType
    <3> QED BY <3>1, <3>2, <3>3
  <2> QED BY <1>2, <2>1, <2>3 DEF Fades
<1> QED BY <1>1, <1>2

LEMMA FadesTidy ==
  ASSUME Base, \A j \in Links : Fades(j),
         \A j \in Links : link'[j].client = "open" => up'[link[j].from] /\ channel'[link[j].from],
         \A j \in Links : link'[j].handling # "no" => remoteNames'[link[j].from]
  PROVE  Tidy' /\ OneClient'
<1>1. ASSUME NEW j \in Links PROVE (Shape(link[j]) /\ Connected(link[j]))'
  <2>1. CASE link'[j] = Free
    BY <2>1, FreeType DEF Shape, Turn, Connected
  <2>2. CASE link'[j] # Free
    <3>1. /\ link'[j].from = link[j].from /\ link'[j].from # NoNode /\ ~Over(link'[j])
          /\ link'[j].client = "closed" => link'[j].answer = NoAnswer /\ link'[j].handling = "no"
          /\ link'[j].request => link'[j].server = "accepted" /\ link'[j].down = "no"
          /\ Turn(link'[j])
      BY <2>2 DEF Fades
    <3>2. Shape(link[j])'
      BY <3>1 DEF Shape, Turn, Over
    <3>3. Connected(link[j])'
      BY <3>1 DEF Connected
    <3> QED BY <3>2, <3>3
  <2> QED BY <2>1, <2>2
<1>2. OneClient'
  <2>1. SUFFICES ASSUME NEW i \in Links, NEW j \in Links, link'[i].from = link'[j].from,
                        link'[i].client = "open", link'[j].client = "open"
                 PROVE  i = j
    BY DEF OneClient
  <2>2. Fades(i) /\ Fades(j)
    OBVIOUS
  <2>3. link[i].from = link[j].from /\ link[i].client = "open" /\ link[j].client = "open"
    BY <2>1, <2>2, FreeType DEF Fades
  <2> QED BY <2>3 DEF Base, OneClient
<1> QED BY <1>1, <1>2 DEF Tidy

LEMMA LinkShape ==
  ASSUME Base, NEW j \in Links
  PROVE  /\ link[j] \in LinkType /\ Apart(link[j])
         /\ link[j].client = "closed" => link[j].answer = NoAnswer /\ link[j].handling = "no"
         /\ link[j].request => link[j].server = "accepted" /\ link[j].down = "no"
         /\ Turn(link[j])
         /\ link[j].client = "open" => up[link[j].from] /\ channel[link[j].from]
         /\ link[j].handling # "no" => remoteNames[link[j].from]
         /\ link[j].from = NoNode => link[j] = Free
         /\ Left(link[j]) = link[j]
BY LinkFacts DEF Base, Shape, Connected

LEMMA DeadFades ==
  ASSUME Base, NEW j \in Links, NEW b \in BOOLEAN,
         link'[j] \in {Left(NoClient(link[j], b)), Left(NoServer(link[j], b)), Left(link[j])}
  PROVE  Fades(j)
<1>1. CASE link'[j] = Left(NoClient(link[j], b))
  <2>1. Turn(NoClient(link[j], b))
    BY LinkShape, NoClientFields DEF Turn
  <2> QED BY <1>1, <2>1, LinkShape, NoClientFields, FadesLeft
<1>2. CASE link'[j] = Left(NoServer(link[j], b))
  <2>1. Turn(NoServer(link[j], b))
    BY LinkShape, NoServerFields DEF Turn
  <2> QED BY <1>2, <2>1, LinkShape, NoServerFields, FadesLeft
<1>3. CASE link'[j] = Left(link[j])
  BY <1>3, LinkShape, FadesLeft
<1> QED BY <1>1, <1>2, <1>3

\* The process of n ends, and starts again or not.
LEMMA BaseDead ==
  ASSUME Base, NEW n \in Nodes, NEW b \in BOOLEAN, NEW k,
         \A j \in Links :
           /\ j # k /\ link[j].from = n => link'[j] = Left(NoClient(link[j], b))
           /\ link[j].from # n /\ link[j].from = Peer(n) => link'[j] = Left(NoServer(link[j], b))
           /\ link[j].from # n /\ link[j].from # Peer(n) => link'[j] = Left(link[j]),
         k \in Links => Fades(k) /\ link[k].from = n /\ link'[k].client = "closed" /\ link'[k].handling = "no",
         \A m \in Nodes : m # n => up'[m] = up[m] /\ channel'[m] = channel[m] /\ remoteNames'[m] = remoteNames[m]
  PROVE  Tidy' /\ OneClient' /\ DeadEnds'
<1>1. \A j \in Links : Fades(j)
  <2>1. SUFFICES ASSUME NEW j \in Links, j # k PROVE Fades(j)
    OBVIOUS
  <2>2. link'[j] \in {Left(NoClient(link[j], b)), Left(NoServer(link[j], b)), Left(link[j])}
    BY <2>1
  <2> QED BY <2>2, DeadFades
<1>2. ASSUME NEW j \in Links, link'[j] # Free, link[j].from = n
      PROVE  link'[j].client = "closed" /\ link'[j].handling = "no"
  <2>1. CASE j = k
    BY <1>2, <2>1
  <2>2. CASE j # k
    BY <1>2, <2>2, LinkShape, NoClientFields DEF Left
  <2> QED BY <2>1, <2>2
<1>3. ASSUME NEW j \in Links, link'[j] # Free
      PROVE  /\ link[j].from \in Nodes
             /\ link'[j].client = "open" => up'[link[j].from] /\ channel'[link[j].from]
             /\ link'[j].handling # "no" => remoteNames'[link[j].from]
  <2>1. Fades(j) /\ link[j] \in LinkType
    BY <1>1, LinkShape
  <2>2. link[j].from \in Nodes
    BY <1>3, <2>1 DEF Fades, LinkType
  <2>3. CASE link[j].from = n
    BY <1>2, <1>3, <2>2, <2>3
  <2>4. CASE link[j].from # n
    <3>1. link'[j].client = "open" => link[j].client = "open"
      BY <1>3, <2>1 DEF Fades
    <3>2. link'[j].handling # "no" => link[j].handling # "no"
      BY <1>3, <2>1 DEF Fades
    <3> QED BY <2>2, <2>4, <3>1, <3>2, LinkShape
  <2> QED BY <2>2, <2>3, <2>4
<1>4. Tidy' /\ OneClient'
  BY <1>1, <1>3, FadesTidy, FreeType
<1>5. DeadEnds'
  <2>1. SUFFICES ASSUME NEW m \in Nodes, ~up'[m], NEW j \in Links, link'[j].from = Peer(m)
                 PROVE  link'[j].server = "closed" /\ link'[j].down = "no"
    BY DEF DeadEnds, Into, From
  <2>2. link'[j] # Free /\ link[j].from = Peer(m) /\ Fades(j)
    BY <1>1, <2>1, Hosts, FreeType DEF Fades
  <2>3. CASE m = n
    BY <2>1, <2>2, <2>3, Hosts, LinkShape, NoServerFields DEF Left
  <2>4. CASE m # n
    <3>1. ~up[m]
      BY <2>1, <2>4
    <3>2. link[j].server = "closed" /\ link[j].down = "no"
      BY <2>2, <3>1 DEF Base, DeadEnds, Into, From
    <3> QED BY <2>2, <3>2 DEF Fades
  <2> QED BY <2>3, <2>4
<1> QED BY <1>4, <1>5

\* The proxy that connected to k is started again.
LEMMA RestartEffect ==
  ASSUME Base, NEW k \in Links, DownRestart(k), Reaches(k)
  PROVE  /\ link[k].from \in Nodes /\ host[link[k].from] /\ up[Peer(link[k].from)]
         /\ link[k].down = "restart" /\ Blank(link[k].from) /\ LinksOK'
         /\ up' = [up EXCEPT ![link[k].from] = TRUE]
         /\ \A j \in Links :
              /\ j # k /\ link[j].from = link[k].from => link'[j] = Left(NoClient(link[j], FALSE))
              /\ link[j].from # link[k].from /\ link[j].from = Peer(link[k].from)
                   => link'[j] = Left(NoServer(link[j], FALSE))
              /\ link[j].from # link[k].from /\ link[j].from # Peer(link[k].from)
                   => link'[j] = Left(link[j])
         /\ link'[k].from = link[k].from /\ link'[k].client = "closed" /\ link'[k].server = link[k].server
         /\ link'[k].down = "close" /\ link'[k].handling = "no" /\ link'[k].answer = NoAnswer
         /\ link'[k].request = link[k].request /\ link'[k].silent = link[k].silent
<1> DEFINE rec == [NoClient(link[k], FALSE) EXCEPT !.down = "close"]
<1>1. /\ link[k].down = "restart" /\ Blank(link[k].from) /\ Restarted(k)
      /\ up' = [up EXCEPT ![link[k].from] = TRUE] /\ host[Peer(Peer(link[k].from))]
  BY DEF DownRestart, Reaches, Restarted, Ssh
<1>2. link[k].from \in Nodes
  BY <1>1, LinkFacts, FreeType DEF Base
<1>3. LinksOK
  BY DEF Base, Types
<1>4. k \in Into(Peer(link[k].from)) /\ up[Peer(link[k].from)]
  BY <1>1, <1>2, Hosts DEF Base, DeadEnds, Into, From
<1>5. FALSE \in BOOLEAN /\ link[k] \in LinkType
  BY LinkShape
<1>6. /\ rec.from = link[k].from /\ rec.client = "closed" /\ rec.server = link[k].server
      /\ rec.down = "close" /\ rec.handling = "no" /\ rec.answer = NoAnswer
      /\ rec.request = link[k].request /\ rec.silent = link[k].silent
  <2>0. PICK b \in BOOLEAN : b = FALSE
    OBVIOUS
  <2>1. /\ NoClient(link[k], b) \in LinkType /\ NoClient(link[k], b).from = link[k].from
        /\ NoClient(link[k], b).client = "closed" /\ NoClient(link[k], b).answer = NoAnswer
        /\ NoClient(link[k], b).handling = "no" /\ NoClient(link[k], b).server = link[k].server
        /\ NoClient(link[k], b).request = link[k].request
        /\ NoClient(link[k], b).silent = (link[k].silent \/ b)
    BY <1>5, <2>0, NoClientFields
  <2>2. link[k].silent \in BOOLEAN
    BY <1>5 DEF LinkType
  <2>3. rec = [NoClient(link[k], b) EXCEPT !.down = "close"]
    BY <2>0
  <2> HIDE DEF rec
  <2> QED BY <2>0, <2>1, <2>2, <2>3 DEF LinkType
<1>7. link'[k] = rec
  BY <1>1, <1>3, RestartLinks
<1> HIDE DEF rec
<1>8. /\ LinksOK'
      /\ \A j \in Links :
              /\ j # k /\ link[j].from = link[k].from => link'[j] = Left(NoClient(link[j], FALSE))
              /\ link[j].from # link[k].from /\ link[j].from = Peer(link[k].from)
                   => link'[j] = Left(NoServer(link[j], FALSE))
              /\ link[j].from # link[k].from /\ link[j].from # Peer(link[k].from)
                   => link'[j] = Left(link[j])
  BY <1>1, <1>3, RestartLinks
<1>9. host[link[k].from]
  BY <1>1, <1>2, Hosts
<1> QED BY <1>1, <1>2, <1>4, <1>6, <1>7, <1>8, <1>9

LEMMA BlankFields ==
  ASSUME Types, NEW n \in Nodes, Blank(n)
  PROVE  /\ ~init'[n] /\ ~haveVirtualIp'[n] /\ ~remoteHARedisIsRun'[n] /\ ~remoteNames'[n]
         /\ ~master'[n] /\ ~channel'[n]
         /\ \A m \in Nodes : m # n => /\ init'[m] = init[m] /\ haveVirtualIp'[m] = haveVirtualIp[m]
                                      /\ remoteNames'[m] = remoteNames[m] /\ master'[m] = master[m]
                                      /\ channel'[m] = channel[m]
BY DEF Types, Flags, Blank

LEMMA BaseRestart ==
  ASSUME Base, Types', NEW k \in Links, DownRestart(k), Reaches(k)
  PROVE  Base'
<1> DEFINE p == link[k].from
<1>0. Types /\ Machines
  BY DEF Base
<1>1. /\ p \in Nodes /\ host[p] /\ Blank(p) /\ up' = [up EXCEPT ![p] = TRUE]
      /\ UNCHANGED <<host, address>>
  BY RestartEffect DEF DownRestart
<1>2. \A j \in Links :
           /\ j # k /\ link[j].from = p => link'[j] = Left(NoClient(link[j], FALSE))
           /\ link[j].from # p /\ link[j].from = Peer(p) => link'[j] = Left(NoServer(link[j], FALSE))
           /\ link[j].from # p /\ link[j].from # Peer(p) => link'[j] = Left(link[j])
  BY RestartEffect
<1>3. /\ link'[k].from = p /\ link'[k].client = "closed" /\ link'[k].down = "close"
      /\ link'[k].handling = "no" /\ link'[k].answer = NoAnswer /\ link[k].down = "restart"
      /\ link'[k].request = link[k].request /\ link'[k].server = link[k].server
  BY RestartEffect
<1>4. Fades(k)
  <2>1. (link[k].request => link[k].server = "accepted" /\ link[k].down = "no") /\ Turn(link'[k])
    BY <1>3, LinkShape DEF Turn
  <2>2. ~Over(link'[k]) /\ p # NoNode
    BY <1>1, <1>3, Hosts DEF Over
  <2> QED BY <1>3, <2>1, <2>2 DEF Fades
<1> HIDE DEF p
<1>5. /\ ~init'[p] /\ ~haveVirtualIp'[p]
      /\ \A m \in Nodes : m # p => /\ init'[m] = init[m] /\ haveVirtualIp'[m] = haveVirtualIp[m]
                                   /\ remoteNames'[m] = remoteNames[m] /\ channel'[m] = channel[m]
                                   /\ up'[m] = up[m]
  BY <1>0, <1>1, BlankFields DEF Types, Flags
<1>6. Tidy' /\ OneClient' /\ DeadEnds'
  <2>1. PICK b \in BOOLEAN : b = FALSE
    OBVIOUS
  <2>2. link[k].from = p
    BY DEF p
  <2>3. \A j \in Links :
           /\ j # k /\ link[j].from = p => link'[j] = Left(NoClient(link[j], b))
           /\ link[j].from # p /\ link[j].from = Peer(p) => link'[j] = Left(NoServer(link[j], b))
           /\ link[j].from # p /\ link[j].from # Peer(p) => link'[j] = Left(link[j])
    BY <1>2, <2>1
  <2>4. k \in Links => /\ Fades(k) /\ link[k].from = p
                        /\ link'[k].client = "closed" /\ link'[k].handling = "no"
    BY <1>3, <1>4, <2>2
  <2>5. \A m \in Nodes : m # p => up'[m] = up[m] /\ channel'[m] = channel[m] /\ remoteNames'[m] = remoteNames[m]
    BY <1>5
  <2>6. p \in Nodes
    BY <1>1
  <2> QED BY <2>1, <2>3, <2>4, <2>5, <2>6, BaseDead
<1>7. Machines'
  BY <1>0, <1>1, <1>5 DEF Machines
<1> QED BY <1>6, <1>7 DEF Base

LEMMA BaseCrash ==
  ASSUME Base, Types', NEW n \in Nodes, ProcessCrash(n) \/ HostCrash(n)
  PROVE  Base'
<1>0. Types /\ Machines /\ LinksOK
  BY DEF Base, Types
<1>1. PICK b \in BOOLEAN : link' = Dead(n, b)
  BY DEF ProcessCrash, HostCrash
<1>2. \A j \in Links :
           /\ link[j].from = n => link'[j] = Left(NoClient(link[j], b))
           /\ link[j].from # n /\ link[j].from = Peer(n) => link'[j] = Left(NoServer(link[j], b))
           /\ link[j].from # n /\ link[j].from # Peer(n) => link'[j] = Left(link[j])
  BY <1>0, <1>1, DeadLinks
<1>3. /\ Blank(n) /\ up' = [up EXCEPT ![n] = FALSE]
      /\ \/ UNCHANGED <<host, address>>
         \/ host' = [host EXCEPT ![n] = FALSE] /\ address' = [address EXCEPT ![n] = FALSE]
  BY DEF ProcessCrash, HostCrash
<1>4. /\ ~init'[n] /\ ~haveVirtualIp'[n] /\ ~up'[n]
      /\ \A m \in Nodes : m # n => /\ init'[m] = init[m] /\ haveVirtualIp'[m] = haveVirtualIp[m]
                                   /\ remoteNames'[m] = remoteNames[m] /\ channel'[m] = channel[m]
                                   /\ up'[m] = up[m]
  BY <1>0, <1>3, BlankFields DEF Types, Flags
<1>5. PICK k : k \notin Links
  <2>1. {x \in Links : x \notin x} \notin Links
    OBVIOUS
  <2> QED BY <2>1
<1>6. Tidy' /\ OneClient' /\ DeadEnds'
  BY <1>1, <1>2, <1>4, <1>5, BaseDead
<1>7. Machines'
  <2>1. CASE UNCHANGED <<host, address>>
    BY <1>0, <1>4, <2>1 DEF Machines
  <2>2. CASE host' = [host EXCEPT ![n] = FALSE] /\ address' = [address EXCEPT ![n] = FALSE]
    BY <1>0, <1>4, <2>2 DEF Machines, Types, Flags
  <2> QED BY <1>3, <2>1, <2>2
<1> QED BY <1>6, <1>7 DEF Base

LEMMA BaseBoot ==
  ASSUME Base, Types', NEW n \in Nodes, Boot(n)
  PROVE  Base'
<1>0. Types /\ Machines /\ DeadEnds
  BY DEF Base
<1>1. /\ UNCHANGED <<link, address, channel, init, haveVirtualIp, remoteNames>>
      /\ host' = [host EXCEPT ![n] = TRUE] /\ up' = [up EXCEPT ![n] = TRUE]
  BY DEF Boot, NodeVars
<1>2. \A m \in Nodes : (host[m] => host'[m]) /\ (up[m] => up'[m]) /\ (up'[m] => host'[m])
  BY <1>0, <1>1 DEF Types, Flags, Machines
<1>3. ASSUME NEW j \in Links PROVE (Shape(link[j]) /\ Connected(link[j]))'
  <2>1. Shape(link[j]) /\ Connected(link[j]) /\ (link[j] = Free \/ link[j].from \in Nodes)
    BY LinkFacts DEF Base
  <2> QED BY <1>1, <1>2, <2>1, FreeType DEF Shape, Turn, Connected
<1>4. Tidy'
  BY <1>3 DEF Tidy
<1>5. OneClient' /\ DeadEnds'
  BY <1>1, <1>2 DEF Base, OneClient, DeadEnds, Into, From
<1>6. Machines'
  BY <1>0, <1>1, <1>2 DEF Machines
<1> QED BY <1>4, <1>5, <1>6 DEF Base

LEMMA ConnectEffect ==
  ASSUME Base, NEW n \in Nodes, DoConnect(n)
  PROVE  \E k \in Links :
           /\ link[k] = Free /\ link'[k] = Fresh(n)
           /\ \A j \in Links : j # k => link'[j] = link[j]
<1>1. PICK k \in Links : link[k] = Free /\ link' = [link EXCEPT ![k] = Fresh(n)]
  BY DEF DoConnect, Fresh
<1> QED BY <1>1 DEF Base, Types, LinksOK

LEMMA BaseConnect ==
  ASSUME Base, Types', NEW n \in Nodes, DoConnect(n)
  PROVE  Base'
<1>0. Types /\ Machines /\ DeadEnds /\ OneClient
  BY DEF Base
<1>1. PICK k \in Links : /\ link[k] = Free /\ link'[k] = Fresh(n)
                         /\ \A j \in Links : j # k => link'[j] = link[j]
  BY ConnectEffect
<1>2. /\ UNCHANGED <<host, address, up, init, haveVirtualIp, remoteNames>>
      /\ channel' = [channel EXCEPT ![n] = TRUE] /\ up[n] /\ up[Peer(n)]
      /\ \A j \in From(n) : link[j].client = "closed"
  BY DEF DoConnect
<1>3. channel'[n] /\ \A m \in Nodes : channel[m] => channel'[m]
  BY <1>0, <1>2 DEF Types, Flags
<1>4. ASSUME NEW j \in Links PROVE (Shape(link[j]) /\ Connected(link[j]))'
  <2>1. CASE j = k
    <3>1. n # NoNode
      BY Hosts
    <3>2. Shape(link[j])'
      BY <1>1, <2>1, <3>1, FreshType DEF Shape, Turn, Over
    <3>3. Connected(link[j])'
      BY <1>1, <1>2, <1>3, <2>1, FreshType DEF Connected
    <3> QED BY <3>2, <3>3
  <2>2. CASE j # k
    <3>1. Shape(link[j]) /\ Connected(link[j]) /\ (link[j] = Free \/ link[j].from \in Nodes) /\ link'[j] = link[j]
      BY <1>1, <2>2, LinkFacts DEF Base
    <3> QED BY <1>2, <1>3, <3>1, FreeType DEF Shape, Turn, Connected
  <2> QED BY <2>1, <2>2
<1>5. OneClient'
  <2>1. SUFFICES ASSUME NEW i \in Links, NEW j \in Links, link'[i].from = link'[j].from,
                        link'[i].client = "open", link'[j].client = "open"
                 PROVE  i = j
    BY DEF OneClient
  <2>2. CASE i # k /\ j # k
    BY <1>0, <1>1, <2>1, <2>2 DEF OneClient
  <2>3. CASE i = k \/ j = k
    BY <1>1, <1>2, <2>1, <2>3, FreshType DEF From
  <2> QED BY <2>2, <2>3
<1>6. DeadEnds'
  <2>1. SUFFICES ASSUME NEW m \in Nodes, ~up[m], NEW j \in Links, link'[j].from = Peer(m)
                 PROVE  link'[j].server = "closed" /\ link'[j].down = "no"
    BY <1>2 DEF DeadEnds, Into, From
  <2>2. CASE j = k
    BY <1>1, <1>2, <2>1, <2>2, FreshType, Hosts
  <2>3. CASE j # k
    BY <1>0, <1>1, <2>1, <2>3 DEF DeadEnds, Into, From
  <2> QED BY <2>2, <2>3
<1>7. Machines'
  BY <1>0, <1>2, <1>3 DEF Machines
<1> QED BY <1>4, <1>5, <1>6, <1>7 DEF Base, Tidy

LEMMA ClosedFields ==
  ASSUME NEW l \in LinkType, NEW open \in BOOLEAN
  PROVE  /\ ClosedThere(l) \in LinkType
         /\ ClosedThere(l).from = l.from /\ ClosedThere(l).client = "closed"
         /\ ClosedThere(l).answer = NoAnswer /\ ClosedThere(l).handling = "no"
         /\ ClosedThere(l).server = l.server /\ ClosedThere(l).down = l.down
         /\ ClosedThere(l).request = l.request /\ ClosedThere(l).silent = l.silent
         /\ ClosedThere(l).idle = l.idle /\ ClosedThere(l).role = l.role
         /\ ClosedHere(l, open) \in LinkType
         /\ ClosedHere(l, open).from = l.from /\ ClosedHere(l, open).client = l.client
         /\ ClosedHere(l, open).answer = l.answer /\ ClosedHere(l, open).handling = l.handling
         /\ ClosedHere(l, open).down = "no" /\ ClosedHere(l, open).request = l.request
         /\ ClosedHere(l, open).silent = l.silent /\ ClosedHere(l, open).role = l.role
         /\ ClosedHere(l, open).server = IF l.idle /\ open THEN "closed" ELSE l.server
<1>1. ClosedHere(l, open) \in LinkType
  BY DEF ClosedHere, LinkType
<1>2. ClosedThere(l) \in LinkType
  BY DEF ClosedThere, LinkType
<1>3. /\ ClosedHere(l, open).from = l.from /\ ClosedHere(l, open).client = l.client
      /\ ClosedHere(l, open).answer = l.answer /\ ClosedHere(l, open).handling = l.handling
      /\ ClosedHere(l, open).down = "no" /\ ClosedHere(l, open).request = l.request
      /\ ClosedHere(l, open).silent = l.silent /\ ClosedHere(l, open).role = l.role
      /\ ClosedHere(l, open).server = IF l.idle /\ open THEN "closed" ELSE l.server
  BY DEF ClosedHere, LinkType
<1> QED BY <1>1, <1>2, <1>3 DEF ClosedThere, LinkType

LEMMA CloseEffect ==
  ASSUME Base, NEW k \in Links, DownClose(k)
  PROVE  /\ link[k].from \in Nodes /\ up[Peer(link[k].from)] /\ link[k].down = "close"
         /\ link'[k] = Left(ClosedHere(link[k], channel[Peer(link[k].from)]))
         /\ \A j \in Links : j # k =>
              /\ link[k].idle /\ link[j].from = Peer(link[k].from) => link'[j] = Left(ClosedThere(link[j]))
              /\ ~(link[k].idle /\ link[j].from = Peer(link[k].from)) => link'[j] = link[j]
<1>1. LinksOK /\ link[k].down = "close"
  BY DEF Base, Types, DownClose
<1>2. link[k].from \in Nodes
  BY <1>1, LinkFacts, FreeType DEF Base
<1>3. k \in Into(Peer(link[k].from)) /\ up[Peer(link[k].from)]
  BY <1>1, <1>2, Hosts DEF Base, DeadEnds, Into, From
<1>4. \A j \in Links : Left(link[j]) = link[j]
  BY LinkShape
<1> QED BY <1>1, <1>2, <1>3, <1>4, CloseLinks

LEMMA BaseClose ==
  ASSUME Base, Types', NEW k \in Links, DownClose(k)
  PROVE  Base'
<1>0. Types /\ Machines /\ DeadEnds
  BY DEF Base
<1>1. UNCHANGED <<host, address, up, init, haveVirtualIp, remoteNames, channel>>
  BY DEF DownClose, NodeVars
<1>2. PICK open \in BOOLEAN : open = channel[Peer(link[k].from)]
  BY <1>0, PeerType DEF Types, Flags
<1>3. ASSUME NEW j \in Links PROVE Fades(j)
  <2>1. /\ link[j] \in LinkType
        /\ link[j].client = "closed" => link[j].answer = NoAnswer /\ link[j].handling = "no"
        /\ link[j].request => link[j].server = "accepted" /\ link[j].down = "no"
        /\ Turn(link[j]) /\ Turn(ClosedThere(link[j])) /\ Turn(ClosedHere(link[j], open))
    BY <1>2, LinkShape, ClosedFields DEF Turn
  <2>2. CASE j = k
    <3>1. link'[j] = Left(ClosedHere(link[j], open))
      BY <1>2, <2>2, CloseEffect
    <3>2. ~link[j].request
      BY <1>0, <2>1, <2>2, CloseEffect, LinkShape
    <3> QED BY <2>1, <3>1, <3>2, ClosedFields, FadesLeft
  <2>3. CASE j # k
    <3>1. link'[j] \in {Left(ClosedThere(link[j])), Left(link[j])}
      BY <2>3, CloseEffect, LinkShape
    <3>2. CASE link'[j] = Left(ClosedThere(link[j]))
      BY <1>2, <2>1, <3>2, ClosedFields, FadesLeft
    <3>3. CASE link'[j] = Left(link[j])
      BY <2>1, <3>3, FadesLeft
    <3> QED BY <3>1, <3>2, <3>3
  <2> QED BY <2>2, <2>3
<1>4. \A j \in Links : /\ link'[j].client = "open" => link[j].client = "open"
                       /\ link'[j].handling # "no" => link[j].handling # "no"
  BY <1>3, FreeType DEF Fades
<1>5. Tidy' /\ OneClient'
  BY <1>1, <1>3, <1>4, LinkShape, FadesTidy
<1>6. DeadEnds'
  <2>1. SUFFICES ASSUME NEW m \in Nodes, ~up[m], NEW j \in Links, link'[j].from = Peer(m)
                 PROVE  link'[j].server = "closed" /\ link'[j].down = "no"
    BY <1>1 DEF DeadEnds, Into, From
  <2>2. link'[j] # Free /\ link[j].from = Peer(m) /\ Fades(j)
    BY <1>3, <2>1, Hosts, FreeType DEF Fades
  <2> QED BY <1>0, <2>1, <2>2 DEF Fades, DeadEnds, Into, From
<1>7. Machines'
  BY <1>0, <1>1 DEF Machines
<1> QED BY <1>5, <1>6, <1>7 DEF Base

LEMMA BaseStep == Base /\ [Next]_vars => Base'
<1> SUFFICES ASSUME Base, [Next]_vars PROVE Base'
  OBVIOUS
<1>1. Types'
  BY TypesStep DEF Base
<1>2. ASSUME NEW n \in Nodes, DoConnect(n) \/ ProcessCrash(n) \/ HostCrash(n) \/ Boot(n) PROVE Base'
  BY <1>1, <1>2, BaseConnect, BaseCrash, BaseBoot
<1>3. ASSUME NEW k \in Links, ClientStep(k) PROVE Base'
  BY <1>1, <1>3, BaseClient
<1>4. ASSUME NEW k \in Links, ServerStep(k) PROVE Base'
  <2>1. CASE ServerAuth(k) \/ ReaderIdle(k) \/ ServerInactive(k)
    BY <1>1, <2>1, BaseServer
  <2>2. CASE DownBegin(k) \/ DownDel(k) \/ DownAdd(k) \/ (DownRestart(k) /\ ~Reaches(k))
    BY <1>1, <2>2, BaseDown
  <2>3. CASE DownRestart(k) /\ Reaches(k)
    BY <1>1, <2>3, BaseRestart
  <2>4. CASE DownClose(k)
    BY <1>1, <2>4, BaseClose
  <2> QED BY <1>4, <2>1, <2>2, <2>3, <2>4 DEF ServerStep, RemoteHARedisDown
<1>5. ASSUME NEW k \in Links, LinkBreaks(k) \/ Silence(k) PROVE Base'
  BY <1>1, <1>5, BaseBreak
<1>6. CASE UNCHANGED vars
  BY <1>1, <1>6 DEF vars, Base, Tidy, Connected, Shape, Turn, OneClient, DeadEnds, Into, From, Machines
<1> QED BY <1>2, <1>3, <1>4, <1>5, <1>6 DEF Next

-----------------------------------------------------------------------------
(* Who has the address, when failures meet two settled proxies (Calm) and some *)
(* steps take longer than others (Timely).                                     *)

\* Until the proxy configured as master has initialised, nothing has failed, and it is
\* the only one that takes the address.
StartLink(k) ==
  LET l == link[k] IN
  /\ l # Free => l.client = "open" /\ l.server # "closed" /\ ~l.silent
  /\ l.down = "no"
  /\ l.from = MasterNode =>
       /\ l.handling # "no" => l.role
       /\ l.answer # NoAnswer => ~l.answer.haveVirtualIp
       /\ l.handling \in {"flag", "roles"} => address[MasterNode]
       /\ l.handling = "roles" => haveVirtualIp[MasterNode]
  /\ l.from = Peer(MasterNode) =>
       /\ l.handling \in {"no", "roles"} /\ ~l.role
       /\ l.answer # NoAnswer => ~LocalRole(l.from, l.answer)

Starting ==
  /\ ~init[MasterNode] /\ \A n \in Nodes : up[n]
  /\ ~address[Peer(MasterNode)] /\ ~haveVirtualIp[Peer(MasterNode)] /\ ~master[Peer(MasterNode)]
  /\ \A k \in Links : StartLink(k)
  /\ address[MasterNode] => \E k \in Links : link[k].from = MasterNode /\ link[k].handling \in {"flag", "roles"}
  /\ haveVirtualIp[MasterNode] => \E k \in Links : link[k].from = MasterNode /\ link[k].handling = "roles"

\* A connection that h has made: its other end is gone, or nothing is wrong with it.
Outgoing(l) ==
  /\ l.down = "no" /\ l.handling = "no"
  /\ l.server = "closed" \/ (l.client = "open" /\ ~l.silent)

\* A connection that h has accepted: what the other proxy makes of its AUTH_SUCCESS is
\* the opposite of what h is.
Incoming(h, l) ==
  /\ l.handling \in {"no", "roles"}
  /\ l.handling = "roles" => (l.role <=> ~master[h])
  /\ ~init[Peer(h)] /\ l.answer # NoAnswer =>
       /\ (LocalRole(Peer(h), l.answer) <=> ~master[h])
       /\ Peer(h) = MasterNode => l.answer.haveVirtualIp

\* h has initialised and nobody takes its address.  When it is about to close its own
\* connections nobody listens to them.
Sound(h) ==
  /\ init[h]
  /\ init[Peer(h)] => master[Peer(h)] # master[h]
  /\ \A k \in Links : /\ link[k].from = h => Outgoing(link[k])
                      /\ link[k].from = Peer(h) => Incoming(h, link[k])
  /\ \A j, k \in Links :
       link[k].from = Peer(h) /\ link[k].down = "close" /\ link[j].from = h => link[j].server = "closed"

\* The server will run remoteHARedisDown for such a connection.
Broken(l) == l.server = "registered" /\ (l.client = "closed" \/ l.silent)

\* h has the address; the other one, if it thinks it has it too, is about to be restarted.
Keeps(h) ==
  /\ haveVirtualIp[h] /\ address[h] /\ ~address[Peer(h)]
  /\ \A k \in Links : link[k].from = Peer(h) => link[k].down \notin {"del", "add"}
  /\ haveVirtualIp[Peer(h)] => \E k \in Links : link[k].from = Peer(h) /\ link[k].down = "restart"

\* k is the only connection that h has accepted and that is not in order.
Alone(h, k) ==
  /\ link[k].from = Peer(h)
  /\ \A j \in Links : link[j].from = Peer(h) =>
       /\ j # k => link[j].down = "no" /\ ~Broken(link[j])
       /\ link[j].request => link[j].client = "open" /\ ~link[j].silent
  /\ up[Peer(h)] => init[Peer(h)]

\* h has not noticed yet that the connection k of the holder of the address is broken, ...
Waits(h, k) ==
  /\ ~haveVirtualIp[h] /\ ~address[h]
  /\ up[Peer(h)] => haveVirtualIp[Peer(h)] /\ address[Peer(h)]
  /\ Broken(link[k]) \/ link[k].down = "begin"

\* ... or is taking the address over.
Takes(h, k) ==
  /\ haveVirtualIp[h] /\ ~address[h]
  /\ link[k].down = "del" \/ (link[k].down = "add" /\ ~address[Peer(h)])

Stage(h) == Keeps(h) \/ \E k \in Links : Alone(h, k) /\ (Waits(h, k) \/ Takes(h, k))

Phases == Starting \/ \E h \in Nodes : Sound(h) /\ Stage(h)

Inv == Base /\ Phases

LEMMA InvInit == Init => Inv
<1> SUFFICES ASSUME Init PROVE Inv
  OBVIOUS
<1>1. Base
  BY BaseInit
<1>2. \A k \in Links : link[k] = Free
  BY DEF Init
<1>3. \A k \in Links : StartLink(k)
  BY <1>2, FreeType, Hosts DEF StartLink
<1>4. Starting
  BY <1>3, Hosts DEF Init, Starting
<1> QED BY <1>1, <1>4 DEF Inv, Phases

LEMMA InvOneAddress == Inv => OneAddress
<1> SUFFICES ASSUME Inv PROVE OneAddress
  OBVIOUS
<1>1. CASE Starting
  BY <1>1, Hosts DEF Starting, OneAddress
<1>2. CASE \E h \in Nodes : Sound(h) /\ Stage(h)
  <2>1. PICK h \in Nodes : Stage(h)
    BY <1>2
  <2>2. ~address[h] \/ ~address[Peer(h)]
    BY <2>1 DEF Stage, Keeps, Waits, Takes
  <2> QED BY <2>1, <2>2, Hosts DEF OneAddress
<1> QED BY <1>1, <1>2 DEF Inv, Phases

LEMMA InvFlagTrue == Inv => FlagTrue
<1> SUFFICES ASSUME Inv, Rest PROVE \A n \in Nodes : up[n] => (haveVirtualIp[n] <=> address[n])
  BY DEF FlagTrue
<1>1. \A k \in Links : link[k].handling = "no" /\ link[k].down = "no"
  BY DEF Rest
<1>2. CASE Starting
  BY <1>1, <1>2, Hosts DEF Starting
<1>3. ASSUME NEW h \in Nodes, Sound(h), Stage(h)
      PROVE  \A n \in Nodes : up[n] => (haveVirtualIp[n] <=> address[n])
  <2>1. CASE Keeps(h)
    BY <1>1, <2>1, Hosts DEF Keeps
  <2>2. CASE \E k \in Links : Waits(h, k)
    BY <2>2, <1>3, Hosts DEF Waits
  <2>3. CASE \E k \in Links : Takes(h, k)
    BY <1>1, <2>3 DEF Takes
  <2> QED BY <1>3, <2>1, <2>2, <2>3 DEF Stage
<1> QED BY <1>2, <1>3 DEF Inv, Phases

LEMMA InvRolesAgree == Inv => RolesAgree
<1> SUFFICES ASSUME Inv, \A n \in Nodes : init[n] PROVE master[MasterNode] # master[Peer(MasterNode)]
  BY DEF RolesAgree
<1>1. CASE Starting
  BY <1>1, Hosts DEF Starting
<1>2. CASE \E h \in Nodes : Sound(h) /\ Stage(h)
  <2>1. PICK h \in Nodes : Sound(h)
    BY <1>2
  <2>2. master[Peer(h)] # master[h]
    BY <2>1, Hosts DEF Sound
  <2> QED BY <2>1, <2>2, Hosts
<1> QED BY <1>1, <1>2 DEF Inv, Phases

-----------------------------------------------------------------------------
(* The start.                                                                *)

\* Until the master has initialised there are only connections in order.
LEMMA StartingSteps ==
  ASSUME Base, Starting, Calm, [Next]_vars
  PROVE  \/ \E n \in Nodes : DoConnect(n)
         \/ \E k \in Links : AuthSuccess(k) \/ InitAdd(k) \/ InitFlag(k) \/ InitRoles(k) \/ ServerAuth(k)
         \/ UNCHANGED vars
<1>1. \A kind : ~Failing(kind)
  BY Hosts DEF Failing, Settled, Starting
<1>2. \A n \in Nodes : ~ProcessCrash(n) /\ ~HostCrash(n) /\ ~Boot(n)
  BY <1>1 DEF ProcessCrash, HostCrash, Boot, Starting, Base, Machines
<1>3. \A k \in Links : ~LinkBreaks(k) /\ ~Silence(k)
  BY <1>1 DEF LinkBreaks, Silence
<1>4. ASSUME NEW k \in Links
      PROVE  ~ClientInactive(k) /\ ~ReaderIdle(k) /\ ~ServerInactive(k) /\ ~RemoteHARedisDown(k)
  <2>1. /\ link[k] # Free => link[k].client = "open" /\ link[k].server # "closed" /\ ~link[k].silent
        /\ link[k].down = "no"
    BY DEF Starting, StartLink
  <2> QED BY <2>1, FreeType DEF ClientInactive, ReaderIdle, ServerInactive, RemoteHARedisDown,
                               DownBegin, DownDel, DownAdd, DownRestart, DownClose
<1> QED BY <1>2, <1>3, <1>4 DEF Next, ClientStep, ServerStep

\* One connection changes; the address and the flag stay.
LEMMA StartingSet ==
  ASSUME Base, Starting, NEW k \in Links, NEW rec, Becomes(k, rec), rec.from = link[k].from,
         ~Over(rec), StartLink(k)', ~init'[MasterNode],
         UNCHANGED <<up, address, haveVirtualIp>>, ~master'[Peer(MasterNode)],
         link[k].handling # "no" => rec.handling = link[k].handling
  PROVE  Starting'
<1>1. link'[k] = rec /\ \A j \in Links : j # k => link'[j] = link[j]
  BY DEF Becomes, Left
<1>2. \A j \in Links : StartLink(j)'
  BY <1>1 DEF Starting, StartLink
<1>3. \A j \in Links : link[j].handling # "no" => link'[j].from = link[j].from /\ link'[j].handling = link[j].handling
  BY <1>1
<1>4. address[MasterNode] => \E j \in Links : link'[j].from = MasterNode /\ link'[j].handling \in {"flag", "roles"}
  BY <1>3 DEF Starting
<1>5. haveVirtualIp[MasterNode] => \E j \in Links : link'[j].from = MasterNode /\ link'[j].handling = "roles"
  BY <1>3 DEF Starting
<1> QED BY <1>2, <1>4, <1>5 DEF Starting

LEMMA StartingConnect ==
  ASSUME Base, Starting, NEW n \in Nodes, DoConnect(n)
  PROVE  Starting'
<1>1. PICK k \in Links : /\ link[k] = Free /\ link'[k] = Fresh(n)
                         /\ \A j \in Links : j # k => link'[j] = link[j]
  BY ConnectEffect
<1>2. UNCHANGED <<up, address, haveVirtualIp, master, init>>
  BY DEF DoConnect
<1>3. StartLink(k)'
  BY <1>1, FreshType DEF StartLink
<1>4. \A j \in Links : StartLink(j)'
  BY <1>1, <1>2, <1>3 DEF Starting, StartLink
<1>5. \A j \in Links : link[j].handling # "no" => link'[j] = link[j]
  BY <1>1, FreeType
<1>6. address[MasterNode] => \E j \in Links : link'[j].from = MasterNode /\ link'[j].handling \in {"flag", "roles"}
  BY <1>5 DEF Starting
<1>7. haveVirtualIp[MasterNode] => \E j \in Links : link'[j].from = MasterNode /\ link'[j].handling = "roles"
  BY <1>5 DEF Starting
<1> QED BY <1>2, <1>4, <1>6, <1>7 DEF Starting

LEMMA StartingAuthSuccess ==
  ASSUME Base, Starting, NEW k \in Links, AuthSuccess(k)
  PROVE  Starting'
<1> DEFINE l == link[k]
           role == ~init[l.from] /\ LocalRole(l.from, l.answer)
           handling == IF init[l.from] THEN "no"
                       ELSE IF ~l.answer.haveVirtualIp /\ l.from = MasterNode THEN "add" ELSE "roles"
           rec == [l EXCEPT !.answer = NoAnswer, !.role = role, !.handling = handling]
<1>1. Becomes(k, rec) /\ l.client = "open"
  BY AuthSuccessLink
<1>2. l \in LinkType /\ l.from \in Nodes /\ l.answer # NoAnswer
  BY <1>1 DEF Becomes, AuthSuccess
<1>3. /\ l.server # "closed" /\ ~l.silent /\ l.down = "no"
      /\ l.from = MasterNode => ~l.answer.haveVirtualIp
      /\ l.from = Peer(MasterNode) => ~LocalRole(l.from, l.answer) /\ ~l.role
  BY <1>1, <1>2, FreeType DEF Starting, StartLink
<1>4. UNCHANGED <<up, address, haveVirtualIp, master, init>>
  BY DEF AuthSuccess
<1>5. l.from = MasterNode => role /\ handling = "add"
  BY <1>2, <1>3 DEF Starting, LocalRole
<1>6. l.from = Peer(MasterNode) => ~role /\ handling \in {"no", "roles"}
  BY <1>3, Hosts
<1>7. role \in BOOLEAN /\ handling \in {"no", "add", "roles"}
  OBVIOUS
<1>71. l.handling = "no"
  BY <1>1, <1>2 DEF Becomes, Shape, Turn
<1> HIDE DEF role, handling
<1>8. /\ rec.from = l.from /\ rec.server = l.server /\ rec.down = l.down /\ rec.answer = NoAnswer
      /\ rec.client = l.client /\ rec.silent = l.silent /\ rec.role = role /\ rec.handling = handling
  BY <1>2, <1>7 DEF LinkType
<1> HIDE DEF rec
<1>9. ~Over(rec) /\ link'[k] = rec
  BY <1>1, <1>8 DEF Over, Becomes, Left
<1>10. StartLink(k)'
  BY <1>1, <1>3, <1>4, <1>5, <1>6, <1>8, <1>9, Hosts DEF StartLink
<1> QED BY <1>1, <1>4, <1>8, <1>9, <1>10, <1>71, StartingSet DEF Starting
LEMMA StartingInit ==
  ASSUME Base, Starting, NEW k \in Links, InitAdd(k) \/ InitFlag(k)
  PROVE  Starting'
<1> DEFINE l == link[k]
<1>1. CASE InitAdd(k)
  <2> DEFINE rec == [l EXCEPT !.handling = "flag", !.role = l.role]
  <2>1. Becomes(k, rec) /\ l.client = "open" /\ l.handling = "add"
    BY <1>1, InitAddLink DEF InitAdd
  <2>2. /\ rec.from = l.from /\ rec.server = l.server /\ rec.down = l.down /\ rec.answer = l.answer
        /\ rec.client = l.client /\ rec.silent = l.silent /\ rec.role = l.role /\ rec.handling = "flag"
    BY <2>1 DEF Becomes, LinkType
  <2>3. link'[k] = rec /\ \A j \in Links : j # k => link'[j] = link[j]
    BY <2>1, <2>2 DEF Becomes, Left, Over
  <2>4. StartLink(k) /\ l.from = MasterNode /\ l # Free
    BY <2>1, FreeType, Hosts DEF Starting, StartLink, Becomes
  <2>5. /\ UNCHANGED <<up, haveVirtualIp, master, init>>
        /\ address' = [address EXCEPT ![MasterNode] = TRUE]
    BY <1>1, <2>4 DEF InitAdd, NodeVars
  <2>6. address'[MasterNode] /\ ~address'[Peer(MasterNode)]
    BY <2>5, Hosts DEF Base, Types, Flags, Starting
  <2> HIDE DEF rec
  <2>7. StartLink(k)'
    BY <2>1, <2>2, <2>3, <2>4, <2>5, <2>6, Hosts, FreeType DEF StartLink
  <2>8. \A j \in Links : StartLink(j)'
    BY <2>3, <2>5, <2>6, <2>7 DEF Starting, StartLink
  <2>9. \A j \in Links : link[j].handling = "roles" => link'[j] = link[j]
    BY <2>1, <2>3
  <2>10. haveVirtualIp[MasterNode] => \E j \in Links : link'[j].from = MasterNode /\ link'[j].handling = "roles"
    BY <2>9 DEF Starting
  <2>11. link'[k].from = MasterNode /\ link'[k].handling = "flag"
    BY <2>2, <2>3, <2>4
  <2> QED BY <2>5, <2>6, <2>8, <2>10, <2>11 DEF Starting
<1>2. CASE InitFlag(k)
  <2> DEFINE rec == [l EXCEPT !.handling = "roles", !.role = l.role]
  <2>1. Becomes(k, rec) /\ l.client = "open" /\ l.handling = "flag"
    BY <1>2, InitFlagLink DEF InitFlag
  <2>2. /\ rec.from = l.from /\ rec.server = l.server /\ rec.down = l.down /\ rec.answer = l.answer
        /\ rec.client = l.client /\ rec.silent = l.silent /\ rec.role = l.role /\ rec.handling = "roles"
    BY <2>1 DEF Becomes, LinkType
  <2>3. link'[k] = rec /\ \A j \in Links : j # k => link'[j] = link[j]
    BY <2>1, <2>2 DEF Becomes, Left, Over
  <2>4. StartLink(k) /\ l.from = MasterNode /\ l # Free
    BY <2>1, FreeType, Hosts DEF Starting, StartLink, Becomes
  <2>5. /\ UNCHANGED <<up, address, master, init>>
        /\ haveVirtualIp' = [haveVirtualIp EXCEPT ![MasterNode] = TRUE]
    BY <1>2, <2>4 DEF InitFlag
  <2>6. haveVirtualIp'[MasterNode] /\ ~haveVirtualIp'[Peer(MasterNode)]
    BY <2>5, Hosts DEF Base, Types, Flags, Starting
  <2> HIDE DEF rec
  <2>7. StartLink(k)'
    BY <2>1, <2>2, <2>3, <2>4, <2>5, <2>6, Hosts, FreeType DEF StartLink
  <2>8. \A j \in Links : StartLink(j)'
    BY <2>3, <2>5, <2>6, <2>7 DEF Starting, StartLink
  <2>9. link'[k].from = MasterNode /\ link'[k].handling = "roles"
    BY <2>2, <2>3, <2>4
  <2> QED BY <2>5, <2>6, <2>8, <2>9 DEF Starting
<1> QED BY <1>1, <1>2

LEMMA StartingServerAuth ==
  ASSUME Base, Starting, Timely, NEW k \in Links, ServerAuth(k)
  PROVE  Starting'
<1> DEFINE l == link[k]
<1>1. PICK answer \in [haveVirtualIp : BOOLEAN, master : BOOLEAN] \cup {NoAnswer} :
           /\ Becomes(k, [l EXCEPT !.server = "registered", !.request = FALSE, !.answer = answer])
           /\ l.client = "open" =>
                /\ answer.haveVirtualIp = haveVirtualIp[Peer(l.from)]
                /\ answer.master = master[Peer(l.from)]
  BY ServerAuthLink
<1> DEFINE rec == [l EXCEPT !.server = "registered", !.request = FALSE, !.answer = answer]
<1>2. /\ rec.from = l.from /\ rec.server = "registered" /\ rec.down = l.down /\ rec.answer = answer
      /\ rec.client = l.client /\ rec.silent = l.silent /\ rec.role = l.role /\ rec.handling = l.handling
  BY <1>1 DEF Becomes, LinkType
<1>3. Becomes(k, rec) /\ StartLink(k) /\ l # Free /\ l.client = "open" /\ ~l.silent
  BY <1>1, FreeType DEF Becomes, Starting, StartLink, ServerAuth
<1>4. link'[k] = rec /\ ~Over(rec)
  BY <1>2, <1>3 DEF Becomes, Left, Over
<1>5. UNCHANGED <<up, address, haveVirtualIp, master, init>>
  BY DEF ServerAuth, NodeVars
<1>6. l.from = MasterNode => ~answer.haveVirtualIp
  BY <1>1, <1>3 DEF Starting
<1>7. l.from = Peer(MasterNode) => ~LocalRole(l.from, answer)
  <2>1. SUFFICES ASSUME l.from = Peer(MasterNode) PROVE ~LocalRole(l.from, answer)
    OBVIOUS
  <2>2. Peer(l.from) = MasterNode /\ l.from # MasterNode
    BY <2>1, Hosts
  <2>3. ~\E j \in Links : link[j].from = MasterNode /\ link[j].handling = "roles"
    BY <2>2 DEF ServerAuth, Slower
  <2>4. ~haveVirtualIp[MasterNode]
    BY <2>3 DEF Starting
  <2> QED BY <1>1, <1>3, <2>2, <2>4 DEF LocalRole
<1> HIDE DEF rec
<1>8. StartLink(k)'
  BY <1>2, <1>3, <1>4, <1>5, <1>6, <1>7, FreeType DEF StartLink
<1> QED BY <1>2, <1>3, <1>4, <1>5, <1>8, StartingSet DEF Starting

LEMMA StartingInitRoles ==
  ASSUME Base, Starting, NEW k \in Links, InitRoles(k)
  PROVE  Phases'
<1> DEFINE l == link[k]
           rec == [l EXCEPT !.handling = "no", !.role = FALSE]
           h == MasterNode
<1>1. Becomes(k, rec) /\ l.client = "open" /\ l.handling = "roles"
  BY InitRolesLink DEF InitRoles
<1>2. /\ rec.from = l.from /\ rec.server = l.server /\ rec.down = l.down /\ rec.answer = l.answer
      /\ rec.client = l.client /\ rec.silent = l.silent /\ ~rec.role /\ rec.handling = "no"
      /\ rec.request = l.request
  BY <1>1 DEF Becomes, LinkType
<1>3. link'[k] = rec /\ \A j \in Links : j # k => link'[j] = link[j]
  BY <1>1, <1>2 DEF Becomes, Left, Over
<1>4. StartLink(k) /\ l # Free /\ l.from \in Nodes
  BY <1>1, FreeType DEF Starting, Becomes
<1>5. /\ UNCHANGED <<up, address, haveVirtualIp>>
      /\ master' = [master EXCEPT ![l.from] = l.role] /\ init' = [init EXCEPT ![l.from] = TRUE]
  BY DEF InitRoles
<1> HIDE DEF rec
<1>6. CASE l.from = Peer(h)
  <2>1. ~init'[h] /\ ~master'[Peer(h)]
    BY <1>4, <1>5, <1>6, Hosts DEF Starting, StartLink, Base, Types, Flags
  <2>2. StartLink(k)'
    BY <1>2, <1>3, <1>4, <1>6, Hosts, FreeType DEF StartLink
  <2>3. \A j \in Links : StartLink(j)'
    BY <1>3, <1>5, <2>2 DEF Starting, StartLink
  <2>4. \A j \in Links : link[j].from = h => link'[j] = link[j]
    BY <1>3, <1>6, Hosts
  <2>5. address[h] => \E j \in Links : link'[j].from = h /\ link'[j].handling \in {"flag", "roles"}
    BY <2>4 DEF Starting
  <2>6. haveVirtualIp[h] => \E j \in Links : link'[j].from = h /\ link'[j].handling = "roles"
    BY <2>4 DEF Starting
  <2> QED BY <1>5, <2>1, <2>3, <2>5, <2>6 DEF Starting, Phases
<1>7. CASE l.from = h
  <2>1. /\ l.role /\ address[h] /\ haveVirtualIp[h]
    BY <1>1, <1>4, <1>7 DEF StartLink
  <2>2. /\ init'[h] /\ master'[h] /\ ~master'[Peer(h)]
    BY <1>5, <1>7, <2>1, Hosts DEF Base, Types, Flags, Starting
  <2>3. ASSUME NEW j \in Links, link'[j].from = h PROVE Outgoing(link'[j])
    <3>1. link[j].from = h /\ link[j].client = "open"
      BY <1>2, <1>3, <2>3, <1>1, FreeType, Hosts DEF Starting, StartLink
    <3>2. j = k
      BY <1>1, <1>7, <3>1 DEF Base, OneClient
    <3> QED BY <1>1, <1>2, <1>3, <1>4, <3>2 DEF Outgoing, StartLink
  <2>4. ASSUME NEW j \in Links, link'[j].from = Peer(h) PROVE Incoming(h, link[j])'
    <3>1. j # k /\ link'[j] = link[j]
      BY <1>2, <1>3, <1>7, <2>4, Hosts
    <3>2. /\ link[j].handling \in {"no", "roles"} /\ ~link[j].role
          /\ link[j].answer # NoAnswer => ~LocalRole(Peer(h), link[j].answer)
      BY <2>4, <3>1 DEF Starting, StartLink
    <3> QED BY <2>2, <3>1, <3>2, Hosts DEF Incoming, LocalRole
  <2>5. \A j \in Links : link'[j].down = "no"
    BY <1>2, <1>3, <1>4 DEF Starting, StartLink
  <2>6. Sound(h)'
    BY <2>2, <2>3, <2>4, <2>5 DEF Sound
  <2>7. Keeps(h)'
    BY <1>5, <2>1, <2>5 DEF Keeps, Starting
  <2> QED BY <2>6, <2>7, Hosts DEF Phases, Stage
<1> QED BY <1>4, <1>6, <1>7, Hosts

LEMMA StartingStep ==
  ASSUME Base, Starting, Calm, Timely, [Next]_vars
  PROVE  Phases'
<1>1. CASE \E n \in Nodes : DoConnect(n)
  BY <1>1, StartingConnect DEF Phases
<1>2. CASE \E k \in Links : AuthSuccess(k) \/ InitAdd(k) \/ InitFlag(k) \/ InitRoles(k) \/ ServerAuth(k)
  BY <1>2, StartingAuthSuccess, StartingInit, StartingInitRoles, StartingServerAuth DEF Phases
<1>3. CASE UNCHANGED vars
  BY <1>3 DEF vars, Phases, Starting, StartLink
<1> QED BY <1>1, <1>2, <1>3, StartingSteps

-----------------------------------------------------------------------------
(* One proxy keeps the address or is about to take it.                       *)

\* h, the stage of which is known, has initialised.
Held(h) == Sound(h) /\ Stage(h)

\* One connection changes, the roles do not.
LEMMA SoundSet ==
  ASSUME Base, NEW h \in Nodes, Sound(h), NEW k \in Links, NEW rec, Becomes(k, rec),
         rec.from = link[k].from, UNCHANGED <<init, master>>,
         link[k].from = h => Outgoing(rec),
         link[k].from = Peer(h) => Incoming(h, rec),
         link[k].from = h /\ link[k].server = "closed" => rec.server = "closed",
         link[k].from = Peer(h) /\ rec.down = "close" =>
           link[k].down = "close" \/ \A j \in Links : link[j].from = h => link[j].server = "closed"
  PROVE  Sound(h)'
<1>1. link'[k] = Left(rec) /\ \A j \in Links : j # k => link'[j] = link[j]
  BY DEF Becomes
<1>2. link'[k] = rec \/ link'[k] = Free
  BY <1>1 DEF Left
<1>3. Peer(h) # h /\ h # NoNode /\ Peer(h) # NoNode
  BY Hosts
<1>4. ASSUME NEW j \in Links, link'[j].from = h PROVE Outgoing(link'[j])
  <2>1. CASE j = k
    BY <1>2, <1>3, <1>4, <2>1, FreeType
  <2>2. CASE j # k
    BY <1>1, <1>4, <2>2 DEF Sound
  <2> QED BY <2>1, <2>2
<1>5. ASSUME NEW j \in Links, link'[j].from = Peer(h) PROVE Incoming(h, link[j])'
  <2>1. CASE j = k
    <3>1. Incoming(h, rec) /\ link'[j] = rec
      BY <1>2, <1>3, <1>5, <2>1, FreeType
    <3> QED BY <3>1 DEF Incoming
  <2>2. CASE j # k
    <3>1. Incoming(h, link[j]) /\ link'[j] = link[j]
      BY <1>1, <1>5, <2>2 DEF Sound
    <3> QED BY <3>1 DEF Incoming
  <2> QED BY <2>1, <2>2
<1>6. ASSUME NEW i \in Links, NEW j \in Links,
             link'[i].from = Peer(h), link'[i].down = "close", link'[j].from = h
      PROVE  link'[j].server = "closed"
  <2>1. link[i].from = Peer(h) /\ link[j].from = h
    BY <1>1, <1>2, <1>3, <1>6, FreeType
  <2>2. link[j].server = "closed"
    <3>1. CASE i = k
      BY <1>2, <1>3, <1>6, <2>1, <3>1, FreeType DEF Sound
    <3>2. CASE i # k
      BY <1>1, <1>6, <2>1, <3>2 DEF Sound
    <3> QED BY <3>1, <3>2
  <2>3. CASE j = k
    BY <1>2, <2>1, <2>2, <2>3, FreeType
  <2>4. CASE j # k
    BY <1>1, <2>2, <2>4
  <2> QED BY <2>3, <2>4
<1> QED BY <1>4, <1>5, <1>6 DEF Sound

\* One connection changes, who has the address does not.
LEMMA StageSet ==
  ASSUME Base, NEW h \in Nodes, Stage(h), NEW k \in Links, NEW rec \in LinkType, Becomes(k, rec),
         rec.from = link[k].from, UNCHANGED <<haveVirtualIp, address, up>>,
         init[Peer(h)] => init'[Peer(h)],
         link[k].from = Peer(h) =>
           /\ rec.down = link[k].down \/ (rec.down = "begin" /\ link[k].down = "no" /\ Broken(link[k]))
           /\ Broken(link[k]) => Broken(rec) \/ rec.down = "begin"
           /\ Broken(rec) => Broken(link[k]) \/ (link[k].request /\ (link[k].client = "closed" \/ link[k].silent))
           /\ rec.request => link[k].request
           /\ rec.request /\ link[k].client = "open" /\ ~link[k].silent => rec.client = "open" /\ ~rec.silent
  PROVE  Stage(h)'
<1>0. Peer(h) # h /\ h # NoNode /\ Peer(h) # NoNode
  BY Hosts
<1>1. /\ link'[k] = Left(rec) /\ \A j \in Links : j # k => link'[j] = link[j]
      /\ link'[k] = rec \/ link'[k] = Free
      /\ rec.down # "no" \/ Broken(rec) => link'[k] = rec
  BY DEF Becomes, Left, Over, Broken
<1>2. CASE Keeps(h)
  <2>1. ASSUME NEW j \in Links, link'[j].from = Peer(h) PROVE link'[j].down \notin {"del", "add"}
    <3>1. CASE j = k
      BY <1>1, <1>2, <2>1, <3>1, FreeType DEF Keeps
    <3>2. CASE j # k
      BY <1>1, <1>2, <2>1, <3>2 DEF Keeps
    <3> QED BY <3>1, <3>2
  <2>2. ASSUME NEW j \in Links, link[j].from = Peer(h), link[j].down = "restart"
        PROVE  link'[j].from = Peer(h) /\ link'[j].down = "restart"
    BY <1>1, <2>2
  <2>3. haveVirtualIp[Peer(h)] => \E j \in Links : link'[j].from = Peer(h) /\ link'[j].down = "restart"
    BY <1>2, <2>2 DEF Keeps
  <2>4. Keeps(h)'
    BY <1>2, <2>1, <2>3 DEF Keeps
  <2> QED BY <2>4 DEF Stage
<1>3. ASSUME NEW i \in Links, Alone(h, i), Waits(h, i) \/ Takes(h, i)
      PROVE  Stage(h)'
  <2>1. ASSUME NEW j \in Links, link'[j].from = Peer(h)
        PROVE  /\ link[j].from = Peer(h)
               /\ j # i => link'[j].down = "no" /\ ~Broken(link'[j])
               /\ link'[j].request => link'[j].client = "open" /\ ~link'[j].silent
    <3>1. link[j].from = Peer(h)
      BY <1>0, <1>1, <2>1, FreeType
    <3>2. CASE j # k
      BY <1>1, <1>3, <3>1, <3>2 DEF Alone
    <3>3. CASE j = k
      <4>1. link'[j] = rec
        BY <1>0, <1>1, <2>1, <3>3, FreeType
      <4> QED BY <1>3, <3>1, <3>3, <4>1 DEF Alone
    <3> QED BY <3>1, <3>2, <3>3
  <2>2. up'[Peer(h)] => init'[Peer(h)]
    BY <1>3 DEF Alone
  <2>3. link[i].from = Peer(h) /\ (Broken(link[i]) \/ link[i].down # "no")
    BY <1>3 DEF Alone, Waits, Takes
  <2>4. /\ link'[i].from = Peer(h)
        /\ Broken(link[i]) \/ link[i].down = "begin" => Broken(link'[i]) \/ link'[i].down = "begin"
        /\ link[i].down = "del" => link'[i].down = "del"
        /\ link[i].down = "add" => link'[i].down = "add"
    <3>1. CASE i = k
      BY <1>1, <2>3, <3>1
    <3>2. CASE i # k
      BY <1>1, <2>3, <3>2
    <3> QED BY <3>1, <3>2
  <2>5. Alone(h, i)'
    BY <2>1, <2>2, <2>4 DEF Alone, Broken
  <2>6. Waits(h, i) => Waits(h, i)'
    BY <2>4 DEF Waits, Broken
  <2>7. Takes(h, i) => Takes(h, i)'
    BY <2>4 DEF Takes
  <2> QED BY <1>3, <2>5, <2>6, <2>7 DEF Stage
<1> QED BY <1>2, <1>3 DEF Stage

LEMMA HeldAuthSuccess ==
  ASSUME Base, NEW h \in Nodes, Held(h), NEW k \in Links, AuthSuccess(k)
  PROVE  Held(h)'
<1> DEFINE l == link[k]
           role == ~init[l.from] /\ LocalRole(l.from, l.answer)
           handling == IF init[l.from] THEN "no"
                       ELSE IF ~l.answer.haveVirtualIp /\ l.from = MasterNode THEN "add" ELSE "roles"
           rec == [l EXCEPT !.answer = NoAnswer, !.role = role, !.handling = handling]
<1>1. Becomes(k, rec) /\ l.client = "open"
  BY AuthSuccessLink
<1>2. l \in LinkType /\ l.from \in Nodes /\ l.answer # NoAnswer
  BY <1>1 DEF Becomes, AuthSuccess
<1>3. UNCHANGED <<up, address, haveVirtualIp, master, init>>
  BY DEF AuthSuccess
<1>4. l.from = h => handling = "no"
  BY DEF Held, Sound
<1>5. l.from = Peer(h) => handling \in {"no", "roles"} /\ (handling = "roles" => (role <=> ~master[h]))
  BY <1>2 DEF Held, Sound, Incoming
<1>6. role \in BOOLEAN /\ handling \in {"no", "add", "roles"}
  OBVIOUS
<1> HIDE DEF role, handling
<1>7. /\ rec.from = l.from /\ rec.server = l.server /\ rec.down = l.down /\ rec.answer = NoAnswer
      /\ rec.client = l.client /\ rec.silent = l.silent /\ rec.role = role /\ rec.handling = handling
      /\ rec.request = l.request /\ rec \in LinkType
  BY <1>2, <1>6 DEF LinkType
<1> HIDE DEF rec
<1>8. l.from = h => Outgoing(rec)
  BY <1>4, <1>7 DEF Held, Sound, Outgoing
<1>9. l.from = Peer(h) => Incoming(h, rec)
  BY <1>5, <1>7 DEF Incoming
<1>10. Sound(h)'
  BY <1>1, <1>3, <1>7, <1>8, <1>9, SoundSet DEF Held
<1>11. Stage(h)'
  BY <1>1, <1>3, <1>7, StageSet DEF Held, Broken
<1> QED BY <1>10, <1>11 DEF Held

LEMMA HeldInit ==
  ASSUME Base, NEW h \in Nodes, Held(h), NEW k \in Links, InitAdd(k) \/ InitFlag(k) \/ InitRoles(k)
  PROVE  Held(h)'
<1> DEFINE l == link[k]
           rec == [l EXCEPT !.handling = "no", !.role = FALSE]
<1>1. l \in LinkType /\ l.from \in Nodes /\ (l.from = h \/ l.from = Peer(h))
  BY Hosts, InitAddLink, InitFlagLink, InitRolesLink DEF Becomes
<1>2. l.from = Peer(h) /\ InitRoles(k) /\ (l.role <=> ~master[h])
  BY <1>1 DEF Held, Sound, Outgoing, Incoming, InitAdd, InitFlag, InitRoles
<1>3. Becomes(k, rec)
  BY <1>2, InitRolesLink
<1>4. /\ rec.from = l.from /\ rec.server = l.server /\ rec.down = l.down /\ rec.answer = l.answer
      /\ rec.client = l.client /\ rec.silent = l.silent /\ rec.handling = "no"
      /\ rec.request = l.request /\ rec \in LinkType
  BY <1>3 DEF Becomes, LinkType
<1>5. /\ UNCHANGED <<up, address, haveVirtualIp>>
      /\ master' = [master EXCEPT ![Peer(h)] = l.role] /\ init' = [init EXCEPT ![Peer(h)] = TRUE]
  BY <1>2 DEF InitRoles
<1>6. /\ init'[h] = init[h] /\ master'[h] = master[h] /\ init'[Peer(h)]
      /\ master'[Peer(h)] = l.role
  BY <1>5, Hosts DEF Base, Types, Flags
<1>7. master'[h] \in BOOLEAN /\ master'[Peer(h)] \in BOOLEAN
  BY <1>1, <1>6 DEF Base, Types, Flags, LinkType
<1> HIDE DEF rec
<1>8. /\ link'[k] = Left(rec) /\ \A j \in Links : j # k => link'[j] = link[j]
      /\ link'[k] = rec \/ link'[k] = Free
  BY <1>3 DEF Becomes, Left
<1>9. Sound(h)'
  <2>1. init'[h] /\ master'[Peer(h)] # master'[h]
    BY <1>2, <1>6, <1>7 DEF Held, Sound
  <2>2. ASSUME NEW j \in Links
        PROVE  /\ link'[j].from = h => link'[j] = link[j]
               /\ link'[j].from = Peer(h) =>
                    /\ link[j].from = Peer(h) /\ link'[j].handling \in {"no", "roles"}
                    /\ link'[j].handling = "roles" => (link'[j].role <=> ~master'[h])
                    /\ link'[j].down = link[j].down
    <3>1. CASE j = k
      BY <1>2, <1>4, <1>8, <3>1, FreeType, Hosts
    <3>2. CASE j # k
      BY <1>6, <1>8, <3>2 DEF Held, Sound, Incoming
    <3> QED BY <3>1, <3>2
  <2>3. \A j \in Links : link'[j].from = h => Outgoing(link'[j])
    BY <2>2 DEF Held, Sound
  <2>4. \A j \in Links : link'[j].from = Peer(h) => Incoming(h, link[j])'
    BY <1>6, <2>2 DEF Incoming
  <2>5. \A i, j \in Links :
          link'[i].from = Peer(h) /\ link'[i].down = "close" /\ link'[j].from = h => link'[j].server = "closed"
    BY <2>2 DEF Held, Sound
  <2> QED BY <2>1, <2>3, <2>4, <2>5 DEF Sound
<1>10. Stage(h)'
  BY <1>3, <1>4, <1>5, <1>6, StageSet DEF Held, Broken
<1> QED BY SMTT(30), <1>9, <1>10 DEF Held

LEMMA HeldClientInactive ==
  ASSUME Base, NEW h \in Nodes, Held(h), NEW k \in Links, ClientInactive(k)
  PROVE  Held(h)'
<1> DEFINE l == link[k]
           rec == [l EXCEPT !.client = "closed", !.answer = NoAnswer]
<1>1. Becomes(k, rec) /\ l.handling = "no" /\ (l.server = "closed" \/ l.silent) /\ l.client = "open"
  BY ClientInactiveLink DEF ClientInactive
<1>2. /\ rec.from = l.from /\ rec.server = l.server /\ rec.down = l.down /\ rec.answer = NoAnswer
      /\ rec.client = "closed" /\ rec.silent = l.silent /\ rec.role = l.role /\ rec.handling = "no"
      /\ rec.request = l.request /\ rec \in LinkType
  BY <1>1 DEF Becomes, LinkType
<1>3. UNCHANGED <<up, address, haveVirtualIp, master, init>>
  BY DEF ClientInactive, NodeVars
<1>4. l.request => l.server = "accepted"
  BY <1>1 DEF Becomes, Shape
<1> HIDE DEF rec
<1>5. l.from = h => Outgoing(rec)
  BY <1>1, <1>2 DEF Held, Sound, Outgoing
<1>6. l.from = Peer(h) => Incoming(h, rec)
  BY <1>2 DEF Incoming
<1>7. Sound(h)'
  BY <1>1, <1>2, <1>3, <1>5, <1>6, SoundSet DEF Held
<1>8. Stage(h)'
  BY <1>1, <1>2, <1>3, <1>4, StageSet DEF Held, Broken
<1> QED BY <1>7, <1>8 DEF Held

LEMMA HeldServerAuth ==
  ASSUME Base, NEW h \in Nodes, Held(h), NEW k \in Links, ServerAuth(k)
  PROVE  Held(h)'
<1> DEFINE l == link[k]
<1>1. PICK answer \in [haveVirtualIp : BOOLEAN, master : BOOLEAN] \cup {NoAnswer} :
           /\ Becomes(k, [l EXCEPT !.server = "registered", !.request = FALSE, !.answer = answer])
           /\ l.client = "open" =>
                /\ answer.haveVirtualIp = haveVirtualIp[Peer(l.from)]
                /\ answer.master = master[Peer(l.from)]
           /\ l.client = "closed" => answer = NoAnswer
  BY ServerAuthLink
<1> DEFINE rec == [l EXCEPT !.server = "registered", !.request = FALSE, !.answer = answer]
<1>2. /\ rec.from = l.from /\ rec.server = "registered" /\ rec.down = l.down /\ rec.answer = answer
      /\ rec.client = l.client /\ rec.silent = l.silent /\ rec.role = l.role /\ rec.handling = l.handling
      /\ ~rec.request /\ rec \in LinkType
  BY <1>1 DEF Becomes, LinkType
<1>3. Becomes(k, rec) /\ l.request /\ ~l.silent /\ l.server = "accepted" /\ l.down = "no" /\ l.handling = "no"
  BY <1>1 DEF Becomes, Shape, Turn, ServerAuth
<1>4. UNCHANGED <<up, address, haveVirtualIp, master, init>>
  BY DEF ServerAuth, NodeVars
<1>5. l.client \in {"open", "closed"} /\ l.from \in Nodes
  BY <1>3 DEF Becomes, LinkType
<1> HIDE DEF rec
<1>6. l.from = h => Outgoing(rec)
  BY <1>2, <1>3 DEF Held, Sound, Outgoing
<1>7. l.from = Peer(h) => Incoming(h, rec)
  <2>1. SUFFICES ASSUME l.from = Peer(h), ~init[Peer(h)], answer # NoAnswer
                 PROVE  /\ LocalRole(Peer(h), answer) <=> ~master[h]
                        /\ Peer(h) = MasterNode => answer.haveVirtualIp
    BY <1>2, <1>3 DEF Incoming
  <2>2. l.client = "open" /\ Peer(Peer(h)) = h
    BY <1>1, <1>5, <2>1, Hosts
  <2>3. up[Peer(h)]
    BY <1>3, <2>1, <2>2 DEF Becomes, Connected
  <2>4. haveVirtualIp[h]
    BY <2>1, <2>3 DEF Held, Stage, Keeps, Alone, Waits, Takes
  <2> QED BY <1>1, <2>1, <2>2, <2>4 DEF LocalRole
<1>8. Sound(h)'
  BY <1>2, <1>3, <1>4, <1>6, <1>7, SoundSet DEF Held
<1>9. Stage(h)'
  BY <1>2, <1>3, <1>4, StageSet DEF Held, Broken
<1> QED BY <1>8, <1>9 DEF Held

LEMMA HeldReaderIdle ==
  ASSUME Base, NEW h \in Nodes, Held(h), NEW k \in Links, ReaderIdle(k)
  PROVE  Held(h)'
<1> DEFINE l == link[k]
           rec == [l EXCEPT !.server = "accepted", !.down = "begin", !.idle = TRUE]
<1>1. Becomes(k, rec) /\ l.server = "registered" /\ l.silent /\ l.down = "no"
  BY ReaderIdleLink DEF ReaderIdle
<1>2. /\ rec.from = l.from /\ rec.server = "accepted" /\ rec.down = "begin" /\ rec.answer = l.answer
      /\ rec.client = l.client /\ rec.silent = l.silent /\ rec.role = l.role /\ rec.handling = l.handling
      /\ rec.request = l.request /\ rec \in LinkType
  BY <1>1 DEF Becomes, LinkType
<1>3. UNCHANGED <<up, address, haveVirtualIp, master, init>>
  BY DEF ReaderIdle, NodeVars
<1> HIDE DEF rec
<1>4. l.from # h
  BY <1>1 DEF Held, Sound, Outgoing
<1>5. l.from = Peer(h) => Incoming(h, rec)
  BY <1>2 DEF Held, Sound, Incoming
<1>6. Sound(h)'
  BY <1>1, <1>2, <1>3, <1>4, <1>5, SoundSet DEF Held
<1>7. Stage(h)'
  BY <1>1, <1>2, <1>3, StageSet DEF Held, Broken
<1> QED BY <1>6, <1>7 DEF Held

LEMMA HeldServerInactive ==
  ASSUME Base, NEW h \in Nodes, Held(h), NEW k \in Links, ServerInactive(k)
  PROVE  Held(h)'
<1> DEFINE l == link[k]
           d == IF l.server = "registered" THEN "begin" ELSE "no"
           rec == [l EXCEPT !.server = "closed", !.down = d]
<1>1. /\ Becomes(k, rec) /\ l.down = "no" /\ l.server # "closed" /\ ~l.request
      /\ IF l.silent THEN l.server = "accepted" ELSE l.client = "closed"
  BY ServerInactiveLink DEF ServerInactive
<1>2. /\ rec.from = l.from /\ rec.server = "closed" /\ rec.down = d /\ rec.answer = l.answer
      /\ rec.client = l.client /\ rec.silent = l.silent /\ rec.role = l.role /\ rec.handling = l.handling
      /\ rec.request = l.request /\ rec \in LinkType
  BY <1>1 DEF Becomes, LinkType
<1>3. UNCHANGED <<up, address, haveVirtualIp, master, init>>
  BY DEF ServerInactive, NodeVars
<1> HIDE DEF rec
<1>4. l.from # h
  BY <1>1 DEF Held, Sound, Outgoing
<1>5. l.from = Peer(h) => Incoming(h, rec)
  BY <1>2 DEF Held, Sound, Incoming
<1>6. d # "close"
  OBVIOUS
<1>7. Sound(h)'
  BY <1>1, <1>2, <1>3, <1>4, <1>5, <1>6, SoundSet DEF Held
<1>8. Stage(h)'
  BY <1>1, <1>2, <1>3, StageSet DEF Held, Broken
<1> QED BY <1>7, <1>8 DEF Held


LEMMA HeldConnect ==
  ASSUME Base, NEW h \in Nodes, Held(h), Timely, NEW n \in Nodes, DoConnect(n)
  PROVE  Held(h)'
<1>1. PICK k \in Links : /\ link[k] = Free /\ link'[k] = Fresh(n)
                         /\ \A j \in Links : j # k => link'[j] = link[j]
  BY ConnectEffect
<1>2. UNCHANGED <<up, address, haveVirtualIp, master, init>>
  BY DEF DoConnect
<1>3. h # NoNode /\ Peer(h) # NoNode /\ Peer(h) # h /\ (n = h \/ n = Peer(h))
  BY Hosts
<1>4. n = h => \A j \in Links : link[j].from = Peer(h) => link[j].down # "close"
  BY DEF DoConnect, Slower
<1>5. Sound(h)'
  <2>1. \A j \in Links : link'[j].from = h => Outgoing(link'[j])
    BY <1>1, FreshType DEF Held, Sound, Outgoing
  <2>2. ASSUME NEW j \in Links, link'[j].from = Peer(h) PROVE Incoming(h, link[j])'
    <3>1. CASE j = k
      BY <1>1, <3>1, FreshType DEF Incoming
    <3>2. CASE j # k
      <4>1. Incoming(h, link[j]) /\ link'[j] = link[j]
        BY <1>1, <2>2, <3>2 DEF Held, Sound
      <4> QED BY <1>2, <4>1 DEF Incoming
    <3> QED BY <3>1, <3>2
  <2>3. ASSUME NEW i \in Links, NEW j \in Links,
               link'[i].from = Peer(h), link'[i].down = "close", link'[j].from = h
        PROVE  link'[j].server = "closed"
    <3>1. link[i].from = Peer(h) /\ link[i].down = "close"
      BY <1>1, <2>3, FreshType
    <3>2. j # k
      BY <1>1, <1>4, <2>3, <3>1, FreshType
    <3> QED BY <1>1, <2>3, <3>1, <3>2 DEF Held, Sound
  <2> QED BY <1>2, <2>1, <2>2, <2>3 DEF Held, Sound
<1>6. Stage(h)'
  <2>1. CASE Keeps(h)
    <3>1. \A j \in Links : link[j].down # "no" => link'[j] = link[j]
      BY <1>1, FreeType
    <3>2. \A j \in Links : link'[j].from = Peer(h) => link'[j].down \notin {"del", "add"}
      BY <1>1, <2>1, FreshType DEF Keeps
    <3>3. haveVirtualIp[Peer(h)] => \E j \in Links : link'[j].from = Peer(h) /\ link'[j].down = "restart"
      BY <2>1, <3>1 DEF Keeps
    <3>4. Keeps(h)'
      BY <1>2, <2>1, <3>2, <3>3 DEF Keeps
    <3> QED BY <3>4 DEF Stage
  <2>2. ASSUME NEW i \in Links, Alone(h, i), Waits(h, i) \/ Takes(h, i)
        PROVE  Stage(h)'
    <3>1. i # k /\ link'[i] = link[i]
      BY <1>1, <1>3, <2>2, FreeType DEF Alone
    <3>2. ASSUME NEW j \in Links, link'[j].from = Peer(h)
          PROVE  /\ j # i => link'[j].down = "no" /\ ~Broken(link'[j])
                 /\ link'[j].request => link'[j].client = "open" /\ ~link'[j].silent
      <4>1. CASE j = k
        BY <1>1, <4>1, FreshType DEF Broken
      <4>2. CASE j # k
        BY <1>1, <2>2, <3>2, <4>2 DEF Alone
      <4> QED BY <4>1, <4>2
    <3>3. Alone(h, i)'
      BY <1>2, <2>2, <3>1, <3>2 DEF Alone, Broken
    <3>4. (Waits(h, i) => Waits(h, i)') /\ (Takes(h, i) => Takes(h, i)')
      BY <1>2, <3>1 DEF Waits, Takes, Broken
    <3> QED BY <2>2, <3>3, <3>4 DEF Stage
  <2> QED BY <2>1, <2>2 DEF Held, Stage
<1> QED BY <1>5, <1>6 DEF Held

\* The host that boots has no part in what the other one does: its connections are gone.
LEMMA HeldBoot ==
  ASSUME Base, NEW h \in Nodes, Held(h), Timely, NEW n \in Nodes, Boot(n)
  PROVE  Held(h)'
<1>1. n = Peer(h)
  BY Hosts DEF Held, Sound, Base, Machines, Boot
<1>2. \A j \in Links : link[j].from # Peer(h)
  BY <1>1 DEF Boot, Slower
<1>3. UNCHANGED <<address, haveVirtualIp, master, init, link>>
  BY DEF Boot, NodeVars
<1>4. Sound(h)'
  BY <1>2, <1>3 DEF Held, Sound
<1>5. Keeps(h)
  BY <1>2 DEF Held, Stage, Alone
<1>6. Keeps(h)'
  BY <1>3, <1>5 DEF Keeps
<1> QED BY <1>4, <1>6 DEF Held, Stage

\* Only the other one's connections are taken for broken, and the step of
\* remoteHARedisDown for one of them leaves everything else as it is.
LEMMA HeldDown ==
  ASSUME Base, NEW h \in Nodes, Held(h), NEW k \in Links, link[k].down # "no",
         NEW d \in {"del", "add", "restart", "close"}, Set(k, [link[k] EXCEPT !.down = d]),
         UNCHANGED <<init, master>>,
         d = "close" => \A j \in Links : link[j].from = h => link[j].server = "closed"
  PROVE  /\ link[k].from = Peer(h) /\ Sound(h)'
         /\ link'[k].from = Peer(h) /\ link'[k].down = d
         /\ link'[k].request = link[k].request /\ link'[k].client = link[k].client
         /\ link'[k].silent = link[k].silent
         /\ \A j \in Links : j # k => link'[j] = link[j]
<1> DEFINE rec == [link[k] EXCEPT !.down = d]
<1>1. Becomes(k, rec)
  BY DownLink
<1>2. /\ rec.from = link[k].from /\ rec.server = link[k].server /\ rec.down = d
      /\ rec.answer = link[k].answer /\ rec.client = link[k].client /\ rec.silent = link[k].silent
      /\ rec.role = link[k].role /\ rec.handling = link[k].handling /\ rec.request = link[k].request
  BY <1>1 DEF Becomes, LinkType
<1> HIDE DEF rec
<1>3. link[k].from = Peer(h)
  BY <1>1, Hosts DEF Becomes, Held, Sound, Outgoing
<1>4. Incoming(h, rec)
  BY <1>2, <1>3 DEF Held, Sound, Incoming
<1>5. Sound(h)'
  BY <1>1, <1>2, <1>3, <1>4, Hosts, SoundSet DEF Held
<1>6. link'[k] = rec /\ \A j \in Links : j # k => link'[j] = link[j]
  BY <1>1, <1>2 DEF Becomes, Left, Over
<1> QED BY <1>2, <1>3, <1>5, <1>6

\* A connection for which the address is being moved is the one that is not in order.
LEMMA HeldMoving ==
  ASSUME Base, NEW h \in Nodes, Held(h), NEW k \in Links, link[k].from = Peer(h), link[k].down \in {"del", "add"}
  PROVE  Alone(h, k) /\ Takes(h, k)
<1>1. ~Keeps(h)
  BY DEF Keeps
<1>2. PICK i \in Links : Alone(h, i) /\ (Waits(h, i) \/ Takes(h, i))
  BY <1>1 DEF Held, Stage
<1>3. i = k
  BY <1>2 DEF Alone
<1>4. ~Waits(h, k)
  BY LinkFacts DEF Waits, Broken, Base, Apart
<1> QED BY <1>2, <1>3, <1>4

LEMMA HeldDownBegin ==
  ASSUME Base, NEW h \in Nodes, Held(h), NEW k \in Links, DownBegin(k)
  PROVE  Held(h)'
<1> DEFINE d == IF haveVirtualIp[Peer(link[k].from)] THEN "restart" ELSE "del"
<1>1. /\ Set(k, [link[k] EXCEPT !.down = d]) /\ link[k].down = "begin"
      /\ UNCHANGED <<init, master, up, address>>
      /\ haveVirtualIp' = [haveVirtualIp EXCEPT ![Peer(link[k].from)] = TRUE]
  BY DEF DownBegin
<1>2. d \in {"del", "restart"}
  OBVIOUS
<1>3. /\ link[k].from = Peer(h) /\ Sound(h)'
      /\ link'[k].from = Peer(h) /\ link'[k].down = d
      /\ link'[k].request = link[k].request /\ link'[k].client = link[k].client
      /\ link'[k].silent = link[k].silent
      /\ \A j \in Links : j # k => link'[j] = link[j]
  <2> HIDE DEF d
  <2> QED BY <1>1, <1>2, HeldDown
<1>31. Peer(link[k].from) = h /\ Peer(h) # h /\ Peer(h) \in Nodes
  BY <1>3, Hosts
<1>4. /\ haveVirtualIp'[h] /\ haveVirtualIp'[Peer(h)] = haveVirtualIp[Peer(h)]
      /\ d = IF haveVirtualIp[h] THEN "restart" ELSE "del"
  BY <1>1, <1>31 DEF Base, Types, Flags
<1> HIDE DEF d
<1>5. CASE Keeps(h)
  <2>1. d = "restart"
    BY <1>4, <1>5 DEF Keeps
  <2>2. \A j \in Links : link'[j].from = Peer(h) => link'[j].down \notin {"del", "add"}
    BY <1>3, <1>5, <2>1 DEF Keeps
  <2>3. Keeps(h)'
    BY <1>1, <1>3, <1>4, <1>5, <2>1, <2>2 DEF Keeps
  <2> QED BY <1>3, <2>3 DEF Held, Stage
<1>6. ASSUME NEW i \in Links, Alone(h, i), Waits(h, i) \/ Takes(h, i)
      PROVE  Held(h)'
  <2>1. i = k
    BY <1>1, <1>3, <1>6 DEF Alone
  <2>2. Waits(h, k)
    BY <1>1, <1>6, <2>1 DEF Takes
  <2>3. d = "del" /\ ~address[h]
    BY <1>4, <2>2 DEF Waits
  <2>4. Alone(h, k)'
    BY <1>1, <1>3, <1>6, <2>1 DEF Alone, Broken
  <2>5. Takes(h, k)'
    BY <1>1, <1>3, <1>4, <2>3 DEF Takes
  <2> QED BY <1>3, <2>4, <2>5 DEF Held, Stage
<1> QED BY <1>5, <1>6 DEF Held, Stage

\* The address is taken from the other host and then given to this one, at once when the
\* other host does not answer.
LEMMA HeldDownDel ==
  ASSUME Base, NEW h \in Nodes, Held(h), NEW k \in Links, DownDel(k)
  PROVE  Held(h)'
<1> DEFINE d == IF host[Peer(Peer(link[k].from))] THEN "add" ELSE "close"
<1>1. /\ Set(k, [link[k] EXCEPT !.down = d]) /\ link[k].down = "del"
      /\ UNCHANGED <<init, master, up, haveVirtualIp>>
  BY DEF DownDel, Ssh, NodeVars
<1>2. link[k].from = Peer(h)
  BY <1>1, LinkFacts, FreeType, Hosts DEF Base, Held, Sound, Outgoing
<1>3. Peer(Peer(h)) = h /\ Peer(h) # h /\ Peer(h) \in Nodes /\ d \in {"add", "close"}
      /\ d = IF host[Peer(h)] THEN "add" ELSE "close"
  BY <1>2, Hosts
<1>4. remoteNames[h]
  BY DEF Held, Sound, Base, Machines
<1>5. ~host[Peer(h)] => /\ ~up[Peer(h)] /\ ~address[Peer(h)] /\ ~haveVirtualIp[Peer(h)]
                        /\ \A j \in Links : link[j].from = h => link[j].server = "closed"
  BY <1>3 DEF Base, Machines, DeadEnds, Into, From
<1>6. /\ address' = IF host[Peer(h)] THEN [address EXCEPT ![Peer(h)] = FALSE] ELSE [address EXCEPT ![h] = TRUE]
      /\ address'[h] = IF host[Peer(h)] THEN address[h] ELSE TRUE
      /\ ~address'[Peer(h)]
  BY <1>2, <1>3, <1>4, <1>5 DEF DownDel, Ssh, Base, Types, Flags
<1> HIDE DEF d
<1>51. d = "close" => \A j \in Links : link[j].from = h => link[j].server = "closed"
  BY <1>3, <1>5
<1>52. d \in {"del", "add", "restart", "close"} /\ link[k].down # "no"
  BY <1>1, <1>3
<1>7. /\ Sound(h)' /\ link'[k].from = Peer(h) /\ link'[k].down = d
      /\ link'[k].request = link[k].request /\ link'[k].client = link[k].client
      /\ link'[k].silent = link[k].silent
      /\ \A j \in Links : j # k => link'[j] = link[j]
  BY <1>1, <1>51, <1>52, HeldDown
<1>8. Alone(h, k) /\ Takes(h, k)
  BY <1>1, <1>2, HeldMoving
<1>9. CASE host[Peer(h)]
  <2>1. Alone(h, k)'
    BY <1>1, <1>7, <1>8 DEF Alone, Broken
  <2>2. Takes(h, k)'
    BY <1>1, <1>3, <1>6, <1>7, <1>8, <1>9 DEF Takes
  <2> QED BY <1>7, <2>1, <2>2 DEF Held, Stage
<1>10. CASE ~host[Peer(h)]
  <2>1. \A j \in Links : link'[j].from = Peer(h) => link'[j].down \notin {"del", "add"}
    BY <1>3, <1>7, <1>8, <1>10 DEF Alone
  <2>2. Keeps(h)'
    BY <1>1, <1>5, <1>6, <1>8, <1>10, <2>1 DEF Keeps, Takes
  <2> QED BY <1>7, <2>2 DEF Held, Stage
<1> QED BY <1>9, <1>10

LEMMA HeldDownAdd ==
  ASSUME Base, NEW h \in Nodes, Held(h), NEW k \in Links, DownAdd(k)
  PROVE  Held(h)'
<1>1. /\ Set(k, [link[k] EXCEPT !.down = "restart"]) /\ link[k].down = "add"
      /\ UNCHANGED <<init, master, up, haveVirtualIp>>
      /\ address' = [address EXCEPT ![Peer(link[k].from)] = TRUE]
  BY DEF DownAdd, NodeVars
<1>2. PICK d \in {"del", "add", "restart", "close"} : d = "restart"
  OBVIOUS
<1>3. /\ link[k].from = Peer(h) /\ Sound(h)' /\ link'[k].from = Peer(h) /\ link'[k].down = "restart"
      /\ \A j \in Links : j # k => link'[j] = link[j]
  BY <1>1, <1>2, HeldDown
<1>4. Alone(h, k) /\ Takes(h, k) /\ ~address[Peer(h)]
  BY <1>1, <1>3, HeldMoving DEF Takes
<1>5. address'[h] /\ ~address'[Peer(h)]
  BY <1>1, <1>3, <1>4, Hosts DEF Base, Types, Flags
<1>6. \A j \in Links : link'[j].from = Peer(h) => link'[j].down \notin {"del", "add"}
  BY <1>3, <1>4 DEF Alone
<1>7. Keeps(h)'
  BY <1>1, <1>3, <1>4, <1>5, <1>6 DEF Keeps, Takes
<1> QED BY <1>3, <1>7 DEF Held, Stage

\* When a proxy restarts the other one, or has done so, it keeps the address.
LEMMA HeldKeeps ==
  ASSUME Base, NEW h \in Nodes, Held(h), NEW k \in Links, link[k].down \in {"restart", "close"}
  PROVE  link[k].from = Peer(h) /\ Keeps(h)
<1>1. link[k].from = Peer(h)
  BY LinkFacts, FreeType, Hosts DEF Base, Held, Sound, Outgoing
<1>2. ASSUME NEW i \in Links, Alone(h, i), Waits(h, i) \/ Takes(h, i) PROVE FALSE
  <2>1. i = k
    BY <1>1, <1>2 DEF Alone
  <2> QED BY <1>2, <2>1, LinkFacts DEF Base, Waits, Takes, Broken, Apart
<1> QED BY <1>1, <1>2 DEF Held, Stage

LEMMA HeldRestartFails ==
  ASSUME Base, NEW h \in Nodes, Held(h), NEW k \in Links, DownRestart(k), ~Reaches(k)
  PROVE  Held(h)'
<1>1. /\ Set(k, [link[k] EXCEPT !.down = "close"]) /\ link[k].down = "restart"
      /\ UNCHANGED <<init, master, up, haveVirtualIp, address>>
  BY DEF DownRestart, Reaches, NodeVars
<1>2. link[k].from = Peer(h) /\ Keeps(h)
  BY <1>1, HeldKeeps
<1>3. Peer(Peer(h)) = h /\ Peer(h) # h /\ Peer(h) \in Nodes /\ remoteNames[h]
  BY Hosts DEF Held, Sound, Base, Machines
<1>4. ~host[Peer(h)]
  BY <1>2, <1>3 DEF Reaches, Ssh
<1>5. ~up[Peer(h)] /\ ~haveVirtualIp[Peer(h)]
  BY <1>3, <1>4 DEF Base, Machines
<1>6. \A j \in Links : link[j].from = h => link[j].server = "closed"
  BY <1>3, <1>5 DEF Base, DeadEnds, Into, From
<1>7. PICK d \in {"del", "add", "restart", "close"} : d = "close"
  OBVIOUS
<1>8. /\ Sound(h)' /\ link'[k].from = Peer(h) /\ link'[k].down = "close"
      /\ \A j \in Links : j # k => link'[j] = link[j]
  BY <1>1, <1>6, <1>7, HeldDown
<1>9. \A j \in Links : link'[j].from = Peer(h) => link'[j].down \notin {"del", "add"}
  BY <1>2, <1>8 DEF Keeps
<1>10. Keeps(h)'
  BY <1>1, <1>2, <1>5, <1>9 DEF Keeps
<1> QED BY <1>8, <1>10 DEF Held, Stage

LEMMA HeldRestart ==
  ASSUME Base, NEW h \in Nodes, Held(h), NEW k \in Links, DownRestart(k), Reaches(k)
  PROVE  Held(h)'
<1>1. link[k].down = "restart" /\ UNCHANGED address
  BY DEF DownRestart
<1>2. link[k].from = Peer(h) /\ Keeps(h)
  BY <1>1, HeldKeeps
<1>3. Peer(Peer(h)) = h /\ Peer(h) # h /\ Peer(h) \in Nodes /\ h # NoNode /\ Peer(h) # NoNode
  BY Hosts
<1> DEFINE p == link[k].from
<1>30. /\ p \in Nodes /\ Blank(p)
       /\ \A j \in Links :
            /\ j # k /\ link[j].from = p => link'[j] = Left(NoClient(link[j], FALSE))
            /\ link[j].from # p /\ link[j].from = Peer(p) => link'[j] = Left(NoServer(link[j], FALSE))
            /\ link[j].from # p /\ link[j].from # Peer(p) => link'[j] = Left(link[j])
  BY RestartEffect
<1>31. /\ link'[k].from = p /\ link'[k].down = "close" /\ link'[k].handling = "no"
       /\ link'[k].answer = NoAnswer
  BY RestartEffect
<1>32. p = Peer(h) /\ Peer(p) = h
  BY <1>2, <1>3
<1> HIDE DEF p
<1>33. /\ ~init'[p] /\ ~haveVirtualIp'[p]
       /\ \A m \in Nodes : m # p => /\ init'[m] = init[m] /\ haveVirtualIp'[m] = haveVirtualIp[m]
                                    /\ master'[m] = master[m]
  BY <1>30, BlankFields DEF Base
<1>4. /\ \A j \in Links :
           /\ j # k /\ link[j].from = Peer(h) => link'[j] = Left(NoClient(link[j], FALSE))
           /\ link[j].from = h => link'[j] = Left(NoServer(link[j], FALSE))
           /\ link[j].from # h /\ link[j].from # Peer(h) => link'[j] = Left(link[j])
      /\ link'[k].from = Peer(h) /\ link'[k].down = "close" /\ link'[k].handling = "no"
      /\ link'[k].answer = NoAnswer
  BY <1>3, <1>30, <1>31, <1>32
<1>5. /\ ~init'[Peer(h)] /\ ~haveVirtualIp'[Peer(h)]
      /\ init'[h] = init[h] /\ haveVirtualIp'[h] = haveVirtualIp[h] /\ master'[h] = master[h]
  BY <1>3, <1>32, <1>33
<1>6. ASSUME NEW j \in Links, link'[j].from = h
      PROVE  link[j].from = h /\ Outgoing(link'[j]) /\ link'[j].server = "closed"
  <2>1. link[j].from = h
    <3>1. j # k
      BY <1>3, <1>4, <1>6
    <3>2. CASE link[j].from = Peer(h)
      <4>1. link'[j] = Left(NoClient(link[j], FALSE)) /\ link[j] \in LinkType
        BY <1>4, <3>1, <3>2, LinkShape
      <4>2. NoClient(link[j], FALSE).from = link[j].from
        BY <4>1, NoClientFields
      <4> QED BY <1>3, <1>6, <3>2, <4>1, <4>2, FreeType DEF Left
    <3>3. CASE link[j].from # h /\ link[j].from # Peer(h)
      BY <1>3, <1>4, <1>6, <3>3, FreeType, LinkShape
    <3> QED BY <3>2, <3>3
  <2>2. link'[j] = Left(NoServer(link[j], FALSE)) /\ link[j] \in LinkType /\ link[j].handling = "no"
    BY <1>4, <2>1, LinkShape DEF Held, Sound, Outgoing
  <2>3. /\ NoServer(link[j], FALSE).server = "closed" /\ NoServer(link[j], FALSE).down = "no"
        /\ NoServer(link[j], FALSE).handling = "no"
    BY <2>2, NoServerFields
  <2> QED BY <2>1, <2>2, <2>3, FreeType DEF Left, Outgoing
<1>7. ASSUME NEW j \in Links, link'[j].from = Peer(h)
      PROVE  /\ link'[j].handling = "no" /\ link'[j].answer = NoAnswer
             /\ link'[j].down \notin {"del", "add"}
  <2>1. CASE j = k
    BY <1>4, <2>1
  <2>2. CASE j # k
    <3>1. CASE link[j].from = Peer(h)
      <4>1. link'[j] = Left(NoClient(link[j], FALSE)) /\ link[j] \in LinkType
        BY <1>4, <2>2, <3>1, LinkShape
      <4>2. /\ NoClient(link[j], FALSE).handling = "no" /\ NoClient(link[j], FALSE).answer = NoAnswer
            /\ NoClient(link[j], FALSE).down = link[j].down
        BY <4>1, NoClientFields
      <4> QED BY <1>2, <3>1, <4>1, <4>2, FreeType DEF Left, Keeps
    <3>2. CASE link[j].from = h
      <4>1. link'[j] = Left(NoServer(link[j], FALSE)) /\ link[j] \in LinkType
        BY <1>4, <3>2, LinkShape
      <4>2. NoServer(link[j], FALSE).from = h
        BY <3>2, <4>1, NoServerFields
      <4> QED BY <1>3, <1>7, <4>1, <4>2, FreeType DEF Left
    <3>3. CASE link[j].from # h /\ link[j].from # Peer(h)
      BY <1>3, <1>4, <1>7, <3>3, FreeType, LinkShape
    <3> QED BY <3>1, <3>2, <3>3
  <2> QED BY <2>1, <2>2
<1>8. Sound(h)'
  <2>1. \A j \in Links : link'[j].from = Peer(h) => Incoming(h, link[j])'
    BY <1>7 DEF Incoming
  <2> QED BY <1>5, <1>6, <2>1 DEF Held, Sound
<1>9. Keeps(h)'
  BY <1>1, <1>2, <1>5, <1>7 DEF Keeps
<1> QED BY <1>8, <1>9 DEF Held, Stage

LEMMA HeldClose ==
  ASSUME Base, NEW h \in Nodes, Held(h), NEW k \in Links, DownClose(k)
  PROVE  Held(h)'
<1>1. link[k].down = "close" /\ UNCHANGED <<up, address, init, haveVirtualIp, master>>
  BY DEF DownClose, NodeVars
<1>2. link[k].from = Peer(h) /\ Keeps(h)
  BY <1>1, HeldKeeps
<1>3. Peer(Peer(h)) = h /\ Peer(h) # h /\ Peer(h) \in Nodes /\ h # NoNode /\ Peer(h) # NoNode
  BY Hosts
<1>4. PICK open \in BOOLEAN : open = channel[h]
  BY DEF Base, Types, Flags
<1>5. /\ link'[k] = Left(ClosedHere(link[k], open))
      /\ \A j \in Links : j # k =>
           /\ link[k].idle /\ link[j].from = h => link'[j] = Left(ClosedThere(link[j]))
           /\ ~(link[k].idle /\ link[j].from = h) => link'[j] = link[j]
  BY <1>2, <1>3, <1>4, CloseEffect
<1>6. ASSUME NEW j \in Links, link'[j].from = h
      PROVE  Outgoing(link'[j]) /\ link'[j].server = "closed"
  <2>1. j # k
    <3>1. ClosedHere(link[k], open).from = Peer(h)
      BY SMTT(30), <1>2, <1>4, LinkShape, ClosedFields
    <3> QED BY <1>3, <1>5, <1>6, <3>1, FreeType DEF Left
  <2>2. CASE link[j].from = h
    <3>1. link[j].server = "closed" /\ Outgoing(link[j]) /\ link[j] \in LinkType
      BY <1>1, <1>2, <2>2, LinkShape DEF Held, Sound
    <3>2. /\ ClosedThere(link[j]).server = "closed" /\ ClosedThere(link[j]).down = "no"
          /\ ClosedThere(link[j]).handling = "no"
      BY <1>4, <3>1, ClosedFields DEF Outgoing
    <3>3. link'[j] = Left(ClosedThere(link[j])) \/ link'[j] = link[j]
      BY <1>5, <2>1, <2>2
    <3> QED BY <3>1, <3>2, <3>3, FreeType DEF Left, Outgoing
  <2>3. CASE link[j].from # h
    BY <1>5, <1>6, <2>1, <2>3
  <2> QED BY <2>2, <2>3
<1>7. ASSUME NEW j \in Links, link'[j].from = Peer(h)
      PROVE  /\ Incoming(h, link[j])' /\ link'[j].down \notin {"del", "add"}
  <2>1. CASE j = k
    <3>1. link[k] \in LinkType /\ Incoming(h, link[k])
      BY <1>2, LinkShape DEF Held, Sound
    <3>2. /\ ClosedHere(link[k], open).handling = link[k].handling
          /\ ClosedHere(link[k], open).answer = link[k].answer
          /\ ClosedHere(link[k], open).role = link[k].role
          /\ ClosedHere(link[k], open).down = "no"
      BY <1>4, <3>1, ClosedFields
    <3>3. link'[j] = Left(ClosedHere(link[k], open))
      BY <1>5, <2>1
    <3> QED BY <1>1, <1>3, <1>7, <3>1, <3>2, <3>3, FreeType DEF Left, Incoming
  <2>2. CASE j # k
    <3>1. CASE link[j].from = h
      <4>1. ClosedThere(link[j]).from = h
        BY <1>4, <3>1, LinkShape, ClosedFields
      <4> QED BY <1>3, <1>5, <1>7, <2>2, <3>1, <4>1, FreeType DEF Left
    <3>2. CASE link[j].from # h
      <4>1. link'[j] = link[j] /\ Incoming(h, link[j]) /\ link[j].down \notin {"del", "add"}
        BY <1>2, <1>5, <1>7, <2>2, <3>2 DEF Held, Sound, Keeps
      <4> QED BY <1>1, <4>1 DEF Incoming
    <3> QED BY <3>1, <3>2
  <2> QED BY <2>1, <2>2
<1>8. \A j \in Links : link[j].from = Peer(h) /\ link[j].down = "restart" => link'[j] = link[j]
  BY <1>1, <1>3, <1>5
<1>9. Sound(h)'
  BY <1>1, <1>6, <1>7 DEF Held, Sound
<1>10. Keeps(h)'
  BY <1>1, <1>2, <1>7, <1>8 DEF Keeps
<1> QED BY <1>9, <1>10 DEF Held, Stage

-----------------------------------------------------------------------------
(* A failure that meets two settled proxies, one of which keeps the address. *)

LEMMA SettledHeld ==
  ASSUME Base, NEW x \in Nodes, Held(x), Settled
  PROVE  /\ Keeps(x) /\ ~haveVirtualIp[Peer(x)] /\ \A n \in Nodes : up[n] /\ init[n]
         /\ master[Peer(x)] # master[x]
         /\ \A k \in Links : /\ link[k].handling = "no" /\ link[k].down = "no"
                             /\ ~link[k].request /\ link[k].answer = NoAnswer
         /\ \A n \in Nodes : \E k \in Links :
              /\ link[k].from = n /\ link[k].client = "open" /\ link[k].server = "registered" /\ ~link[k].silent
              /\ \A j \in Links : link[j].from = n => j = k
<1>1. Peer(x) \in Nodes /\ \A n \in Nodes : n # NoNode
  BY Hosts
<1>2. \A k \in Links : /\ link[k].handling = "no" /\ link[k].down = "no"
                       /\ ~link[k].request /\ link[k].answer = NoAnswer
  BY DEF Settled
<1>3. \A n \in Nodes : up[n] /\ init[n]
  BY DEF Settled
<1>4. ASSUME NEW n \in Nodes
      PROVE  \E k \in Links :
              /\ link[k].from = n /\ link[k].client = "open" /\ link[k].server = "registered" /\ ~link[k].silent
              /\ \A j \in Links : link[j].from = n => j = k
  <2>1. PICK k \in Links : /\ link[k].from = n /\ link[k].client = "open"
                           /\ link[k].server = "registered" /\ ~link[k].silent
    BY DEF Settled, From
  <2>2. ASSUME NEW j \in Links, link[j].from = n PROVE j = k
    <3>1. link[j].client = "open"
      BY <1>1, <2>2, FreeType DEF Settled
    <3> QED BY <2>1, <2>2, <3>1 DEF Base, OneClient
  <2> QED BY <2>1, <2>2
<1>5. Keeps(x)
  <2>1. PICK k \in Links :
              /\ link[k].from = Peer(x) /\ link[k].client = "open" /\ link[k].server = "registered" /\ ~link[k].silent
              /\ \A j \in Links : link[j].from = Peer(x) => j = k
    BY <1>1, <1>4
  <2>2. ASSUME NEW i \in Links, Alone(x, i), Waits(x, i) \/ Takes(x, i) PROVE FALSE
    <3>1. i = k
      BY <2>1, <2>2 DEF Alone
    <3> QED BY <1>2, <2>1, <2>2, <3>1 DEF Waits, Takes, Broken
  <2> QED BY <2>2 DEF Held, Stage
<1>6. ~haveVirtualIp[Peer(x)]
  BY <1>2, <1>5 DEF Keeps
<1>7. master[Peer(x)] # master[x]
  BY <1>1, <1>3 DEF Held, Sound
<1> QED BY <1>2, <1>3, <1>4, <1>5, <1>6, <1>7

\* h keeps the address, or it has a broken connection of the proxy that has it.
LEMMA StageAfter ==
  ASSUME Base, NEW x \in Nodes, Held(x), Settled, NEW h \in Nodes, NEW k \in Links,
         haveVirtualIp'[h] = haveVirtualIp[h], address'[h] = address[h],
         address'[Peer(h)] => address[Peer(h)], haveVirtualIp'[Peer(h)] => haveVirtualIp[Peer(h)],
         up'[Peer(h)] => /\ init'[Peer(h)] /\ haveVirtualIp'[Peer(h)] = haveVirtualIp[Peer(h)]
                         /\ address'[Peer(h)] = address[Peer(h)],
         link'[k].from = Peer(h), link'[k].down = "no", ~link'[k].request,
         link'[k].server = "registered", link'[k].client = "closed" \/ link'[k].silent,
         \A j \in Links : link'[j].from = Peer(h) => j = k
  PROVE  Stage(h)'
<1>1. Keeps(x) /\ ~haveVirtualIp[Peer(x)] /\ Peer(Peer(h)) = h /\ (x = h \/ x = Peer(h))
  BY SettledHeld, Hosts
<1>2. CASE x = h
  <2>1. Keeps(h)'
    BY <1>1, <1>2 DEF Keeps
  <2> QED BY <2>1 DEF Stage
<1>3. CASE x = Peer(h)
  <2>1. ~haveVirtualIp[h] /\ ~address[h] /\ haveVirtualIp[Peer(h)] /\ address[Peer(h)]
    BY <1>1, <1>3 DEF Keeps
  <2>2. Alone(h, k)'
    BY DEF Alone
  <2>3. Waits(h, k)'
    BY <2>1 DEF Waits, Broken
  <2> QED BY <2>2, <2>3 DEF Stage
<1> QED BY <1>1, <1>2, <1>3

\* The proxy that has not failed is the one that holds the address or takes it.
LEMMA CrashHeld ==
  ASSUME Base, NEW x \in Nodes, Held(x), Settled, NEW n \in Nodes, NEW b \in BOOLEAN, Blank(n),
         link' = Dead(n, b), up' = [up EXCEPT ![n] = FALSE],
         address' \in {address, [address EXCEPT ![n] = FALSE]}
  PROVE  Held(Peer(n))'
<1>1. PICK h \in Nodes : h = Peer(n)
  BY Hosts
<1>2. /\ n = Peer(h) /\ n # h /\ n # NoNode /\ h # NoNode
      /\ \A j \in Links : link[j].from \notin {n, h} => link[j] = Free
  BY <1>1, Hosts, LinkFacts DEF Base
<1>3. \A j \in Links : /\ link[j].from = n => link'[j] = Left(NoClient(link[j], b))
                       /\ link[j].from = h => link'[j] = Left(NoServer(link[j], b))
                       /\ link[j].from # n /\ link[j].from # h => link'[j] = Left(link[j])
  BY <1>1, <1>2, DeadLinks DEF Base, Types
<1>4. /\ ~init'[n] /\ ~haveVirtualIp'[n]
      /\ init'[h] = init[h] /\ haveVirtualIp'[h] = haveVirtualIp[h] /\ master'[h] = master[h]
  BY <1>2, BlankFields DEF Base
<1>5. ~up'[n] /\ address'[h] = address[h] /\ (address'[n] => address[n])
  BY <1>2 DEF Base, Types, Flags
<1>6. /\ init[h]
      /\ \A j \in Links : /\ link[j].handling = "no" /\ link[j].down = "no"
                          /\ ~link[j].request /\ link[j].answer = NoAnswer
  BY SettledHeld
<1>7. PICK k \in Links :
        /\ link[k].from = n /\ link[k].server = "registered"
        /\ \A j \in Links : link[j].from = n => j = k
  BY SettledHeld
<1>8. /\ link'[k].from = n /\ link'[k].down = "no" /\ ~link'[k].request
      /\ link'[k].server = "registered" /\ link'[k].client = "closed"
      /\ link'[k].handling = "no" /\ link'[k].answer = NoAnswer
  <2>1. link[k] \in LinkType
    BY LinkShape
  <2>2. /\ NoClient(link[k], b).from = n /\ NoClient(link[k], b).down = "no" /\ ~NoClient(link[k], b).request
        /\ NoClient(link[k], b).server = "registered" /\ NoClient(link[k], b).client = "closed"
        /\ NoClient(link[k], b).handling = "no" /\ NoClient(link[k], b).answer = NoAnswer
    BY <1>6, <1>7, <2>1, NoClientFields
  <2> QED BY <1>3, <1>7, <2>2 DEF Left, Over
<1>9. ASSUME NEW j \in Links, j # k
      PROVE  \/ link'[j] = Free
             \/ link'[j].from = h /\ link'[j].server = "closed" /\ link'[j].down = "no" /\ link'[j].handling = "no"
  <2>1. CASE link[j].from = h
    <3>1. /\ NoServer(link[j], b).from = h /\ NoServer(link[j], b).server = "closed"
          /\ NoServer(link[j], b).down = "no" /\ NoServer(link[j], b).handling = "no"
      BY <1>6, <2>1, LinkShape, NoServerFields
    <3> QED BY <1>3, <2>1, <3>1 DEF Left
  <2>2. CASE link[j].from # h
    BY <1>2, <1>3, <1>7, <1>9, <2>2 DEF Left
  <2> QED BY <2>1, <2>2
<1>10. \A j \in Links : link'[j].from = n => j = k
  BY <1>2, <1>9, FreeType
<1>11. Sound(h)'
  <2>1. \A j \in Links : link'[j].from = h => Outgoing(link'[j]) /\ link'[j].server = "closed"
    BY <1>2, <1>8, <1>9, FreeType DEF Outgoing
  <2>2. \A j \in Links : link'[j].from = Peer(h) => Incoming(h, link[j])'
    BY <1>2, <1>8, <1>10 DEF Incoming
  <2> QED BY <1>2, <1>4, <1>6, <2>1, <2>2 DEF Sound
<1>12. Stage(h)'
  BY <1>2, <1>4, <1>5, <1>8, <1>10, StageAfter
<1>13. Held(h)'
  BY <1>11, <1>12 DEF Held
<1> QED BY <1>1, <1>13

LEMMA BreakHeld ==
  ASSUME Base, NEW x \in Nodes, Held(x), Settled, NEW k \in Links, LinkBreaks(k) \/ Silence(k)
  PROVE  \E h \in Nodes : Held(h)'
<1> DEFINE l == link[k]
<1>1. \E rec : /\ Becomes(k, rec) /\ rec.from = l.from /\ rec.server = l.server /\ rec.down = l.down
               /\ rec.handling = l.handling /\ ~rec.request /\ (rec.client = "closed" \/ rec.silent)
  <2>1. CASE LinkBreaks(k)
    <3> DEFINE rec == [l EXCEPT !.client = "closed", !.answer = NoAnswer, !.request = FALSE]
    <3>1. Becomes(k, rec)
      BY <2>1, LinkBreaksLink
    <3>2. /\ rec.from = l.from /\ rec.server = l.server /\ rec.down = l.down
          /\ rec.handling = l.handling /\ ~rec.request /\ rec.client = "closed"
      BY <3>1 DEF Becomes, LinkType
    <3> HIDE DEF rec
    <3> QED BY <3>1, <3>2
  <2>2. CASE Silence(k)
    <3> DEFINE rec == [l EXCEPT !.silent = TRUE, !.request = FALSE]
    <3>1. Becomes(k, rec)
      BY <2>2, SilenceLink
    <3>2. /\ rec.from = l.from /\ rec.server = l.server /\ rec.down = l.down
          /\ rec.handling = l.handling /\ ~rec.request /\ rec.silent
      BY <3>1 DEF Becomes, LinkType
    <3> HIDE DEF rec
    <3> QED BY <3>1, <3>2
  <2> QED BY <2>1, <2>2
<1>2. PICK rec : /\ Becomes(k, rec) /\ rec.from = l.from /\ rec.server = l.server /\ rec.down = l.down
                 /\ rec.handling = l.handling /\ ~rec.request /\ (rec.client = "closed" \/ rec.silent)
  BY <1>1
<1>3. PICK h \in Nodes : h = Peer(l.from)
  BY <1>2 DEF Becomes
<1>4. l.from = Peer(h) /\ Peer(h) # h /\ Peer(h) \in Nodes /\ h # NoNode
  BY <1>2, <1>3, Hosts DEF Becomes
<1>5. UNCHANGED <<up, address, haveVirtualIp, master, init>>
  BY DEF LinkBreaks, Silence, NodeVars
<1>6. /\ \A n \in Nodes : init[n]
      /\ \A j \in Links : link[j].handling = "no" /\ link[j].down = "no"
      /\ \A n \in Nodes : \E j \in Links :
           /\ link[j].from = n /\ link[j].client = "open" /\ link[j].server = "registered" /\ ~link[j].silent
           /\ \A i \in Links : link[i].from = n => i = j
      /\ master[Peer(x)] # master[x]
  BY SettledHeld
<1>7. l.server = "registered" /\ \A j \in Links : link[j].from = Peer(h) => j = k
  BY <1>4, <1>6
<1>8. link'[k] = rec /\ \A j \in Links : j # k => link'[j] = link[j]
  BY <1>2, <1>7 DEF Becomes, Left, Over
<1>9. PICK p \in Links :
         /\ link[p].client = "open" /\ ~link[p].silent
         /\ \A i \in Links : link[i].from = h => i = p
  BY <1>6
<1>10. \A j \in Links : /\ link'[j].from = Peer(h) => j = k
                        /\ link'[j].from = h => j = p /\ link'[j] = link[j]
                        /\ link'[j].handling = "no" /\ link'[j].down = "no"
  BY <1>2, <1>4, <1>6, <1>7, <1>8, <1>9
<1>11. Sound(h)'
  <2>1. master'[Peer(h)] # master'[h] /\ init'[h] /\ init'[Peer(h)]
    BY <1>4, <1>5, <1>6, Hosts
  <2>2. \A j \in Links : link'[j].from = h => Outgoing(link'[j])
    BY <1>9, <1>10 DEF Outgoing
  <2>3. \A j \in Links : link'[j].from = Peer(h) => Incoming(h, link[j])'
    BY <1>10, <2>1 DEF Incoming
  <2> QED BY <1>10, <2>1, <2>2, <2>3 DEF Sound
<1>12. Stage(h)'
  BY <1>2, <1>4, <1>5, <1>6, <1>7, <1>8, <1>10, StageAfter
<1> QED BY <1>11, <1>12 DEF Held

LEMMA HeldStep ==
  ASSUME Base, NEW x \in Nodes, Held(x), Calm, Timely, [Next]_vars
  PROVE  \E h \in Nodes : Held(h)'
<1>1. ASSUME NEW n \in Nodes, ProcessCrash(n) PROVE Held(Peer(n))'
  <2>1. PICK b \in BOOLEAN : b = FALSE
    OBVIOUS
  <2>2. /\ Settled /\ Blank(n) /\ link' = Dead(n, b) /\ up' = [up EXCEPT ![n] = FALSE]
        /\ address' \in {address, [address EXCEPT ![n] = FALSE]}
    BY <1>1, <2>1 DEF ProcessCrash, Failing
  <2> QED BY <2>2, CrashHeld
<1>2. ASSUME NEW n \in Nodes, HostCrash(n) PROVE Held(Peer(n))'
  <2>1. PICK b \in BOOLEAN : b = TRUE
    OBVIOUS
  <2>2. /\ Settled /\ Blank(n) /\ link' = Dead(n, b) /\ up' = [up EXCEPT ![n] = FALSE]
        /\ address' \in {address, [address EXCEPT ![n] = FALSE]}
    BY <1>2, <2>1 DEF HostCrash, Failing
  <2> QED BY <2>2, CrashHeld
<1>3. ASSUME NEW k \in Links, LinkBreaks(k) \/ Silence(k) PROVE \E h \in Nodes : Held(h)'
  <2>1. Settled
    BY <1>3 DEF LinkBreaks, Silence, Failing
  <2> QED BY <1>3, <2>1, BreakHeld
<1>4. ASSUME NEW n \in Nodes, DoConnect(n) \/ Boot(n) PROVE Held(x)'
  BY <1>4, HeldConnect, HeldBoot
<1>5. ASSUME NEW k \in Links, ClientStep(k) \/ ServerStep(k) PROVE Held(x)'
  <2>1. CASE AuthSuccess(k) \/ InitAdd(k) \/ InitFlag(k) \/ InitRoles(k) \/ ClientInactive(k)
    BY <2>1, HeldAuthSuccess, HeldInit, HeldClientInactive
  <2>2. CASE ServerAuth(k) \/ ReaderIdle(k) \/ ServerInactive(k)
    BY <2>2, HeldServerAuth, HeldReaderIdle, HeldServerInactive
  <2>3. CASE DownBegin(k) \/ DownDel(k) \/ DownAdd(k)
    BY <2>3, HeldDownBegin, HeldDownDel, HeldDownAdd
  <2>4. CASE DownRestart(k) \/ DownClose(k)
    BY <2>4, HeldRestart, HeldRestartFails, HeldClose
  <2> QED BY <1>5, <2>1, <2>2, <2>3, <2>4 DEF ClientStep, ServerStep, RemoteHARedisDown
<1>6. CASE UNCHANGED vars
  <2>1. UNCHANGED <<up, address, haveVirtualIp, master, init, link>>
    BY <1>6 DEF vars
  <2>2. Sound(x)'
    BY <2>1 DEF Held, Sound, Incoming
  <2>3. Stage(x)'
    <3>1. Keeps(x) => Keeps(x)'
      BY <2>1 DEF Keeps
    <3>2. ASSUME NEW k \in Links PROVE Alone(x, k) /\ (Waits(x, k) \/ Takes(x, k)) =>
                                       Alone(x, k)' /\ (Waits(x, k)' \/ Takes(x, k)')
      BY <2>1 DEF Alone, Waits, Takes, Broken
    <3> QED BY <3>1, <3>2 DEF Held, Stage
  <2> QED BY <2>2, <2>3 DEF Held
<1>7. \A n \in Nodes : Peer(n) \in Nodes
  BY Hosts
<1> QED BY <1>1, <1>2, <1>3, <1>4, <1>5, <1>6, <1>7 DEF Next

LEMMA InvStep ==
  ASSUME Inv, Calm, Timely, [Next]_vars
  PROVE  Inv'
<1>1. Base /\ Base'
  BY BaseStep DEF Inv
<1>2. CASE Starting
  BY <1>1, <1>2, StartingStep DEF Inv
<1>3. ASSUME NEW x \in Nodes, Held(x) PROVE Phases'
  <2>1. \E h \in Nodes : Held(h)'
    BY <1>1, <1>3, HeldStep
  <2> QED BY <2>1 DEF Held, Phases
<1> QED BY <1>1, <1>2, <1>3 DEF Inv, Phases, Held

LEMMA Invariance == ASSUME Calm, Timely PROVE Spec => []Inv
<1>1. Inv /\ [Next]_vars => Inv'
  BY InvStep
<1> QED BY <1>1, InvInit, PTL DEF Spec

\* The two hosts never have the virtual IP at the same time, not even while the server
\* of one takes it from the other (HeartBeatServerHandler.remoteHARedisDown).
THEOREM AddressHeldOnce == ASSUME Calm, Timely PROVE Spec => []OneAddress
BY Invariance, InvOneAddress, PTL

\* When no handler is at work, the flag HeartBeatServer.haveVirtualIp of a running proxy
\* says what its network card has.
THEOREM FlagSaysAddress == ASSUME Calm, Timely PROVE Spec => []FlagTrue
BY Invariance, InvFlagTrue, PTL

\* Two proxies that have initialised have opposite roles for the Redis of a slice,
\* whoever has restarted whom in between.
THEOREM RolesOpposed == ASSUME Calm, Timely PROVE Spec => []RolesAgree
BY Invariance, InvRolesAgree, PTL
==============================================================================
