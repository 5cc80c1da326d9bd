------------------------------ MODULE Heartbeat ------------------------------
(***************************************************************************)
(* The two proxies, the heartbeat connections between them and the virtual *)
(* IP.  Each proxy listens (HeartBeatServer) and connects to the other one *)
(* (HeartBeatClient); a connection is registered by AUTH, answered with    *)
(* AUTH_SUCCESS.  A server whose registered connection breaks or is silent *)
(* for five seconds runs remoteHARedisDown: it takes the address and       *)
(* restarts the other proxy by ssh.  What follows for the Redis is the     *)
(* subject of Failover; a host keeps the address when its proxy ends.      *)
(***************************************************************************)
EXTENDS Integers

CONSTANTS
  Nodes,        \* the two hosts
  MasterNode,   \* the one whose startup.type is master
  Links,        \* identities of heartbeat connections, used again once free
  Failures,     \* subset of {"process", "host", "break", "silence"}
  MaxFailures,  \* bound: number of failures
  Calm,         \* bound: every failure meets two proxies that are settled, FALSE: the first does
  Timely,       \* TRUE: some steps are ordered by their durations (see Slower)
  StartSpeeds,  \* the values slowStart may have
  NoNode, NoAnswer

ASSUME HeartbeatAssumption ==
  /\ \E n \in Nodes : n # MasterNode /\ Nodes = {MasterNode, n}
  /\ MasterNode \in Nodes /\ NoNode \notin Nodes
  /\ Failures \subseteq {"process", "host", "break", "silence"}
  /\ StartSpeeds \subseteq BOOLEAN
  /\ MaxFailures \in Nat /\ Calm \in BOOLEAN /\ Timely \in BOOLEAN

Peer(n) == CHOOSE p \in Nodes : p # n

VARIABLES
  host,               \* the host runs
  address,            \* the network card of the host has the virtual IP
  up,                 \* the proxy process runs
  init,               \* HeartBeatServer.init
  haveVirtualIp,      \* HeartBeatServer.haveVirtualIp
  remoteHARedisIsRun, \* HeartBeatServer.remoteHARedisIsRun
  remoteNames,        \* remoteServiceName and remoteNetworkCardName are known
  master,             \* the master flags of localRedisInfoList
  channel,            \* HeartBeatClient.channel was set
  link,               \* of each connection both ends, what is under way, its handlers
  slowStart,          \* a proxy takes longer to start than the other one to run an ssh
  failures            \* number of failures so far

vars == <<host, address, up, init, haveVirtualIp, remoteHARedisIsRun, remoteNames,
          master, channel, link, slowStart, failures>>

Free == [from |-> NoNode, client |-> "closed", server |-> "closed", silent |-> FALSE,
         request |-> FALSE, answer |-> NoAnswer, handling |-> "no", role |-> FALSE,
         down |-> "no", idle |-> FALSE]

Init ==
  /\ host = [n \in Nodes |-> TRUE]
  /\ address = [n \in Nodes |-> FALSE]
  /\ up = [n \in Nodes |-> TRUE]
  /\ init = [n \in Nodes |-> FALSE]
  /\ haveVirtualIp = [n \in Nodes |-> FALSE]
  /\ remoteHARedisIsRun = [n \in Nodes |-> FALSE]
  /\ remoteNames = [n \in Nodes |-> FALSE]
  /\ master = [n \in Nodes |-> FALSE]
  /\ channel = [n \in Nodes |-> FALSE]
  /\ link = [k \in Links |-> Free]
  /\ slowStart \in StartSpeeds
  /\ failures = 0

From(n) == {k \in Links : link[k].from = n}
\* The connections n has accepted.
Into(n) == From(Peer(n))

\* A connection closed at both ends whose handlers have ended is forgotten.
Forget(l) == [k \in Links |->
  IF l[k].client = "closed" /\ l[k].server = "closed" /\ l[k].down = "no" /\ l[k].handling = "no"
    THEN Free ELSE l[k]]

Set(k, rec) == link' = Forget([link EXCEPT ![k] = rec])

\* The connections after the process of n has ended, noticed by the other end unless
\* the host is gone with it.
Dead(n, hostToo) == Forget([k \in Links |->
  IF link[k].from = n THEN
    [link[k] EXCEPT !.client = "closed", !.answer = NoAnswer, !.handling = "no",
                    !.silent = @ \/ hostToo]
  ELSE IF link[k].from = Peer(n) THEN
    [link[k] EXCEPT !.server = "closed", !.request = FALSE, !.down = "no", !.idle = FALSE,
                    !.silent = @ \/ hostToo]
  ELSE link[k]])

\* What a process that starts, or none, has in its static variables.
Blank(n) ==
  /\ init' = [init EXCEPT ![n] = FALSE]
  /\ haveVirtualIp' = [haveVirtualIp EXCEPT ![n] = FALSE]
  /\ remoteHARedisIsRun' = [remoteHARedisIsRun EXCEPT ![n] = FALSE]
  /\ remoteNames' = [remoteNames EXCEPT ![n] = FALSE]
  /\ master' = [master EXCEPT ![n] = FALSE]
  /\ channel' = [channel EXCEPT ![n] = FALSE]

NodeVars == <<init, haveVirtualIp, remoteHARedisIsRun, remoteNames, master, channel, slowStart>>

\* Both proxies run, know each other, have both connections and nothing under way.
Settled ==
  /\ \A n \in Nodes : up[n] /\ init[n]
  /\ \A n \in Nodes : \E k \in From(n) :
       link[k].client = "open" /\ link[k].server = "registered" /\ ~link[k].silent
  /\ \A k \in Links : /\ link[k] = Free \/ link[k].client = "open"
                      /\ ~link[k].request /\ link[k].answer = NoAnswer
                      /\ link[k].handling = "no" /\ link[k].down = "no"

\* What would have to happen in the milliseconds that some handler takes for its next
\* step, but takes seconds itself: a timeout, a connect to a proxy that starts, the boot
\* of a host.
Slower(quick(_)) == Timely => ~\E k \in Links : quick(link[k])
-----------------------------------------------------------------------------
(* HeartBeatClient and its handler *)

\* doConnect, at the start, when the channel becomes inactive and every five seconds.
\* A proxy that starts slowly connects when the other one is done with those it had.
DoConnect(n) ==
  /\ up[n] /\ up[Peer(n)]
  /\ \A k \in From(n) : link[k].client = "closed"
  /\ Slower(LAMBDA l : l.from = Peer(n) /\ l.down = "close")
  /\ slowStart /\ ~channel[n] => From(n) = {}
  /\ \E k \in Links :
       /\ link[k] = Free
       /\ k = CHOOSE j \in Links : link[j] = Free
       /\ link' = [link EXCEPT ![k] = [Free EXCEPT
            !.from = n, !.client = "open", !.server = "accepted", !.request = TRUE]]
  /\ channel' = [channel EXCEPT ![n] = TRUE]
  /\ UNCHANGED <<host, address, up, init, haveVirtualIp, remoteHARedisIsRun, remoteNames,
                 master, slowStart, failures>>

\* mutant of LocalRole: the flag of the other one's Redis as it is
LocalRoleSame(n, answer) == IF answer.haveVirtualIp THEN answer.master ELSE n = MasterNode

\* The local Redis are masters when those of the holder of the address are not, or else
\* as this proxy is configured.
LocalRole(n, answer) == IF answer.haveVirtualIp THEN ~answer.master ELSE n = MasterNode

\* handleData, AUTH_SUCCESS: a later one has no effect here (see Failover). The first
\* one decides on the address, ...
AuthSuccess(k) ==
  LET l == link[k]  n == l.from IN
  /\ l.client = "open" /\ l.answer # NoAnswer /\ ~l.silent
  /\ remoteHARedisIsRun' = [remoteHARedisIsRun EXCEPT ![n] = TRUE]
  /\ remoteNames' = [remoteNames EXCEPT ![n] = TRUE]
  /\ Set(k, [l EXCEPT
       !.answer = NoAnswer,
       !.role = ~init[n] /\ LocalRole(n, l.answer),
       !.handling = IF init[n] THEN "no"
                    ELSE IF ~l.answer.haveVirtualIp /\ n = MasterNode THEN "add"
                    ELSE "roles"])
  /\ UNCHANGED <<host, address, up, init, haveVirtualIp, master, channel, slowStart, failures>>

\* ... adds it, ...
InitAdd(k) ==
  LET l == link[k] IN
  /\ l.handling = "add"
  /\ address' = [address EXCEPT ![l.from] = TRUE]
  /\ Set(k, [l EXCEPT !.handling = "flag"])
  /\ UNCHANGED <<host, up, failures, NodeVars>>

\* ... says so, ...
InitFlag(k) ==
  LET l == link[k] IN
  /\ l.handling = "flag"
  /\ haveVirtualIp' = [haveVirtualIp EXCEPT ![l.from] = TRUE]
  /\ Set(k, [l EXCEPT !.handling = "roles"])
  /\ UNCHANGED <<host, address, up, init, remoteHARedisIsRun, remoteNames, master, channel, slowStart, failures>>

\* ... and gives the Redis their roles and starts the service.
InitRoles(k) ==
  LET l == link[k] IN
  /\ l.handling = "roles"
  /\ master' = [master EXCEPT ![l.from] = l.role]
  /\ init' = [init EXCEPT ![l.from] = TRUE]
  /\ Set(k, [l EXCEPT !.handling = "no", !.role = FALSE])
  /\ UNCHANGED <<host, address, up, haveVirtualIp, remoteHARedisIsRun, remoteNames, channel, slowStart, failures>>

\* channelInactive of the client: the other end has closed, or the writes to a host that
\* is gone have timed out.
ClientInactive(k) ==
  LET l == link[k] IN
  /\ l.client = "open" /\ l.handling = "no"
  /\ l.server = "closed" \/ l.silent
  /\ Set(k, [l EXCEPT !.client = "closed", !.answer = NoAnswer])
  /\ UNCHANGED <<host, address, up, failures, NodeVars>>
-----------------------------------------------------------------------------
(* HeartBeatServer and its handler *)

\* handleData, AUTH: the connection is registered, the answer is a snapshot. Timely
\* leaves out the one taken between l.53 and l.56 of the client's handler, when the
\* address is held and the Redis have no roles yet.
ServerAuth(k) ==
  LET l == link[k]  n == Peer(l.from) IN
  /\ l.server = "accepted" /\ l.request /\ ~l.silent
  /\ Slower(LAMBDA j : j.from = n /\ j.handling = "roles")
  /\ Set(k, [l EXCEPT
       !.server = "registered", !.request = FALSE,
       !.answer = IF l.client = "open"
                    THEN [haveVirtualIp |-> haveVirtualIp[n], master |-> master[n]]
                    ELSE NoAnswer])
  /\ UNCHANGED <<host, address, up, failures, NodeVars>>

\* mutant of ReaderIdle: the connection stays registered
ReaderIdleKept(k) ==
  LET l == link[k] IN
  /\ l.server = "registered" /\ l.silent /\ l.down = "no"
  /\ Set(k, [l EXCEPT !.down = "begin", !.idle = TRUE])
  /\ UNCHANGED <<host, address, up, failures, NodeVars>>

\* handleReaderIdle: nothing was read for five seconds.
ReaderIdle(k) ==
  LET l == link[k] IN
  /\ l.server = "registered" /\ l.silent /\ l.down = "no"
  /\ Slower(LAMBDA j : j.handling # "no")
  /\ Set(k, [l EXCEPT !.server = "accepted", !.down = "begin", !.idle = TRUE])
  /\ UNCHANGED <<host, address, up, failures, NodeVars>>

\* channelInactive of the server, or the idle of a connection that is not registered.
ServerInactive(k) ==
  LET l == link[k] IN
  /\ l.server # "closed" /\ l.down = "no"
  /\ IF l.silent THEN l.server = "accepted" ELSE l.client = "closed"
  /\ ~l.request
  /\ Set(k, [l EXCEPT !.server = "closed",
                      !.down = IF l.server = "registered" THEN "begin" ELSE "no"])
  /\ UNCHANGED <<host, address, up, failures, NodeVars>>

Ssh(n) == host[Peer(n)]

\* mutant of DownBegin: the flag is not set
DownBeginSilent(k) ==
  LET l == link[k]  n == Peer(l.from) IN
  /\ l.down = "begin"
  /\ remoteHARedisIsRun' = [remoteHARedisIsRun EXCEPT ![n] = FALSE]
  /\ Set(k, [l EXCEPT !.down = IF haveVirtualIp[n] THEN "restart" ELSE "del"])
  /\ UNCHANGED <<host, address, up, init, haveVirtualIp, remoteNames, master, channel, slowStart, failures>>

\* mutants of DownDel: nothing is deleted; nothing is added when ssh fails
DownDelNot(k) ==
  LET l == link[k] IN
  /\ l.down = "del"
  /\ Set(k, [l EXCEPT !.down = "add"])
  /\ UNCHANGED <<host, address, up, failures, NodeVars>>

DownDelOnly(k) ==
  LET l == link[k]  n == Peer(l.from) IN
  /\ l.down = "del"
  /\ address' = IF Ssh(n) /\ remoteNames[n] THEN [address EXCEPT ![Peer(n)] = FALSE] ELSE address
  /\ Set(k, [l EXCEPT !.down = IF Ssh(n) THEN "add" ELSE "close"])
  /\ UNCHANGED <<host, up, failures, NodeVars>>

\* remoteHARedisDown, on the thread of the connection k into n.
DownBegin(k) ==
  LET l == link[k]  n == Peer(l.from) IN
  /\ l.down = "begin"
  /\ remoteHARedisIsRun' = [remoteHARedisIsRun EXCEPT ![n] = FALSE]
  /\ haveVirtualIp' = [haveVirtualIp EXCEPT ![n] = TRUE]
  /\ Set(k, [l EXCEPT !.down = IF haveVirtualIp[n] THEN "restart" ELSE "del"])
  /\ UNCHANGED <<host, address, up, init, remoteNames, master, channel, slowStart, failures>>

\* ssh: ip addr del at the other host; without a name of its card nothing is deleted, and
\* when the host does not answer exec throws and the handler adds the address.
DownDel(k) ==
  LET l == link[k]  n == Peer(l.from) IN
  /\ l.down = "del"
  /\ address' = IF ~Ssh(n) THEN [address EXCEPT ![n] = TRUE]
                ELSE IF remoteNames[n] THEN [address EXCEPT ![Peer(n)] = FALSE]
                ELSE address
  /\ Set(k, [l EXCEPT !.down = IF Ssh(n) THEN "add" ELSE "close"])
  /\ UNCHANGED <<host, up, failures, NodeVars>>

DownAdd(k) ==
  LET l == link[k]  n == Peer(l.from) IN
  /\ l.down = "add"
  /\ address' = [address EXCEPT ![n] = TRUE]
  /\ Set(k, [l EXCEPT !.down = "restart"])
  /\ UNCHANGED <<host, up, failures, NodeVars>>

\* mutant of DownRestart: no restart by the proxy that had the address already
DownRestartNot(k) ==
  LET l == link[k] IN
  /\ l.down = "restart"
  /\ Set(k, [l EXCEPT !.down = "close"])
  /\ UNCHANGED <<host, address, up, failures, NodeVars>>

\* ssh: systemctl restart of the other proxy.
DownRestart(k) ==
  LET l == link[k]  n == Peer(l.from)  p == l.from IN
  /\ l.down = "restart"
  /\ IF Ssh(n) /\ remoteNames[n]
       THEN /\ up' = [up EXCEPT ![p] = TRUE]
            /\ Blank(p)
            /\ link' = Forget([Dead(p, FALSE) EXCEPT ![k].down = "close"])
       ELSE /\ Set(k, [l EXCEPT !.down = "close"])
            /\ UNCHANGED <<up, NodeVars>>
  /\ UNCHANGED <<host, address, slowStart, failures>>

\* The end of handleReaderIdle closes the client channel, null before the first connect,
\* and the connection itself; channelInactive has nothing left to do.  A handler of the
\* client channel that is at work ends here, in the code it would go on to its end.
DownClose(k) ==
  LET l == link[k]  n == Peer(l.from) IN
  /\ l.down = "close"
  /\ link' = Forget([j \in Links |->
       IF j = k THEN [l EXCEPT !.down = "no", !.idle = FALSE,
                               !.server = IF l.idle /\ channel[n] THEN "closed" ELSE @]
       ELSE IF l.idle /\ link[j].from = n
         THEN [link[j] EXCEPT !.client = "closed", !.answer = NoAnswer, !.handling = "no"]
       ELSE link[j]])
  /\ UNCHANGED <<host, address, up, failures, NodeVars>>

RemoteHARedisDown(k) ==
  DownBegin(k) \/ DownDel(k) \/ DownAdd(k) \/ DownRestart(k) \/ DownClose(k)
-----------------------------------------------------------------------------
(* Failures *)

Failing(kind) ==
  /\ kind \in Failures /\ failures < MaxFailures
  /\ failures' = failures + 1
  /\ UNCHANGED slowStart
  /\ Calm \/ failures = 0 => Settled

ProcessCrash(n) ==
  /\ Failing("process") /\ up[n]
  /\ up' = [up EXCEPT ![n] = FALSE]
  /\ Blank(n)
  /\ link' = Dead(n, FALSE)
  /\ UNCHANGED <<host, address>>

\* A host that starts again has no virtual IP and starts its proxy.
HostCrash(n) ==
  /\ Failing("host") /\ host[n]
  /\ host' = [host EXCEPT ![n] = FALSE]
  /\ address' = [address EXCEPT ![n] = FALSE]
  /\ up' = [up EXCEPT ![n] = FALSE]
  /\ Blank(n)
  /\ link' = Dead(n, TRUE)

\* It takes longer to boot than the other proxy to notice and to act.
Boot(n) ==
  /\ ~host[n]
  /\ Slower(LAMBDA l : l.from = n)
  /\ host' = [host EXCEPT ![n] = TRUE]
  /\ up' = [up EXCEPT ![n] = TRUE]
  /\ UNCHANGED <<address, link, failures, NodeVars>>

Open(k) == link[k].client = "open" /\ link[k].server # "closed" /\ ~link[k].silent

\* A connection is reset: both ends see it closed.
LinkBreaks(k) ==
  /\ Failing("break") /\ Open(k) /\ link[k].handling = "no"
  /\ Set(k, [link[k] EXCEPT !.client = "closed", !.answer = NoAnswer, !.request = FALSE])
  /\ UNCHANGED <<host, address, up, NodeVars>>

\* A connection stays open but delivers nothing any more.
Silence(k) ==
  /\ Failing("silence") /\ Open(k)
  /\ Set(k, [link[k] EXCEPT !.silent = TRUE, !.request = FALSE])
  /\ UNCHANGED <<host, address, up, NodeVars>>
-----------------------------------------------------------------------------
ClientStep(k) ==
  AuthSuccess(k) \/ InitAdd(k) \/ InitFlag(k) \/ InitRoles(k) \/ ClientInactive(k)

ServerStep(k) == ServerAuth(k) \/ ReaderIdle(k) \/ ServerInactive(k) \/ RemoteHARedisDown(k)

Next ==
  \/ \E n \in Nodes : DoConnect(n) \/ ProcessCrash(n) \/ HostCrash(n) \/ Boot(n)
  \/ \E k \in Links : ClientStep(k) \/ ServerStep(k) \/ LinkBreaks(k) \/ Silence(k)

\* Timers and threads of a running proxy go on; nobody has to boot a host, and nothing
\* has to fail.
Fairness ==
  /\ \A n \in Nodes : WF_vars(DoConnect(n))
  /\ \A k \in Links : WF_vars(ClientStep(k)) /\ WF_vars(ServerStep(k))

Spec == Init /\ [][Next]_vars /\ Fairness
-----------------------------------------------------------------------------
(* Properties *)

TypeOK ==
  /\ {host, address, up, init, haveVirtualIp, remoteHARedisIsRun, remoteNames, master, channel}
       \subseteq [Nodes -> BOOLEAN]
  /\ link \in [Links -> [
       from : Nodes \cup {NoNode}, client : {"open", "closed"},
       server : {"accepted", "registered", "closed"}, silent : BOOLEAN, request : BOOLEAN,
       answer : [haveVirtualIp : BOOLEAN, master : BOOLEAN] \cup {NoAnswer},
       handling : {"no", "add", "flag", "roles"}, role : BOOLEAN,
       down : {"no", "begin", "del", "add", "restart", "close"}, idle : BOOLEAN]]
  /\ \A k \in Links : link[k].down # "no" => link[k].server # "registered"
  /\ slowStart \in StartSpeeds
  /\ failures \in 0 .. MaxFailures

\* At no time, not even while one proxy takes over, do both hosts have the virtual IP.
OneAddress == \A m, n \in Nodes : address[m] /\ address[n] => m = n

\* No thread is moving the address or about to.
Rest == \A k \in Links : link[k].handling = "no" /\ link[k].down = "no"

\* "Whether this machine holds the virtual IP" (HeartBeatServer.java l.26): at rest the
\* flag of a running proxy says what its network card has.
FlagTrue == Rest => \A n \in Nodes : up[n] => (haveVirtualIp[n] <=> address[n])

\* Two proxies that have initialised agree which of the two Redis of a slice is the
\* master: exactly one of them takes it for its own.
RolesAgree == (\A n \in Nodes : init[n]) => master[MasterNode] # master[Peer(MasterNode)]

Serving(n) == address[n] /\ up[n] /\ init[n] /\ haveVirtualIp[n]

\* A failure costs no proxy for good: when both hosts stay up, both proxies are settled
\* again. A proxy that connects before the other one has restarted it for the connections
\* it had may be restarted for ever: the property is about slow starts.
TwoAgain == slowStart /\ <>[](\A n \in Nodes : host[n]) => <>[]Settled

\* Whatever fails, in the end a proxy that serves has the address again, for good.
AddressServed == <>[](\E n \in Nodes : Serving(n))
=============================================================================
