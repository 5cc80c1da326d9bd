----------------------------- MODULE ColdBackup -----------------------------
(***************************************************************************)
(* The visualization: its connections to the two proxies, the state its    *)
(* pages show and the cold backups they pull                               *)
(* (HARedis-Visualization: HeartBeatVisualizationClient and its handler,   *)
(* HARedisVisualizationDataServiceImpl, DateUtils; SliceRoute:             *)
(* HeartBeatServerHandler as far as it answers them).                      *)
(*                                                                         *)
(* A client connects, authenticates, polls the state, and connects again   *)
(* when its channel becomes inactive.  The threads of pages read the flag  *)
(* connect without the lock under which the event loop changes data and    *)
(* files.  A backup is named by the time of its request and filed under    *)
(* the day of its arrival; downloads look under the day of the name.  The  *)
(* names come from two SimpleDateFormat that all threads share without a   *)
(* lock: calls that overlap may find each other's date there.              *)
(*                                                                         *)
(* Not here: a wrong password (the server closes, the client connects      *)
(* again, for ever), the contents of a state, what is drawn from it.       *)
(***************************************************************************)
EXTENDS Naturals, Sequences, FiniteSets

CONSTANTS
  MasterHost, SlaveHost,   \* the hosts of masterClient and slaveClient
  Pullers, Viewers,        \* threads that pull a backup, that show the state
  DayLength, MaxTime,      \* seconds of a day, bound on the seconds of a run
  Failures,      \* what may fail: "break", "silence", "refused", "first", "zip"
  Failing,       \* the hosts whose connections may fail
  MaxFailures,   \* bound on the failures of a run
  NoHost

Hosts == {MasterHost, SlaveHost}
Times == 0 .. MaxTime

ASSUME HostsAssumption == MasterHost # SlaveHost /\ NoHost \notin Hosts /\ Failing \subseteq Hosts
ASSUME BoundsAssumption ==
  DayLength \in Nat \ {0} /\ MaxTime \in Nat /\ MaxFailures \in Nat

VARIABLES
  now,       \* the clock of the visualization, in seconds
  dialing,   \* doConnect of each client is under way or scheduled
  conns,     \* the connections of each client, the last one is its channel
  connect,   \* HeartBeatVisualizationClient.connect
  data,      \* heartBeatData: the connection it came from, 0 for null
  loop,      \* what handleData is doing under the handler's lock
  files,     \* the backups on disk
  format1,   \* DateUtils.format1 (names): the times that a call under way may find there
  format2,   \* DateUtils.format2 (folders): the days
  page,      \* the threads of pages
  failures,
  torn,      \* history: the hosts that lost a connection with a pull unanswered
  unzipped,  \* history: the times of the pulls whose zip failed
  raced      \* history: the times of calls of format that met a call for another time or day

clientVars == <<dialing, conns, connect>>
formatVars == <<format1, format2, raced>>
handlerVars == <<data, loop, files>>
history == <<torn, unzipped>>
vars == <<now, clientVars, handlerVars, formatVars, page, failures, history>>

\* Messages of the two directions; a file carries the time of its request and
\* whether it is one whole zip and no mixture.
Auth == [kind |-> "auth", time |-> 0, clean |-> TRUE]
State == [kind |-> "state", time |-> 0, clean |-> TRUE]
File(t, b) == [kind |-> "file", time |-> t, clean |-> b]
NoFile == [kind |-> "null", time |-> 0, clean |-> TRUE]
Idle == [kind |-> "idle", time |-> 0, clean |-> TRUE]
Messages == {Auth, State, NoFile, Idle} \cup {File(t, b) : t \in Times, b \in BOOLEAN}

\* known: in the server's channelMap.  job: the zip that the server's event loop
\* makes for this connection.
NewConn == [link |-> "open", known |-> FALSE, mute |-> FALSE,
            toServer |-> <<Auth>>, toClient |-> <<>>, job |-> Idle]

NoPage == [at |-> "idle", host |-> NoHost, conn |-> 0, time |-> 0, name |-> 0]

Day(t) == t \div DayLength
Days == 0 .. Day(MaxTime)

\* What the event loop of a client does with a file: it formats the folder, then the
\* name, opens the file and writes it.
Work == [kind : {"folder", "name", "write"}, folder : Days, name : Times,
         time : Times, clean : BOOLEAN]

Last(h) == Len(conns[h])
Active(h) == Last(h) > 0 /\ conns[h][Last(h)].link \in {"open", "silent"}   \* channel.isActive

Init ==
  /\ now = 0
  /\ dialing = [h \in Hosts |-> TRUE] /\ conns = [h \in Hosts |-> <<>>]
  /\ connect = [h \in Hosts |-> FALSE] /\ data = [h \in Hosts |-> 0]
  /\ loop = [h \in Hosts |-> Idle] /\ files = {}
  /\ format1 = {} /\ format2 = {}
  /\ page = [p \in Pullers \cup Viewers |-> NoPage]
  /\ failures = 0
  /\ torn = {} /\ unzipped = {} /\ raced = {}

Fails(kind, h) ==
  /\ kind \in Failures /\ h \in Failing /\ failures < MaxFailures
  /\ failures' = failures + 1

-----------------------------------------------------------------------------
(* The client: doConnect and the handler, on the event loop.               *)

\* operationComplete sets the channel, then channelActive sends AUTH.
Connected(h) ==
  /\ dialing[h]
  /\ dialing' = [dialing EXCEPT ![h] = FALSE]
  /\ conns' = [conns EXCEPT ![h] = Append(@, NewConn)]
  /\ UNCHANGED <<now, connect, handlerVars, page, failures, formatVars, history>>

\* Mutant of ConnectFailed: nobody tries again.
ConnectFailedOnce(h) ==
  /\ dialing[h] /\ Fails("refused", h)
  /\ dialing' = [dialing EXCEPT ![h] = FALSE]
  /\ UNCHANGED <<now, conns, connect, handlerVars, page, formatVars, history>>

\* A connect that fails is scheduled again after five seconds.
ConnectFailed(h) ==
  /\ dialing[h] /\ Fails("refused", h)
  /\ UNCHANGED <<now, clientVars, handlerVars, page, formatVars, history>>

\* The task scheduled at each connect asks for the state every two seconds (here
\* when the answer changes data: while the first state has not come).
Poll(h) ==
  /\ Active(h) /\ data[h] # Last(h)
  /\ LET c == conns[h][Last(h)] IN
       /\ c.link = "open" /\ c.toServer = <<>> /\ c.toClient = <<>>
       /\ conns' = [conns EXCEPT ![h][Last(h)].toServer = <<State>>]
  /\ UNCHANGED <<now, dialing, connect, handlerVars, page, failures, formatVars, history>>

\* AUTH_SUCCESS and STATE: the data is replaced.
HandleState(h, m) ==
  /\ m \in {Auth, State}
  /\ data' = [data EXCEPT ![h] = Last(h)]
  /\ loop' = [loop EXCEPT ![h] = IF m = Auth THEN m ELSE Idle]
  /\ UNCHANGED <<connect, files, formatVars>>

\* A format is a call of two steps: the date goes into the calendar that all calls
\* share, and its parts are read from there.  Calls that overlap may find the date of
\* any of them (a mixture of two is as wrong as the other one).
Naming(h) == loop[h].kind = "name"
Foldering(h) == loop[h].kind = "folder"
SetName(t) ==
  /\ format1' = format1 \cup {t}
  /\ raced' = IF format1 \subseteq {t} THEN raced ELSE raced \cup format1'
\* The call ends while the clients hs or the pages ps are in one of theirs.
NameDone(hs, ps) ==
  format1' = IF (\E h \in hs : Naming(h)) \/ (\E p \in ps : page[p].at = "name") THEN format1 ELSE {}

\* getStringNowDate of the day of the arrival.  A file that is null is left alone.
HandleFile(h, m) ==
  /\ m.kind = "file"
  /\ loop' = [loop EXCEPT ![h] =
       [kind |-> "folder", folder |-> 0, name |-> 0, time |-> m.time, clean |-> m.clean]]
  /\ format2' = format2 \cup {Day(now)}
  /\ raced' = IF format2 \subseteq {Day(now)} THEN raced
              ELSE raced \cup {m.time} \cup {loop[g].time : g \in {k \in Hosts : Foldering(k)}}
  /\ UNCHANGED <<connect, data, files, format1>>

HandleNull(h, m) ==
  /\ m = NoFile
  /\ UNCHANGED <<connect, data, loop, files, formatVars>>

HandleData(h) ==
  /\ Active(h) /\ loop[h] = Idle
  /\ LET c == conns[h][Last(h)] IN
       /\ c.toClient # <<>>
       /\ conns' = [conns EXCEPT ![h][Last(h)].toClient = Tail(@)]
       /\ LET m == Head(c.toClient) IN HandleState(h, m) \/ HandleFile(h, m) \/ HandleNull(h, m)
  /\ UNCHANGED <<now, dialing, page, failures, history>>

\* getStringDate of the time of the pull.
HandleFolder(h) ==
  /\ Foldering(h)
  /\ \E d \in format2 : loop' = [loop EXCEPT ![h].kind = "name", ![h].folder = d]
  /\ format2' = IF \E g \in Hosts \ {h} : Foldering(g) THEN format2 ELSE {}
  /\ SetName(loop[h].time)
  /\ UNCHANGED <<now, clientVars, data, files, page, failures, history>>

\* Does another client write this file?  Each has its own handler, lock and event loop.
Shared(h, d, n) ==
  \E g \in Hosts \ {h} : loop[g].kind = "write" /\ loop[g].folder = d /\ loop[g].name = n

\* The new file replaces one of the same name in the folder; it is empty until the
\* write ends, and two writes at a time mix.
HandleName(h) ==
  /\ Naming(h)
  /\ \E n \in format1 :
       LET d == loop[h].folder IN
         /\ loop' = [loop EXCEPT ![h].kind = "write", ![h].name = n]
         /\ files' = {f \in files : <<f.folder, f.name>> # <<d, n>>}
              \cup {[folder |-> d, name |-> n, clean |-> loop[h].clean /\ ~Shared(h, d, n), whole |-> FALSE]}
  /\ NameDone(Hosts \ {h}, Pullers)
  /\ UNCHANGED <<now, clientVars, data, format2, raced, page, failures, history>>

\* The rest of handleData: setConnect after an AUTH_SUCCESS, the end of the write
\* of a file; the lock is free.
HandleDataEnds(h) ==
  /\ loop[h] = Auth \/ loop[h].kind = "write"
  /\ loop' = [loop EXCEPT ![h] = Idle]
  /\ IF loop[h] = Auth
       THEN connect' = [connect EXCEPT ![h] = TRUE] /\ UNCHANGED files
       ELSE LET d == loop[h].folder
                n == loop[h].name IN
              /\ files' = {IF <<f.folder, f.name>> = <<d, n>> /\ ~Shared(h, d, n)
                             THEN [f EXCEPT !.whole = TRUE] ELSE f : f \in files}
              /\ UNCHANGED connect
  /\ UNCHANGED <<now, dialing, conns, data, formatVars, page, failures, history>>

\* Mutant of ReaderIdle: it connects again by itself.
ReaderIdleDials(h) ==
  /\ Active(h) /\ conns[h][Last(h)].link = "silent" /\ loop[h] = Idle
  /\ conns' = [conns EXCEPT ![h][Last(h)].link = "cut"]
  /\ dialing' = [dialing EXCEPT ![h] = TRUE]
  /\ UNCHANGED <<now, connect, handlerVars, page, failures, formatVars, history>>

\* Nothing was read for seven seconds (an open connection answers the polls).
ReaderIdle(h) ==
  /\ Active(h) /\ conns[h][Last(h)].link = "silent" /\ loop[h] = Idle
  /\ conns' = [conns EXCEPT ![h][Last(h)].link = "cut"]
  /\ UNCHANGED <<now, dialing, connect, handlerVars, page, failures, formatVars, history>>

\* The channel is closed; the server goes on with what it has received.
CloseConn(h) == conns' = [conns EXCEPT ![h][Last(h)].link = "closed"]

\* Mutant of ChannelInactive: connect is not set back.
ChannelInactiveKept(h) ==
  /\ Last(h) > 0 /\ conns[h][Last(h)].link = "cut" /\ loop[h] = Idle
  /\ CloseConn(h)
  /\ dialing' = [dialing EXCEPT ![h] = TRUE]
  /\ UNCHANGED <<now, connect, handlerVars, page, failures, formatVars, history>>

\* connect is set back without the lock; the client connects again.
ChannelInactive(h) ==
  /\ Last(h) > 0 /\ conns[h][Last(h)].link = "cut" /\ loop[h] = Idle
  /\ CloseConn(h)
  /\ connect' = [connect EXCEPT ![h] = FALSE]
  /\ dialing' = [dialing EXCEPT ![h] = TRUE]
  /\ UNCHANGED <<now, handlerVars, page, failures, formatVars, history>>

-----------------------------------------------------------------------------
(* The server of a host.  It may go on for a connection the client has left. *)

Reply(c, m) == IF c.link = "open" THEN [c EXCEPT !.toClient = Append(@, m)] ELSE c

\* A connection is put into channelMap before the first state is put together,
\* whose failure is logged only.
ServerAuth(h, j) ==
  /\ Head(conns[h][j].toServer) = Auth
  /\ LET c == [conns[h][j] EXCEPT !.toServer = Tail(@), !.known = TRUE] IN
       \/ /\ conns' = [conns EXCEPT ![h][j] = Reply(c, Auth)]
          /\ UNCHANGED failures
       \/ /\ Fails("first", h)
          /\ conns' = [conns EXCEPT ![h][j] = [c EXCEPT !.mute = TRUE]]

ServerState(h, j) ==
  /\ Head(conns[h][j].toServer) = State /\ conns[h][j].known
  /\ conns' = [conns EXCEPT ![h][j] = Reply([conns[h][j] EXCEPT !.toServer = Tail(@)], State)]
  /\ UNCHANGED failures

\* All zips of a host are made in the file /backups.zip.
ServerZip(h, j) ==
  LET m == Head(conns[h][j].toServer)
      others == {k \in DOMAIN conns[h] : conns[h][k].job # Idle} IN
    /\ m.kind = "file" /\ conns[h][j].known
    /\ conns' = [conns EXCEPT ![h] = [k \in DOMAIN conns[h] |->
         IF k = j THEN [conns[h][k] EXCEPT !.toServer = Tail(@), !.job = File(m.time, others = {})]
         ELSE IF k \in others THEN [conns[h][k] EXCEPT !.job.clean = FALSE]
         ELSE conns[h][k]]]
    /\ UNCHANGED failures

\* Mutant of ServerReads: zips are made by other threads than the event loop.
ServerReadsPooled(h, j) ==
  /\ conns[h][j].toServer # <<>>
  /\ IF conns[h][j].job # Idle /\ Head(conns[h][j].toServer).kind = "file"
       THEN /\ conns' = [conns EXCEPT ![h][j].job = File(Head(conns[h][j].toServer).time, FALSE),
                                      ![h][j].toServer = Tail(@)]
            /\ UNCHANGED failures
       ELSE ServerAuth(h, j) \/ ServerState(h, j) \/ ServerZip(h, j)
  /\ UNCHANGED <<now, dialing, connect, handlerVars, page, formatVars, history>>

ServerReads(h, j) ==
  /\ conns[h][j].toServer # <<>> /\ conns[h][j].job = Idle
  /\ ServerAuth(h, j) \/ ServerState(h, j) \/ ServerZip(h, j)
  /\ UNCHANGED <<now, dialing, connect, handlerVars, page, formatVars, history>>

\* Mutant of ServerSendsFile: an exception, and no answer.
ServerSendsFileNot(h, j) ==
  /\ conns[h][j].job # Idle
  /\ conns' = [conns EXCEPT ![h][j].job = Idle]
  /\ UNCHANGED <<now, dialing, connect, handlerVars, page, failures, formatVars, history>>

\* zipFiles logs an exception and leaves a part of a zip, or none at all.
ServerSendsFile(h, j) ==
  LET c == [conns[h][j] EXCEPT !.job = Idle]
      m == conns[h][j].job IN
    /\ m # Idle
    /\ \/ conns' = [conns EXCEPT ![h][j] = Reply(c, m)] /\ UNCHANGED <<failures, unzipped>>
       \/ /\ Fails("zip", h)
          /\ unzipped' = unzipped \cup {m.time}
          /\ \E z \in {NoFile, File(m.time, FALSE)} : conns' = [conns EXCEPT ![h][j] = Reply(c, z)]
    /\ UNCHANGED <<now, dialing, connect, handlerVars, formatVars, page, torn>>

-----------------------------------------------------------------------------
(* The threads of pages.                                                   *)

\* redisColdBackup takes the time and looks at connect of masterClient, then of
\* slaveClient; with neither connected the page is told that the pull failed.
Pull(p) ==
  /\ page[p].at = "idle"
  /\ page' = [page EXCEPT ![p] = [NoPage EXCEPT !.host = MasterHost, !.time = now,
                 !.at = IF connect[MasterHost] THEN "send" ELSE "next"]]
  /\ UNCHANGED <<now, clientVars, handlerVars, failures, formatVars, history>>

PullNext(p) ==
  /\ page[p].at = "next"
  /\ page' = [page EXCEPT ![p] = IF connect[SlaveHost]
                                    THEN [@ EXCEPT !.at = "send", !.host = SlaveHost]
                                    ELSE NoPage]
  /\ UNCHANGED <<now, clientVars, handlerVars, failures, formatVars, history>>

\* sendFileMsg sends nothing when the channel is not active; the page formats its
\* name all the same ...
PullSend(p) ==
  /\ page[p].at = "send"
  /\ LET h == page[p].host IN
       /\ page' = [page EXCEPT ![p].at = "name", ![p].conn = Last(h)]
       /\ conns' = IF conns[h][Last(h)].link = "open"
                     THEN [conns EXCEPT ![h][Last(h)].toServer = Append(@, File(page[p].time, TRUE))]
                     ELSE conns
  /\ SetName(page[p].time)
  /\ UNCHANGED <<now, dialing, connect, handlerVars, format2, failures, history>>

\* ... and downloads the backup of that name later.
PullName(p) ==
  /\ page[p].at = "name"
  /\ \E n \in format1 : page' = [page EXCEPT ![p].at = "sent", ![p].name = n]
  /\ NameDone(Hosts, Pullers \ {p})
  /\ UNCHANGED <<now, clientVars, handlerVars, format2, raced, failures, history>>

\* getStateData reads connect without the lock.
View(p, h) ==
  /\ page[p].at = "idle"
  /\ connect[h]
  /\ page' = [page EXCEPT ![p] = [NoPage EXCEPT !.at = "lock", !.host = h, !.conn = Last(h)]]
  /\ UNCHANGED <<now, clientVars, handlerVars, failures, formatVars, history>>

\* Then it reads the data under the lock.
Show(p) ==
  /\ page[p].at = "lock" /\ loop[page[p].host] = Idle
  /\ page' = [page EXCEPT ![p] = NoPage]
  /\ UNCHANGED <<now, clientVars, handlerVars, failures, formatVars, history>>

-----------------------------------------------------------------------------
(* Time and failures.                                                      *)

Tick == now < MaxTime /\ now' = now + 1
        /\ UNCHANGED <<clientVars, handlerVars, page, failures, formatVars, history>>

\* The current connection breaks (or is closed by this side), or goes silent (so does
\* one whose server makes a zip for seven seconds); what is under way to the client
\* is lost, what is under way to the server may have arrived.
Pulls(c) == c.job # Idle \/ \E i \in DOMAIN c.toServer : c.toServer[i].kind = "file"
Drop(h, l) ==
  LET c == conns[h][Last(h)] IN
    /\ Active(h) /\ c.link = "open"
    /\ \E q \in {<<>>, c.toServer} :
         conns' = [conns EXCEPT ![h][Last(h)] = [c EXCEPT !.link = l, !.toServer = q, !.toClient = <<>>]]
    /\ torn' = IF Pulls(c) THEN torn \cup {h} ELSE torn
    /\ UNCHANGED <<now, dialing, connect, handlerVars, formatVars, page, unzipped>>

Break(h) == Fails("break", h) /\ Drop(h, "cut")
Silence(h) == Fails("silence", h) /\ Drop(h, "silent")

ClientStep(h) ==
  \/ Connected(h) \/ HandleData(h) \/ HandleFolder(h) \/ HandleName(h) \/ HandleDataEnds(h)
  \/ ReaderIdle(h) \/ ChannelInactive(h)

ServerStep(h, j) == ServerReads(h, j) \/ ServerSendsFile(h, j)

Next ==
  \/ \E h \in Hosts : ClientStep(h) \/ ConnectFailed(h) \/ Poll(h) \/ Break(h) \/ Silence(h)
  \/ \E h \in Hosts : \E j \in DOMAIN conns[h] : ServerStep(h, j)
  \/ \E p \in Pullers : Pull(p) \/ PullNext(p) \/ PullSend(p) \/ PullName(p)
  \/ \E p \in Viewers : Show(p) \/ \E h \in Hosts : View(p, h)
  \/ Tick

\* Event loops and threads go on; a server accepts a connect, in the end.
Fairness ==
  /\ \A h \in Hosts :
       /\ WF_vars(ClientStep(h))
       /\ \A j \in 1 .. MaxFailures + 1 : WF_vars(j \in DOMAIN conns[h] /\ ServerStep(h, j))
  /\ \A p \in Pullers : WF_vars(PullNext(p)) /\ WF_vars(PullSend(p)) /\ WF_vars(PullName(p))

Spec == Init /\ [][Next]_vars /\ Fairness

-----------------------------------------------------------------------------
(* Properties.                                                             *)

\* Every variable has its type, and a client has one connection at a time: all
\* but the last are closed, and the last one too while it connects.
TypeOK ==
  /\ now \in Times
  /\ dialing \in [Hosts -> BOOLEAN] /\ connect \in [Hosts -> BOOLEAN]
  /\ \A h \in Hosts :
       /\ data[h] \in 0 .. Last(h)
       /\ loop[h] \in {Idle, Auth} \cup Work
       /\ conns[h] \in Seq([link : {"open", "silent", "cut", "closed"}, known : BOOLEAN,
                            mute : BOOLEAN, toServer : Seq(Messages), toClient : Seq(Messages),
                            job : Messages])
       /\ \A j \in DOMAIN conns[h] : j < Last(h) \/ dialing[h] => conns[h][j].link = "closed"
  /\ files \subseteq [folder : Days, name : Times, clean : BOOLEAN, whole : BOOLEAN]
  /\ page \in [Pullers \cup Viewers ->
                 [at : {"idle", "next", "send", "name", "sent", "lock"}, host : Hosts \cup {NoHost},
                  conn : Nat, time : Times, name : Times]]
  /\ format1 \subseteq Times /\ format2 \subseteq Days
  /\ failures \in 0 .. MaxFailures
  /\ torn \subseteq Hosts /\ unzipped \subseteq Times /\ raced \subseteq Times

\* A page that saw a client connected shows a state of that connection or of a
\* later one, never none and never that of a connection lost before, although it
\* reads the flag without the lock and the channel may be lost meanwhile.
FreshState ==
  \A p \in Viewers :
    page[p].at = "lock" /\ loop[page[p].host] = Idle => data[page[p].host] >= page[p].conn

\* The pulls of all pages, as host and time.
Asked ==
  {<<page[p].host, page[p].time>> : p \in {q \in Pullers : page[q].at \in {"name", "sent"}}}

\* Two pages pulled in second t, through the two clients.
Twice(t) == {<<MasterHost, t>>, <<SlaveHost, t>>} \subseteq Asked

\* A page pulled in second t through a client that lost a connection with a pull
\* unanswered: the server may still have been at that zip when this one began.
Disturbed(t) == \E h \in torn : <<h, t>> \in Asked

\* A backup on disk is the zip of one request, although all requests of all pages
\* share one zip file on each server and the two clients one folder of backups.
\* This fails for the names of these pulls alone: its zip failed, its name was
\* formatted beside another one, another page pulled through the other client in
\* that second, or it went through a client that lost a connection in a pull.
CleanBackups ==
  \A f \in files :
    f.clean \/ f.name \in unzipped \cup raced \/ Twice(f.name) \/ Disturbed(f.name)

\* After the last failure each client stays connected for its pages, unless the
\* first state of the connection failed on the server, which nothing repeats.
Reconnects ==
  <>[](\A h \in Hosts : connect[h] \/ (Last(h) > 0 /\ conns[h][Last(h)].mute))

\* downloadColdBackupFile looks in the folder of the day in the name.
Found(t) == \E f \in files : f.name = t /\ f.folder = Day(t) /\ f.whole

\* In the end each pull whose page got a name, which it keeps, has a file that the page
\* can download under it, unless the connection it was sent on is lost, the day is over
\* before, its zip failed or its dates were formatted beside another one.
PullArrives ==
  []<>(\A p \in Pullers :
         page[p].at = "sent" =>
           \/ Found(page[p].name)
           \/ conns[page[p].host][page[p].conn].link # "open"
           \/ Day(now) # Day(page[p].time)
           \/ page[p].time \in raced \cup unzipped)
=============================================================================
