----------------------------- MODULE ReplyService -----------------------------
(***************************************************************************)
(* What a Redis connection of the proxy promises the requests it carries   *)
(* (comment of taskLock, RedisProxyClient.java l.61, and the handler's     *)
(* "Redis response processing", RedisProxyClientHandler.java l.35): a      *)
(* request is refused at once, or accepted once and then answered at most  *)
(* once, in the order of acceptance, with its own reply, as long as the    *)
(* connection is open.                                                     *)
(***************************************************************************)
EXTENDS Sequences, Functions

CONSTANTS
  Tasks,      \* the commands sent on the connection
  Requests,   \* those of them that a front-end client waits for: a subset of Tasks
  NoAnswer, ServiceIsBusy

VARIABLES
  pending,    \* accepted and not answered, oldest first
  answer,     \* what each request was answered
  open        \* FALSE once the connection is lost

Init ==
  /\ pending = <<>>
  /\ answer = [r \in Requests |-> NoAnswer]
  /\ open = TRUE

\* A request is new when nothing was done about it.
New(r) == r \notin Range(pending) /\ answer[r] = NoAnswer

Accept(t) ==
  /\ t \in Requests => New(t)
  /\ pending' = Append(pending, t)
  /\ UNCHANGED <<answer, open>>

Refuse(r) ==
  /\ New(r)
  /\ answer' = [answer EXCEPT ![r] = ServiceIsBusy]
  /\ UNCHANGED <<pending, open>>

Reply ==
  /\ open /\ pending # <<>>
  /\ pending' = Tail(pending)
  /\ answer' = IF Head(pending) \in Requests
                 THEN [answer EXCEPT ![Head(pending)] = Head(pending)]
                 ELSE answer
  /\ UNCHANGED open

Lose ==
  /\ open
  /\ open' = FALSE
  /\ UNCHANGED <<pending, answer>>

Next == (\E t \in Tasks : Accept(t)) \/ (\E r \in Requests : Refuse(r)) \/ Reply \/ Lose

Spec == Init /\ [][Next]_<<pending, answer, open>>
=============================================================================
