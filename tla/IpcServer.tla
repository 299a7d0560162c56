------------------------------ MODULE IpcServer ------------------------------
(***************************************************************************)
(* The control socket: an accept loop, a thread per connection, and one    *)
(* mutex around the daemon.  A connection proves its uid and its bearer,   *)
(* then sends one request per line; every read is capped, and timed until  *)
(* the bearer is in.  The clients are free: they may send in pieces, stay  *)
(* silent, never read an answer, or hang up at any point.                  *)
(*                                                                         *)
(* What a request does is ClusterDaemon's.  Only Seed is told apart: it    *)
(* waits, with the mutex held, for the group's swarm task to answer.       *)
(***************************************************************************)
EXTENDS Naturals, SequencesExt

CONSTANTS
  Conn, NoConn,
  MAX_LINE,                \* pieces a line may have
  SocketBuffer,            \* answers the kernel keeps for a client that does not read
  Says,                    \* the pieces each client may send
  MaxLines                 \* bound: lines a client sends

ASSUME ConnAssumption == NoConn \notin Conn
ASSUME LimitAssumption == /\ MAX_LINE \in Nat \ {0} /\ SocketBuffer \in Nat \ {0}
                          /\ MaxLines \in Nat

\* What a line says: the bearer, a request, nothing, no JSON the server knows, or
\* bytes that are not UTF-8.
Saying == {"token", "request", "seed", "blank", "bad", "garbled"}
IsRequest(w) == w \in {"request", "seed"}

\* What a client sends at once.  A piece that does not end its line still says
\* something, which counts if the stream ends with it.
Piece == [says : Saying, ends : BOOLEAN]

ASSUME SaysAssumption == Says \in [Conn -> SUBSET Piece]

VARIABLES
  same_uid,                \* the peer runs as the daemon's own user
  pc,                      \* where the connection's thread is
  line,                    \* the line being read: its length, what it says so far
  stream,                  \* sent and not yet read
  open,                    \* the client has not hung up
  unread,                  \* answers the client has not read
  lock,                    \* who holds the daemon's mutex
  task, asked,             \* the swarm task runs; a SeedAddrs command waits for it
  sending, lines,          \* history: the line being sent, the whole lines sent
  ran, answers             \* history: the requests handled, the answers written

clientVars == <<stream, open, sending, lines>>
taskVars == <<task, asked>>
vars == <<same_uid, pc, line, clientVars, unread, lock, taskVars, ran, answers>>

NoLine == [len |-> 0, says |-> "blank"]

Init ==
  /\ same_uid \in [Conn -> BOOLEAN]
  /\ pc = [c \in Conn |-> "idle"]
  /\ line = [c \in Conn |-> NoLine]
  /\ stream = [c \in Conn |-> <<>>]
  /\ open = [c \in Conn |-> TRUE]
  /\ unread = [c \in Conn |-> 0]
  /\ lock = NoConn
  /\ task = TRUE /\ asked = FALSE
  /\ sending = [c \in Conn |-> NoLine]
  /\ lines = [c \in Conn |-> <<>>]
  /\ ran = [c \in Conn |-> <<>>]
  /\ answers = [c \in Conn |-> <<>>]

Goto(c, label) == pc' = [pc EXCEPT ![c] = label]

-----------------------------------------------------------------------------
(* The clients.                                                            *)

Connect(c) ==
  /\ pc[c] = "idle" /\ Goto(c, "queued")
  /\ UNCHANGED <<same_uid, line, clientVars, unread, lock, taskVars, ran, answers>>

\* History: the line is over, and too long for the server or not.
Record(c, says) ==
  lines' = [lines EXCEPT ![c] = Append(@, IF sending[c].len >= MAX_LINE THEN "long" ELSE says)]

Send(c, p) ==
  /\ pc[c] \notin {"idle", "closed"} /\ open[c]
  /\ stream[c] = <<>> /\ Len(lines[c]) < MaxLines
  /\ stream' = [stream EXCEPT ![c] = <<p>>]
  /\ \/ /\ p.ends
        /\ Record(c, p.says)
        /\ sending' = [sending EXCEPT ![c] = NoLine]
     \/ /\ ~p.ends
        /\ sending' = [sending EXCEPT ![c].says = p.says,
                                      ![c].len = IF @ < MAX_LINE THEN @ + 1 ELSE @]
        /\ UNCHANGED lines
  /\ UNCHANGED <<same_uid, pc, line, open, unread, lock, taskVars, ran, answers>>

HangUp(c) ==
  /\ pc[c] \notin {"idle", "closed"} /\ open[c]
  /\ open' = [open EXCEPT ![c] = FALSE]
  /\ IF sending[c] = NoLine THEN UNCHANGED lines ELSE Record(c, sending[c].says)
  /\ sending' = [sending EXCEPT ![c] = NoLine]
  /\ UNCHANGED <<same_uid, pc, line, stream, unread, lock, taskVars, ran, answers>>

ReadAnswer(c) ==
  /\ open[c] /\ unread[c] > 0
  /\ unread' = [unread EXCEPT ![c] = @ - 1]
  /\ UNCHANGED <<same_uid, pc, line, clientVars, lock, taskVars, ran, answers>>

-----------------------------------------------------------------------------
(* A connection's thread up to its requests.                               *)

\* The accept loop hands the connection to a thread of its own.
Accept(c) ==
  /\ pc[c] = "queued" /\ Goto(c, "start")
  /\ UNCHANGED <<same_uid, line, clientVars, unread, lock, taskVars, ran, answers>>

\* Another user's connection is dropped before anything is read; so is one whose
\* socket cannot be cloned.
Start(c) ==
  /\ pc[c] = "start"
  /\ \/ same_uid[c] /\ Goto(c, "auth")
     \/ Goto(c, "closed")
  /\ UNCHANGED <<same_uid, line, clientVars, unread, lock, taskVars, ran, answers>>

authorized(says) == says = "token"

\* Where a complete line leads.
AfterLine(c, says) ==
  IF pc[c] = "auth" THEN IF authorized(says) THEN "ready" ELSE "refuse"
  ELSE CASE says = "blank" -> "read"
         [] IsRequest(says) -> "lock"
         [] OTHER -> "reply"

\* An over-long or garbled line ends the connection: silently in the handshake,
\* with an error afterwards.
Reject(c) == Goto(c, IF pc[c] = "auth" THEN "closed" ELSE "too_large")

Complete(c, says) ==
  /\ line' = [line EXCEPT ![c] = [len |-> 0, says |-> says]]
  /\ IF says = "garbled" THEN Reject(c) ELSE Goto(c, AfterLine(c, says))

\* Mutation: a line may go on for ever.
Receive_uncapped(c) ==
  LET p == Head(stream[c]) IN
  /\ pc[c] \in {"auth", "read"} /\ stream[c] # <<>>
  /\ stream' = [stream EXCEPT ![c] = Tail(@)]
  /\ IF p.ends THEN Complete(c, p.says)
     ELSE line' = [line EXCEPT ![c] = [len |-> 1, says |-> p.says]] /\ UNCHANGED pc
  /\ UNCHANGED <<same_uid, open, unread, lock, taskVars, sending, lines, ran, answers>>

\* Mutation: what follows an over-long line is read as the next one.
Receive_resumes(c) ==
  LET p == Head(stream[c])
      n == line[c].len + 1
  IN
  /\ pc[c] \in {"auth", "read"} /\ stream[c] # <<>>
  /\ stream' = [stream EXCEPT ![c] = Tail(@)]
  /\ IF p.ends THEN Complete(c, p.says)
     ELSE /\ line' = [line EXCEPT ![c] = [len |-> n % MAX_LINE, says |-> p.says]]
          /\ IF n = MAX_LINE /\ pc[c] = "read" THEN Goto(c, "reply") ELSE UNCHANGED pc
  /\ UNCHANGED <<same_uid, open, unread, lock, taskVars, sending, lines, ran, answers>>

\* read_capped_line takes in a piece: the line is complete, at its cap, or goes on.
Receive(c) ==
  LET p == Head(stream[c])
      n == line[c].len + 1
  IN
  /\ pc[c] \in {"auth", "read"} /\ stream[c] # <<>>
  /\ stream' = [stream EXCEPT ![c] = Tail(@)]
  /\ IF p.ends THEN Complete(c, p.says)
     ELSE /\ line' = [line EXCEPT ![c] = [len |-> n, says |-> p.says]]
          /\ IF n = MAX_LINE THEN Reject(c) ELSE UNCHANGED pc
  /\ UNCHANGED <<same_uid, open, unread, lock, taskVars, sending, lines, ran, answers>>

\* The client has hung up and everything is read: what is left without an end
\* of line is a line too.
EndOfStream(c) ==
  /\ pc[c] \in {"auth", "read"} /\ stream[c] = <<>> /\ ~open[c]
  /\ IF line[c].len = 0 THEN Goto(c, "closed") /\ UNCHANGED line
                        ELSE Complete(c, line[c].says)
  /\ UNCHANGED <<same_uid, clientVars, unread, lock, taskVars, ran, answers>>

\* A client that goes with answers unread resets the connection.
ReadFails(c) ==
  /\ pc[c] \in {"auth", "read"} /\ ~open[c] /\ unread[c] > 0
  /\ Goto(c, "closed")
  /\ UNCHANGED <<same_uid, line, clientVars, unread, lock, taskVars, ran, answers>>

\* Mutation: the timeout stays on after the handshake.
RecvTimeout_kept(c) ==
  /\ pc[c] \in {"auth", "read"} /\ stream[c] = <<>> /\ open[c]
  /\ Goto(c, "closed")
  /\ UNCHANGED <<same_uid, line, clientVars, unread, lock, taskVars, ran, answers>>

\* AUTH_TIMEOUT without a byte, before the bearer is in.
RecvTimeout(c) ==
  /\ pc[c] = "auth" /\ stream[c] = <<>> /\ open[c]
  /\ Goto(c, "closed")
  /\ UNCHANGED <<same_uid, line, clientVars, unread, lock, taskVars, ran, answers>>

-----------------------------------------------------------------------------
(* Requests and answers.                                                   *)

Lock(c) ==
  /\ pc[c] = "lock" /\ lock = NoConn
  /\ lock' = c /\ Goto(c, "handle")
  /\ UNCHANGED <<same_uid, line, clientVars, unread, taskVars, ran, answers>>

\* Mutation: the mutex is held until the answer is written.
Unlock_after_write(c) == UNCHANGED lock /\ Goto(c, "reply")

Unlock(c) == lock' = NoConn /\ Goto(c, "reply")

\* handle_request.  A Seed asks the swarm task, if that still runs.
Handle(c) ==
  /\ pc[c] = "handle"
  /\ ran' = [ran EXCEPT ![c] = Append(@, line[c].says)]
  /\ IF line[c].says = "seed" /\ task
       THEN asked' = TRUE /\ Goto(c, "ask") /\ UNCHANGED lock
       ELSE Unlock(c) /\ UNCHANGED asked
  /\ UNCHANGED <<same_uid, line, clientVars, unread, task, answers>>

\* The task has answered, or dropped the question.
Answered(c) ==
  /\ pc[c] = "ask" /\ ~asked
  /\ Unlock(c)
  /\ UNCHANGED <<same_uid, line, clientVars, unread, taskVars, ran, answers>>

TaskAnswers ==
  /\ task /\ asked /\ asked' = FALSE
  /\ UNCHANGED <<same_uid, pc, line, clientVars, unread, lock, task, ran, answers>>

\* The task is gone (it panicked); its queue, and every oneshot in it, with it.
TaskEnds ==
  /\ task /\ task' = FALSE /\ asked' = FALSE
  /\ UNCHANGED <<same_uid, pc, line, clientVars, unread, lock, ran, answers>>

\* What the thread writes where it is.
AnswerAt(c) ==
  CASE pc[c] = "refuse" -> "unauthorized"
    [] pc[c] = "ready" -> "ready"
    [] pc[c] = "too_large" -> "request too large"
    [] pc[c] = "reply" -> IF IsRequest(line[c].says) THEN "response" ELSE "bad request"

\* Writing waits for room, and fails when the client is gone.  The mutex is long
\* released, and would be here at the latest.
Write(c) ==
  /\ pc[c] \in {"refuse", "ready", "too_large", "reply"}
  /\ \/ /\ open[c] /\ unread[c] < SocketBuffer
        /\ unread' = [unread EXCEPT ![c] = @ + 1]
        /\ answers' = [answers EXCEPT ![c] = Append(@, AnswerAt(c))]
        /\ Goto(c, IF pc[c] \in {"ready", "reply"} THEN "read" ELSE "closed")
     \/ /\ ~open[c]
        /\ Goto(c, "closed")
        /\ UNCHANGED <<unread, answers>>
  /\ lock' = IF lock = c THEN NoConn ELSE lock
  /\ UNCHANGED <<same_uid, line, clientVars, taskVars, ran>>

-----------------------------------------------------------------------------
Thread(c) == \/ Accept(c) \/ Start(c) \/ Receive(c) \/ EndOfStream(c) \/ ReadFails(c)
             \/ RecvTimeout(c) \/ Lock(c) \/ Handle(c) \/ Answered(c) \/ Write(c)

Client(c) == \/ Connect(c) \/ HangUp(c) \/ ReadAnswer(c)
             \/ \E p \in Says[c] : Send(c, p)

Next == \/ \E c \in Conn : Thread(c) \/ Client(c)
        \/ TaskAnswers \/ TaskEnds

Spec == Init /\ [][Next]_vars

\* The threads and the task run, time passes, and the mutex starves nobody for
\* whom it is free again and again.  Of the clients nothing is assumed.
FairSpec == /\ Spec
            /\ \A c \in Conn : WF_vars(Thread(c)) /\ SF_vars(Lock(c))
            /\ WF_vars(TaskAnswers)
-----------------------------------------------------------------------------
(* Properties.                                                             *)

Label == {"idle", "queued", "start", "auth", "refuse", "ready", "read", "lock", "handle",
          "ask", "reply", "too_large", "closed"}
Greeted == {"read", "lock", "handle", "ask", "reply", "too_large"}

\* The type of the server's state; the mutex is held exactly by the thread that
\* handles a request.
TypeOK ==
  /\ same_uid \in [Conn -> BOOLEAN] /\ open \in [Conn -> BOOLEAN]
  /\ pc \in [Conn -> Label]
  /\ line \in [Conn -> [len : 0 .. MAX_LINE, says : Saying]]
  /\ sending \in [Conn -> [len : 0 .. MAX_LINE, says : Saying]]
  /\ stream \in [Conn -> Seq(Piece)]
  /\ lines \in [Conn -> Seq(Saying \cup {"long"})] /\ ran \in [Conn -> Seq({"request", "seed"})]
  /\ answers \in [Conn -> Seq({"unauthorized", "ready", "request too large", "response", "bad request"})]
  /\ unread \in [Conn -> 0 .. SocketBuffer]
  /\ lock \in Conn \cup {NoConn}
  /\ task \in BOOLEAN /\ asked \in BOOLEAN
  /\ \A c \in Conn : lock = c <=> pc[c] \in {"handle", "ask"}

\* What the client has said, line by line, as far as a reader with a cap can tell.
Said(c) == lines[c] \o (IF sending[c].len = MAX_LINE THEN <<"long">> ELSE <<>>)

\* The lines the server listens to: up to the first that it cannot take.
Fatal(w) == w \in {"long", "garbled"}
Heard(c) == {i \in DOMAIN Said(c) : \A j \in 1 .. (i - 1) : ~Fatal(Said(c)[j])}
Greets(c) == same_uid[c] /\ Said(c) # <<>> /\ authorized(Said(c)[1])

\* The values of v at the places D up to n, in order.
Listed(v, D, n) ==
  LET upTo[i \in 0 .. n] == IF i = 0 THEN <<>>
                            ELSE IF i \in D THEN Append(upTo[i - 1], v[i]) ELSE upTo[i - 1]
  IN  upTo[n]

\* The requests that reach the daemon are those the client sent, in order, and
\* only on a connection of the daemon's own user whose first line was the bearer
\* (handle_conn).  Nothing that follows an over-long line is taken for a request
\* (read_capped_line).
Asked(c) == {i \in Heard(c) : Greets(c) /\ IsRequest(Said(c)[i])}
RunsOnlyWhatWasAsked ==
  \A c \in Conn : IsPrefix(ran[c], Listed(Said(c), Asked(c), Len(Said(c))))

\* A client that counts lines can match answers to requests: one answer per line
\* that is not blank, in order, the first of them the greeting, and an error as the
\* last one (the loop of handle_conn).
Due(c) == {i \in Heard(c) : Said(c)[i] # "blank"}
Replies(c) ==
  [i \in DOMAIN Said(c) |->
     CASE i = 1 -> "ready"
       [] i # 1 /\ IsRequest(Said(c)[i]) -> "response"
       [] i # 1 /\ Fatal(Said(c)[i]) -> "request too large"
       [] OTHER -> "bad request"]
Expected(c) ==
  IF Greets(c) THEN Listed(Replies(c), Due(c), Len(Said(c))) ELSE <<"unauthorized">>
AnswersInOrder ==
  \A c \in Conn : /\ IsPrefix(answers[c], Expected(c))
                  /\ answers[c] # <<>> => same_uid[c] /\ ~Fatal(Said(c)[1])

\* The daemon runs what a client asked for and answers what it ran, under the
\* mutex: no line of one length, piece or client passes for another (handle_conn,
\* read_capped_line).
ServedAsAsked == TypeOK /\ RunsOnlyWhatWasAsked /\ AnswersInOrder

\* The server never ends an authenticated connection whose client stays, however
\* long it is idle, but for a line it cannot take (server.rs:66-68, 143).
IdleIsKept ==
  [][\A c \in Conn : pc[c] \in Greeted /\ pc'[c] = "closed" => ~open[c] \/ pc[c] = "too_large"]_vars

\* A connection does not stay unauthenticated: it is greeted or closed, even if
\* its client sends nothing, or bytes without an end (CL-B-003, server.rs:62-69).
HandshakeEnds ==
  \A c \in Conn : pc[c] \in {"queued", "start", "auth", "refuse"} ~> pc[c] \in Greeted \cup {"closed"}

\* A request that is read is handled and answered for, whatever the other clients
\* do: nobody holds the mutex while it waits for a client (server.rs:160-163), and
\* the wait for the swarm task ends even if the task does.
ServedDespiteOthers ==
  \A c \in Conn : pc[c] = "lock" ~> pc[c] = "reply"
=============================================================================
