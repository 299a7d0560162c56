--------------------------- MODULE IpcServerProofs ---------------------------
(***************************************************************************)
(* Proofs about IpcServer, for any number of connections, any line length  *)
(* and any number of lines.                                                *)
(***************************************************************************)
EXTENDS IpcServer, WellFoundedInduction, TLAPS

-----------------------------------------------------------------------------
(* What is proved.                                                         *)

\* rs is what v has at the places D: in their order, each of them once, and none of
\* them passed over.
ListsAt(f, rs, D, v) ==
  /\ \A i \in 1 .. Len(rs) : rs[i] = v[f[i]] /\ \A h \in 1 .. (i - 1) : f[h] < f[i]
  /\ \A j \in D : \E i \in 1 .. Len(rs) : f[i] = j
Lists(rs, D, v) == \E f \in [1 .. Len(rs) -> D] : ListsAt(f, rs, D, v)

\* The places of the requests among the lines behind the bearer and up to line k.
Requests(ls, k) == {j \in 2 .. k : IsRequest(ls[j])}

\* What is run on a connection is every request its client sent up to line k, and
\* nothing else; its first line was the bearer and came from the daemon's own user.
RunUpTo(c, k) ==
  /\ Lists(ran[c], Requests(lines[c], k), lines[c])
  /\ \A j \in 1 .. k : ~Fatal(lines[c][j])
  /\ ran[c] # <<>> => same_uid[c] /\ authorized(lines[c][1])

\* The lines up to k that are answered, and what each is answered once the first of
\* them was the bearer.
Spoken(ls, k) == {j \in 1 .. k : ls[j] # "blank"}
Reply(ls) == [j \in 1 .. Len(ls) |-> IF j = 1 THEN "ready"
                                     ELSE IF IsRequest(ls[j]) THEN "response" ELSE "bad request"]

AnswersUpTo(as, c, k) ==
  /\ Lists(as, Spoken(lines[c], k), Reply(lines[c]))
  /\ as # <<>> => same_uid[c] /\ authorized(lines[c][1])

\* The client's first line is not the bearer.
Refused(c) == /\ same_uid[c] /\ lines[c] # <<>>
              /\ ~authorized(lines[c][1]) /\ ~Fatal(lines[c][1])

\* What follows line k cannot be taken: it is garbled, or too long and perhaps not
\* over yet.
Stopped(c, k) == IF k < Len(lines[c]) THEN Fatal(lines[c][k + 1]) ELSE sending[c].len = MAX_LINE

\* What is written on a connection answers every line up to line k, unless it is a
\* refusal; an error may follow, about the next line.
AnsweredUpTo(c, k) ==
  \/ AnswersUpTo(answers[c], c, k)
  \/ answers[c] = <<"unauthorized">> /\ Refused(c)
  \/ /\ Len(answers[c]) >= 2 /\ Last(answers[c]) = "request too large" /\ Stopped(c, k)
     /\ AnswersUpTo(Front(answers[c]), c, k)

\* On every connection, the requests up to some line were run, and the lines up to
\* that one or an earlier one answered.
ServedInOrder ==
  \A c \in Conn : \E m \in 0 .. Len(lines[c]) : \E k \in 0 .. m : RunUpTo(c, m) /\ AnsweredUpTo(c, k)

-----------------------------------------------------------------------------
(* The inductive invariant.                                                *)

\* A line that is being read is below the cap; a thread that is about to run a
\* request has read one.
LineInv(c) ==
  /\ pc[c] \in {"auth", "read"} => line[c].len < MAX_LINE
  /\ pc[c] \notin {"auth", "read"} => line[c].len = 0 \/ pc[c] \in {"closed", "too_large"}
  /\ pc[c] \in {"lock", "handle"} => IsRequest(line[c].says)

TypeInv == TypeOK /\ \A c \in Conn : LineInv(c)

\* The thread may still read from the connection.
Early == {"idle", "queued", "start", "auth"}
Live == Early \cup {"ready", "read", "lock", "handle", "ask", "reply"}

\* A whole line the client has sent is not yet read: its end is in the stream, or
\* the client has hung up in the middle of it.
Pending(c) == IF stream[c] # <<>> THEN Head(stream[c]).ends \/ ~open[c]
              ELSE ~open[c] /\ line[c].len > 0

Consumed(c) == IF Pending(c) THEN Len(lines[c]) - 1 ELSE Len(lines[c])

\* What reading on will make of the pending line.
Reading(c) ==
  IF stream[c] = <<>> THEN line[c].says
  ELSE IF ~Head(stream[c]).ends /\ line[c].len + 1 = MAX_LINE THEN "long"
  ELSE Head(stream[c]).says

\* What the client has sent of the line under way is what is read of it and what is
\* in the stream.
StreamInv(c) ==
  /\ stream[c] = <<>> \/ stream[c] = <<Head(stream[c])>>
  /\ sending[c].len = 0 => sending[c] = NoLine
  /\ open[c] /\ stream[c] = <<>> =>
       /\ sending[c].len = line[c].len
       /\ line[c].len > 0 => sending[c].says = line[c].says
  /\ open[c] /\ stream[c] # <<>> =>
       IF Head(stream[c]).ends THEN sending[c] = NoLine
       ELSE sending[c] = [len |-> line[c].len + 1, says |-> Head(stream[c]).says]
  /\ Pending(c) => lines[c] # <<>> /\ lines[c][Len(lines[c])] = Reading(c)

\* What has been read up to here: nothing before the bearer, then the bearer, and
\* no line the server cannot take.
ConsumedInv(c) ==
  /\ \A j \in 1 .. Consumed(c) : ~Fatal(lines[c][j])
  /\ pc[c] \in Early => Consumed(c) = 0
  /\ pc[c] \notin Early => Consumed(c) >= 1 /\ same_uid[c] /\ authorized(lines[c][1])
  /\ pc[c] = "auth" => same_uid[c]
  /\ pc[c] = "ready" => Consumed(c) = 1
  /\ pc[c] \in {"lock", "handle", "ask", "reply"} =>
       /\ Consumed(c) >= 2 /\ lines[c][Consumed(c)] = line[c].says
       /\ line[c].says # "blank"

Limit(c) == IF pc[c] \in {"lock", "handle"} THEN Consumed(c) - 1 ELSE Consumed(c)

ConnInv(c) ==
  IF pc[c] \in Live THEN StreamInv(c) /\ ConsumedInv(c) /\ RunUpTo(c, Limit(c))
  ELSE \E k \in 0 .. Len(lines[c]) : RunUpTo(c, k)

IpcInv == TypeInv /\ \A c \in Conn : ConnInv(c)

\* How far the answers have got; where the thread is about to write one, it is the
\* answer to the last line that was read.
Replied(c) == IF pc[c] \in {"ready", "lock", "handle", "ask", "reply"} THEN Consumed(c) - 1
              ELSE Consumed(c)

\* Where a thread that reads no more has got to: the requests up to line m were run
\* and the lines up to k answered, but for a last answer that is still to be written.
EndedAt(c, m, k) ==
  /\ RunUpTo(c, m) /\ AnsweredUpTo(c, k)
  /\ pc[c] = "refuse" => Refused(c) /\ answers[c] = <<>>
  /\ pc[c] = "too_large" =>
       Stopped(c, k) /\ answers[c] # <<>> /\ AnswersUpTo(answers[c], c, k)

AnswerInv(c) ==
  IF pc[c] \in Live THEN AnswersUpTo(answers[c], c, Replied(c))
  ELSE \E m \in 0 .. Len(lines[c]) : \E k \in 0 .. m : EndedAt(c, m, k)

-----------------------------------------------------------------------------
(* Types and the mutex.                                                    *)

LineRecord == [len : 0 .. MAX_LINE, says : Saying]
Answer == {"unauthorized", "ready", "request too large", "response", "bad request"}

\* The parts of TypeInv.
FlagType == /\ same_uid \in [Conn -> BOOLEAN] /\ open \in [Conn -> BOOLEAN]
            /\ unread \in [Conn -> 0 .. SocketBuffer]
            /\ task \in BOOLEAN /\ asked \in BOOLEAN
SeqType == /\ stream \in [Conn -> Seq(Piece)]
           /\ lines \in [Conn -> Seq(Saying \cup {"long"})]
           /\ ran \in [Conn -> Seq({"request", "seed"})]
           /\ answers \in [Conn -> Seq(Answer)]
LineType == /\ line \in [Conn -> LineRecord] /\ sending \in [Conn -> LineRecord]
            /\ \A c \in Conn : LineInv(c)
PcType == /\ pc \in [Conn -> Label] /\ lock \in Conn \cup {NoConn}
          /\ \A c \in Conn : lock = c <=> pc[c] \in {"handle", "ask"}

\* The types, part by part.
LEMMA TypeParts ==
  /\ TypeInv <=> FlagType /\ SeqType /\ LineType /\ PcType
  /\ FlagType' /\ SeqType' /\ LineType' /\ PcType' => TypeInv'
BY DEF TypeInv, TypeOK, FlagType, SeqType, LineType, PcType, LineRecord, Answer

\* The places of a sequence with one element more.
LEMMA AppendType ==
  ASSUME NEW S, NEW s \in Seq(S), NEW e \in S
  PROVE  /\ Append(s, e) \in Seq(S) /\ Len(Append(s, e)) = Len(s) + 1 /\ Len(s) \in Nat
         /\ \A i \in 1 .. Len(s) : Append(s, e)[i] = s[i]
         /\ Append(s, e)[Len(s) + 1] = e
OBVIOUS

\* What an element was appended to is in front of it.
LEMMA FrontOfAppend ==
  ASSUME NEW S, NEW s \in Seq(S), s # <<>>, NEW e \in S
  PROVE  /\ Len(Append(s, e)) >= 2 /\ Last(Append(s, e)) = e
         /\ Front(Append(s, e)) = s
<1>1. Len(s) \in Nat /\ Len(s) > 0 /\ Len(Append(s, e)) = Len(s) + 1
  OBVIOUS
<1>2. Last(Append(s, e)) = e
  BY <1>1 DEF Last
<1>3. Front(Append(s, e)) = s
  BY <1>1 DEF Front
<1> QED BY <1>1, <1>2, <1>3

\* A piece that is read is one the client sent.
LEMMA HeadPiece ==
  ASSUME SeqType, NEW c \in Conn, stream[c] # <<>>
  PROVE  /\ Head(stream[c]) \in Piece /\ Head(stream[c]).says \in Saying
         /\ Head(stream[c]).ends \in BOOLEAN /\ Tail(stream[c]) \in Seq(Piece)
<1>1. stream[c] \in Seq(Piece)
  BY DEF SeqType
<1>2. Head(stream[c]) \in Piece /\ Tail(stream[c]) \in Seq(Piece)
  BY <1>1
<1> QED BY <1>2 DEF Piece

\* What a complete line does to the thread.
LEMMA CompleteStep ==
  ASSUME LineType, PcType, NEW c \in Conn, NEW says \in Saying, Complete(c, says),
         pc[c] \in {"auth", "read"}, UNCHANGED <<lock, sending>>
  PROVE  LineType' /\ PcType'
<1>1. pc'[c] \in {"closed", "too_large", "ready", "refuse", "read", "lock", "reply"}
      /\ (pc'[c] = "lock" => IsRequest(says)) /\ pc'[c] \in Label
  BY DEF Complete, Reject, Goto, AfterLine, PcType, Label
<1>2. pc' = [pc EXCEPT ![c] = pc'[c]] /\ line' = [line EXCEPT ![c] = [len |-> 0, says |-> says]]
  BY DEF Complete, Reject, Goto, PcType
<1>3. 0 \in 0 .. MAX_LINE /\ 0 < MAX_LINE
  BY LimitAssumption
<1>4. LineType'
  BY <1>1, <1>2, <1>3 DEF LineType, LineInv, LineRecord, PcType
<1>5. PcType'
  BY <1>1, <1>2 DEF PcType
<1> QED BY <1>4, <1>5

\* The mutex is held by the thread that handles a request, and every type is kept.
LEMMA TypeStep == TypeInv /\ [Next]_vars => TypeInv'
<1> SUFFICES ASSUME TypeInv, [Next]_vars PROVE TypeInv'
  OBVIOUS
<1> USE DEF clientVars, taskVars
<1>0. FlagType /\ SeqType /\ LineType /\ PcType
  BY TypeParts
<1>a. ASSUME UNCHANGED <<same_uid, open, unread, task, asked>> PROVE FlagType'
  BY <1>0, <1>a DEF FlagType
<1>b. ASSUME UNCHANGED <<stream, lines, ran, answers>> PROVE SeqType'
  BY <1>0, <1>b DEF SeqType
<1>c. ASSUME UNCHANGED <<line, sending, pc>> PROVE LineType'
  BY <1>0, <1>c DEF LineType, LineInv
<1>d. ASSUME UNCHANGED <<pc, lock>> PROVE PcType'
  BY <1>0, <1>d DEF PcType
<1>e. ASSUME NEW c \in Conn, NEW label \in {"queued", "start", "auth", "closed"}, Goto(c, label),
             pc[c] \notin {"handle", "ask"}, line[c].len < MAX_LINE,
             label \in {"queued", "start"} => line[c].len = 0, UNCHANGED <<line, sending, lock>>
      PROVE  LineType' /\ PcType'
  BY <1>0, <1>e DEF Goto, LineType, LineInv, PcType, Label
<1>f. \A c \in Conn : line[c] \in LineRecord /\ sending[c] \in LineRecord /\ LineInv(c)
  BY <1>0 DEF LineType
<1>g. 0 < MAX_LINE /\ MAX_LINE \in Nat /\ SocketBuffer \in Nat \ {0}
  BY LimitAssumption
<1>1. ASSUME NEW c \in Conn, Connect(c) \/ Accept(c) \/ Start(c) PROVE TypeInv'
  <2>1. line[c].len = 0
    BY <1>f, <1>1 DEF Connect, Accept, Start, LineInv
  <2>2. LineType' /\ PcType'
    BY <1>1, <1>e, <1>g, <2>1 DEF Connect, Accept, Start
  <2> QED BY <1>1, <2>2, <1>a, <1>b, TypeParts DEF Connect, Accept, Start
<1>2. ASSUME NEW c \in Conn, NEW p \in Says[c], Send(c, p) PROVE TypeInv'
  <2>1. p \in Piece /\ p.says \in Saying
    BY SaysAssumption DEF Piece
  <2>2. sending' \in [Conn -> LineRecord]
    <3>1. CASE p.ends
      <4>1. NoLine \in LineRecord
        BY <1>g DEF NoLine, LineRecord, Saying
      <4> QED BY <1>0, <1>2, <3>1, <4>1 DEF Send, LineType
    <3>2. CASE ~p.ends
      <4>1. (IF sending[c].len < MAX_LINE THEN sending[c].len + 1 ELSE sending[c].len) \in 0 .. MAX_LINE
        BY <1>f, <1>g DEF LineRecord
      <4>2. sending' = [sending EXCEPT ![c] =
                          [len |-> IF sending[c].len < MAX_LINE THEN sending[c].len + 1 ELSE sending[c].len,
                           says |-> p.says]]
        BY <1>0, <1>2, <3>2 DEF Send, LineType, LineRecord
      <4> QED BY <1>0, <2>1, <4>1, <4>2 DEF LineType, LineRecord
    <3> QED BY <3>1, <3>2
  <2>3. LineType'
    BY <1>0, <1>2, <2>2 DEF Send, LineType, LineInv
  <2>4. lines' \in [Conn -> Seq(Saying \cup {"long"})]
    <3>1. CASE UNCHANGED lines
      BY <1>0, <3>1 DEF SeqType
    <3>2. CASE Record(c, p.says)
      <4>1. lines[c] \in Seq(Saying \cup {"long"})
        BY <1>0 DEF SeqType
      <4> QED BY <1>0, <2>1, <3>2, <4>1, AppendType DEF Record, SeqType
    <3> QED BY <1>2, <3>1, <3>2 DEF Send
  <2>5. stream' \in [Conn -> Seq(Piece)]
    <3>1. <<p>> \in Seq(Piece)
      BY <2>1
    <3> QED BY <1>0, <1>2, <3>1 DEF Send, SeqType
  <2>6. SeqType'
    BY <1>0, <1>2, <2>4, <2>5 DEF Send, SeqType
  <2> QED BY <1>2, <2>3, <2>6, <1>a, <1>d, TypeParts DEF Send
<1>3. ASSUME NEW c \in Conn, HangUp(c) PROVE TypeInv'
  <2>1. sending[c].says \in Saying
    BY <1>f DEF LineRecord
  <2>2. lines' \in [Conn -> Seq(Saying \cup {"long"})]
    <3>1. CASE UNCHANGED lines
      BY <1>0, <3>1 DEF SeqType
    <3>2. CASE Record(c, sending[c].says)
      <4>1. lines[c] \in Seq(Saying \cup {"long"})
        BY <1>0 DEF SeqType
      <4> QED BY <1>0, <2>1, <3>2, <4>1, AppendType DEF Record, SeqType
    <3> QED BY <1>3, <3>1, <3>2 DEF HangUp
  <2>3. SeqType'
    BY <1>0, <1>3, <2>2 DEF HangUp, SeqType
  <2>4. LineType'
    BY <1>0, <1>3, <1>g DEF HangUp, LineType, LineInv, LineRecord, NoLine, Saying
  <2>5. FlagType'
    BY <1>0, <1>3 DEF HangUp, FlagType
  <2> QED BY <1>3, <2>3, <2>4, <2>5, <1>d, TypeParts DEF HangUp
<1>4. ASSUME NEW c \in Conn, ReadAnswer(c) PROVE TypeInv'
  <2>1. unread[c] \in 0 .. SocketBuffer /\ unread[c] - 1 \in 0 .. SocketBuffer
    BY <1>0, <1>4, <1>g DEF ReadAnswer, FlagType
  <2>2. FlagType'
    BY <1>0, <1>4, <2>1 DEF ReadAnswer, FlagType
  <2> QED BY <1>4, <2>2, <1>b, <1>c, <1>d, TypeParts DEF ReadAnswer
<1>5. ASSUME NEW c \in Conn, Receive(c) PROVE TypeInv'
  <2> DEFINE p == Head(stream[c])
             n == line[c].len + 1
  <2>1. p \in Piece /\ p.says \in Saying /\ Tail(stream[c]) \in Seq(Piece)
    BY <1>0, <1>5, HeadPiece DEF Receive
  <2>2. SeqType'
    BY <1>0, <1>5, <2>1 DEF Receive, SeqType
  <2>3. LineType' /\ PcType'
    <3>1. CASE p.ends
      BY <1>0, <1>5, <2>1, <3>1, CompleteStep DEF Receive
    <3>2. CASE ~p.ends
      <4>1. /\ line' = [line EXCEPT ![c] = [len |-> n, says |-> p.says]]
            /\ IF n = MAX_LINE THEN Reject(c) ELSE UNCHANGED pc
            /\ UNCHANGED <<lock, sending>> /\ pc[c] \in {"auth", "read"}
        BY <1>5, <3>2 DEF Receive
      <4>2. n \in 0 .. MAX_LINE /\ (n # MAX_LINE => n < MAX_LINE)
        BY <1>f, <1>g, <4>1 DEF LineInv, LineRecord
      <4>3. [len |-> n, says |-> p.says] \in LineRecord
        BY <2>1, <4>2 DEF LineRecord
      <4> HIDE DEF n, p
      <4>4. CASE n = MAX_LINE
        BY <1>0, <4>1, <4>3, <4>4 DEF Reject, Goto, LineType, LineInv, PcType, Label
      <4>5. CASE n # MAX_LINE
        BY <1>0, <4>1, <4>2, <4>3, <4>5 DEF LineType, LineInv, PcType
      <4> QED BY <4>4, <4>5
    <3> QED BY <3>1, <3>2
  <2> QED BY <1>5, <2>2, <2>3, <1>a, TypeParts DEF Receive
<1>6. ASSUME NEW c \in Conn, EndOfStream(c) PROVE TypeInv'
  <2>1. line[c].says \in Saying /\ pc[c] \in {"auth", "read"} /\ UNCHANGED <<lock, sending>>
    BY <1>f, <1>6 DEF LineRecord, EndOfStream
  <2>2. CASE line[c].len = 0
    BY <1>6, <2>1, <2>2, <1>a, <1>b, <1>e, <1>g, TypeParts DEF EndOfStream
  <2>3. CASE line[c].len # 0
    BY <1>0, <1>6, <2>1, <2>3, <1>a, <1>b, CompleteStep, TypeParts DEF EndOfStream
  <2> QED BY <2>2, <2>3
<1>7. ASSUME NEW c \in Conn, ReadFails(c) \/ RecvTimeout(c) PROVE TypeInv'
  <2>1. line[c].len < MAX_LINE
    BY <1>f, <1>7 DEF ReadFails, RecvTimeout, LineInv
  <2>2. LineType' /\ PcType'
    BY <1>7, <1>e, <2>1 DEF ReadFails, RecvTimeout
  <2> QED BY <1>7, <2>2, <1>a, <1>b, TypeParts DEF ReadFails, RecvTimeout
<1>8. ASSUME NEW c \in Conn, Lock(c) PROVE TypeInv'
  <2>1. PcType'
    BY <1>0, <1>8, ConnAssumption DEF Lock, Goto, PcType, Label
  <2>2. LineType'
    BY <1>0, <1>8 DEF Lock, Goto, LineType, LineInv, PcType
  <2> QED BY <1>8, <2>1, <2>2, <1>a, <1>b, TypeParts DEF Lock
<1>9. ASSUME NEW c \in Conn, Handle(c) PROVE TypeInv'
  <2>1. line[c].says \in {"request", "seed"} /\ lock = c
    BY <1>0, <1>f, <1>9 DEF Handle, LineInv, IsRequest, PcType
  <2>2. SeqType'
    <3>1. ran[c] \in Seq({"request", "seed"})
      BY <1>0 DEF SeqType
    <3> QED BY <1>0, <1>9, <2>1, <3>1, AppendType DEF Handle, SeqType
  <2>3. PcType'
    BY <1>0, <1>9, <2>1, ConnAssumption DEF Handle, Unlock, Goto, PcType, Label
  <2>4. LineType'
    BY <1>0, <1>9 DEF Handle, Unlock, Goto, LineType, LineInv, PcType
  <2>5. FlagType'
    BY <1>0, <1>9 DEF Handle, FlagType
  <2> QED BY <2>2, <2>3, <2>4, <2>5, TypeParts
<1>10. ASSUME NEW c \in Conn, Answered(c) PROVE TypeInv'
  <2>1. PcType'
    BY <1>0, <1>10, ConnAssumption DEF Answered, Unlock, Goto, PcType, Label
  <2>2. LineType'
    BY <1>0, <1>10 DEF Answered, Unlock, Goto, LineType, LineInv, PcType
  <2> QED BY <1>10, <2>1, <2>2, <1>a, <1>b, TypeParts DEF Answered
<1>11. ASSUME NEW c \in Conn, Write(c) PROVE TypeInv'
  <2>1. /\ pc[c] \in {"refuse", "ready", "too_large", "reply"}
        /\ pc' = [pc EXCEPT ![c] = pc'[c]] /\ pc'[c] \in {"read", "closed"}
        /\ pc'[c] = "read" => pc[c] \in {"ready", "reply"}
        /\ lock' = (IF lock = c THEN NoConn ELSE lock) /\ UNCHANGED <<line, sending>>
    BY <1>0, <1>11 DEF Write, Goto, PcType
  <2>2. lock # c
    BY <1>0, <2>1 DEF PcType
  <2>3. PcType'
    BY <1>0, <2>1, <2>2 DEF PcType, Label
  <2>4. LineType'
    BY <1>0, <1>g, <2>1 DEF LineType, LineInv, PcType
  <2>5. FlagType'
    <3>1. unread[c] \in 0 .. SocketBuffer
      BY <1>0 DEF FlagType
    <3>2. unread[c] < SocketBuffer => unread[c] + 1 \in 0 .. SocketBuffer
      BY <1>g, <3>1
    <3> QED BY <1>0, <1>11, <3>2 DEF Write, FlagType
  <2>6. SeqType'
    <3>1. AnswerAt(c) \in Answer
      BY <2>1 DEF AnswerAt, Answer
    <3>2. answers[c] \in Seq(Answer)
      BY <1>0 DEF SeqType
    <3>3. Append(answers[c], AnswerAt(c)) \in Seq(Answer)
      BY <3>1, <3>2, AppendType
    <3> QED BY <1>0, <1>11, <3>3 DEF Write, SeqType
  <2> QED BY <2>3, <2>4, <2>5, <2>6, TypeParts
<1>12. CASE TaskAnswers \/ TaskEnds
  <2>1. FlagType'
    BY <1>0, <1>12 DEF TaskAnswers, TaskEnds, FlagType
  <2> QED BY <1>12, <2>1, <1>b, <1>c, <1>d, TypeParts DEF TaskAnswers, TaskEnds
<1>13. CASE UNCHANGED vars
  BY <1>13, <1>a, <1>b, <1>c, <1>d, TypeParts DEF vars
<1> QED BY <1>1, <1>2, <1>3, <1>4, <1>5, <1>6, <1>7, <1>8, <1>9, <1>10, <1>11, <1>12, <1>13
        DEF Next, Thread, Client

-----------------------------------------------------------------------------
(* One connection.                                                         *)

\* A connection nothing happens to.
LEMMA FrameStep ==
  ASSUME NEW c \in Conn, ConnInv(c), same_uid'[c] = same_uid[c], pc'[c] = pc[c],
         line'[c] = line[c], stream'[c] = stream[c], open'[c] = open[c],
         sending'[c] = sending[c], lines'[c] = lines[c], ran'[c] = ran[c]
  PROVE  ConnInv(c)'
<1>1. /\ Pending(c)' = Pending(c) /\ Reading(c)' = Reading(c) /\ Consumed(c)' = Consumed(c)
  BY DEF Pending, Reading, Consumed
<1>2. StreamInv(c) => StreamInv(c)'
  BY <1>1 DEF StreamInv
<1>3. ConsumedInv(c) => ConsumedInv(c)'
  BY <1>1 DEF ConsumedInv
<1>4. Limit(c)' = Limit(c)
  BY <1>1 DEF Limit
<1>5. RunUpTo(c, Limit(c)) => RunUpTo(c, Limit(c))'
  BY <1>4 DEF RunUpTo
<1>6. (\E k \in 0 .. Len(lines[c]) : RunUpTo(c, k)) => (\E k \in 0 .. Len(lines[c]) : RunUpTo(c, k))'
  BY DEF RunUpTo
<1> QED BY <1>2, <1>3, <1>5, <1>6 DEF ConnInv

\* What a list is of does not depend on what v has elsewhere; at no places there is
\* nothing to list.
LEMMA ListsSame ==
  ASSUME NEW rs, Len(rs) \in Nat, NEW D, NEW v, NEW w, Lists(rs, D, v),
         \A j \in D : w[j] = v[j]
  PROVE  Lists(rs, D, w) /\ (Len(rs) > 0 => D # {})
<1>1. PICK f \in [1 .. Len(rs) -> D] : ListsAt(f, rs, D, v)
  BY DEF Lists
<1>2. \A i \in 1 .. Len(rs) : f[i] \in D /\ w[f[i]] = v[f[i]]
  BY <1>1
<1>3. Lists(rs, D, w)
  <2>1. ListsAt(f, rs, D, w)
    BY <1>1, <1>2 DEF ListsAt
  <2> QED BY <2>1 DEF Lists
<1>4. Len(rs) > 0 => 1 \in 1 .. Len(rs)
  OBVIOUS
<1> QED BY <1>2, <1>3, <1>4

\* Nothing lists no place.
LEMMA ListsNothing == \A v : Lists(<<>>, {}, v)
<1>1. [i \in 1 .. Len(<<>>) |-> 2] \in [1 .. Len(<<>>) -> {}] /\ 1 .. Len(<<>>) = {}
  OBVIOUS
<1> QED BY <1>1 DEF Lists, ListsAt

\* A list goes on with a place behind all it has.
LEMMA ListsExtend ==
  ASSUME NEW S, NEW rs \in Seq(S), NEW D, NEW v, NEW k \in Int, v[k] \in S, Lists(rs, D, v),
         \A j \in D : j \in Int /\ j < k
  PROVE  Lists(Append(rs, v[k]), D \cup {k}, v)
<1> DEFINE n == Len(rs)
           ts == Append(rs, v[k])
<1>1. PICK f \in [1 .. n -> D] :
        /\ \A i \in 1 .. n : rs[i] = v[f[i]] /\ \A h \in 1 .. (i - 1) : f[h] < f[i]
        /\ \A j \in D : \E i \in 1 .. n : f[i] = j
  BY DEF Lists, ListsAt
<1> DEFINE g == [i \in 1 .. (n + 1) |-> IF i = n + 1 THEN k ELSE f[i]]
<1>2. /\ n \in Nat /\ Len(ts) = n + 1 /\ ts[n + 1] = v[k]
      /\ \A i \in 1 .. n : ts[i] = rs[i]
  BY AppendType
<1> HIDE DEF n, ts
<1>3. /\ g \in [1 .. (n + 1) -> D \cup {k}] /\ g[n + 1] = k
      /\ \A i \in 1 .. n : i \in 1 .. (n + 1) /\ g[i] = f[i] /\ f[i] \in D
  BY <1>1, <1>2
<1> HIDE DEF g
<1>4. ASSUME NEW i \in 1 .. (n + 1)
      PROVE  ts[i] = v[g[i]] /\ \A h \in 1 .. (i - 1) : g[h] < g[i]
  <2>1. CASE i = n + 1
    <3>1. \A h \in 1 .. (i - 1) : h \in 1 .. n
      BY <1>2, <2>1
    <3> QED BY <1>2, <1>3, <2>1, <3>1
  <2>2. CASE i # n + 1
    <3>1. i \in 1 .. n /\ \A h \in 1 .. (i - 1) : h \in 1 .. n
      BY <1>2, <2>2
    <3> QED BY <1>1, <1>2, <1>3, <3>1
  <2> QED BY <2>1, <2>2
<1>5. n + 1 \in 1 .. (n + 1)
  BY <1>2
<1>6. \A j \in D \cup {k} : \E i \in 1 .. (n + 1) : g[i] = j
  BY <1>1, <1>3, <1>5
<1>7. ListsAt(g, ts, D \cup {k}, v)
  BY <1>2, <1>4, <1>6 DEF ListsAt
<1>8. Lists(ts, D \cup {k}, v)
  BY <1>2, <1>3, <1>7 DEF Lists
<1> QED BY <1>8 DEF ts

\* The connection's numbers are numbers.
LEMMA Numbers ==
  ASSUME TypeInv, NEW c \in Conn
  PROVE  /\ Len(lines[c]) \in Nat /\ Len(ran[c]) \in Nat
         /\ lines[c] \in Seq(Saying \cup {"long"}) /\ ran[c] \in Seq({"request", "seed"})
         /\ line[c].len \in Nat /\ line[c].says \in Saying
         /\ pc[c] \in Label /\ MAX_LINE \in Nat /\ MAX_LINE > 0
         /\ Consumed(c) \in Int /\ Limit(c) \in Int /\ Consumed(c) <= Len(lines[c])
         /\ Limit(c) <= Consumed(c)
<1>1. /\ lines[c] \in Seq(Saying \cup {"long"}) /\ ran[c] \in Seq({"request", "seed"})
      /\ line[c].len \in 0 .. MAX_LINE /\ line[c].says \in Saying /\ pc[c] \in Label
  BY DEF TypeInv, TypeOK
<1>2. Len(lines[c]) \in Nat /\ Len(ran[c]) \in Nat
  BY <1>1
<1>3. Consumed(c) \in Int /\ Consumed(c) <= Len(lines[c])
  BY <1>2 DEF Consumed
<1>4. Limit(c) \in Int /\ Limit(c) <= Consumed(c)
  BY <1>3 DEF Limit
<1> QED BY <1>1, <1>2, <1>3, <1>4, LimitAssumption

\* While the thread reads, it has answered no more than it has run, and run no more
\* than was sent.
LEMMA LiveNumbers ==
  ASSUME TypeInv, NEW c \in Conn, ConnInv(c), pc[c] \in Live
  PROVE  /\ Consumed(c) \in 0 .. Len(lines[c]) /\ Limit(c) \in 0 .. Len(lines[c])
         /\ Replied(c) \in 0 .. Limit(c) /\ Replied(c) \in Int /\ Replied(c) <= Len(lines[c])
         /\ ConsumedInv(c) /\ StreamInv(c) /\ RunUpTo(c, Limit(c))
<1>1. StreamInv(c) /\ ConsumedInv(c) /\ RunUpTo(c, Limit(c))
  BY DEF ConnInv
<1>2. Pending(c) => Len(lines[c]) >= 1
  BY <1>1, Numbers DEF StreamInv
<1>3. Consumed(c) \in 0 .. Len(lines[c])
  BY <1>2, Numbers DEF Consumed
<1>4. pc[c] \in {"ready", "lock", "handle", "ask", "reply"} => Consumed(c) >= 1
  BY <1>1 DEF ConsumedInv, Early
<1>5. pc[c] \in {"lock", "handle"} => Consumed(c) >= 2
  BY <1>1 DEF ConsumedInv
<1>6. Limit(c) \in 0 .. Len(lines[c]) /\ Replied(c) \in 0 .. Limit(c)
  BY <1>3, <1>4, <1>5, Numbers DEF Limit, Replied
<1> QED BY <1>1, <1>3, <1>6, Numbers

\* Whether or not the thread still reads, what was run ends at some line.
LEMMA RunSomewhere ==
  ASSUME TypeInv, NEW c \in Conn, ConnInv(c)
  PROVE  \E k \in 0 .. Len(lines[c]) : RunUpTo(c, k)
BY LiveNumbers DEF ConnInv

\* A connection of which only the program counter moves.
LEMMA PcStep ==
  ASSUME TypeInv, NEW c \in Conn, ConnInv(c), same_uid'[c] = same_uid[c],
         line'[c] = line[c], stream'[c] = stream[c], open'[c] = open[c],
         sending'[c] = sending[c], lines'[c] = lines[c], ran'[c] = ran[c],
         pc[c] \notin Live => pc'[c] \notin Live,
         pc'[c] \in Live =>
           /\ pc'[c] \in Early <=> pc[c] \in Early
           /\ pc'[c] = "auth" => same_uid[c]
           /\ pc'[c] = "ready" => pc[c] = "ready"
           /\ pc'[c] \in {"lock", "handle"} <=> pc[c] \in {"lock", "handle"}
           /\ pc'[c] \in {"ask", "reply"} => pc[c] \in {"ask", "reply"}
  PROVE  ConnInv(c)'
<1>1. /\ Pending(c)' = Pending(c) /\ Reading(c)' = Reading(c) /\ Consumed(c)' = Consumed(c)
  BY DEF Pending, Reading, Consumed
<1>2. CASE pc'[c] \in Live
  <2>1. StreamInv(c)'
    BY <1>1, <1>2 DEF StreamInv, ConnInv
  <2>2. ConsumedInv(c)'
    BY <1>1, <1>2 DEF ConsumedInv, ConnInv
  <2>3. Limit(c)' = Limit(c)
    BY <1>1, <1>2 DEF Limit
  <2>4. RunUpTo(c, Limit(c))'
    BY <1>2, <2>3 DEF ConnInv, RunUpTo
  <2> QED BY <1>2, <2>1, <2>2, <2>4 DEF ConnInv
<1>3. CASE pc'[c] \notin Live
  <2>1. PICK k \in 0 .. Len(lines[c]) : RunUpTo(c, k)
    BY RunSomewhere
  <2>2. RunUpTo(c, k)'
    BY <2>1 DEF RunUpTo
  <2> QED BY <1>3, <2>1, <2>2 DEF ConnInv
<1> QED BY <1>2, <1>3

\* Once there are more lines, too, what was run is in order.
LEMMA RunGrows ==
  ASSUME TypeInv, NEW c \in Conn, NEW k \in Int, k <= Len(lines[c]), RunUpTo(c, k),
         ran'[c] = ran[c], same_uid'[c] = same_uid[c],
         \A j \in 1 .. Len(lines[c]) : lines'[c][j] = lines[c][j]
  PROVE  /\ Lists(ran'[c], Requests(lines'[c], k), lines'[c])
         /\ \A j \in 1 .. k : ~Fatal(lines'[c][j])
         /\ ran'[c] # <<>> => same_uid'[c] /\ authorized(lines'[c][1])
<1>1. \A j \in 1 .. k : lines'[c][j] = lines[c][j]
  BY Numbers
<1>2. /\ Requests(lines'[c], k) = Requests(lines[c], k)
      /\ \A j \in Requests(lines[c], k) : j \in 2 .. k /\ j \in 1 .. k
  BY <1>1 DEF Requests
<1>3. /\ Lists(ran'[c], Requests(lines'[c], k), lines'[c])
      /\ Len(ran[c]) > 0 => Requests(lines[c], k) # {}
  <2>1. \A j \in Requests(lines[c], k) : lines'[c][j] = lines[c][j]
    BY <1>1, <1>2
  <2> QED BY <1>2, <2>1, ListsSame, Numbers DEF RunUpTo
<1>4. ran[c] # <<>> => Len(ran[c]) > 0
  BY Numbers
<1>5. ran[c] # <<>> => 1 \in 1 .. k
  BY <1>2, <1>3, <1>4
<1> QED BY <1>1, <1>3, <1>5 DEF RunUpTo

\* Reading and sending go on within a line.
LEMMA SameLineStep ==
  ASSUME TypeInv, NEW c \in Conn, ConnInv(c), pc[c] \in Live, UNCHANGED <<same_uid, pc, ran>>,
         line'[c] = line[c] \/ pc[c] \notin {"lock", "handle", "ask", "reply"},
         \A j \in 1 .. Len(lines[c]) : lines'[c][j] = lines[c][j],
         StreamInv(c)', Consumed(c)' = Consumed(c)
  PROVE  ConnInv(c)'
<1>1. ConsumedInv(c)'
  <2>1. \A j \in 1 .. Consumed(c) : lines'[c][j] = lines[c][j]
    BY Numbers
  <2>2. Consumed(c) >= 1 => 1 \in 1 .. Consumed(c) /\ Consumed(c) \in 1 .. Consumed(c)
    BY Numbers
  <2>3. ConsumedInv(c)
    BY DEF ConnInv
  <2>4. Consumed(c) >= 2 => Consumed(c) >= 1
    BY Numbers
  <2> QED BY <2>1, <2>2, <2>3, <2>4 DEF ConsumedInv
<1>2. Limit(c)' = Limit(c)
  BY DEF Limit
<1>3. RunUpTo(c, Limit(c)) /\ Limit(c) <= Len(lines[c])
  BY Numbers DEF ConnInv
<1>4. RunUpTo(c, Limit(c))'
  BY <1>2, <1>3, RunGrows, Numbers DEF RunUpTo
<1> QED BY <1>1, <1>4 DEF ConnInv

\* More lines, on a connection that is not read any more.
LEMMA DeadStep ==
  ASSUME TypeInv, NEW c \in Conn, ConnInv(c), pc'[c] \notin Live, UNCHANGED <<same_uid, ran>>,
         Len(lines'[c]) \in Int, Len(lines[c]) <= Len(lines'[c]),
         \A j \in 1 .. Len(lines[c]) : lines'[c][j] = lines[c][j]
  PROVE  ConnInv(c)'
<1>1. PICK k \in 0 .. Len(lines[c]) : RunUpTo(c, k)
  BY RunSomewhere
<1>2. k \in Int /\ k <= Len(lines[c]) /\ k \in 0 .. Len(lines'[c])
  BY Numbers
<1>3. RunUpTo(c, k)'
  BY <1>1, <1>2, RunGrows DEF RunUpTo
<1> QED BY <1>2, <1>3 DEF ConnInv

\* What the client does only adds to its lines, and to those that are still to be
\* read.
LinesGrow(c) ==
  /\ Len(lines'[c]) \in Int /\ Len(lines[c]) <= Len(lines'[c])
  /\ \A j \in 1 .. Len(lines[c]) : lines'[c][j] = lines[c][j]
  /\ pc[c] \in Live => Consumed(c)' = Consumed(c)
  /\ \A k \in 0 .. Len(lines[c]) : Stopped(c, k) => Stopped(c, k)'

\* The client sends a piece.
LEMMA SendStep ==
  ASSUME TypeInv, NEW c \in Conn, ConnInv(c), NEW p \in Says[c], Send(c, p)
  PROVE  ConnInv(c)' /\ LinesGrow(c)
<1>1. p \in Piece /\ p.says \in Saying /\ p.ends \in BOOLEAN
  BY SaysAssumption DEF Piece
<1>2. /\ open[c] /\ stream[c] = <<>> /\ stream'[c] = <<p>>
      /\ UNCHANGED <<same_uid, pc, line, open, ran>>
  BY DEF Send, TypeInv, TypeOK
<1>3. /\ <<p>> # <<>> /\ Head(<<p>>) = p
  OBVIOUS
<1>4. p.ends => /\ sending'[c] = NoLine
                /\ lines'[c] = Append(lines[c], IF sending[c].len >= MAX_LINE THEN "long" ELSE p.says)
  BY DEF Send, Record, TypeInv, TypeOK
<1>5. ~p.ends => /\ lines'[c] = lines[c]
                 /\ sending'[c] = [len |-> IF sending[c].len < MAX_LINE THEN sending[c].len + 1
                                           ELSE sending[c].len,
                                   says |-> p.says]
  <2> SUFFICES ASSUME ~p.ends
               PROVE  /\ lines'[c] = lines[c]
                      /\ sending'[c] = [len |-> IF sending[c].len < MAX_LINE THEN sending[c].len + 1
                                                ELSE sending[c].len,
                                        says |-> p.says]
    OBVIOUS
  <2>1. sending \in [Conn -> LineRecord]
    BY DEF TypeInv, TypeOK, LineRecord
  <2> QED BY <2>1 DEF Send, LineRecord
<1>6. /\ Len(lines'[c]) = (IF p.ends THEN Len(lines[c]) + 1 ELSE Len(lines[c]))
      /\ \A j \in 1 .. Len(lines[c]) : lines'[c][j] = lines[c][j]
      /\ p.ends => lines'[c][Len(lines'[c])] = IF sending[c].len >= MAX_LINE THEN "long" ELSE p.says
      /\ p.ends => lines'[c] # <<>>
  <2>1. CASE p.ends
    <3> DEFINE e == IF sending[c].len >= MAX_LINE THEN "long" ELSE p.says
    <3>1. e \in Saying \cup {"long"} /\ lines[c] \in Seq(Saying \cup {"long"})
      BY <1>1, Numbers
    <3>2. lines'[c] = Append(lines[c], e)
      BY <1>4, <2>1
    <3> HIDE DEF e
    <3>3. /\ Len(lines'[c]) = Len(lines[c]) + 1 /\ lines'[c] # <<>>
          /\ \A j \in 1 .. Len(lines[c]) : lines'[c][j] = lines[c][j]
          /\ lines'[c][Len(lines[c]) + 1] = e
      BY <3>1, <3>2, AppendType
    <3> QED BY <2>1, <3>3 DEF e
  <2>2. CASE ~p.ends
    BY <1>5, <2>2
  <2> QED BY <2>1, <2>2
<1>7. ASSUME NEW k \in 0 .. Len(lines[c]), Stopped(c, k) PROVE Stopped(c, k)'
  <2>1. CASE k < Len(lines[c])
    <3>1. k + 1 \in 1 .. Len(lines[c]) /\ k < Len(lines'[c])
      BY <1>6, <2>1, Numbers
    <3> QED BY <1>6, <1>7, <2>1, <3>1 DEF Stopped
  <2>2. CASE k = Len(lines[c])
    <3>1. sending[c].len = MAX_LINE /\ MAX_LINE \in Nat
      BY <1>7, <2>2, Numbers DEF Stopped
    <3>2. CASE p.ends
      BY <1>6, <2>2, <3>1, <3>2, Numbers DEF Stopped, Fatal
    <3>3. CASE ~p.ends
      BY <1>5, <2>2, <3>1, <3>3, Numbers DEF Stopped
    <3> QED BY <3>2, <3>3
  <2> QED BY <2>1, <2>2, Numbers
<1>8. Len(lines'[c]) \in Int /\ Len(lines[c]) <= Len(lines'[c])
  BY <1>6, Numbers
<1>9. CASE pc[c] \in Live
  <2>1. line[c].len < MAX_LINE /\ sending[c].len = line[c].len /\ line[c].len \in Nat
    BY <1>2, <1>9, Numbers DEF ConnInv, StreamInv, TypeInv, LineInv, Live, Early
  <2>2. ~Pending(c) /\ Consumed(c) = Len(lines[c])
    BY <1>2 DEF Pending, Consumed
  <2>3. Pending(c)' = p.ends
    BY <1>1, <1>2, <1>3 DEF Pending
  <2>4. Consumed(c)' = Consumed(c)
    BY <1>6, <2>2, <2>3, Numbers DEF Consumed
  <2>5. StreamInv(c)'
    <3>1. CASE p.ends
      <4>1. Reading(c)' = p.says
        BY <1>2, <1>3, <3>1 DEF Reading
      <4>2. lines'[c][Len(lines'[c])] = p.says /\ lines'[c] # <<>>
        BY <1>6, <2>1, <3>1, Numbers
      <4> QED BY <1>2, <1>3, <1>4, <3>1, <4>1, <4>2 DEF StreamInv
    <3>2. CASE ~p.ends
      <4>1. sending'[c] = [len |-> line[c].len + 1, says |-> p.says] /\ line[c].len + 1 # 0
        BY <1>5, <2>1, <3>2, Numbers
      <4> QED BY <1>2, <1>3, <2>3, <3>2, <4>1 DEF StreamInv
    <3> QED BY <3>1, <3>2
  <2>6. ConnInv(c)'
    BY <1>2, <1>6, <1>9, <2>4, <2>5, SameLineStep
  <2> QED BY <1>6, <1>7, <1>8, <2>4, <2>6 DEF LinesGrow
<1>10. CASE pc[c] \notin Live
  <2>1. ConnInv(c)'
    BY <1>2, <1>6, <1>10, <1>8, DeadStep
  <2> QED BY <1>6, <1>10, <1>7, <1>8, <2>1 DEF LinesGrow
<1> QED BY <1>9, <1>10

\* The client hangs up: what it has sent of a line is a line.
LEMMA HangUpStep ==
  ASSUME TypeInv, NEW c \in Conn, ConnInv(c), HangUp(c)
  PROVE  ConnInv(c)' /\ LinesGrow(c)
<1> DEFINE e == IF sending[c].len >= MAX_LINE THEN "long" ELSE sending[c].says
<1>1. /\ open[c] /\ ~open'[c] /\ sending'[c] = NoLine
      /\ UNCHANGED <<same_uid, pc, line, stream, ran>>
  BY DEF HangUp, TypeInv, TypeOK
<1>2. lines'[c] = IF sending[c] = NoLine THEN lines[c] ELSE Append(lines[c], e)
  BY DEF HangUp, Record, TypeInv, TypeOK
<1>3. e \in Saying \cup {"long"} /\ lines[c] \in Seq(Saying \cup {"long"})
  BY DEF TypeInv, TypeOK
<1> HIDE DEF e
<1>4. /\ Len(lines'[c]) = (IF sending[c] = NoLine THEN Len(lines[c]) ELSE Len(lines[c]) + 1)
      /\ \A j \in 1 .. Len(lines[c]) : lines'[c][j] = lines[c][j]
      /\ sending[c] # NoLine => lines'[c] # <<>> /\ lines'[c][Len(lines'[c])] = e
  <2>1. /\ Len(Append(lines[c], e)) = Len(lines[c]) + 1 /\ Append(lines[c], e) # <<>>
        /\ \A j \in 1 .. Len(lines[c]) : Append(lines[c], e)[j] = lines[c][j]
        /\ Append(lines[c], e)[Len(lines[c]) + 1] = e
    BY <1>3, AppendType
  <2> QED BY <1>2, <2>1
<1>5. ASSUME NEW k \in 0 .. Len(lines[c]), Stopped(c, k) PROVE Stopped(c, k)'
  <2>1. CASE k < Len(lines[c])
    <3>1. k + 1 \in 1 .. Len(lines[c]) /\ k < Len(lines'[c])
      BY <1>4, <2>1, Numbers
    <3> QED BY <1>4, <1>5, <2>1, <3>1 DEF Stopped
  <2>2. CASE k = Len(lines[c])
    <3>1. sending[c].len = MAX_LINE /\ MAX_LINE \in Nat /\ sending[c] # NoLine
      BY <1>5, <2>2, Numbers DEF Stopped, NoLine
    <3> QED BY <1>4, <2>2, <3>1, Numbers DEF Stopped, Fatal, e
  <2> QED BY <2>1, <2>2, Numbers
<1>6. Len(lines'[c]) \in Int /\ Len(lines[c]) <= Len(lines'[c])
  BY <1>4, Numbers
<1>7. ASSUME ConnInv(c)', pc[c] \in Live => Consumed(c)' = Consumed(c)
      PROVE  ConnInv(c)' /\ LinesGrow(c)
  BY <1>4, <1>5, <1>6, <1>7 DEF LinesGrow
<1>8. CASE pc[c] \in Live
  <2>1. StreamInv(c) /\ line[c].len \in Nat /\ line[c].len < MAX_LINE
    BY <1>8, Numbers DEF ConnInv, TypeInv, LineInv, Live, Early
  <2>2. NoLine.len = 0
    BY DEF NoLine
  <2>3. CASE stream[c] = <<>>
    <3>1. sending[c].len = line[c].len /\ (line[c].len > 0 => sending[c].says = line[c].says)
      BY <1>1, <2>1, <2>3 DEF StreamInv
    <3>2. sending[c] = NoLine <=> line[c].len = 0
      BY <2>1, <2>2, <3>1 DEF StreamInv
    <3>3. ~Pending(c) /\ (Pending(c)' <=> line[c].len > 0)
      BY <1>1, <2>3 DEF Pending
    <3>4. Consumed(c)' = Consumed(c)
      BY <1>4, <2>1, <3>2, <3>3, Numbers DEF Consumed
    <3>5. Pending(c)' => lines'[c] # <<>> /\ lines'[c][Len(lines'[c])] = line[c].says
      BY <1>4, <2>1, <3>1, <3>2, <3>3, Numbers DEF e
    <3>6. Reading(c)' = line[c].says
      BY <1>1, <2>3 DEF Reading
    <3>7. StreamInv(c)'
      BY <1>1, <2>3, <3>5, <3>6 DEF StreamInv
    <3>8. ConnInv(c)'
      BY <1>1, <1>4, <1>8, <3>4, <3>7, SameLineStep
    <3> QED BY <1>7, <3>4, <3>8
  <2>4. CASE stream[c] # <<>> /\ Head(stream[c]).ends
    <3>1. sending[c] = NoLine /\ lines'[c] = lines[c]
      BY <1>1, <1>2, <2>1, <2>4 DEF StreamInv
    <3>2. Pending(c) /\ Pending(c)' /\ Reading(c)' = Reading(c)
      BY <1>1, <2>4 DEF Pending, Reading
    <3>3. Consumed(c)' = Consumed(c)
      BY <3>1, <3>2 DEF Consumed
    <3>4. StreamInv(c)'
      BY <1>1, <2>1, <3>1, <3>2 DEF StreamInv
    <3>8. ConnInv(c)'
      BY <1>1, <1>4, <1>8, <3>3, <3>4, SameLineStep
    <3> QED BY <1>7, <3>3, <3>8
  <2>5. CASE stream[c] # <<>> /\ ~Head(stream[c]).ends
    <3>1. sending[c] = [len |-> line[c].len + 1, says |-> Head(stream[c]).says]
      BY <1>1, <2>1, <2>5 DEF StreamInv
    <3>2. sending[c] # NoLine
      BY <2>1, <2>2, <3>1
    <3>3. ~Pending(c) /\ Pending(c)'
      BY <1>1, <2>5 DEF Pending
    <3>4. Consumed(c)' = Consumed(c)
      BY <1>4, <3>2, <3>3, Numbers DEF Consumed
    <3>5. Reading(c)' = e
      BY <1>1, <2>1, <2>5, <3>1, Numbers DEF Reading, e
    <3>6. StreamInv(c)'
      BY <1>1, <1>4, <2>1, <2>5, <3>2, <3>5 DEF StreamInv
    <3>8. ConnInv(c)'
      BY <1>1, <1>4, <1>8, <3>4, <3>6, SameLineStep
    <3> QED BY <1>7, <3>4, <3>8
  <2> QED BY <2>3, <2>4, <2>5
<1>9. CASE pc[c] \notin Live
  <2>1. ConnInv(c)'
    BY <1>1, <1>4, <1>9, <1>6, DeadStep
  <2> QED BY <1>9, <1>7, <2>1
<1> QED BY <1>8, <1>9

\* Where a thread goes with the line it has read, and what is read by then.
LEMMA LineRead ==
  ASSUME TypeInv, NEW c \in Conn, ConnInv(c), pc[c] \in {"auth", "read"},
         NEW says \in Saying, Complete(c, says), Pending(c), Reading(c) = says,
         stream'[c] = <<>>, UNCHANGED lines
  PROVE  /\ StreamInv(c) /\ ConsumedInv(c) /\ RunUpTo(c, Limit(c))
         /\ line'[c] = [len |-> 0, says |-> says] /\ ~Pending(c)'
         /\ says = "garbled" => pc'[c] = IF pc[c] = "auth" THEN "closed" ELSE "too_large"
         /\ says # "garbled" =>
              IF pc[c] = "auth" THEN pc'[c] = IF authorized(says) THEN "ready" ELSE "refuse"
              ELSE /\ pc'[c] \in {"read", "lock", "reply"}
                   /\ pc'[c] = "read" <=> says = "blank"
                   /\ pc'[c] = "lock" <=> IsRequest(says)
         /\ Consumed(c)' = Len(lines[c]) /\ Consumed(c) = Len(lines[c]) - 1
         /\ lines[c][Len(lines[c])] = says /\ Len(lines[c]) \in Nat
         /\ IF pc[c] = "auth" THEN Len(lines[c]) = 1 ELSE Len(lines[c]) >= 2
         /\ same_uid[c]
<1>1. /\ StreamInv(c) /\ ConsumedInv(c) /\ RunUpTo(c, Limit(c))
  BY DEF ConnInv, Live, Early
<1>2. line'[c] = [len |-> 0, says |-> says]
  BY DEF Complete, TypeInv, TypeOK
<1>3. pc'[c] = IF says = "garbled" THEN (IF pc[c] = "auth" THEN "closed" ELSE "too_large")
               ELSE AfterLine(c, says)
  BY DEF Complete, Reject, Goto, TypeInv, TypeOK
<1>4. ~Pending(c)'
  BY <1>2 DEF Pending
<1>5. /\ Consumed(c)' = Len(lines[c]) /\ Consumed(c) = Len(lines[c]) - 1
      /\ lines[c][Len(lines[c])] = says /\ Len(lines[c]) \in Nat
  BY <1>1, <1>4, Numbers DEF Consumed, StreamInv
<1>6. IF pc[c] = "auth" THEN Len(lines[c]) = 1 ELSE Len(lines[c]) >= 2
  BY <1>1, <1>5 DEF ConsumedInv, Early
<1>7. pc[c] = "auth" => AfterLine(c, says) = IF authorized(says) THEN "ready" ELSE "refuse"
  BY DEF AfterLine
<1>8. pc[c] # "auth" => /\ AfterLine(c, says) \in {"read", "lock", "reply"}
                        /\ AfterLine(c, says) = "read" <=> says = "blank"
                        /\ AfterLine(c, says) = "lock" <=> IsRequest(says)
  BY DEF AfterLine, IsRequest
<1>9. same_uid[c]
  BY <1>1 DEF ConsumedInv, Early
<1> QED BY <1>1, <1>2, <1>3, <1>4, <1>5, <1>6, <1>7, <1>8, <1>9

\* A pending line is read to its end.
LEMMA LineStep ==
  ASSUME TypeInv, NEW c \in Conn, ConnInv(c), pc[c] \in {"auth", "read"},
         NEW says \in Saying, Complete(c, says), Pending(c), Reading(c) = says,
         stream'[c] = <<>>, open[c] => sending[c] = NoLine,
         UNCHANGED <<same_uid, open, sending, lines, ran>>
  PROVE  ConnInv(c)'
<1>1. /\ StreamInv(c) /\ ConsumedInv(c) /\ RunUpTo(c, Limit(c))
      /\ line'[c] = [len |-> 0, says |-> says] /\ ~Pending(c)'
  BY LineRead
<1>2. /\ says = "garbled" => pc'[c] = IF pc[c] = "auth" THEN "closed" ELSE "too_large"
      /\ says # "garbled" =>
           IF pc[c] = "auth" THEN pc'[c] = IF authorized(says) THEN "ready" ELSE "refuse"
           ELSE /\ pc'[c] \in {"read", "lock", "reply"}
                /\ pc'[c] = "read" <=> says = "blank"
                /\ pc'[c] = "lock" <=> IsRequest(says)
  BY LineRead
<1>3. /\ Consumed(c)' = Len(lines[c]) /\ Consumed(c) = Len(lines[c]) - 1
      /\ lines[c][Len(lines[c])] = says /\ Len(lines[c]) \in Nat
      /\ IF pc[c] = "auth" THEN Len(lines[c]) = 1 ELSE Len(lines[c]) >= 2
  BY LineRead
<1>4. CASE pc'[c] \notin Live
  BY <1>4, DeadStep, Numbers
<1>5. CASE pc'[c] \in Live
  <2>1. /\ says # "garbled" /\ pc'[c] \in {"ready", "read", "lock", "reply"}
        /\ pc[c] = "auth" => authorized(says) /\ pc'[c] = "ready"
        /\ pc'[c] \in {"lock", "reply"} => pc[c] # "auth" /\ says # "blank"
        /\ pc'[c] = "ready" => pc[c] = "auth"
        /\ pc'[c] # "lock" => ~IsRequest(says)
    BY <1>2, <1>5 DEF Live, Early, authorized, IsRequest
  <2>2. ~Fatal(says)
    BY <2>1 DEF Fatal, Saying
  <2>3. StreamInv(c)'
    <3>1. line'[c].len = 0
      BY <1>1
    <3>2. open'[c] => sending'[c].len = line'[c].len
      BY <3>1 DEF NoLine
    <3>3. sending'[c].len = 0 => sending'[c] = NoLine
      BY <1>1 DEF StreamInv
    <3> QED BY <1>1, <3>1, <3>2, <3>3 DEF StreamInv
  <2>4. \A j \in 1 .. Len(lines[c]) : ~Fatal(lines[c][j])
    <3>1. \A j \in 1 .. Len(lines[c]) : j \in 1 .. (Len(lines[c]) - 1) \/ j = Len(lines[c])
      BY <1>3
    <3> QED BY <1>1, <1>3, <2>2, <3>1 DEF ConsumedInv
  <2>5. same_uid[c] /\ authorized(lines[c][1])
    BY <1>1, <1>3, <2>1 DEF ConsumedInv, Early
  <2>6. pc'[c] \notin Early /\ pc'[c] # "auth" /\ pc'[c] # "handle"
    BY <2>1 DEF Early
  <2>7. ConsumedInv(c)'
    BY <1>1, <1>3, <2>1, <2>4, <2>5, <2>6 DEF ConsumedInv
  <2>8. RunUpTo(c, Limit(c))'
    <3>1. Limit(c) = Len(lines[c]) - 1
      BY <1>3 DEF Limit
    <3>2. Limit(c)' = IF pc'[c] = "lock" THEN Len(lines[c]) - 1 ELSE Len(lines[c])
      BY <1>3, <2>6 DEF Limit
    <3>3. pc'[c] # "lock" => Requests(lines[c], Len(lines[c])) = Requests(lines[c], Len(lines[c]) - 1)
      <4>1. \A j \in 2 .. Len(lines[c]) : j \in 2 .. (Len(lines[c]) - 1) \/ j = Len(lines[c])
        BY <1>3
      <4>2. \A j \in 2 .. (Len(lines[c]) - 1) : j \in 2 .. Len(lines[c])
        BY <1>3
      <4> QED BY <1>3, <2>1, <4>1, <4>2 DEF Requests
    <3>4. Requests(lines[c], Limit(c)') = Requests(lines[c], Limit(c))
      BY <3>1, <3>2, <3>3
    <3>5. \A j \in 1 .. Limit(c)' : ~Fatal(lines[c][j])
      BY <1>3, <2>4, <3>2
    <3> QED BY <1>1, <3>4, <3>5 DEF RunUpTo
  <2> QED BY <1>5, <2>3, <2>7, <2>8 DEF ConnInv
<1> QED BY <1>4, <1>5

\* There is never more than one piece to take in.
LEMMA PieceTaken ==
  ASSUME TypeInv, NEW c \in Conn, ConnInv(c), Receive(c)
  PROVE  /\ pc[c] \in {"auth", "read"} /\ pc[c] \in Live /\ StreamInv(c)
         /\ stream[c] # <<>> /\ stream'[c] = <<>>
         /\ Head(stream[c]).says \in Saying /\ Head(stream[c]).ends \in BOOLEAN
<1> DEFINE p == Head(stream[c])
<1>1. pc[c] \in {"auth", "read"} /\ stream[c] # <<>>
  BY DEF Receive
<1>2. StreamInv(c) /\ pc[c] \in Live
  BY <1>1 DEF ConnInv, Live, Early
<1>3. p.says \in Saying /\ p.ends \in BOOLEAN
  BY <1>1, HeadPiece, TypeParts
<1>4. stream[c] = <<p>>
  BY <1>1, <1>2 DEF StreamInv
<1>5. stream'[c] = Tail(stream[c])
  BY DEF Receive, TypeInv, TypeOK
<1>6. Tail(<<p>>) = <<>>
  OBVIOUS
<1> QED BY <1>1, <1>2, <1>3, <1>4, <1>5, <1>6

\* The thread takes in a piece.
LEMMA ReceiveStep ==
  ASSUME TypeInv, NEW c \in Conn, ConnInv(c), Receive(c)
  PROVE  ConnInv(c)'
<1> DEFINE p == Head(stream[c])
           n == line[c].len + 1
<1>1. /\ pc[c] \in {"auth", "read"} /\ stream[c] # <<>>
      /\ UNCHANGED <<same_uid, open, sending, lines, ran>>
  BY DEF Receive
<1>2. StreamInv(c) /\ pc[c] \in Live
  BY PieceTaken
<1>3. p.says \in Saying /\ p.ends \in BOOLEAN
  BY PieceTaken
<1>4. stream'[c] = <<>>
  BY PieceTaken
<1>5. CASE p.ends
  <2>1. Pending(c) /\ Reading(c) = p.says
    BY <1>1, <1>5 DEF Pending, Reading
  <2>2. open[c] => sending[c] = NoLine
    BY <1>1, <1>2, <1>5 DEF StreamInv
  <2>3. Complete(c, p.says)
    BY <1>5 DEF Receive
  <2> QED BY <1>1, <1>3, <1>4, <2>1, <2>2, <2>3, LineStep
<1>6. CASE ~p.ends
  <2>1. line'[c] = [len |-> n, says |-> p.says] /\ IF n = MAX_LINE THEN Reject(c) ELSE UNCHANGED pc
    BY <1>6 DEF Receive, TypeInv, TypeOK
  <2>2. n > 0
    BY Numbers
  <2>3. CASE n = MAX_LINE
    <3>1. pc'[c] \in {"closed", "too_large"}
      BY <2>1, <2>3 DEF Reject, Goto, TypeInv, TypeOK
    <3>2. pc'[c] \notin Live
      BY <3>1 DEF Live, Early
    <3> QED BY <1>1, <3>2, DeadStep, Numbers
  <2>4. CASE n # MAX_LINE
    <3>1. Pending(c) = ~open[c] /\ Pending(c)' = ~open[c]
      BY <1>1, <1>4, <1>6, <2>1, <2>2 DEF Pending
    <3>2. Consumed(c)' = Consumed(c)
      BY <1>1, <3>1 DEF Consumed
    <3>3. Reading(c) = p.says /\ Reading(c)' = p.says
      BY <1>1, <1>4, <1>6, <2>1, <2>4 DEF Reading
    <3>4. open[c] => sending[c] = [len |-> n, says |-> p.says]
      BY <1>1, <1>2, <1>6 DEF StreamInv
    <3>5. StreamInv(c)'
      BY <1>1, <1>2, <1>4, <2>1, <3>1, <3>3, <3>4 DEF StreamInv
    <3> QED BY <1>1, <1>2, <2>1, <2>4, <3>2, <3>5, SameLineStep
  <2> QED BY <2>3, <2>4
<1> QED BY <1>3, <1>5, <1>6

\* The stream is over.
LEMMA EndOfStreamStep ==
  ASSUME TypeInv, NEW c \in Conn, ConnInv(c), EndOfStream(c)
  PROVE  ConnInv(c)'
<1>1. /\ pc[c] \in {"auth", "read"} /\ stream[c] = <<>> /\ ~open[c]
      /\ UNCHANGED <<same_uid, stream, open, sending, lines, ran>>
  BY DEF EndOfStream, clientVars
<1>2. CASE line[c].len = 0
  <2>1. pc'[c] = "closed"
    BY <1>2 DEF EndOfStream, Goto, TypeInv, TypeOK
  <2>2. pc'[c] \notin Live
    BY <2>1 DEF Live, Early
  <2> QED BY <1>1, <2>2, DeadStep, Numbers
<1>3. CASE line[c].len # 0
  <2>1. Complete(c, line[c].says) /\ line[c].says \in Saying
    BY <1>3, Numbers DEF EndOfStream
  <2>2. Pending(c) /\ Reading(c) = line[c].says
    BY <1>1, <1>3, Numbers DEF Pending, Reading
  <2> QED BY <1>1, <2>1, <2>2, LineStep
<1> QED BY <1>2, <1>3

\* The daemon handles the line that was read last.
LEMMA HandleStep ==
  ASSUME TypeInv, NEW c \in Conn, ConnInv(c), Handle(c)
  PROVE  ConnInv(c)'
<1>1. /\ pc[c] = "handle" /\ pc'[c] \in {"ask", "reply"}
      /\ ran'[c] = Append(ran[c], line[c].says)
      /\ UNCHANGED <<same_uid, line, stream, open, sending, lines>>
  BY DEF Handle, Unlock, Goto, clientVars, TypeInv, TypeOK
<1>2. StreamInv(c) /\ ConsumedInv(c) /\ RunUpTo(c, Limit(c))
  BY <1>1 DEF ConnInv, Live, Early
<1>3. /\ Pending(c)' = Pending(c) /\ Reading(c)' = Reading(c) /\ Consumed(c)' = Consumed(c)
  BY <1>1 DEF Pending, Reading, Consumed
<1>4. /\ Consumed(c) >= 2 /\ lines[c][Consumed(c)] = line[c].says
      /\ same_uid[c] /\ authorized(lines[c][1])
      /\ \A j \in 1 .. Consumed(c) : ~Fatal(lines[c][j])
  BY <1>1, <1>2 DEF ConsumedInv, Early
<1>5. line[c].says \in {"request", "seed"}
  BY <1>1 DEF TypeInv, LineInv, IsRequest
<1>6. Limit(c) = Consumed(c) - 1 /\ Consumed(c) \in Int
  BY <1>1, Numbers DEF Limit
<1>7. Lists(ran'[c], Requests(lines[c], Consumed(c)), lines[c])
  <2> DEFINE k == Consumed(c)
             D == Requests(lines[c], k - 1)
  <2>1. Lists(ran[c], D, lines[c]) /\ \A j \in D : j \in Int /\ j < k
    BY <1>2, <1>6 DEF RunUpTo, Requests
  <2>2. Requests(lines[c], k) = D \cup {k}
    <3>1. \A j : j \in 2 .. k <=> j \in 2 .. (k - 1) \/ j = k
      BY <1>4, <1>6
    <3> QED BY <1>4, <1>5, <3>1 DEF Requests, IsRequest
  <2>3. lines[c][k] \in {"request", "seed"} /\ ran[c] \in Seq({"request", "seed"})
    BY <1>4, <1>5, Numbers
  <2> HIDE DEF k, D
  <2>4. k \in Int
    BY <1>6 DEF k
  <2>5. Lists(Append(ran[c], lines[c][k]), D \cup {k}, lines[c])
    BY <2>1, <2>3, <2>4, ListsExtend
  <2> QED BY <1>1, <1>4, <2>2, <2>5 DEF k
<1>8. Limit(c)' = Consumed(c)
  BY <1>1, <1>3 DEF Limit
<1>9. RunUpTo(c, Limit(c))'
  BY <1>1, <1>4, <1>7, <1>8 DEF RunUpTo
<1>10. StreamInv(c)'
  BY <1>1, <1>2, <1>3 DEF StreamInv
<1>11. ConsumedInv(c)'
  BY <1>1, <1>2, <1>3 DEF ConsumedInv, Early
<1>12. pc'[c] \in Live
  BY <1>1 DEF Live
<1> QED BY <1>9, <1>10, <1>11, <1>12 DEF ConnInv

\* The other actions of a connection move its program counter only.
LEMMA ThreadStep ==
  ASSUME TypeInv, NEW c \in Conn, ConnInv(c),
         \/ Connect(c) \/ Accept(c) \/ Start(c) \/ ReadFails(c) \/ RecvTimeout(c)
         \/ Lock(c) \/ Answered(c) \/ Write(c)
  PROVE  ConnInv(c)'
<1>1. UNCHANGED <<same_uid, line, stream, open, sending, lines, ran>>
  BY DEF Connect, Accept, Start, ReadFails, RecvTimeout, Lock, Answered, Write, clientVars
<1>2. \/ pc[c] = "idle" /\ pc'[c] = "queued"
      \/ pc[c] = "queued" /\ pc'[c] = "start"
      \/ pc[c] = "start" /\ pc'[c] = "auth" /\ same_uid[c]
      \/ pc[c] = "lock" /\ pc'[c] = "handle"
      \/ pc[c] = "ask" /\ pc'[c] = "reply"
      \/ pc[c] \in {"ready", "reply"} /\ pc'[c] = "read"
      \/ pc'[c] = "closed"
  BY DEF Connect, Accept, Start, ReadFails, RecvTimeout, Lock, Answered, Unlock, Write, Goto,
         TypeInv, TypeOK
<1> QED BY <1>1, <1>2, PcStep DEF Live, Early

\* Everything a connection's thread and client do.
LEMMA OwnStep ==
  ASSUME TypeInv, NEW c \in Conn, ConnInv(c), Thread(c) \/ Client(c)
  PROVE  ConnInv(c)'
<1>1. ASSUME ReadAnswer(c) PROVE ConnInv(c)'
  BY <1>1, FrameStep DEF ReadAnswer, clientVars
<1> QED BY <1>1, ThreadStep, SendStep, HangUpStep, ReceiveStep, EndOfStreamStep, HandleStep
        DEF Thread, Client

\* And nothing that they do concerns another one.
LEMMA OthersUnchanged ==
  ASSUME TypeInv, NEW c \in Conn, NEW d \in Conn, d # c, Thread(c) \/ Client(c)
  PROVE  /\ same_uid'[d] = same_uid[d] /\ pc'[d] = pc[d] /\ line'[d] = line[d]
         /\ stream'[d] = stream[d] /\ open'[d] = open[d] /\ sending'[d] = sending[d]
         /\ lines'[d] = lines[d] /\ ran'[d] = ran[d]
<1> USE DEF clientVars
<1>1. same_uid'[d] = same_uid[d] /\ pc'[d] = pc[d] /\ line'[d] = line[d]
  BY DEF Thread, Client, Accept, Start, Receive, EndOfStream, ReadFails, RecvTimeout, Lock, Handle,
         Answered, Write, Connect, HangUp, ReadAnswer, Send, Complete, Reject, Unlock, Goto,
         TypeInv, TypeOK
<1>2. stream'[d] = stream[d] /\ open'[d] = open[d] /\ sending'[d] = sending[d]
  BY DEF Thread, Client, Accept, Start, Receive, EndOfStream, ReadFails, RecvTimeout, Lock, Handle,
         Answered, Write, Connect, HangUp, ReadAnswer, Send, TypeInv, TypeOK
<1>3. lines'[d] = lines[d] /\ ran'[d] = ran[d]
  BY DEF Thread, Client, Accept, Start, Receive, EndOfStream, ReadFails, RecvTimeout, Lock, Handle,
         Answered, Write, Connect, HangUp, ReadAnswer, Send, Record, TypeInv, TypeOK
<1> QED BY <1>1, <1>2, <1>3

-----------------------------------------------------------------------------

\* The two ends of every connection stay in step.
LEMMA IpcInvariant == Spec => []IpcInv
<1>1. Init => IpcInv
  <2> SUFFICES ASSUME Init PROVE IpcInv
    OBVIOUS
  <2>1. TypeInv
    <3>1. NoLine \in [len : 0 .. MAX_LINE, says : Saying] /\ 0 \in 0 .. SocketBuffer /\ NoLine.len = 0
      BY LimitAssumption DEF NoLine, Saying
    <3>2. FlagType
      BY <3>1 DEF Init, FlagType
    <3>3. SeqType
      BY DEF Init, SeqType
    <3>4. LineType
      BY <3>1, LimitAssumption DEF Init, LineType, LineInv, LineRecord
    <3>5. PcType
      BY ConnAssumption DEF Init, PcType, Label
    <3> QED BY <3>2, <3>3, <3>4, <3>5, TypeParts
  <2>2. ASSUME NEW c \in Conn PROVE ConnInv(c)
    <3>1. /\ pc[c] = "idle" /\ line[c] = NoLine /\ sending[c] = NoLine /\ stream[c] = <<>>
          /\ lines[c] = <<>> /\ ran[c] = <<>> /\ open[c] /\ NoLine.len = 0
      BY DEF Init, NoLine
    <3>2. ~Pending(c) /\ Consumed(c) = 0 /\ Limit(c) = 0
      BY <3>1 DEF Pending, Consumed, Limit
    <3>3. StreamInv(c) /\ ConsumedInv(c)
      BY <3>1, <3>2 DEF StreamInv, ConsumedInv, Early
    <3>4. Lists(<<>>, Requests(<<>>, 0), <<>>)
      <4>1. Requests(<<>>, 0) = {}
        BY DEF Requests
      <4> QED BY <4>1, ListsNothing
    <3>5. RunUpTo(c, Limit(c))
      BY <3>1, <3>2, <3>4 DEF RunUpTo
    <3> QED BY <3>1, <3>3, <3>5 DEF ConnInv, Live, Early
  <2> QED BY <2>1, <2>2 DEF IpcInv
<1>2. IpcInv /\ [Next]_vars => IpcInv'
  <2> SUFFICES ASSUME IpcInv, [Next]_vars PROVE IpcInv'
    OBVIOUS
  <2>1. TypeInv /\ TypeInv' /\ \A c \in Conn : ConnInv(c)
    BY TypeStep DEF IpcInv
  <2>2. ASSUME NEW c \in Conn, Thread(c) \/ Client(c), NEW d \in Conn PROVE ConnInv(d)'
    BY <2>1, <2>2, OwnStep, OthersUnchanged, FrameStep
  <2>3. ASSUME TaskAnswers \/ TaskEnds \/ UNCHANGED vars, NEW d \in Conn PROVE ConnInv(d)'
    BY <2>1, <2>3, FrameStep DEF TaskAnswers, TaskEnds, vars, clientVars
  <2> QED BY <2>1, <2>2, <2>3 DEF Next, IpcInv
<1> QED BY <1>1, <1>2, PTL DEF Spec

-----------------------------------------------------------------------------
(* Answers.                                                                *)

\* The lengths of the answers are numbers.
LEMMA AnswerNumbers ==
  ASSUME TypeInv, NEW c \in Conn
  PROVE  /\ answers[c] \in Seq(Answer) /\ Len(answers[c]) \in Nat
         /\ answers[c] # <<>> => Len(answers[c]) > 0
         /\ Len(answers[c]) >= 2 =>
              /\ Len(Front(answers[c])) \in Nat
              /\ Front(answers[c]) # <<>> => Len(Front(answers[c])) > 0
<1>1. answers[c] \in Seq(Answer)
  BY DEF TypeInv, TypeOK, Answer
<1>2. ASSUME Len(answers[c]) >= 2 PROVE Front(answers[c]) \in Seq(Answer)
  BY <1>1, <1>2 DEF Front
<1>3. ASSUME NEW s \in Seq(Answer) PROVE Len(s) \in Nat /\ (s # <<>> => Len(s) > 0)
  OBVIOUS
<1> QED BY <1>1, <1>2, <1>3

\* One more line is one more to answer, unless it is blank.
LEMMA SpokenNext ==
  ASSUME NEW ls, NEW n \in Int, n >= 1
  PROVE  Spoken(ls, n) = IF ls[n] = "blank" THEN Spoken(ls, n - 1) ELSE Spoken(ls, n - 1) \cup {n}
<1>1. \A j : j \in 1 .. n <=> j \in 1 .. (n - 1) \/ j = n
  OBVIOUS
<1> QED BY <1>1 DEF Spoken

\* More lines do no harm to what was answered.
LEMMA AnswersGrow ==
  ASSUME TypeInv, NEW c \in Conn, NEW as, Len(as) \in Nat, as # <<>> => Len(as) > 0,
         NEW k \in Int, k <= Len(lines[c]), AnswersUpTo(as, c, k), same_uid'[c] = same_uid[c],
         Len(lines'[c]) \in Int, Len(lines[c]) <= Len(lines'[c]),
         \A j \in 1 .. Len(lines[c]) : lines'[c][j] = lines[c][j]
  PROVE  /\ Lists(as, Spoken(lines'[c], k), Reply(lines'[c]))
         /\ as # <<>> => same_uid'[c] /\ authorized(lines'[c][1])
<1>1. \A j \in 1 .. k : /\ lines'[c][j] = lines[c][j]
                        /\ j \in 1 .. Len(lines[c]) /\ j \in 1 .. Len(lines'[c])
  BY Numbers
<1>2. Spoken(lines'[c], k) = Spoken(lines[c], k) /\ \A j \in Spoken(lines[c], k) : j \in 1 .. k
  BY <1>1 DEF Spoken
<1>3. \A j \in Spoken(lines[c], k) : Reply(lines'[c])[j] = Reply(lines[c])[j]
  BY <1>1, <1>2 DEF Reply
<1>4. /\ Lists(as, Spoken(lines'[c], k), Reply(lines'[c]))
      /\ Len(as) > 0 => Spoken(lines[c], k) # {}
  BY <1>2, <1>3, ListsSame DEF AnswersUpTo
<1>5. as # <<>> => 1 \in 1 .. k
  BY <1>2, <1>4
<1> QED BY <1>1, <1>4, <1>5 DEF AnswersUpTo

\* Whether or not the thread still reads, what was run and what was answered end
\* somewhere.
LEMMA EndsSomewhere ==
  ASSUME TypeInv, NEW c \in Conn, ConnInv(c), AnswerInv(c)
  PROVE  \E m \in 0 .. Len(lines[c]) : \E k \in 0 .. m : EndedAt(c, m, k)
<1>1. CASE pc[c] \in Live
  <2>1. AnswersUpTo(answers[c], c, Replied(c)) /\ RunUpTo(c, Limit(c))
    BY <1>1, LiveNumbers DEF AnswerInv
  <2>2. pc[c] # "refuse" /\ pc[c] # "too_large"
    BY <1>1 DEF Live, Early
  <2>3. EndedAt(c, Limit(c), Replied(c))
    BY <2>1, <2>2 DEF EndedAt, AnsweredUpTo
  <2> QED BY <1>1, <2>3, LiveNumbers
<1>2. CASE pc[c] \notin Live
  BY <1>2 DEF AnswerInv
<1> QED BY <1>1, <1>2

\* A thread that stops reading, or did, has run and answered what it has.
LEMMA EndedGrows ==
  ASSUME TypeInv, NEW c \in Conn, ConnInv(c), AnswerInv(c), pc'[c] \notin Live,
         pc'[c] = "closed" \/ pc'[c] = pc[c],
         same_uid'[c] = same_uid[c], ran'[c] = ran[c], answers'[c] = answers[c],
         Len(lines'[c]) \in Int, Len(lines[c]) <= Len(lines'[c]),
         \A j \in 1 .. Len(lines[c]) : lines'[c][j] = lines[c][j],
         \A k \in 0 .. Len(lines[c]) : Stopped(c, k) => Stopped(c, k)'
  PROVE  AnswerInv(c)'
<1>1. PICK m \in 0 .. Len(lines[c]) : \E k \in 0 .. m : EndedAt(c, m, k)
  BY EndsSomewhere
<1>2. PICK k \in 0 .. m : EndedAt(c, m, k)
  BY <1>1
<1>3. /\ m \in Int /\ m <= Len(lines[c]) /\ k \in Int /\ k <= Len(lines[c])
      /\ k \in 0 .. Len(lines[c]) /\ m \in 0 .. Len(lines'[c])
  BY <1>1, <1>2, Numbers
<1>4. RunUpTo(c, m)'
  BY <1>2, <1>3, RunGrows DEF RunUpTo, EndedAt
<1>5. AnswersUpTo(answers[c], c, k) => AnswersUpTo(answers[c], c, k)'
  BY <1>3, AnswersGrow, AnswerNumbers DEF AnswersUpTo
<1>6. Len(answers[c]) >= 2 /\ AnswersUpTo(Front(answers[c]), c, k) => AnswersUpTo(Front(answers[c]), c, k)'
  BY <1>3, AnswersGrow, AnswerNumbers DEF AnswersUpTo
<1>7. Refused(c) => Refused(c)'
  <2> SUFFICES ASSUME Refused(c) PROVE Refused(c)'
    OBVIOUS
  <2>1. Len(lines[c]) >= 1 /\ Len(lines'[c]) >= 1
    BY Numbers DEF Refused
  <2>2. lines'[c] # <<>> /\ lines'[c][1] = lines[c][1]
    BY <2>1, Numbers
  <2> QED BY <2>2 DEF Refused
<1>8. AnsweredUpTo(c, k)'
  BY <1>2, <1>3, <1>5, <1>6, <1>7 DEF EndedAt, AnsweredUpTo
<1>9. EndedAt(c, m, k)'
  BY <1>2, <1>3, <1>4, <1>5, <1>7, <1>8 DEF EndedAt
<1> QED BY <1>3, <1>9 DEF AnswerInv

\* A connection nothing happens to.
LEMMA AnswerFrame ==
  ASSUME NEW c \in Conn, AnswerInv(c), same_uid'[c] = same_uid[c], pc'[c] = pc[c],
         line'[c] = line[c], stream'[c] = stream[c], open'[c] = open[c],
         sending'[c] = sending[c], lines'[c] = lines[c], ran'[c] = ran[c], answers'[c] = answers[c]
  PROVE  AnswerInv(c)'
<1>1. Replied(c)' = Replied(c)
  BY DEF Replied, Consumed, Pending
<1>2. AnswersUpTo(answers[c], c, Replied(c)) => AnswersUpTo(answers[c], c, Replied(c))'
  BY <1>1 DEF AnswersUpTo
<1>3. ASSUME NEW m, NEW k, EndedAt(c, m, k) PROVE EndedAt(c, m, k)'
  <2>1. RunUpTo(c, m)'
    BY <1>3 DEF EndedAt, RunUpTo
  <2>2. Refused(c)' = Refused(c) /\ Stopped(c, k)' = Stopped(c, k)
    BY DEF Refused, Stopped
  <2>3. /\ AnswersUpTo(answers[c], c, k)' = AnswersUpTo(answers[c], c, k)
        /\ AnswersUpTo(Front(answers[c]), c, k)' = AnswersUpTo(Front(answers[c]), c, k)
    BY DEF AnswersUpTo
  <2> QED BY <1>3, <2>1, <2>2, <2>3 DEF EndedAt, AnsweredUpTo
<1> QED BY <1>2, <1>3 DEF AnswerInv

\* A connection on which nothing is written and no line completed, with a thread
\* that goes on reading or gives up.
LEMMA QuietStep ==
  ASSUME TypeInv, NEW c \in Conn, ConnInv(c), AnswerInv(c),
         same_uid'[c] = same_uid[c], answers'[c] = answers[c],
         Len(lines'[c]) \in Int, Len(lines[c]) <= Len(lines'[c]),
         \A j \in 1 .. Len(lines[c]) : lines'[c][j] = lines[c][j],
         pc'[c] \in Live => pc[c] \in Live /\ Replied(c)' = Replied(c),
         pc'[c] \notin Live =>
           /\ pc'[c] = "closed" \/ pc'[c] = pc[c]
           /\ ran'[c] = ran[c] /\ \A k \in 0 .. Len(lines[c]) : Stopped(c, k) => Stopped(c, k)'
  PROVE  AnswerInv(c)'
<1>1. CASE pc'[c] \in Live
  <2>1. AnswersUpTo(answers[c], c, Replied(c)) /\ Replied(c) \in Int /\ Replied(c) <= Len(lines[c])
    BY <1>1, LiveNumbers DEF AnswerInv
  <2>2. /\ Lists(answers[c], Spoken(lines'[c], Replied(c)), Reply(lines'[c]))
        /\ answers[c] # <<>> => same_uid'[c] /\ authorized(lines'[c][1])
    BY <2>1, AnswersGrow, AnswerNumbers
  <2>3. AnswersUpTo(answers[c], c, Replied(c))'
    BY <1>1, <2>2 DEF AnswersUpTo
  <2> QED BY <1>1, <2>3 DEF AnswerInv
<1>2. CASE pc'[c] \notin Live
  BY <1>2, EndedGrows
<1> QED BY <1>1, <1>2

\* What the client does.
LEMMA ClientAnswers ==
  ASSUME TypeInv, NEW c \in Conn, ConnInv(c), AnswerInv(c), LinesGrow(c),
         UNCHANGED <<same_uid, pc, ran, answers>>
  PROVE  AnswerInv(c)'
<1>1. pc[c] \in Live => Replied(c)' = Replied(c)
  BY DEF LinesGrow, Replied
<1> QED BY <1>1, QuietStep DEF LinesGrow

\* Once it is greeted, a connection has an answer.
LEMMA GreetedFirst ==
  ASSUME TypeInv, NEW c \in Conn, ConnInv(c), AnswerInv(c), pc[c] = "read"
  PROVE  answers[c] # <<>>
<1>1. pc[c] \in Live /\ pc[c] \notin Early
  BY DEF Live, Early
<1>2. Consumed(c) >= 1 /\ authorized(lines[c][1]) /\ Replied(c) = Consumed(c) /\ Consumed(c) \in Int
  BY <1>1, LiveNumbers DEF ConsumedInv, Replied
<1>3. 1 \in Spoken(lines[c], Replied(c))
  BY <1>2 DEF Spoken, authorized
<1>4. \E i \in 1 .. Len(answers[c]) : TRUE
  BY <1>1, <1>3 DEF AnswerInv, AnswersUpTo, Lists, ListsAt
<1>5. Len(<<>>) = 0
  OBVIOUS
<1> QED BY <1>4, <1>5

\* A line that cannot be taken ends the reading; all before it is run and answered.
LEMMA StopsReading ==
  ASSUME TypeInv, NEW c \in Conn, ConnInv(c), AnswerInv(c), pc[c] \in {"auth", "read"},
         UNCHANGED <<same_uid, sending, lines, ran, answers>>,
         \/ pc'[c] = "closed"
         \/ pc'[c] = "too_large" /\ pc[c] = "read" /\ Stopped(c, Consumed(c))
         \/ pc'[c] = "refuse" /\ Refused(c) /\ Consumed(c) = 0
  PROVE  AnswerInv(c)'
<1>1. pc[c] \in Live /\ Replied(c) = Consumed(c) /\ Limit(c) = Consumed(c)
  BY DEF Live, Early, Replied, Limit
<1>2. PICK k \in 0 .. Len(lines[c]) : k = Consumed(c)
  BY <1>1, LiveNumbers
<1>3. AnswersUpTo(answers[c], c, k) /\ RunUpTo(c, k)
  BY <1>1, <1>2, LiveNumbers DEF AnswerInv
<1>4. RunUpTo(c, k)' /\ AnswersUpTo(answers[c], c, k)' /\ AnsweredUpTo(c, k)'
  BY <1>3 DEF RunUpTo, AnswersUpTo, AnsweredUpTo
<1>5. pc'[c] = "too_large" => Stopped(c, k)' /\ answers'[c] # <<>>
  BY <1>2, GreetedFirst DEF Stopped
<1>6. pc'[c] = "refuse" => Refused(c)' /\ answers'[c] = <<>>
  <2> SUFFICES ASSUME pc'[c] = "refuse" PROVE Refused(c)' /\ answers'[c] = <<>>
    OBVIOUS
  <2>1. Refused(c)' /\ k = 0
    BY <1>2 DEF Refused
  <2>2. Spoken(lines[c], 0) = {}
    BY DEF Spoken
  <2>3. ~(Len(answers[c]) > 0)
    BY <1>3, <2>1, <2>2, ListsSame, AnswerNumbers DEF AnswersUpTo
  <2> QED BY <2>1, <2>3, AnswerNumbers
<1>7. EndedAt(c, k, k)'
  BY <1>4, <1>5, <1>6 DEF EndedAt
<1>8. pc'[c] \notin Live /\ k \in 0 .. k /\ k \in 0 .. Len(lines'[c])
  BY Numbers DEF Live, Early
<1> QED BY <1>7, <1>8 DEF AnswerInv

\* A line is read to its end: a blank one needs no answer, another waits for one.
LEMMA LineAnswers ==
  ASSUME TypeInv, NEW c \in Conn, ConnInv(c), AnswerInv(c), pc[c] \in {"auth", "read"},
         NEW says \in Saying, Complete(c, says), Pending(c), Reading(c) = says,
         stream'[c] = <<>>, UNCHANGED <<same_uid, sending, lines, ran, answers>>
  PROVE  AnswerInv(c)'
<1> DEFINE n == Len(lines[c])
<1>1. /\ says = "garbled" => pc'[c] = IF pc[c] = "auth" THEN "closed" ELSE "too_large"
      /\ says # "garbled" =>
           IF pc[c] = "auth" THEN pc'[c] = IF authorized(says) THEN "ready" ELSE "refuse"
           ELSE /\ pc'[c] \in {"read", "lock", "reply"}
                /\ pc'[c] = "read" <=> says = "blank"
  BY LineRead
<1>2. /\ Consumed(c)' = n /\ Consumed(c) = n - 1 /\ lines[c][n] = says /\ n \in Nat
      /\ IF pc[c] = "auth" THEN n = 1 ELSE n >= 2
      /\ same_uid[c]
  BY LineRead
<1>3. CASE pc'[c] \in Live
  <2>1. /\ pc'[c] \in {"ready", "read", "lock", "reply"}
        /\ pc'[c] = "read" => says = "blank"
    BY <1>1, <1>3 DEF Live, Early
  <2>2. AnswersUpTo(answers[c], c, n - 1)
    BY <1>2 DEF AnswerInv, Replied, Live, Early
  <2>3. Replied(c)' = IF pc'[c] = "read" THEN n ELSE n - 1
    BY <1>2, <2>1 DEF Replied
  <2>4. pc'[c] = "read" => Spoken(lines[c], n) = Spoken(lines[c], n - 1)
    BY <1>2, <2>1, SpokenNext
  <2>5. Spoken(lines[c], Replied(c)') = Spoken(lines[c], n - 1)
    BY <2>3, <2>4
  <2>6. AnswersUpTo(answers[c], c, Replied(c))'
    BY <2>2, <2>5 DEF AnswersUpTo
  <2> QED BY <1>3, <2>6 DEF AnswerInv
<1>4. CASE pc'[c] \notin Live
  <2>1. \/ pc'[c] = "closed"
        \/ pc'[c] = "too_large" /\ pc[c] = "read" /\ says = "garbled"
        \/ pc'[c] = "refuse" /\ pc[c] = "auth" /\ says # "garbled" /\ ~authorized(says)
    BY <1>1, <1>4 DEF Live, Early
  <2>2. says = "garbled" => Stopped(c, Consumed(c))
    BY <1>2 DEF Stopped, Fatal
  <2>3. pc[c] = "auth" /\ says # "garbled" /\ ~authorized(says) => Refused(c) /\ Consumed(c) = 0
    <3>1. lines[c] # <<>>
      <4>1. n # 0
        <5> HIDE DEF n
        <5>1. n = 1 \/ n >= 2
          BY <1>2
        <5> QED BY <1>2, <5>1
      <4>2. Len(<<>>) = 0
        OBVIOUS
      <4> QED BY <4>1, <4>2
    <3>2. says # "garbled" => ~Fatal(says)
      BY DEF Fatal, Saying
    <3> QED BY <1>2, <3>1, <3>2 DEF Refused
  <2> QED BY <2>1, <2>2, <2>3, StopsReading
<1> QED BY <1>3, <1>4

\* Reading a piece keeps answers and lines in step.
LEMMA ReceiveAnswers ==
  ASSUME TypeInv, NEW c \in Conn, ConnInv(c), AnswerInv(c), Receive(c)
  PROVE  AnswerInv(c)'
<1> DEFINE p == Head(stream[c])
           n == line[c].len + 1
<1>1. UNCHANGED <<same_uid, open, sending, lines, ran, answers>>
  BY DEF Receive
<1>2. /\ pc[c] \in {"auth", "read"} /\ pc[c] \in Live /\ StreamInv(c)
      /\ stream[c] # <<>> /\ stream'[c] = <<>> /\ p.says \in Saying /\ p.ends \in BOOLEAN
  BY PieceTaken
<1>3. CASE p.ends
  <2>1. Pending(c) /\ Reading(c) = p.says
    BY <1>2, <1>3 DEF Pending, Reading
  <2>2. Complete(c, p.says)
    BY <1>3 DEF Receive
  <2> QED BY <1>1, <1>2, <2>1, <2>2, LineAnswers
<1>4. CASE ~p.ends
  <2>1. line'[c] = [len |-> n, says |-> p.says] /\ IF n = MAX_LINE THEN Reject(c) ELSE UNCHANGED pc
    BY <1>4 DEF Receive, TypeInv, TypeOK
  <2>2. n > 0
    BY Numbers
  <2>3. CASE n = MAX_LINE
    <3>1. pc'[c] = IF pc[c] = "auth" THEN "closed" ELSE "too_large"
      BY <2>1, <2>3 DEF Reject, Goto, TypeInv, TypeOK
    <3>2. Stopped(c, Consumed(c))
      <4>1. CASE open[c]
        <5>1. sending[c].len = MAX_LINE
          BY <1>2, <1>4, <2>3, <4>1 DEF StreamInv
        <5>2. Consumed(c) = Len(lines[c])
          BY <1>2, <1>4, <4>1 DEF Consumed, Pending
        <5> QED BY <5>1, <5>2, Numbers DEF Stopped
      <4>2. CASE ~open[c]
        <5>1. Pending(c) /\ Reading(c) = "long"
          BY <1>2, <1>4, <2>3, <4>2 DEF Pending, Reading
        <5>2. lines[c][Len(lines[c])] = "long" /\ Consumed(c) = Len(lines[c]) - 1
          BY <1>2, <5>1 DEF StreamInv, Consumed
        <5> QED BY <5>2, Numbers DEF Stopped, Fatal
      <4> QED BY <4>1, <4>2
    <3> QED BY <1>1, <1>2, <3>1, <3>2, StopsReading
  <2>4. CASE n # MAX_LINE
    <3>1. pc'[c] = pc[c]
      BY <2>1, <2>4
    <3>2. Pending(c)' = Pending(c)
      BY <1>1, <1>2, <1>4, <2>1, <2>2 DEF Pending
    <3>3. Replied(c)' = Replied(c)
      BY <1>1, <3>1, <3>2 DEF Replied, Consumed
    <3> QED BY <1>1, <1>2, <3>1, <3>3, QuietStep, Numbers
  <2> QED BY <2>3, <2>4
<1> QED BY <1>2, <1>3, <1>4

\* The end of the stream keeps answers and lines in step.
LEMMA EndOfStreamAnswers ==
  ASSUME TypeInv, NEW c \in Conn, ConnInv(c), AnswerInv(c), EndOfStream(c)
  PROVE  AnswerInv(c)'
<1>1. /\ pc[c] \in {"auth", "read"} /\ stream[c] = <<>> /\ ~open[c]
      /\ UNCHANGED <<same_uid, stream, open, sending, lines, ran, answers>>
  BY DEF EndOfStream, clientVars
<1>2. CASE line[c].len = 0
  <2>1. pc'[c] = "closed"
    BY <1>2 DEF EndOfStream, Goto, TypeInv, TypeOK
  <2> QED BY <1>1, <2>1, StopsReading
<1>3. CASE line[c].len # 0
  <2>1. Complete(c, line[c].says) /\ line[c].says \in Saying
    BY <1>3, Numbers DEF EndOfStream
  <2>2. Pending(c) /\ Reading(c) = line[c].says
    BY <1>1, <1>3, Numbers DEF Pending, Reading
  <2> QED BY <1>1, <2>1, <2>2, LineAnswers
<1> QED BY <1>2, <1>3

\* The thread writes an answer, or finds that nobody is there to read it.
LEMMA WriteAnswers ==
  ASSUME TypeInv, NEW c \in Conn, ConnInv(c), AnswerInv(c), Write(c)
  PROVE  AnswerInv(c)'
<1>1. pc[c] \in {"refuse", "ready", "too_large", "reply"} /\ UNCHANGED <<same_uid, line, stream, open, sending, lines, ran>>
  BY DEF Write, clientVars
<1>2. CASE answers'[c] = answers[c] /\ pc'[c] = "closed"
  <2>1. \A k \in 0 .. Len(lines[c]) : Stopped(c, k) => Stopped(c, k)'
    BY <1>1 DEF Stopped
  <2> QED BY <1>1, <1>2, <2>1, EndedGrows, Numbers DEF Live, Early
<1>3. CASE /\ answers'[c] = Append(answers[c], AnswerAt(c))
           /\ pc'[c] = IF pc[c] \in {"ready", "reply"} THEN "read" ELSE "closed"
  <2>1. CASE pc[c] = "refuse"
    <3>1. pc[c] \notin Live /\ pc'[c] = "closed" /\ pc'[c] \notin Live
      BY <1>3, <2>1 DEF Live, Early
    <3>2. PICK m \in 0 .. Len(lines[c]) : \E k \in 0 .. m : EndedAt(c, m, k)
      BY EndsSomewhere
    <3>3. PICK k \in 0 .. m : EndedAt(c, m, k)
      BY <3>2
    <3>4. Append(<<>>, "unauthorized") = <<"unauthorized">>
      OBVIOUS
    <3>5. answers'[c] = <<"unauthorized">> /\ Refused(c)'
      BY <1>1, <1>3, <2>1, <3>3, <3>4 DEF EndedAt, AnswerAt, Refused
    <3>6. RunUpTo(c, m)'
      BY <1>1, <3>3 DEF EndedAt, RunUpTo
    <3>7. EndedAt(c, m, k)'
      BY <3>1, <3>5, <3>6 DEF EndedAt, AnsweredUpTo
    <3> QED BY <1>1, <3>1, <3>7 DEF AnswerInv
  <2>2. CASE pc[c] = "too_large"
    <3>1. pc[c] \notin Live /\ pc'[c] = "closed" /\ pc'[c] \notin Live
      BY <1>3, <2>2 DEF Live, Early
    <3>2. PICK m \in 0 .. Len(lines[c]) : \E k \in 0 .. m : EndedAt(c, m, k)
      BY EndsSomewhere
    <3>3. PICK k \in 0 .. m : EndedAt(c, m, k)
      BY <3>2
    <3>4. Stopped(c, k) /\ answers[c] # <<>> /\ AnswersUpTo(answers[c], c, k) /\ RunUpTo(c, m)
      BY <2>2, <3>3 DEF EndedAt
    <3>5. answers'[c] = Append(answers[c], "request too large")
      BY <1>3, <2>2 DEF AnswerAt
    <3>6. /\ Len(answers'[c]) >= 2 /\ Last(answers'[c]) = "request too large"
          /\ Front(answers'[c]) = answers[c]
      <4>1. answers[c] \in Seq(Answer) /\ "request too large" \in Answer
        BY AnswerNumbers DEF Answer
      <4>2. /\ Len(Append(answers[c], "request too large")) >= 2
            /\ Last(Append(answers[c], "request too large")) = "request too large"
            /\ Front(Append(answers[c], "request too large")) = answers[c]
        BY <3>4, <4>1, FrontOfAppend
      <4> QED BY <3>5, <4>2
    <3>7. Stopped(c, k)' /\ RunUpTo(c, m)'
      BY <1>1, <3>4 DEF Stopped, RunUpTo
    <3>8. AnswersUpTo(Front(answers[c]), c, k)'
      BY <1>1, <3>4, <3>6 DEF AnswersUpTo
    <3>9. EndedAt(c, m, k)'
      BY <3>1, <3>6, <3>7, <3>8 DEF EndedAt, AnsweredUpTo
    <3> QED BY <1>1, <3>1, <3>9 DEF AnswerInv
  <2>3. CASE pc[c] \in {"ready", "reply"}
    <3> DEFINE n == Consumed(c)
    <3>1. /\ pc[c] \in Live /\ pc[c] \notin Early /\ pc'[c] = "read" /\ pc'[c] \in Live
      BY <1>3, <2>3 DEF Live, Early
    <3>2. /\ n \in 1 .. Len(lines[c]) /\ n \in Int /\ n >= 1 /\ ConsumedInv(c)
          /\ Replied(c) = n - 1 /\ Replied(c)' = n
      <4>1. Consumed(c)' = Consumed(c)
        BY <1>1 DEF Consumed, Pending
      <4>2. ConsumedInv(c) /\ n >= 1
        BY <3>1, LiveNumbers DEF ConsumedInv
      <4> QED BY <2>3, <3>1, <4>1, <4>2, LiveNumbers DEF Replied
    <3>3. Reply(lines[c])[n] = AnswerAt(c) /\ lines[c][n] # "blank" /\ AnswerAt(c) \in Answer
      <4>1. Reply(lines[c])[n] = IF n = 1 THEN "ready"
                                 ELSE IF IsRequest(lines[c][n]) THEN "response" ELSE "bad request"
        BY <3>2 DEF Reply
      <4>2. CASE pc[c] = "ready"
        BY <3>1, <3>2, <4>1, <4>2 DEF ConsumedInv, AnswerAt, Answer, authorized
      <4>3. CASE pc[c] = "reply"
        <5>1. n >= 2 /\ lines[c][n] = line[c].says /\ line[c].says # "blank"
          BY <3>2, <4>3 DEF ConsumedInv
        <5>2. AnswerAt(c) = IF IsRequest(line[c].says) THEN "response" ELSE "bad request"
          BY <4>3 DEF AnswerAt
        <5>3. Reply(lines[c])[n] = IF IsRequest(lines[c][n]) THEN "response" ELSE "bad request"
          <6>1. n # 1
            BY <3>2, <5>1
          <6> QED BY <4>1, <6>1
        <5>4. Reply(lines[c])[n] = AnswerAt(c)
          BY <5>1, <5>2, <5>3 DEF IsRequest
        <5> QED BY <5>1, <5>2, <5>4 DEF Answer
      <4> QED BY <2>3, <4>2, <4>3
    <3>4. AnswersUpTo(answers[c], c, n - 1)
      BY <3>1, <3>2 DEF AnswerInv
    <3> HIDE DEF n
    <3> DEFINE D == Spoken(lines[c], n - 1)
    <3>5. Spoken(lines[c], n) = D \cup {n} /\ \A j \in D : j \in Int /\ j < n
      <4>1. \A j \in D : j \in Int /\ j < n
        BY <3>2 DEF Spoken
      <4> QED BY <3>2, <3>3, <4>1, SpokenNext
    <3> HIDE DEF D
    <3>6. Lists(answers[c], D, Reply(lines[c]))
      BY <3>4 DEF AnswersUpTo, D
    <3>7. Lists(Append(answers[c], Reply(lines[c])[n]), D \cup {n}, Reply(lines[c]))
      <4>1. answers[c] \in Seq(Answer) /\ Reply(lines[c])[n] \in Answer
        BY <3>3, AnswerNumbers
      <4> DEFINE v == Reply(lines[c])
      <4>2. v[n] \in Answer /\ Lists(answers[c], D, v)
        BY <3>6, <4>1
      <4> HIDE DEF v
      <4>3. Lists(Append(answers[c], v[n]), D \cup {n}, v)
        BY <3>2, <3>5, <4>1, <4>2, ListsExtend
      <4> QED BY <4>3 DEF v
    <3>8. Lists(answers'[c], Spoken(lines[c], n), Reply(lines[c]))
      BY <1>3, <3>3, <3>5, <3>7
    <3>9. same_uid[c] /\ authorized(lines[c][1])
      BY <3>1, <3>2 DEF ConsumedInv
    <3>10. AnswersUpTo(answers[c], c, Replied(c))'
      BY <1>1, <3>2, <3>8, <3>9 DEF AnswersUpTo
    <3> QED BY <3>1, <3>10 DEF AnswerInv
  <2> QED BY <1>1, <2>1, <2>2, <2>3
<1> QED BY <1>2, <1>3 DEF Write, Goto, TypeInv, TypeOK

\* Everything a connection's thread and client do.
LEMMA OwnAnswers ==
  ASSUME TypeInv, NEW c \in Conn, ConnInv(c), AnswerInv(c), Thread(c) \/ Client(c)
  PROVE  AnswerInv(c)'
<1>1. ASSUME \/ Connect(c) \/ Accept(c) \/ Start(c) \/ ReadFails(c) \/ RecvTimeout(c)
             \/ Lock(c) \/ Handle(c) \/ Answered(c)
      PROVE  AnswerInv(c)'
  <2>1. /\ UNCHANGED <<same_uid, line, stream, open, sending, lines, answers>>
        /\ Handle(c) \/ UNCHANGED ran
    BY <1>1 DEF Connect, Accept, Start, ReadFails, RecvTimeout, Lock, Handle, Answered, clientVars
  <2>2. \/ pc[c] = "idle" /\ pc'[c] = "queued"
        \/ pc[c] = "queued" /\ pc'[c] = "start"
        \/ pc[c] = "start" /\ pc'[c] = "auth"
        \/ pc[c] = "lock" /\ pc'[c] = "handle"
        \/ pc[c] = "handle" /\ pc'[c] \in {"ask", "reply"}
        \/ pc[c] = "ask" /\ pc'[c] = "reply"
        \/ pc'[c] = "closed" /\ UNCHANGED ran
    BY <1>1, <2>1 DEF Connect, Accept, Start, ReadFails, RecvTimeout, Lock, Handle, Answered,
                      Unlock, Goto, TypeInv, TypeOK
  <2>3. Consumed(c)' = Consumed(c) /\ \A k \in 0 .. Len(lines[c]) : Stopped(c, k) => Stopped(c, k)'
    BY <2>1 DEF Consumed, Pending, Stopped
  <2>4. pc'[c] \in Live => pc[c] \in Live /\ Replied(c)' = Replied(c)
    BY <2>2, <2>3 DEF Live, Early, Replied
  <2>5. pc'[c] \notin Live => pc'[c] = "closed" /\ UNCHANGED ran
    BY <2>2 DEF Live, Early
  <2> QED BY <2>1, <2>3, <2>4, <2>5, QuietStep, Numbers
<1>2. ASSUME ReadAnswer(c) PROVE AnswerInv(c)'
  BY <1>2, AnswerFrame DEF ReadAnswer, clientVars
<1>3. ASSUME HangUp(c) PROVE AnswerInv(c)'
  BY <1>3, HangUpStep, ClientAnswers DEF HangUp
<1>4. ASSUME NEW p \in Says[c], Send(c, p) PROVE AnswerInv(c)'
  BY <1>4, SendStep, ClientAnswers DEF Send
<1> QED BY <1>1, <1>2, <1>3, <1>4, ReceiveAnswers, EndOfStreamAnswers, WriteAnswers
        DEF Thread, Client

\* And nothing that they do concerns another one.
LEMMA OthersAnswers ==
  ASSUME TypeInv, NEW c \in Conn, NEW d \in Conn, d # c, AnswerInv(d), Thread(c) \/ Client(c)
  PROVE  AnswerInv(d)'
<1>1. answers'[d] = answers[d]
  BY DEF Thread, Client, Accept, Start, Receive, EndOfStream, ReadFails, RecvTimeout, Lock, Handle,
         Answered, Write, Connect, HangUp, ReadAnswer, Send, clientVars, TypeInv, TypeOK
<1> QED BY <1>1, OthersUnchanged, AnswerFrame

\* On every connection answers and lines stay in step.
LEMMA AnswerInvariant == Spec => [](IpcInv /\ \A c \in Conn : AnswerInv(c))
<1>1. Init => \A c \in Conn : AnswerInv(c)
  <2> SUFFICES ASSUME Init, NEW c \in Conn PROVE AnswerInv(c)
    OBVIOUS
  <2>1. /\ pc[c] = "idle" /\ stream[c] = <<>> /\ lines[c] = <<>> /\ answers[c] = <<>> /\ open[c]
    BY DEF Init
  <2>2. Replied(c) = 0
    BY <2>1 DEF Replied, Consumed, Pending
  <2>3. Lists(<<>>, Spoken(<<>>, 0), Reply(<<>>))
    <3>1. Spoken(<<>>, 0) = {}
      BY DEF Spoken
    <3> QED BY <3>1, ListsNothing
  <2> QED BY <2>1, <2>2, <2>3 DEF AnswerInv, AnswersUpTo, Live, Early
<1>2. IpcInv /\ (\A c \in Conn : AnswerInv(c)) /\ [Next]_vars => (\A c \in Conn : AnswerInv(c))'
  <2> SUFFICES ASSUME IpcInv, \A c \in Conn : AnswerInv(c), [Next]_vars, NEW d \in Conn
               PROVE  AnswerInv(d)'
    OBVIOUS
  <2>1. TypeInv /\ \A c \in Conn : ConnInv(c)
    BY DEF IpcInv
  <2>2. ASSUME NEW c \in Conn, Thread(c) \/ Client(c) PROVE AnswerInv(d)'
    BY <2>1, <2>2, OwnAnswers, OthersAnswers
  <2>3. ASSUME TaskAnswers \/ TaskEnds \/ UNCHANGED vars PROVE AnswerInv(d)'
    BY <2>3, AnswerFrame DEF TaskAnswers, TaskEnds, vars, clientVars
  <2> QED BY <2>2, <2>3 DEF Next
<1> QED BY <1>1, <1>2, IpcInvariant, PTL DEF Spec

-----------------------------------------------------------------------------
(* What the client can expect.                                             *)

\* A set of numbers that holds 0, and with each number the next, holds them all.
LEMMA Induction ==
  ASSUME NEW P, 0 \in P, \A n \in Nat : n \in P => n + 1 \in P
  PROVE  Nat \subseteq P
<1> DEFINE Missing == Nat \ P
<1> SUFFICES ASSUME Missing # {} PROVE FALSE
  OBVIOUS
<1>1. PICK n \in Missing : \A m \in Missing : ~(<<m, n>> \in OpToRel(<, Nat))
  BY NatLessThanWellFounded, WFMin
<1>2. \A m \in Missing : ~(m < n)
  BY <1>1 DEF OpToRel
<1>3. n \in Nat \ {0} /\ n - 1 \in Nat
  OBVIOUS
<1>4. n - 1 \in P
  BY <1>2, <1>3
<1> QED BY <1>3, <1>4

\* What Listed takes of the first i places, given what it takes of fewer.
ListStep(u, v, D, i) ==
  IF i = 0 THEN <<>> ELSE IF i \in D THEN Append(u[i - 1], v[i]) ELSE u[i - 1]

ListSteps(u, S, v, D, n) ==
  /\ u \in [0 .. n -> Seq(S)]
  /\ Listed(v, D, n) = u[n] /\ \A i \in 0 .. n : u[i] = ListStep(u, v, D, i)

\* Listed is what its recursion says.
LEMMA ListedUnfolds ==
  ASSUME NEW S, NEW n \in Nat, NEW v \in [1 .. n -> S], NEW D
  PROVE  \E u : ListSteps(u, S, v, D, n)
<1> DEFINE u == CHOOSE u : u = [i \in 0 .. n |-> ListStep(u, v, D, i)]
<1>1. <<>> \in Seq(S) /\ 0 \in 0 .. n
  OBVIOUS
<1>2. \E f \in [0 .. n -> Seq(S)] : \A i \in 0 .. n : f[i] = ListStep(f, v, D, i)
  <2> DEFINE P == {m \in Nat : m <= n =>
                     \E f \in [0 .. m -> Seq(S)] : \A i \in 0 .. m : f[i] = ListStep(f, v, D, i)}
  <2>1. 0 \in P
    <3> DEFINE f == [i \in 0 .. 0 |-> <<>>]
    <3>1. f \in [0 .. 0 -> Seq(S)] /\ \A i \in 0 .. 0 : f[i] = ListStep(f, v, D, i)
      BY DEF ListStep
    <3> QED BY <3>1
  <2>2. ASSUME NEW m \in Nat, m \in P PROVE m + 1 \in P
    <3> SUFFICES ASSUME m + 1 <= n
                 PROVE  \E f \in [0 .. (m + 1) -> Seq(S)] :
                          \A i \in 0 .. (m + 1) : f[i] = ListStep(f, v, D, i)
      <4>1. m + 1 \in Nat
        OBVIOUS
      <4> QED BY <4>1
    <3>0. m <= n
      OBVIOUS
    <3>1. PICK g \in [0 .. m -> Seq(S)] : \A i \in 0 .. m : g[i] = ListStep(g, v, D, i)
      <4>1. m \in P
        BY <2>2
      <4> QED BY <3>0, <4>1, Zenon
    <3> DEFINE e == ListStep(g, v, D, m + 1)
               f == [i \in 0 .. (m + 1) |-> IF i = m + 1 THEN e ELSE g[i]]
    <3>2. e \in Seq(S)
      <4>1. g[m] \in Seq(S) /\ v[m + 1] \in S /\ (m + 1) - 1 = m /\ m + 1 # 0
        OBVIOUS
      <4> QED BY <4>1 DEF ListStep
    <3>3. f \in [0 .. (m + 1) -> Seq(S)]
      BY <3>2
    <3>4. \A i \in 0 .. m : f[i] = g[i]
      OBVIOUS
    <3>5. ASSUME NEW i \in 0 .. (m + 1) PROVE f[i] = ListStep(f, v, D, i)
      <4>1. CASE i = 0
        BY <3>1, <3>4, <4>1 DEF ListStep
      <4>2. CASE i # 0
        <5>1. i - 1 \in 0 .. m
          BY <4>2
        <5>2. f[i - 1] = g[i - 1]
          BY <3>4, <5>1
        <5>3. ListStep(f, v, D, i) = ListStep(g, v, D, i)
          BY <4>2, <5>2 DEF ListStep
        <5>4. CASE i = m + 1
          BY <5>3, <5>4
        <5>5. CASE i \in 0 .. m
          BY <3>1, <3>4, <5>3, <5>5
        <5> QED BY <5>4, <5>5
      <4> QED BY <4>1, <4>2
    <3> QED BY <3>3, <3>5
  <2> HIDE DEF P
  <2>3. n \in P
    BY <2>1, <2>2, Induction
  <2> QED BY <2>3 DEF P
<1>3. u = [i \in 0 .. n |-> ListStep(u, v, D, i)]
  <2>1. PICK f \in [0 .. n -> Seq(S)] : \A i \in 0 .. n : f[i] = ListStep(f, v, D, i)
    BY <1>2
  <2>2. f = [i \in 0 .. n |-> ListStep(f, v, D, i)]
    BY <2>1
  <2> QED BY <2>2
<1>4. Listed(v, D, n) = u[n]
  BY DEF Listed, ListStep
<1> HIDE DEF u
<1>5. \A i \in 0 .. n : u[i] = ListStep(u, v, D, i)
  BY <1>3
<1>6. \A i \in 0 .. n : u[i] \in Seq(S)
  <2> DEFINE P == {m \in Nat : m <= n => u[m] \in Seq(S)}
  <2>1. 0 \in P
    <3>1. u[0] = <<>>
      BY <1>1, <1>5 DEF ListStep
    <3> QED BY <1>1, <3>1
  <2>2. ASSUME NEW m \in Nat, m \in P PROVE m + 1 \in P
    <3> SUFFICES ASSUME m + 1 <= n PROVE u[m + 1] \in Seq(S)
      OBVIOUS
    <3>1. /\ u[m] \in Seq(S) /\ v[m + 1] \in S /\ (m + 1) - 1 = m /\ m + 1 # 0
          /\ m + 1 \in 0 .. n
      BY <2>2
    <3>2. u[m + 1] = IF m + 1 \in D THEN Append(u[m], v[m + 1]) ELSE u[m]
      BY <1>5, <3>1 DEF ListStep
    <3> QED BY <3>1, <3>2
  <2> HIDE DEF P
  <2>3. Nat \subseteq P
    BY <2>1, <2>2, Induction
  <2> QED BY <2>3 DEF P
<1>7. u \in [0 .. n -> Seq(S)]
  BY <1>3, <1>6
<1> QED BY <1>4, <1>5, <1>7 DEF ListSteps

\* Two lists of the same places are the same.
LEMMA ListsOnce ==
  ASSUME NEW S, NEW rs \in Seq(S), NEW ts \in Seq(S), NEW D \in SUBSET Nat, NEW v,
         Lists(rs, D, v), Lists(ts, D, v)
  PROVE  rs = ts
<1> DEFINE n == Len(rs)
           m == Len(ts)
<1>0. n \in Nat /\ m \in Nat
  OBVIOUS
<1>1. PICK f \in [1 .. n -> D] :
        /\ \A i \in 1 .. n : rs[i] = v[f[i]] /\ \A h \in 1 .. (i - 1) : f[h] < f[i]
        /\ \A j \in D : \E i \in 1 .. n : f[i] = j
  BY DEF Lists, ListsAt
<1>2. PICK g \in [1 .. m -> D] :
        /\ \A i \in 1 .. m : ts[i] = v[g[i]] /\ \A h \in 1 .. (i - 1) : g[h] < g[i]
        /\ \A j \in D : \E i \in 1 .. m : g[i] = j
  BY DEF Lists, ListsAt
<1> HIDE DEF n, m
<1>3. /\ \A i \in 1 .. n : f[i] \in Nat
      /\ \A i \in 1 .. m : g[i] \in Nat
  BY <1>1, <1>2
<1>4. \A i \in 1 .. n : i <= m => f[i] = g[i]
  <2> DEFINE P == {k \in Nat : \A i \in 1 .. n : i <= m /\ i <= k => f[i] = g[i]}
  <2>1. 0 \in P
    BY <1>0
  <2>2. ASSUME NEW k \in Nat, k \in P PROVE k + 1 \in P
    <3> DEFINE i == k + 1
    <3> SUFFICES ASSUME i <= n, i <= m PROVE f[i] = g[i]
      <4>1. \A x \in 1 .. n : x <= k + 1 => x <= k \/ x = k + 1
        OBVIOUS
      <4> QED BY <2>2, <4>1
    <3>1. i \in 1 .. n /\ i \in 1 .. m
      BY <1>0
    <3>2. \A h \in Nat : h \in 1 .. (i - 1) => h \in 1 .. n /\ h \in 1 .. m /\ f[h] = g[h]
      BY <1>0, <2>2, <3>1
    <3>3. ~(f[i] < g[i])
      <4> SUFFICES ASSUME f[i] < g[i] PROVE FALSE
        OBVIOUS
      <4>1. PICK h \in 1 .. m : g[h] = f[i]
        BY <1>1, <1>2, <3>1
      <4>2. h \in 1 .. (i - 1) \/ h = i \/ i \in 1 .. (h - 1)
        BY <1>0, <3>1
      <4> QED BY <1>1, <1>2, <1>3, <3>1, <3>2, <4>1, <4>2
    <3>4. ~(g[i] < f[i])
      <4> SUFFICES ASSUME g[i] < f[i] PROVE FALSE
        OBVIOUS
      <4>1. PICK h \in 1 .. n : f[h] = g[i]
        BY <1>1, <1>2, <3>1
      <4>2. h \in 1 .. (i - 1) \/ h = i \/ i \in 1 .. (h - 1)
        BY <1>0, <3>1
      <4> QED BY <1>1, <1>2, <1>3, <3>1, <3>2, <4>1, <4>2
    <3> HIDE DEF i
    <3> QED BY <1>3, <3>1, <3>3, <3>4
  <2> HIDE DEF P
  <2>3. n \in P
    BY <1>0, <2>1, <2>2, Induction
  <2> QED BY <1>0, <2>3 DEF P
<1>5. ~(n < m)
  <2> SUFFICES ASSUME n < m PROVE FALSE
    OBVIOUS
  <2>1. n + 1 \in 1 .. m
    BY <1>0
  <2>2. PICK h \in 1 .. n : f[h] = g[n + 1]
    BY <1>1, <1>2, <2>1
  <2>3. f[h] = g[h] /\ h \in 1 .. ((n + 1) - 1) /\ h \in 1 .. m
    BY <1>0, <1>4, <2>2
  <2>4. g[h] < g[n + 1] /\ g[h] \in Nat
    BY <1>2, <1>3, <2>1, <2>3
  <2> QED BY <2>2, <2>3, <2>4
<1>6. ~(m < n)
  <2> SUFFICES ASSUME m < n PROVE FALSE
    OBVIOUS
  <2>1. m + 1 \in 1 .. n
    BY <1>0
  <2>2. PICK h \in 1 .. m : g[h] = f[m + 1]
    BY <1>1, <1>2, <2>1
  <2>3. f[h] = g[h] /\ h \in 1 .. ((m + 1) - 1) /\ h \in 1 .. n
    BY <1>0, <1>4, <2>2
  <2> QED BY <1>1, <1>3, <2>1, <2>2, <2>3
<1>7. n = m /\ \A i \in 1 .. n : rs[i] = ts[i]
  BY <1>0, <1>1, <1>2, <1>4, <1>5, <1>6
<1>8. rs = [i \in 1 .. n |-> rs[i]] /\ ts = [i \in 1 .. m |-> ts[i]]
  BY DEF n, m
<1>9. [i \in 1 .. n |-> rs[i]] = [i \in 1 .. m |-> ts[i]]
  BY <1>7
<1> QED BY <1>8, <1>9

\* The places up to k.
UpTo(D, k) == {j \in D : j <= k}

\* A prefix stays one when the list goes on.
LEMMA PrefixExtends ==
  ASSUME NEW S, NEW s \in Seq(S), NEW t \in Seq(S), NEW e \in S, IsPrefix(s, t)
  PROVE  IsPrefix(s, Append(t, e))
<1>1. Len(s) \in Nat /\ Len(t) \in Nat /\ Len(s) <= Len(t) /\ SubSeq(s, 1, Len(s)) = SubSeq(t, 1, Len(s))
  BY DEF IsPrefix
<1>2. SubSeq(Append(t, e), 1, Len(s)) = SubSeq(t, 1, Len(s))
  BY <1>1
<1> QED BY <1>1, <1>2 DEF IsPrefix

PrefixIndex(u, S, v, D, n) ==
  /\ u \in [0 .. n -> Seq(S)]
  /\ \A i \in 0 .. n : Lists(u[i], UpTo(D, i), v) /\ IsPrefix(u[i], Listed(v, D, n))
  /\ \A i \in 1 .. n : i \in D => u[i] = Append(u[i - 1], v[i])

\* What is listed is listed place by place, and begins with what is listed of fewer.
LEMMA ListedPrefixes ==
  ASSUME NEW S, NEW n \in Nat, NEW v \in [1 .. n -> S], NEW D, \A d \in D : d \in 1 .. n
  PROVE  \E u : PrefixIndex(u, S, v, D, n)
<1>0. PICK u : ListSteps(u, S, v, D, n)
  BY ListedUnfolds, Zenon
<1>1. /\ u \in [0 .. n -> Seq(S)]
      /\ Listed(v, D, n) = u[n] /\ \A i \in 0 .. n : u[i] = ListStep(u, v, D, i)
  BY <1>0 DEF ListSteps
<1>2. ASSUME NEW i \in 1 .. n
      PROVE  /\ i - 1 \in 0 .. n /\ u[i - 1] \in Seq(S) /\ v[i] \in S
             /\ u[i] = IF i \in D THEN Append(u[i - 1], v[i]) ELSE u[i - 1]
  <2>1. i - 1 \in 0 .. n /\ i \in 0 .. n /\ i # 0
    OBVIOUS
  <2>2. u[i - 1] \in Seq(S) /\ v[i] \in S
    BY <1>1, <2>1
  <2>3. u[i] = ListStep(u, v, D, i)
    BY <1>1, <2>1
  <2> QED BY <2>1, <2>2, <2>3 DEF ListStep
<1>3. \A i \in 0 .. n : Lists(u[i], UpTo(D, i), v)
  <2> DEFINE P == {i \in Nat : i <= n => Lists(u[i], UpTo(D, i), v)}
  <2>1. 0 \in P
    <3>1. u[0] = <<>>
      BY <1>1 DEF ListStep
    <3>2. UpTo(D, 0) = {}
      BY DEF UpTo
    <3> QED BY <3>1, <3>2, ListsNothing
  <2>2. ASSUME NEW m \in Nat, m \in P PROVE m + 1 \in P
    <3> SUFFICES ASSUME m + 1 <= n PROVE Lists(u[m + 1], UpTo(D, m + 1), v)
      OBVIOUS
    <3> DEFINE E == UpTo(D, m)
    <3>1. Lists(u[m], E, v) /\ m + 1 \in 1 .. n /\ (m + 1) - 1 = m
      BY <2>2
    <3>2. \A j \in E : j \in Int /\ j < m + 1
      BY DEF UpTo
    <3>3. CASE m + 1 \in D
      <4>1. UpTo(D, m + 1) = E \cup {m + 1}
        BY <3>3 DEF UpTo
      <4>2. u[m + 1] = Append(u[m], v[m + 1]) /\ u[m] \in Seq(S) /\ v[m + 1] \in S
        BY <1>2, <3>1, <3>3
      <4> HIDE DEF E
      <4>3. Lists(Append(u[m], v[m + 1]), E \cup {m + 1}, v)
        <5> DEFINE i == m + 1
        <5>1. i \in Int
          OBVIOUS
        <5> HIDE DEF i
        <5>2. Lists(Append(u[m], v[i]), E \cup {i}, v)
          BY <3>1, <3>2, <4>2, <5>1, ListsExtend, Zenon DEF i
        <5> QED BY <5>2 DEF i
      <4> QED BY <4>1, <4>2, <4>3
    <3>4. CASE m + 1 \notin D
      <4>1. UpTo(D, m + 1) = E
        BY <3>4 DEF UpTo
      <4>2. u[m + 1] = u[m]
        BY <1>2, <3>1, <3>4
      <4> QED BY <3>1, <4>1, <4>2
    <3> QED BY <3>3, <3>4
  <2> HIDE DEF P
  <2>3. Nat \subseteq P
    BY <2>1, <2>2, Induction
  <2> QED BY <2>3 DEF P
<1>4. ASSUME NEW a \in 0 .. n PROVE IsPrefix(u[a], u[n])
  <2> DEFINE P == {d \in Nat : a + d <= n => IsPrefix(u[a], u[a + d])}
  <2>1. 0 \in P
    BY DEF IsPrefix
  <2>2. ASSUME NEW d \in Nat, d \in P PROVE d + 1 \in P
    <3> SUFFICES ASSUME a + (d + 1) <= n PROVE IsPrefix(u[a], u[a + (d + 1)])
      OBVIOUS
    <3> DEFINE i == a + (d + 1)
    <3>1. i \in 1 .. n /\ i - 1 = a + d /\ IsPrefix(u[a], u[a + d]) /\ u[a] \in Seq(S)
      BY <1>1, <2>2
    <3> HIDE DEF i
    <3>2. IsPrefix(u[a], u[i])
      <4>1. /\ u[i - 1] \in Seq(S) /\ v[i] \in S /\ IsPrefix(u[a], u[i - 1])
            /\ u[i] = Append(u[i - 1], v[i]) \/ u[i] = u[i - 1]
        BY <1>2, <3>1
      <4> QED BY <3>1, <4>1, PrefixExtends, Zenon
    <3> QED BY <3>2 DEF i
  <2> HIDE DEF P
  <2>3. n - a \in P /\ a + (n - a) = n
    <3>1. n - a \in Nat /\ a + (n - a) = n
      OBVIOUS
    <3>2. Nat \subseteq P
      BY <2>1, <2>2, Induction
    <3> QED BY <3>1, <3>2
  <2> QED BY <2>3 DEF P
<1> QED BY <1>1, <1>2, <1>3, <1>4 DEF PrefixIndex

\* A list of the first of the places is where a list of all of them begins, and so is
\* one that goes on with the next place.
LEMMA ListedBegins ==
  ASSUME NEW S, NEW n \in Nat, NEW v \in [1 .. n -> S], NEW D, \A d \in D : d \in 1 .. n, NEW k \in 0 .. n,
         NEW rs \in Seq(S), NEW w, Lists(rs, UpTo(D, k), w), \A j \in UpTo(D, k) : v[j] = w[j]
  PROVE  /\ IsPrefix(rs, Listed(v, D, n))
         /\ k + 1 \in D => IsPrefix(Append(rs, v[k + 1]), Listed(v, D, n))
<1>0. PICK u : PrefixIndex(u, S, v, D, n)
  BY ListedPrefixes, Zenon
<1>1. /\ u \in [0 .. n -> Seq(S)]
      /\ \A i \in 0 .. n : Lists(u[i], UpTo(D, i), v) /\ IsPrefix(u[i], Listed(v, D, n))
      /\ \A i \in 1 .. n : i \in D => u[i] = Append(u[i - 1], v[i])
  BY <1>0 DEF PrefixIndex
<1>2. rs = u[k]
  <2>1. UpTo(D, k) \subseteq Nat
    BY DEF UpTo
  <2>2. u[k] \in Seq(S) /\ Lists(u[k], UpTo(D, k), v) /\ Len(rs) \in Nat
    BY <1>1
  <2>3. Lists(rs, UpTo(D, k), v)
    BY <2>2, ListsSame
  <2> QED BY <2>1, <2>2, <2>3, ListsOnce
<1>3. ASSUME k + 1 \in D PROVE Append(rs, v[k + 1]) = u[k + 1] /\ k + 1 \in 0 .. n
  <2>1. k + 1 \in 1 .. n /\ (k + 1) - 1 = k
    BY <1>3
  <2> QED BY <1>1, <1>2, <1>3, <2>1
<1> QED BY <1>1, <1>2, <1>3

Word == Saying \cup {"long"}

\* What a client has said is its whole lines, and one that is already too long.
LEMMA SaidLines ==
  ASSUME TypeInv, NEW c \in Conn
  PROVE  /\ lines[c] \in Seq(Word) /\ Len(lines[c]) \in Nat
         /\ Said(c) \in [1 .. Len(Said(c)) -> Word] /\ DOMAIN Said(c) = 1 .. Len(Said(c))
         /\ Len(Said(c)) \in Nat /\ Len(lines[c]) <= Len(Said(c))
         /\ \A j \in 1 .. Len(lines[c]) : Said(c)[j] = lines[c][j]
         /\ \A k \in 0 .. Len(lines[c]) :
              Stopped(c, k) => k + 1 \in 1 .. Len(Said(c)) /\ Fatal(Said(c)[k + 1])
<1>1. lines[c] \in Seq(Word) /\ Len(lines[c]) \in Nat
  BY Numbers DEF Word
<1>2. CASE sending[c].len = MAX_LINE
  <2>1. Said(c) = lines[c] \o <<"long">> /\ "long" \in Word
    BY <1>2 DEF Said, Word
  <2>2. /\ Said(c) \in Seq(Word) /\ Len(Said(c)) = Len(lines[c]) + 1
        /\ Said(c)[Len(lines[c]) + 1] = "long"
        /\ \A j \in 1 .. Len(lines[c]) : Said(c)[j] = lines[c][j]
    BY <1>1, <2>1
  <2>3. ASSUME NEW k \in 0 .. Len(lines[c]), Stopped(c, k)
        PROVE  k + 1 \in 1 .. Len(Said(c)) /\ Fatal(Said(c)[k + 1])
    <3>1. CASE k < Len(lines[c])
      <4>1. k + 1 \in 1 .. Len(lines[c]) /\ k + 1 \in 1 .. Len(Said(c))
        BY <1>1, <2>2, <3>1
      <4> QED BY <2>2, <2>3, <3>1, <4>1 DEF Stopped
    <3>2. CASE k = Len(lines[c])
      BY <1>1, <2>2, <3>2 DEF Fatal
    <3> QED BY <1>1, <3>1, <3>2
  <2> QED BY <1>1, <2>2, <2>3
<1>3. CASE sending[c].len # MAX_LINE
  <2>1. Said(c) = lines[c]
    <3>1. Said(c) = lines[c] \o <<>>
      BY <1>3 DEF Said
    <3> QED BY <1>1, <3>1
  <2>2. ASSUME NEW k \in 0 .. Len(lines[c]), Stopped(c, k)
        PROVE  k + 1 \in 1 .. Len(lines[c]) /\ Fatal(lines[c][k + 1])
    BY <1>1, <1>3, <2>2 DEF Stopped
  <2> QED BY <1>1, <2>1, <2>2
<1> QED BY <1>2, <1>3

\* Nothing is where anything begins.
LEMMA NothingBegins ==
  ASSUME NEW S, NEW n \in Nat, NEW v \in [1 .. n -> S], NEW D, \A d \in D : d \in 1 .. n
  PROVE  IsPrefix(<<>>, Listed(v, D, n))
<1>1. UpTo(D, 0) = {} /\ <<>> \in Seq(S) /\ 0 \in 0 .. n
  BY DEF UpTo
<1>2. Lists(<<>>, UpTo(D, 0), v)
  BY <1>1, ListsNothing
<1> QED BY <1>1, <1>2, ListedBegins

\* What was run up to a line is where the list of the requests begins.
LEMMA RanAsAsked ==
  ASSUME TypeInv, NEW c \in Conn, NEW m \in 0 .. Len(lines[c]), RunUpTo(c, m)
  PROVE  IsPrefix(ran[c], Listed(Said(c), Asked(c), Len(Said(c))))
<1> DEFINE n == Len(Said(c))
<1>1. \A d \in Asked(c) : d \in 1 .. n
  BY SaidLines DEF Asked, Heard
<1>2. n \in Nat /\ Said(c) \in [1 .. n -> Word]
  BY SaidLines
<1>3. CASE ran[c] = <<>>
  BY <1>1, <1>2, <1>3, NothingBegins
<1>4. CASE ran[c] # <<>>
  <2>1. same_uid[c] /\ authorized(lines[c][1]) /\ \A j \in 1 .. m : ~Fatal(lines[c][j])
    BY <1>4 DEF RunUpTo
  <2>2. ran[c] \in Seq(Word) /\ Len(ran[c]) > 0 /\ Len(ran[c]) \in Nat
    <3>1. ran[c] \in Seq({"request", "seed"})
      BY Numbers
    <3>2. \A i \in 1 .. Len(ran[c]) : ran[c][i] \in Word
      BY <3>1 DEF Word, Saying
    <3> QED BY <1>4, <3>1, <3>2
  <2>3. m \in Nat /\ m <= Len(lines[c]) /\ m <= n /\ m \in 0 .. n
    BY SaidLines
  <2>4. Lists(ran[c], Requests(lines[c], m), lines[c])
    BY DEF RunUpTo
  <2>5. m >= 2
    <3>1. Requests(lines[c], m) # {}
      BY <2>2, <2>4, ListsSame
    <3> QED BY <2>3, <3>1 DEF Requests
  <2>6. \A j \in 1 .. m : j \in 1 .. n /\ j \in DOMAIN Said(c) /\ Said(c)[j] = lines[c][j]
    BY <2>3, SaidLines
  <2>7. Greets(c)
    <3>1. 1 \in 1 .. m
      BY <2>3, <2>5
    <3>2. Said(c) # <<>>
      BY <2>3, <2>5, SaidLines
    <3> QED BY <2>1, <2>6, <3>1, <3>2 DEF Greets
  <2>8. ASSUME NEW j PROVE j \in UpTo(Asked(c), m) <=> j \in Requests(lines[c], m)
    <3>1. ASSUME j \in UpTo(Asked(c), m) PROVE j \in Requests(lines[c], m)
      <4>1. j \in 1 .. n /\ j <= m /\ IsRequest(Said(c)[j])
        BY <1>1, <3>1 DEF UpTo, Asked
      <4>2. j \in 1 .. m /\ IsRequest(lines[c][j])
        BY <2>3, <2>6, <4>1
      <4>3. j # 1
        BY <2>1, <4>2 DEF authorized, IsRequest
      <4> QED BY <4>2, <4>3 DEF Requests
    <3>2. ASSUME j \in Requests(lines[c], m) PROVE j \in UpTo(Asked(c), m)
      <4>1. j \in 2 .. m /\ IsRequest(lines[c][j])
        BY <3>2 DEF Requests
      <4>2. j \in 1 .. m /\ \A i \in 1 .. (j - 1) : i \in 1 .. m
        BY <2>3, <4>1
      <4>3. j \in Heard(c)
        BY <2>1, <2>6, <4>2 DEF Heard
      <4> QED BY <2>6, <2>7, <4>1, <4>2, <4>3 DEF UpTo, Asked
    <3> QED BY <3>1, <3>2
  <2>9. UpTo(Asked(c), m) = Requests(lines[c], m)
    BY <2>8
  <2>10. \A j \in UpTo(Asked(c), m) : Said(c)[j] = lines[c][j]
    BY <1>1, <2>3, <2>6 DEF UpTo
  <2> HIDE DEF n
  <2>11. Lists(ran[c], UpTo(Asked(c), m), lines[c])
    BY <2>4, <2>9
  <2>12. IsPrefix(ran[c], Listed(Said(c), Asked(c), n))
    BY <1>1, <1>2, <2>2, <2>3, <2>10, <2>11, ListedBegins
  <2> QED BY <2>12 DEF n
<1> QED BY <1>3, <1>4

\* What is before the last element, and that element.
LEMMA FrontAndLast ==
  ASSUME NEW S, NEW s \in Seq(S), Len(s) >= 2
  PROVE  Front(s) \in Seq(S) /\ Front(s) # <<>> /\ s = Append(Front(s), Last(s))
<1> DEFINE t == SubSeq(s, 1, Len(s) - 1)
<1>1. Len(s) \in Nat /\ Front(s) = t /\ Last(s) = s[Len(s)] /\ s[Len(s)] \in S
  BY DEF Front, Last
<1>2. t \in Seq(S) /\ Len(t) = Len(s) - 1 /\ \A i \in 1 .. (Len(s) - 1) : t[i] = s[i]
  BY <1>1
<1> HIDE DEF t
<1>3. t # <<>>
  BY <1>1, <1>2
<1>4. s = Append(t, s[Len(s)])
  BY <1>1, <1>2
<1> QED BY <1>1, <1>2, <1>3, <1>4

\* A sequence that is not empty has a positive length.
LEMMA NonEmpty ==
  ASSUME NEW S, NEW s \in Seq(S), s # <<>>
  PROVE  Len(s) \in Nat /\ Len(s) > 0
OBVIOUS

\* The answers to the lines up to k begin what the client can expect; so do they with
\* the error that follows, if the next line cannot be taken.
LEMMA AnswersBegin ==
  ASSUME TypeInv, NEW c \in Conn, NEW k \in 0 .. Len(lines[c]), NEW as \in Seq(Answer), as # <<>>,
         AnswersUpTo(as, c, k), \A j \in 1 .. k : ~Fatal(lines[c][j])
  PROVE  /\ IsPrefix(as, Expected(c)) /\ same_uid[c] /\ ~Fatal(Said(c)[1])
         /\ Stopped(c, k) => IsPrefix(Append(as, "request too large"), Expected(c))
<1> DEFINE n == Len(Said(c))
<1>1. same_uid[c] /\ authorized(lines[c][1]) /\ Lists(as, Spoken(lines[c], k), Reply(lines[c]))
  BY DEF AnswersUpTo
<1>2. n \in Nat /\ k \in Nat /\ k <= Len(lines[c]) /\ k <= n /\ k \in 0 .. n
  BY SaidLines
<1>3. \A j \in 1 .. k : /\ j \in 1 .. n /\ j \in DOMAIN Said(c) /\ Said(c)[j] = lines[c][j]
                        /\ j \in 1 .. Len(lines[c])
  BY <1>2, SaidLines
<1>4. k >= 1
  <2>1. Len(as) \in Nat /\ Len(as) > 0
    BY NonEmpty, Zenon
  <2>2. Spoken(lines[c], k) # {}
    BY <1>1, <2>1, ListsSame
  <2> QED BY <1>2, <2>2 DEF Spoken
<1>5. Said(c)[1] = lines[c][1] /\ Said(c)[1] = "token" /\ Greets(c) /\ ~Fatal(Said(c)[1])
  <2>1. 1 \in 1 .. k
    BY <1>2, <1>4
  <2>2. Said(c) # <<>>
    BY <1>2, <1>4, SaidLines
  <2> QED BY <1>1, <1>3, <2>1, <2>2 DEF Greets, authorized, Fatal
<1>6. \A d \in Due(c) : d \in 1 .. n
  BY SaidLines DEF Due, Heard
<1>7. \A i \in 1 .. n : Replies(c)[i] = CASE i = 1 -> "ready"
                                         [] i # 1 /\ IsRequest(Said(c)[i]) -> "response"
                                         [] i # 1 /\ Fatal(Said(c)[i]) -> "request too large"
                                         [] OTHER -> "bad request"
  BY SaidLines DEF Replies
<1>8. \A i \in 1 .. n : Replies(c)[i] \in Answer
  BY <1>7 DEF Answer
<1>9. Replies(c) \in [1 .. n -> Answer]
  <2>1. DOMAIN Replies(c) = 1 .. n /\ Replies(c) = [i \in 1 .. n |-> Replies(c)[i]]
    BY SaidLines DEF Replies
  <2> QED BY <1>8, <2>1
<1>10. ASSUME NEW j \in 1 .. k PROVE j \in Heard(c)
  <2>1. \A i \in 1 .. (j - 1) : i \in 1 .. k
    BY <1>2
  <2> QED BY <1>3, <2>1 DEF Heard
<1>11. UpTo(Due(c), k) = Spoken(lines[c], k)
  <2>1. ASSUME NEW j \in UpTo(Due(c), k) PROVE j \in Spoken(lines[c], k)
    <3>1. j \in 1 .. n /\ j <= k /\ Said(c)[j] # "blank"
      BY <1>6 DEF UpTo, Due
    <3>2. j \in 1 .. k
      BY <1>2, <3>1
    <3> QED BY <1>3, <3>1, <3>2 DEF Spoken
  <2>2. ASSUME NEW j \in Spoken(lines[c], k) PROVE j \in UpTo(Due(c), k)
    <3>1. j \in 1 .. k /\ lines[c][j] # "blank"
      BY DEF Spoken
    <3> QED BY <1>3, <1>10, <3>1 DEF UpTo, Due
  <2> QED BY <2>1, <2>2
<1>12. ASSUME NEW j \in UpTo(Due(c), k) PROVE Replies(c)[j] = Reply(lines[c])[j]
  <2>1. j \in 1 .. k
    BY <1>11 DEF Spoken
  <2>2. j \in 1 .. n /\ Said(c)[j] = lines[c][j] /\ ~Fatal(lines[c][j])
    BY <1>3, <2>1
  <2>3. Reply(lines[c])[j] = IF j = 1 THEN "ready"
                             ELSE IF IsRequest(lines[c][j]) THEN "response" ELSE "bad request"
    BY <1>3, <2>1 DEF Reply
  <2> QED BY <1>7, <2>2, <2>3
<1> HIDE DEF n
<1>13. Lists(as, UpTo(Due(c), k), Reply(lines[c]))
  BY <1>1, <1>11
<1> DEFINE v == Replies(c)
           w == Reply(lines[c])
<1>14. /\ v \in [1 .. n -> Answer] /\ Lists(as, UpTo(Due(c), k), w)
       /\ \A j \in UpTo(Due(c), k) : v[j] = w[j]
  BY <1>9, <1>12, <1>13
<1>15. Expected(c) = Listed(v, Due(c), n)
  BY <1>5 DEF Expected, n
<1> HIDE DEF v, w
<1>16. /\ IsPrefix(as, Listed(v, Due(c), n))
       /\ k + 1 \in Due(c) => IsPrefix(Append(as, v[k + 1]), Listed(v, Due(c), n))
  BY <1>2, <1>6, <1>14, ListedBegins
<1>17. ASSUME Stopped(c, k) PROVE k + 1 \in Due(c) /\ v[k + 1] = "request too large"
  <2>1. k + 1 \in 1 .. n /\ k + 1 \in DOMAIN Said(c) /\ Fatal(Said(c)[k + 1])
    BY <1>17, SaidLines DEF n
  <2>2. \A i \in 1 .. ((k + 1) - 1) : i \in 1 .. k
    BY <1>2
  <2>3. k + 1 \in Heard(c)
    BY <1>3, <2>1, <2>2 DEF Heard
  <2>4. k + 1 # 1 /\ ~IsRequest(Said(c)[k + 1]) /\ Said(c)[k + 1] # "blank"
    BY <1>2, <1>4, <2>1 DEF Fatal, IsRequest
  <2> QED BY <1>7, <2>1, <2>3, <2>4 DEF Due, v
<1> QED BY <1>1, <1>5, <1>15, <1>16, <1>17

\* What was answered is where the list of the answers to expect begins.
LEMMA AnsweredAsExpected ==
  ASSUME TypeInv, NEW c \in Conn, NEW m \in 0 .. Len(lines[c]), NEW k \in 0 .. m,
         RunUpTo(c, m), AnsweredUpTo(c, k)
  PROVE  /\ IsPrefix(answers[c], Expected(c))
         /\ answers[c] # <<>> => same_uid[c] /\ ~Fatal(Said(c)[1])
<1>1. /\ answers[c] \in Seq(Answer) /\ Len(lines[c]) \in Nat
      /\ k \in 0 .. Len(lines[c]) /\ \A j \in 1 .. k : ~Fatal(lines[c][j])
  <2>1. answers[c] \in Seq(Answer) /\ Len(lines[c]) \in Nat
    BY SaidLines DEF TypeInv, TypeOK, Answer
  <2>2. k \in 0 .. Len(lines[c]) /\ \A j \in 1 .. k : j \in 1 .. m
    BY <2>1
  <2> QED BY <2>1, <2>2 DEF RunUpTo
<1>2. CASE answers[c] = <<>>
  <2>1. CASE Greets(c)
    <3>1. /\ Len(Said(c)) \in Nat /\ \A d \in Due(c) : d \in 1 .. Len(Said(c))
      BY SaidLines DEF Due, Heard
    <3>2. Replies(c) \in [1 .. Len(Said(c)) -> Answer]
      <4>1. DOMAIN Said(c) = 1 .. Len(Said(c))
        BY SaidLines
      <4> QED BY <4>1 DEF Replies, Answer
    <3> QED BY <1>2, <2>1, <3>1, <3>2, NothingBegins DEF Expected
  <2>2. CASE ~Greets(c)
    <3>1. Expected(c) = <<"unauthorized">>
      BY <2>2 DEF Expected
    <3> QED BY <1>2, <3>1 DEF IsPrefix
  <2> QED BY <1>2, <2>1, <2>2
<1>3. CASE answers[c] # <<>> /\ AnswersUpTo(answers[c], c, k)
  BY <1>1, <1>3, AnswersBegin
<1>4. CASE answers[c] = <<"unauthorized">> /\ Refused(c)
  <2>1. 1 \in 1 .. Len(lines[c])
    BY <1>1, <1>4, SaidLines DEF Refused
  <2>2. Said(c)[1] = lines[c][1]
    BY <2>1, SaidLines
  <2>3. Expected(c) = <<"unauthorized">>
    BY <1>4, <2>2 DEF Refused, Expected, Greets
  <2>4. IsPrefix(answers[c], Expected(c))
    BY <1>4, <2>3 DEF IsPrefix
  <2> QED BY <1>4, <2>2, <2>4 DEF Refused
<1>5. CASE /\ Len(answers[c]) >= 2 /\ Last(answers[c]) = "request too large" /\ Stopped(c, k)
           /\ AnswersUpTo(Front(answers[c]), c, k)
  <2> DEFINE as == Front(answers[c])
  <2>1. /\ as \in Seq(Answer) /\ as # <<>>
        /\ answers[c] = Append(as, "request too large")
    BY <1>1, <1>5, FrontAndLast, Zenon
  <2> HIDE DEF as
  <2>2. AnswersUpTo(as, c, k)
    BY <1>5 DEF as
  <2> QED BY <1>1, <1>5, <2>1, <2>2, AnswersBegin
<1> QED BY <1>2, <1>3, <1>4, <1>5 DEF AnsweredUpTo

-----------------------------------------------------------------------------
\* The server's state is well typed and the mutex is held by the one thread that
\* handles a request, or by nobody (handle_conn).
THEOREM TypeCorrect == Spec => []TypeOK
<1>1. IpcInv => TypeOK
  BY DEF IpcInv, TypeInv
<1> QED BY <1>1, IpcInvariant, PTL

\* Whatever pieces lines come in, however long they are and whenever clients hang
\* up, what is run on a connection is what its client sent as whole lines behind
\* the bearer, in order, once each, none passed over, and before any line that the
\* server cannot take; and what is answered is what was run, or is refused, line by
\* line in the same order, with an error as the last answer (handle_conn,
\* read_capped_line).
THEOREM ServedInOrderHolds == Spec => []ServedInOrder
<1>1. IpcInv /\ (\A c \in Conn : AnswerInv(c)) => ServedInOrder
  <2> SUFFICES ASSUME IpcInv, NEW c \in Conn, AnswerInv(c)
               PROVE  \E m \in 0 .. Len(lines[c]) : \E k \in 0 .. m : RunUpTo(c, m) /\ AnsweredUpTo(c, k)
    BY DEF ServedInOrder
  <2>1. \E m \in 0 .. Len(lines[c]) : \E k \in 0 .. m : EndedAt(c, m, k)
    BY EndsSomewhere DEF IpcInv
  <2> QED BY <2>1 DEF EndedAt
<1> QED BY <1>1, AnswerInvariant, PTL

\* What a client can rely on who only counts lines: the requests that ran are the
\* first of those it asked, and the answers the first of those it can expect, for any
\* number of clients and lines of any length (handle_conn, read_capped_line).
THEOREM ServedAsAskedHolds == Spec => []ServedAsAsked
<1>1. IpcInv /\ (\A c \in Conn : AnswerInv(c)) => ServedAsAsked
  <2> SUFFICES ASSUME IpcInv, \A c \in Conn : AnswerInv(c) PROVE ServedAsAsked
    OBVIOUS
  <2>1. TypeInv /\ TypeOK
    BY DEF IpcInv, TypeInv
  <2>2. ASSUME NEW c \in Conn
        PROVE  /\ IsPrefix(ran[c], Listed(Said(c), Asked(c), Len(Said(c))))
               /\ IsPrefix(answers[c], Expected(c))
               /\ answers[c] # <<>> => same_uid[c] /\ ~Fatal(Said(c)[1])
    <3>1. PICK m \in 0 .. Len(lines[c]) : \E k \in 0 .. m : EndedAt(c, m, k)
      BY EndsSomewhere DEF IpcInv
    <3>2. PICK k \in 0 .. m : EndedAt(c, m, k)
      BY <3>1
    <3>3. RunUpTo(c, m) /\ AnsweredUpTo(c, k)
      BY <3>2 DEF EndedAt
    <3> QED BY <2>1, <3>3, RanAsAsked, AnsweredAsExpected
  <2> QED BY <2>1, <2>2 DEF ServedAsAsked, RunsOnlyWhatWasAsked, AnswersInOrder
<1> QED BY <1>1, AnswerInvariant, PTL

\* The server never ends an authenticated connection whose client stays, but for a
\* line it cannot take (server.rs:66-68, 143).
THEOREM IdleIsKeptHolds == Spec => IdleIsKept
<1> DEFINE Kept == \A c \in Conn : pc[c] \in Greeted /\ pc'[c] = "closed"
                                     => ~open[c] \/ pc[c] = "too_large"
<1>1. TypeOK /\ [Next]_vars => [Kept]_vars
  <2> SUFFICES ASSUME TypeOK, Next, NEW d \in Conn, pc[d] \in Greeted, pc'[d] = "closed"
               PROVE  ~open[d] \/ pc[d] = "too_large"
    OBVIOUS
  <2>1. pc[d] # "closed"
    BY DEF Greeted
  <2>2. ASSUME NEW c \in Conn, Thread(c) \/ Client(c) PROVE ~open[d] \/ pc[d] = "too_large"
    <3>1. pc \in [Conn -> Label]
      BY DEF TypeOK
    <3>2. \A says : AfterLine(c, says) # "closed"
      BY DEF AfterLine
    <3>3. ASSUME NEW says, Complete(c, says) PROVE pc'[c] = "closed" => pc[c] = "auth"
      BY <3>1, <3>2, <3>3 DEF Complete, Reject, Goto
    <3>4. CASE Receive(c) \/ EndOfStream(c)
      <4>1. pc'[c] = "closed" => pc[c] = "auth" \/ ~open[c]
        BY <3>1, <3>3, <3>4 DEF Receive, EndOfStream, Reject, Goto
      <4>2. c # d => pc'[d] = pc[d]
        BY <3>1, <3>4 DEF Receive, EndOfStream, Complete, Reject, Goto
      <4> QED BY <2>1, <4>1, <4>2 DEF Greeted
    <3>5. CASE ~(Receive(c) \/ EndOfStream(c))
      BY <2>1, <2>2, <3>1, <3>5
         DEF Thread, Client, Accept, Start, ReadFails, RecvTimeout, Lock, Handle, Answered, Write,
             Connect, HangUp, ReadAnswer, Send, Unlock, Goto, Greeted
    <3> QED BY <3>4, <3>5
  <2> QED BY <2>1, <2>2 DEF Next, TaskAnswers, TaskEnds
<1> QED BY <1>1, TypeCorrect, PTL DEF Spec, IdleIsKept
=============================================================================
