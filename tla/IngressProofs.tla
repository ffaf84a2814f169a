---------------------------- MODULE IngressProofs ----------------------------
(***************************************************************************)
(* What Accepted means, for any clients, requests and failures.            *)
(*                                                                         *)
(* The stream and the connection are one line: what is published joins it  *)
(* at its end, and JetStream only moves the border between the two.        *)
(***************************************************************************)
EXTENDS Ingress, SequenceTheorems, TLAPS

Line == stream \o wire

\* A request is in the line once, after its handler published it, and only if
\* it is valid.
LineInv ==
    /\ underway \cap received = {}
    /\ \A i \in 1 .. Len(Line) : /\ Line[i] \notin underway \cup received
                                 /\ sent[Line[i]].valid
    /\ \A i, j \in 1 .. Len(Line) : Line[i] = Line[j] => i = j

\* What JetStream acknowledged is stored.
AckInv == acked \subseteq Elements(stream)

\* A client waits for the newest of its requests.
ClientInv ==
    \A c \in Client : waiting[c] # 0 =>
        /\ sent[waiting[c]].client = c
        /\ \A n \in Id : sent[n].client = c => n <= waiting[c]

\* The newer requests of a client are behind the accepted ones in the line.
OrderInv ==
    \A i, j \in 1 .. Len(Line) :
        /\ Line[i] < Line[j]
        /\ sent[Line[i]].client = sent[Line[j]].client
        /\ answers[Line[i]] = "accepted"
        => i < j

IInv == TypeOK /\ AcceptedIsStored /\ LineInv /\ AckInv /\ ClientInv /\ OrderInv

\* The disjuncts of Next, grouped by who takes them.
ClientStep == \E c \in Client : GiveUp(c) \/ \E valid \in BOOLEAN : Send(c, valid)
CallStep(n) ==
    \/ Receive(n) \/ ReceiveDebug(n) \/ Refuse(n)
    \/ Publish(n) \/ PublishReturns(n) \/ PublishFails(n)
NatsStep == Store \/ LoseWire
ServerStep == StartServer \/ StopServer \/ GracefulStop \/ ExitServer \/ CrashServer

\* Every step is one of a client, a call, NATS or the server.
LEMMA NextSteps ==
    Next <=> ClientStep \/ (\E n \in Id : CallStep(n)) \/ NatsStep \/ ServerStep
  BY DEF Next, ClientStep, CallStep, NatsStep, ServerStep

-----------------------------------------------------------------------------
(* Types *)

\* A failure is counted within the bound.
LEMMA FaultType ==
    ASSUME faults \in 0 .. MaxFaults, Fault \/ UNCHANGED faults
    PROVE  faults' \in 0 .. MaxFaults
  BY IngressAssumption DEF Fault

\* An interval has one length.
LEMMA IntervalLength == ASSUME NEW a \in Nat, NEW b \in Nat, 1 .. a = 1 .. b PROVE a = b
<1>1. /\ a \in 1 .. a <=> a # 0
      /\ b \in 1 .. b <=> b # 0
      /\ a \in 1 .. b => a <= b
      /\ b \in 1 .. a => b <= a
  OBVIOUS
<1> QED
  BY <1>1

\* There is one answer per request.
LEMMA AnswersSeq ==
    ASSUME TypeOK
    PROVE  answers \in Seq({"none", "accepted", "failed"}) /\ Len(answers) = Len(sent)
<1>1. answers \in [1 .. Len(sent) -> {"none", "accepted", "failed"}] /\ Len(sent) \in Nat
  BY DEF TypeOK, Id
<1>2. answers \in Seq({"none", "accepted", "failed"})
  BY <1>1
<1>3. Len(answers) \in Nat /\ DOMAIN answers = 1 .. Len(answers)
  BY <1>2
<1>4. 1 .. Len(answers) = 1 .. Len(sent)
  BY <1>1, <1>3
<1>5. Len(answers) = Len(sent)
  BY <1>1, <1>3, <1>4, IntervalLength
<1> QED
  BY <1>2, <1>5

\* The answer to a call keeps the types.
LEMMA AnswerType ==
    ASSUME TypeOK, NEW n \in Id, NEW what \in {"accepted", "failed"}, Answer(n, what)
    PROVE  /\ answers' \in [Id -> {"none", "accepted", "failed"}]
           /\ waiting' \in [Client -> Id \cup {0}]
<1>1. CASE waiting[sent[n].client] = n
  BY <1>1 DEF Answer, TypeOK
<1>2. CASE waiting[sent[n].client] # n
  BY <1>2 DEF Answer, TypeOK
<1> QED
  BY <1>1, <1>2

\* The types hold at the start.
LEMMA InitTypeOK == Init => TypeOK
<1> SUFFICES ASSUME Init PROVE TypeOK
  OBVIOUS
<1>1. Id = {} /\ Len(sent) = 0
  BY DEF Init, Id
<1>2. /\ sent \in Seq(Request)
      /\ answers \in [Id -> {"none", "accepted", "failed"}]
      /\ wire \in Seq(Id) /\ stream \in Seq(Id)
  BY <1>1 DEF Init
<1>3. waiting \in [Client -> Id \cup {0}]
  BY DEF Init
<1> QED
  BY <1>1, <1>2, <1>3, IngressAssumption DEF Init, TypeOK

\* A client that sends or gives up keeps the types.
LEMMA ClientTypeOK == TypeOK /\ ClientStep => TypeOK'
<1> SUFFICES ASSUME TypeOK, NEW c \in Client,
                    GiveUp(c) \/ \E valid \in BOOLEAN : Send(c, valid)
             PROVE  TypeOK'
  BY DEF ClientStep
<1>1. CASE GiveUp(c)
  <2>1. waiting[c] \in Id
    BY <1>1 DEF GiveUp, TypeOK
  <2>2. Id' = Id
    BY <1>1 DEF GiveUp, Id
  <2> QED
    BY <1>1, <2>1, <2>2 DEF GiveUp, TypeOK
<1>2. ASSUME NEW valid \in BOOLEAN, Send(c, valid) PROVE TypeOK'
  <2> DEFINE n == Len(sent) + 1
  <2>1. /\ sent' \in Seq(Request) /\ Len(sent') = n /\ n <= MaxRequests
        /\ n \in Nat /\ Len(sent) \in Nat
    BY <1>2, IngressAssumption DEF Send, TypeOK, Request
  <2>2. Id \subseteq Id' /\ n \in Id' /\ Id' = 1 .. n
    BY <2>1 DEF Id
  <2>3. answers' \in [Id' -> {"none", "accepted", "failed"}]
    <3>1. answers \in Seq({"none", "accepted", "failed"}) /\ Len(answers) = Len(sent)
      BY AnswersSeq
    <3>2. /\ answers' \in Seq({"none", "accepted", "failed"})
          /\ Len(answers') = n
      BY <1>2, <3>1 DEF Send
    <3> QED
      BY <2>2, <3>2
  <2>4. waiting' \in [Client -> Id' \cup {0}] /\ underway' \subseteq Id'
    BY <1>2, <2>2 DEF Send, TypeOK
  <2>5. wire' \in Seq(Id') /\ stream' \in Seq(Id')
    <3>1. wire \in Seq(Id) /\ stream \in Seq(Id) /\ UNCHANGED <<wire, stream>>
      BY <1>2 DEF Send, TypeOK
    <3> QED
      BY <2>2, <3>1, SeqMonotonic
  <2> QED
    BY <1>2, <2>1, <2>2, <2>3, <2>4, <2>5 DEF Send, TypeOK
<1> QED
  BY <1>1, <1>2

\* A step of a call keeps the types.
LEMMA CallTypeOK == ASSUME TypeOK, NEW n \in Id, CallStep(n) PROVE TypeOK'
<1>1. CASE Receive(n) \/ ReceiveDebug(n)
  <2>1. Arrive(n) /\ Id' = Id
    BY <1>1 DEF Receive, ReceiveDebug, Arrive, Id
  <2> QED
    BY <2>1 DEF Arrive, TypeOK
<1>2. CASE Refuse(n)
  <2>1. Answer(n, "failed") /\ Id' = Id
    BY <1>2 DEF Refuse, Id
  <2> QED
    BY <1>2, <2>1, AnswerType DEF Refuse, TypeOK
<1>3. CASE Publish(n)
  <2>1. wire' \in Seq(Id) /\ Id' = Id
    BY <1>3 DEF Publish, TypeOK, Id
  <2> QED
    BY <1>3, <2>1 DEF Publish, TypeOK
<1>4. CASE PublishReturns(n)
  <2>1. Answer(n, "accepted") /\ Id' = Id
    BY <1>4 DEF PublishReturns, Id
  <2> QED
    BY <1>4, <2>1, AnswerType DEF PublishReturns, TypeOK
<1>5. CASE PublishFails(n)
  <2>1. Answer(n, "failed") /\ Id' = Id
    BY <1>5 DEF PublishFails, Id
  <2> QED
    BY <1>5, <2>1, AnswerType DEF PublishFails, TypeOK
<1> QED
  BY <1>1, <1>2, <1>3, <1>4, <1>5 DEF CallStep

\* NATS keeps the types.
LEMMA NatsTypeOK == TypeOK /\ NatsStep => TypeOK'
<1> SUFFICES ASSUME TypeOK, NatsStep PROVE TypeOK'
  OBVIOUS
<1>1. CASE Store
  <2>1. /\ Head(wire) \in Id /\ Tail(wire) \in Seq(Id)
        /\ Append(stream, Head(wire)) \in Seq(Id)
    BY <1>1 DEF Store, TypeOK
  <2>2. faults' \in 0 .. MaxFaults /\ acked' \subseteq Id /\ Id' = Id
    BY <1>1, <2>1, FaultType DEF Store, TypeOK, Id
  <2> QED
    BY <1>1, <2>1, <2>2 DEF Store, TypeOK
<1>2. CASE LoseWire
  <2>1. faults' \in 0 .. MaxFaults /\ <<>> \in Seq(Id) /\ Id' = Id
    BY <1>2, FaultType DEF LoseWire, TypeOK, Id
  <2> QED
    BY <1>2, <2>1 DEF LoseWire, TypeOK
<1> QED
  BY <1>1, <1>2 DEF NatsStep

\* What a process that ends leaves behind keeps the types.
LEMMA FlushType ==
    ASSUME TypeOK, NEW flushed \in 0 .. Len(wire),
           stream' = stream \o SubSeq(wire, 1, flushed)
    PROVE  stream' \in Seq(Id)
<1>1. SubSeq(wire, 1, flushed) \in Seq(Id)
  BY DEF TypeOK
<1> QED
  BY <1>1 DEF TypeOK

\* So do the start and the end of metrics-service.
LEMMA ServerTypeOK == TypeOK /\ ServerStep => TypeOK'
<1> SUFFICES ASSUME TypeOK, ServerStep PROVE TypeOK'
  OBVIOUS
<1>1. CASE StartServer \/ StopServer \/ GracefulStop
  <2>1. faults' \in 0 .. MaxFaults /\ Id' = Id
    BY <1>1, FaultType DEF StartServer, StopServer, GracefulStop, TypeOK, Id
  <2> QED
    BY <1>1, <2>1 DEF StartServer, StopServer, GracefulStop, TypeOK
<1>2. CASE ExitServer \/ CrashServer
  <2>1. faults' \in 0 .. MaxFaults /\ <<>> \in Seq(Id) /\ Id' = Id
    BY <1>2, FaultType DEF ExitServer, CrashServer, TypeOK, Id
  <2>2. stream' \in Seq(Id)
    BY <1>2, FlushType DEF ExitServer, CrashServer
  <2> QED
    BY <1>2, <2>1, <2>2 DEF ExitServer, CrashServer, TypeOK
<1> QED
  BY <1>1, <1>2 DEF ServerStep

\* Every step keeps the types.
LEMMA StepTypeOK == TypeOK /\ [Next]_vars => TypeOK'
<1>1. TypeOK /\ UNCHANGED vars => TypeOK'
  BY DEF vars, TypeOK, Id
<1> QED
  BY <1>1, NextSteps, ClientTypeOK, CallTypeOK, NatsTypeOK, ServerTypeOK

-----------------------------------------------------------------------------
(* The line *)

\* The line is a sequence of requests: the stream, and behind it the wire.
LEMMA LineType ==
    ASSUME TypeOK
    PROVE  /\ Line \in Seq(Id) /\ Len(stream) \in Nat /\ Len(wire) \in Nat
           /\ Len(Line) = Len(stream) + Len(wire)
           /\ \A i \in 1 .. Len(stream) : Line[i] = stream[i]
           /\ \A i \in 1 .. Len(wire) : Line[Len(stream) + i] = wire[i]
<1>1. stream \in Seq(Id) /\ wire \in Seq(Id)
  BY DEF TypeOK
<1> QED
  BY <1>1, ConcatProperties DEF Line

\* The beginning of the line that a step keeps, and what it has of the stream.
LineKept == /\ Len(Line') <= Len(Line)
            /\ \A i \in 1 .. Len(Line') : Line'[i] = Line[i]
StreamKept == /\ Len(stream) <= Len(stream')
              /\ \A i \in 1 .. Len(stream) : stream'[i] = stream[i]

\* A publication joins the line at its end.
LEMMA LineGrows ==
    ASSUME TypeOK, NEW n \in Id, Publish(n)
    PROVE  /\ Len(Line') = Len(Line) + 1
           /\ \A i \in 1 .. Len(Line) : Line'[i] = Line[i]
           /\ Line'[Len(Line) + 1] = n
<1>1. stream \in Seq(Id) /\ wire \in Seq(Id)
  BY DEF TypeOK
<1>2. Line' = stream \o Append(wire, n)
  BY DEF Publish, Line
<1>3. /\ Append(wire, n) \in Seq(Id) /\ Len(Append(wire, n)) = Len(wire) + 1
      /\ \A i \in 1 .. Len(wire) : Append(wire, n)[i] = wire[i]
      /\ Append(wire, n)[Len(wire) + 1] = n
  BY <1>1
<1> QED
  BY <1>1, <1>2, <1>3, ConcatProperties DEF Line

\* JetStream moves the border in the line by one.
LEMMA StoreLine == ASSUME TypeOK, Store PROVE LineKept /\ StreamKept
<1>1. stream \in Seq(Id) /\ wire \in Seq(Id) /\ wire # <<>>
  BY DEF Store, TypeOK
<1>2. /\ Tail(wire) \in Seq(Id) /\ Len(Tail(wire)) = Len(wire) - 1
      /\ \A i \in 1 .. Len(wire) - 1 : Tail(wire)[i] = wire[i + 1]
      /\ Head(wire) = wire[1] /\ Head(wire) \in Id /\ Len(wire) \in Nat \ {0}
  BY <1>1
<1>3. /\ stream' \in Seq(Id) /\ Len(stream') = Len(stream) + 1 /\ Len(stream) \in Nat
      /\ \A i \in 1 .. Len(stream) : stream'[i] = stream[i]
      /\ stream'[Len(stream) + 1] = wire[1]
  BY <1>1, <1>2 DEF Store
<1>4. wire' = Tail(wire)
  BY DEF Store
<1>5. /\ Len(Line') = Len(stream') + Len(wire')
      /\ \A i \in 1 .. Len(stream') + Len(wire') :
            Line'[i] = IF i <= Len(stream') THEN stream'[i] ELSE wire'[i - Len(stream')]
  BY <1>2, <1>3, <1>4, ConcatProperties, ZenonT(60) DEF Line
<1>6. /\ Len(Line) = Len(stream) + Len(wire)
      /\ \A i \in 1 .. Len(stream) + Len(wire) :
            Line[i] = IF i <= Len(stream) THEN stream[i] ELSE wire[i - Len(stream)]
  BY <1>1, ConcatProperties DEF Line
<1>7. ASSUME NEW i \in 1 .. Len(Line') PROVE Line'[i] = Line[i]
  <2>1. i \in 1 .. Len(stream) + Len(wire) /\ i \in 1 .. Len(stream') + Len(wire')
    BY <1>2, <1>3, <1>4, <1>5
  <2>2. CASE i <= Len(stream)
    BY <1>3, <1>5, <1>6, <2>1, <2>2, SMTT(60)
  <2>3. CASE i = Len(stream) + 1
    BY <1>3, <1>5, <1>6, <2>1, <2>3
  <2>4. CASE i > Len(stream) + 1
    <3>1. Line'[i] = Tail(wire)[i - (Len(stream) + 1)]
      <4>1. ~(i <= Len(stream'))
        BY <1>3, <2>4
      <4>2. Line'[i] = wire'[i - Len(stream')]
        BY <1>5, <2>1, <4>1
      <4> QED
        BY <1>3, <1>4, <4>2
    <3>2. Line[i] = wire[i - Len(stream)]
      BY <1>3, <1>6, <2>1, <2>4
    <3>3. /\ i - (Len(stream) + 1) \in 1 .. Len(wire) - 1
          /\ (i - (Len(stream) + 1)) + 1 = i - Len(stream)
      BY <1>2, <1>3, <2>1, <2>4
    <3> QED
      BY <1>2, <3>1, <3>2, <3>3
  <2> QED
    BY <1>3, <2>1, <2>2, <2>3, <2>4
<1> QED
  BY <1>2, <1>3, <1>4, <1>5, <1>6, <1>7 DEF LineKept, StreamKept

\* A connection that ends keeps a beginning of the line.
LEMMA FlushLine ==
    ASSUME TypeOK, wire' = <<>>, NEW flushed \in 0 .. Len(wire),
           stream' = stream \o SubSeq(wire, 1, flushed)
    PROVE  LineKept /\ StreamKept
<1>1. stream \in Seq(Id) /\ wire \in Seq(Id) /\ Len(stream) \in Nat /\ Len(wire) \in Nat
  BY DEF TypeOK
<1> DEFINE flush == SubSeq(wire, 1, flushed)
<1>2. /\ flush \in Seq(Id) /\ Len(flush) = flushed
      /\ \A i \in 1 .. flushed : flush[i] = wire[i]
  BY <1>1
<1>3. /\ stream' \in Seq(Id) /\ Len(stream') = Len(stream) + flushed
      /\ \A i \in 1 .. Len(stream') :
            stream'[i] = IF i <= Len(stream) THEN stream[i] ELSE flush[i - Len(stream)]
  BY <1>1, <1>2, ConcatProperties
<1>4. Line' = stream'
  BY <1>3, ConcatEmptySeq DEF Line
<1>5. /\ Len(Line) = Len(stream) + Len(wire)
      /\ \A i \in 1 .. Len(stream) + Len(wire) :
            Line[i] = IF i <= Len(stream) THEN stream[i] ELSE wire[i - Len(stream)]
  BY <1>1, ConcatProperties DEF Line
<1>6. ASSUME NEW i \in 1 .. Len(stream') PROVE stream'[i] = Line[i]
  BY <1>1, <1>2, <1>3, <1>5
<1> QED
  BY <1>1, <1>3, <1>4, <1>5, <1>6 DEF LineKept, StreamKept

\* A step keeps the stream, and the line but for a publication.
LEMMA LineMoves ==
    ASSUME TypeOK, [Next]_vars
    PROVE  StreamKept /\ (LineKept \/ \E n \in Id : Publish(n))
<1>1. CASE Store
  BY <1>1, StoreLine
<1>2. CASE LoseWire \/ ExitServer \/ CrashServer
  <2>1. /\ wire' = <<>>
        /\ \E flushed \in 0 .. Len(wire) : stream' = stream \o SubSeq(wire, 1, flushed)
    <3>1. CASE LoseWire
      <4>1. stream \in Seq(Id) /\ wire \in Seq(Id) /\ 0 \in 0 .. Len(wire)
        BY DEF TypeOK
      <4>2. stream \o SubSeq(wire, 1, 0) = stream
        BY <4>1, SubSeqEmpty, ConcatEmptySeq
      <4>3. wire' = <<>> /\ stream' = stream \o SubSeq(wire, 1, 0)
        BY <3>1, <4>2 DEF LoseWire
      <4> QED
        BY <4>1, <4>3
    <3> QED
      BY <1>2, <3>1 DEF ExitServer, CrashServer
  <2> QED
    BY <2>1, FlushLine
<1>3. CASE \E n \in Id : Publish(n)
  BY <1>3, LineType DEF Publish, StreamKept
<1>4. CASE \/ ClientStep \/ StartServer \/ StopServer \/ GracefulStop \/ UNCHANGED vars
           \/ \E n \in Id : CallStep(n) /\ ~Publish(n)
  <2>1. UNCHANGED <<stream, wire>>
    BY <1>4 DEF ClientStep, GiveUp, Send, StartServer, StopServer, GracefulStop, vars,
       CallStep, Receive, ReceiveDebug, Arrive, Refuse, PublishReturns, PublishFails
  <2>2. Line' = Line
    BY <2>1 DEF Line
  <2> QED
    BY <2>1, <2>2, LineType DEF LineKept, StreamKept
<1> QED
  BY <1>1, <1>2, <1>3, <1>4, NextSteps DEF NatsStep, ServerStep, CallStep

-----------------------------------------------------------------------------
(* What a step does to a request *)

\* Requests stay as they are, and a new one has no answer yet.
LEMMA RequestsStable ==
    ASSUME TypeOK, [Next]_vars
    PROVE  /\ \A n \in Id : n \in Id' /\ sent'[n] = sent[n]
           /\ \A n \in Id' : n \in Id \/ answers'[n] = "none"
<1>1. CASE \E c \in Client, valid \in BOOLEAN : Send(c, valid)
  <2>1. PICK c \in Client, valid \in BOOLEAN : Send(c, valid)
    BY <1>1
  <2>2. /\ sent \in Seq(Request) /\ Len(sent) \in Nat
        /\ sent' = Append(sent, [client |-> c, valid |-> valid])
    BY <2>1 DEF Send, TypeOK
  <2>3. /\ Len(sent') = Len(sent) + 1
        /\ \A n \in 1 .. Len(sent) : sent'[n] = sent[n]
    BY <2>2
  <2>4. answers'[Len(sent) + 1] = "none"
    BY <2>1, AnswersSeq DEF Send
  <2>5. \A n \in 1 .. Len(sent) + 1 : n \in 1 .. Len(sent) \/ n = Len(sent) + 1
    BY <2>2
  <2> QED
    BY <2>2, <2>3, <2>4, <2>5 DEF Id
<1>2. CASE ~(\E c \in Client, valid \in BOOLEAN : Send(c, valid))
  <2>1. UNCHANGED sent
    BY <1>2 DEF Next, vars, GiveUp, Receive, ReceiveDebug, Arrive, Refuse, Publish,
       PublishReturns, PublishFails, Store, LoseWire, StartServer, StopServer,
       GracefulStop, ExitServer, CrashServer
  <2> QED
    BY <2>1 DEF Id
<1> QED
  BY <1>1, <1>2

\* Only an acknowledged publication, whose client still waits, is accepted.
LEMMA OnlyAckAccepts ==
    ASSUME TypeOK, [Next]_vars, NEW n \in Id, answers'[n] = "accepted"
    PROVE  \/ answers[n] = "accepted"
           \/ PublishReturns(n) /\ waiting[sent[n].client] = n
<1>1. answers \in [Id -> {"none", "accepted", "failed"}]
  BY DEF TypeOK
<1>2. CASE \E m \in Id : Refuse(m) \/ PublishFails(m)
  <2>1. PICK m \in Id : Answer(m, "failed")
    BY <1>2 DEF Refuse, PublishFails
  <2> QED
    BY <1>1, <2>1 DEF Answer
<1>3. CASE \E m \in Id : PublishReturns(m)
  <2>1. PICK m \in Id : PublishReturns(m)
    BY <1>3
  <2>2. Answer(m, "accepted")
    BY <2>1 DEF PublishReturns
  <2> QED
    BY <1>1, <2>1, <2>2 DEF Answer
<1>4. CASE \E c \in Client : GiveUp(c)
  BY <1>1, <1>4 DEF GiveUp
<1>5. CASE \E c \in Client, valid \in BOOLEAN : Send(c, valid)
  <2>1. answers' = Append(answers, "none") /\ n \in 1 .. Len(answers)
    BY <1>5, AnswersSeq DEF Send, Id
  <2>2. answers'[n] = answers[n]
    BY <2>1, AnswersSeq
  <2> QED
    BY <2>2
<1>6. CASE UNCHANGED answers
  BY <1>6
<1> QED
  BY <1>2, <1>3, <1>4, <1>5, <1>6 DEF Next, vars, Receive, ReceiveDebug, Arrive, Publish,
     Store, LoseWire, StartServer, StopServer, GracefulStop, ExitServer, CrashServer

\* A request waits for its handler, or is with it, but once.
LEMMA RequestMoves ==
    ASSUME TypeOK, underway \cap received = {}, [Next]_vars
    PROVE  /\ underway' \cap received' = {}
           /\ \A n \in Id : n \in underway' \cup received' => n \in underway \cup received
<1>1. CASE \E c \in Client, valid \in BOOLEAN : Send(c, valid)
  <2>1. /\ underway' = underway \cup {Len(sent) + 1} /\ UNCHANGED received
        /\ Len(sent) + 1 \notin Id
    BY <1>1 DEF Send, TypeOK, Id
  <2> QED
    BY <2>1 DEF TypeOK
<1>2. CASE \E n \in Id : CallStep(n)
  <2>1. PICK n \in Id : CallStep(n)
    BY <1>2
  <2>2. CASE Arrive(n)
    BY <2>2 DEF Arrive
  <2>3. CASE ~Arrive(n)
    <3>1. UNCHANGED underway /\ received' \subseteq received
      BY <2>1, <2>3 DEF CallStep, Receive, ReceiveDebug, Refuse, Publish, PublishReturns,
         PublishFails
    <3> QED
      BY <3>1
  <2> QED
    BY <2>2, <2>3
<1>3. CASE \/ \E c \in Client : GiveUp(c)
           \/ NatsStep \/ ServerStep \/ UNCHANGED vars
  <2>1. UNCHANGED underway /\ received' \subseteq received
    BY <1>3 DEF GiveUp, NatsStep, ServerStep, vars, Store, LoseWire, StartServer,
       StopServer, GracefulStop, ExitServer, CrashServer
  <2> QED
    BY <2>1
<1> QED
  BY <1>1, <1>2, <1>3, NextSteps DEF ClientStep

-----------------------------------------------------------------------------
(* The invariant *)

\* What is stored stays stored.
LEMMA StoredStays ==
    ASSUME TypeOK, [Next]_vars
    PROVE  Elements(stream) \subseteq Elements(stream')
<1>1. StreamKept /\ Len(stream) \in Nat /\ Len(stream') \in Nat
  <2>1. TypeOK'
    BY StepTypeOK
  <2> QED
    BY <2>1, LineMoves DEF TypeOK
<1> QED
  BY <1>1 DEF StreamKept, Elements

\* The acknowledgement is for the message that was just stored.
LEMMA StepAckInv == ASSUME TypeOK, AckInv, [Next]_vars PROVE AckInv'
<1>1. Elements(stream) \subseteq Elements(stream')
  BY StoredStays
<1>2. CASE Store
  <2>1. stream \in Seq(Id) /\ wire # <<>> /\ wire \in Seq(Id)
    BY <1>2 DEF Store, TypeOK
  <2>2. Head(wire) \in Elements(stream')
    <3>1. /\ Len(stream') = Len(stream) + 1 /\ stream'[Len(stream) + 1] = Head(wire)
          /\ Len(stream) \in Nat
      BY <1>2, <2>1 DEF Store
    <3>2. Len(stream) + 1 \in 1 .. Len(stream')
      BY <3>1
    <3> QED
      BY <3>1, <3>2 DEF Elements
  <2>3. acked' \subseteq acked \cup {Head(wire)}
    BY <1>2 DEF Store
  <2> QED
    BY <1>1, <2>2, <2>3 DEF AckInv
<1>3. CASE ~Store
  <2>1. acked' \subseteq acked
    BY <1>3 DEF Next, vars, GiveUp, Send, Receive, ReceiveDebug, Arrive, Refuse, Publish,
       PublishReturns, PublishFails, LoseWire, StartServer, StopServer,
       GracefulStop, ExitServer, CrashServer
  <2> QED
    BY <1>1, <2>1 DEF AckInv
<1> QED
  BY <1>2, <1>3

\* An answer is Accepted only over an acknowledgement.
LEMMA StepAcceptedIsStored ==
    ASSUME TypeOK, AckInv, AcceptedIsStored, [Next]_vars
    PROVE  AcceptedIsStored'
<1> SUFFICES ASSUME NEW n \in Id', answers'[n] = "accepted" PROVE n \in Elements(stream')
  BY DEF AcceptedIsStored, Elements
<1>1. n \in Id
  BY RequestsStable
<1>2. n \in Elements(stream)
  <2>1. CASE answers[n] = "accepted"
    BY <1>1, <2>1 DEF AcceptedIsStored
  <2>2. CASE PublishReturns(n)
    BY <2>2 DEF PublishReturns, AckInv
  <2> QED
    BY <1>1, <2>1, <2>2, OnlyAckAccepts
<1> QED
  BY <1>2, StoredStays

\* Only a handler that has the request puts it into the line.
LEMMA StepLineInv == ASSUME TypeOK, LineInv, [Next]_vars PROVE LineInv'
<1>1. /\ underway' \cap received' = {}
      /\ \A n \in Id : n \in underway' \cup received' => n \in underway \cup received
  BY RequestMoves DEF LineInv
<1>2. /\ Line \in Seq(Id) /\ Len(Line) \in Nat /\ Len(Line') \in Nat
      /\ \A n \in Id : sent'[n] = sent[n]
  <2>1. TypeOK'
    BY StepTypeOK
  <2>2. stream' \in Seq(Id') /\ wire' \in Seq(Id')
    BY <2>1 DEF TypeOK
  <2>3. Len(Line') \in Nat
    BY <2>2, ConcatProperties, LenProperties DEF Line
  <2>4. Line \in Seq(Id)
    BY LineType
  <2> QED
    BY <2>3, <2>4, RequestsStable, LenProperties
<1>3. CASE LineKept
  <2>1. \A i \in 1 .. Len(Line') : i \in 1 .. Len(Line) /\ Line'[i] = Line[i] /\ Line[i] \in Id
    BY <1>2, <1>3, ElementOfSeq DEF LineKept
  <2> QED
    BY <1>1, <1>2, <2>1 DEF LineInv
<1>4. ASSUME NEW n \in Id, Publish(n) PROVE LineInv'
  <2>1. /\ Len(Line') = Len(Line) + 1
        /\ \A i \in 1 .. Len(Line) : Line'[i] = Line[i] /\ Line[i] \in Id
        /\ Line'[Len(Line) + 1] = n
    BY <1>2, <1>4, LineGrows, ElementOfSeq
  <2>2. /\ n \in received /\ n \notin underway' \cup received'
        /\ sent[n].valid /\ UNCHANGED sent
    BY <1>4 DEF Publish, LineInv
  <2>3. \A i \in 1 .. Len(Line) : Line[i] # n
    BY <2>2 DEF LineInv
  <2>4. \A i \in 1 .. Len(Line') : i \in 1 .. Len(Line) \/ i = Len(Line) + 1
    BY <1>2, <2>1
  <2>5. \A i \in 1 .. Len(Line') : /\ Line'[i] \notin underway' \cup received'
                                   /\ sent'[Line'[i]].valid
    BY <1>1, <2>1, <2>2, <2>4 DEF LineInv
  <2>6. \A i, j \in 1 .. Len(Line') : Line'[i] = Line'[j] => i = j
    BY <2>1, <2>3, <2>4 DEF LineInv
  <2> QED
    BY <1>1, <2>5, <2>6 DEF LineInv
<1> QED
  BY <1>3, <1>4, LineMoves

\* A client sends only when it waits for nothing.
LEMMA StepClientInv == ASSUME TypeOK, ClientInv, [Next]_vars PROVE ClientInv'
<1> SUFFICES ASSUME NEW c \in Client, waiting'[c] # 0
             PROVE  /\ sent'[waiting'[c]].client = c
                    /\ \A n \in Id' : sent'[n].client = c => n <= waiting'[c]
  BY DEF ClientInv
<1>1. Len(sent) \in Nat
  BY DEF TypeOK
<1>2. CASE \E d \in Client, valid \in BOOLEAN : Send(d, valid)
  <2>1. PICK d \in Client, valid \in BOOLEAN : Send(d, valid)
    BY <1>2
  <2>2. /\ Len(sent') = Len(sent) + 1 /\ sent'[Len(sent) + 1].client = d
        /\ \A n \in Id : sent'[n] = sent[n]
        /\ Id = 1 .. Len(sent) /\ Id' = 1 .. Len(sent) + 1
    BY <2>1 DEF Send, TypeOK, Id
  <2>3. CASE c = d
    <3>1. waiting'[c] = Len(sent) + 1
      BY <2>1, <2>3 DEF Send, TypeOK
    <3> QED
      BY <1>1, <2>2, <2>3, <3>1
  <2>4. CASE c # d
    <3>1. waiting'[c] = waiting[c] /\ waiting[c] \in Id
      BY <2>1, <2>4 DEF Send, TypeOK
    <3>2. \A n \in Id' : n \in Id \/ n = Len(sent) + 1
      BY <1>1, <2>2
    <3> QED
      BY <2>2, <2>4, <3>1, <3>2 DEF ClientInv
  <2> QED
    BY <2>3, <2>4
<1>3. CASE ~(\E d \in Client, valid \in BOOLEAN : Send(d, valid))
  <2>1. UNCHANGED sent /\ Id' = Id
    BY <1>3 DEF Next, vars, GiveUp, Receive, ReceiveDebug, Arrive, Refuse, Publish,
       PublishReturns, PublishFails, Store, LoseWire, StartServer, StopServer,
       GracefulStop, ExitServer, CrashServer, Id
  <2>2. \/ UNCHANGED waiting
        \/ \E d : waiting' = [waiting EXCEPT ![d] = 0]
    BY <1>3 DEF Next, vars, GiveUp, Receive, ReceiveDebug, Arrive, Refuse, Publish,
       PublishReturns, PublishFails, Answer, Store, LoseWire, StartServer, StopServer,
       GracefulStop, ExitServer, CrashServer
  <2>3. waiting'[c] = waiting[c]
    BY <2>2 DEF TypeOK
  <2> QED
    BY <2>1, <2>3 DEF ClientInv
<1> QED
  BY <1>2, <1>3

\* When a request is accepted, no newer one of its client exists; when one joins
\* the line, those that were accepted are in it already.
LEMMA StepOrderInv == ASSUME IInv, [Next]_vars PROVE OrderInv'
<1> SUFFICES ASSUME NEW i \in 1 .. Len(Line'), NEW j \in 1 .. Len(Line'),
                    Line'[i] < Line'[j],
                    sent'[Line'[i]].client = sent'[Line'[j]].client,
                    answers'[Line'[i]] = "accepted"
             PROVE  i < j
  BY DEF OrderInv
<1>1. /\ TypeOK /\ AcceptedIsStored /\ LineInv /\ ClientInv /\ OrderInv
      /\ Line \in Seq(Id) /\ Len(Line) \in Nat
      /\ \A n \in Id : sent'[n] = sent[n]
      /\ \A k \in 1 .. Len(Line) : Line[k] \in Id
  BY LineType, RequestsStable, LenProperties, ElementOfSeq DEF IInv
<1>2. CASE LineKept
  <2>1. /\ i \in 1 .. Len(Line) /\ Line'[i] = Line[i] /\ Line[i] \in Id
        /\ j \in 1 .. Len(Line) /\ Line'[j] = Line[j] /\ Line[j] \in Id
    <3>1. Len(Line') \in Nat /\ Len(Line') <= Len(Line)
      <4>1. stream' \in Seq(Id') /\ wire' \in Seq(Id')
        BY <1>1, StepTypeOK DEF TypeOK
      <4> QED
        BY <1>2, <4>1, ConcatProperties, LenProperties DEF Line, LineKept
    <3> QED
      BY <1>1, <1>2, <3>1 DEF LineKept
  <2>2. sent[Line[i]].client = sent[Line[j]].client
    BY <1>1, <2>1
  <2>3. CASE answers[Line[i]] = "accepted"
    BY <1>1, <2>1, <2>2, <2>3 DEF OrderInv
  <2>4. CASE waiting[sent[Line[i]].client] = Line[i]
    <3>1. sent[Line[i]].client \in Client /\ Line[i] # 0
      <4>1. Line[i] \in 1 .. Len(sent) /\ sent \in Seq(Request)
        BY <1>1, <2>1 DEF TypeOK, Id
      <4>2. sent[Line[i]] \in Request
        BY <4>1
      <4> QED
        BY <4>1, <4>2 DEF Request
    <3>2. Line[j] <= Line[i]
      BY <1>1, <2>1, <2>2, <2>4, <3>1 DEF ClientInv
    <3> QED
      BY <2>1, <3>2 DEF Id
  <2> QED
    BY <1>1, <2>1, <2>3, <2>4, OnlyAckAccepts
<1>3. ASSUME NEW n \in Id, Publish(n) PROVE i < j
  <2>1. /\ Len(Line') = Len(Line) + 1
        /\ \A k \in 1 .. Len(Line) : Line'[k] = Line[k]
        /\ Line'[Len(Line) + 1] = n
        /\ \A k \in 1 .. Len(Line') : k \in 1 .. Len(Line) \/ k = Len(Line) + 1
    BY <1>1, <1>3, LineGrows
  <2>2. UNCHANGED <<sent, answers>> /\ n \in received
    BY <1>3 DEF Publish
  <2>3. i \in 1 .. Len(Line)
    <3>1. CASE i = Len(Line) + 1
      <4>1. n \in Elements(stream)
        BY <1>1, <2>1, <2>2, <3>1 DEF AcceptedIsStored
      <4>2. PICK k \in 1 .. Len(stream) : stream[k] = n
        BY <4>1 DEF Elements
      <4>3. k \in 1 .. Len(Line) /\ Line[k] = n
        BY <1>1, <4>2, LineType
      <4> QED
        BY <1>1, <2>2, <4>3 DEF LineInv
    <3> QED
      BY <2>1, <3>1
  <2>4. CASE j = Len(Line) + 1
    BY <1>1, <2>3, <2>4
  <2>5. CASE j \in 1 .. Len(Line)
    BY <1>1, <2>1, <2>2, <2>3, <2>5 DEF OrderInv
  <2> QED
    BY <2>1, <2>4, <2>5
<1> QED
  BY <1>1, <1>2, <1>3, LineMoves

\* The invariant holds at the start.
LEMMA InitIInv == Init => IInv
<1> SUFFICES ASSUME Init PROVE IInv
  OBVIOUS
<1>1. Id = {} /\ Line = <<>> /\ Len(Line) = 0
  BY DEF Init, Id, Line
<1> QED
  BY <1>1, InitTypeOK DEF Init, IInv, AcceptedIsStored, LineInv, AckInv, ClientInv, OrderInv

\* The invariant holds in every reachable state.
LEMMA Invariance == Spec => []IInv
<1>1. IInv /\ [Next]_vars => IInv'
  BY StepTypeOK, StepAcceptedIsStored, StepLineInv, StepAckInv, StepClientInv,
     StepOrderInv DEF IInv
<1> QED
  BY <1>1, InitIInv, PTL DEF Spec

-----------------------------------------------------------------------------
(* Theorems *)

\* Every variable keeps its type.
THEOREM TypeCorrectness == Spec => []TypeOK
<1>1. IInv => TypeOK
  BY DEF IInv
<1> QED
  BY <1>1, Invariance, PTL

\* RecordMetric answers Accepted only for what the stream holds, whatever is lost,
\* timed out or killed, and however many clients and calls there are.
THEOREM AcceptedMeansStored == Spec => []AcceptedIsStored
<1>1. IInv => AcceptedIsStored
  BY DEF IInv
<1> QED
  BY <1>1, Invariance, PTL

\* No metric is stored twice, and none without a source and a name.
THEOREM AtMostOnce == Spec => []StoredOnce
<1>1. IInv => StoredOnce
  <2> SUFFICES ASSUME IInv PROVE StoredOnce
    OBVIOUS
  <2>1. /\ LineInv
        /\ \A i \in 1 .. Len(stream) : i \in 1 .. Len(Line) /\ Line[i] = stream[i]
    BY LineType DEF IInv
  <2> QED
    BY <2>1 DEF LineInv, StoredOnce, Elements
<1> QED
  BY <1>1, Invariance, PTL

\* The order in which a client got its metrics accepted is that of the stream.
THEOREM ClientOrder == Spec => []AcceptedKeepsOrder
<1>1. IInv => AcceptedKeepsOrder
  <2> SUFFICES ASSUME IInv, NEW m \in Elements(stream), NEW n \in Elements(stream),
                      m < n, sent[m].client = sent[n].client, answers[m] = "accepted"
               PROVE  Position(m) < Position(n)
    BY DEF AcceptedKeepsOrder
  <2>1. /\ OrderInv
        /\ \A i \in 1 .. Len(stream) : i \in 1 .. Len(Line) /\ Line[i] = stream[i]
    BY LineType DEF IInv
  <2>2. /\ Position(m) \in 1 .. Len(stream) /\ stream[Position(m)] = m
        /\ Position(n) \in 1 .. Len(stream) /\ stream[Position(n)] = n
    BY DEF Elements, Position
  <2> QED
    BY <2>1, <2>2 DEF OrderInv
<1> QED
  BY <1>1, Invariance, PTL
=============================================================================
