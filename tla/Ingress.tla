------------------------------- MODULE Ingress -------------------------------
(***************************************************************************)
(* The way of a metric into the stream METRICS_RECORDED.                   *)
(*                                                                         *)
(*   metrics-feeder main.go          a client: one call at a time, 2s, no  *)
(*                                   retry                                 *)
(*   metrics-service server.go,      RecordMetric: validate, publish with  *)
(*     record_metric.go,               5s, answer                          *)
(*     natsjs/publisher.go                                                 *)
(*   metrics-service run.go          start, the debug endpoint,            *)
(*                                   GracefulStop, Shutdown, exit          *)
(*                                                                         *)
(* A request is known by its number.  Each call has a goroutine in the     *)
(* server; all share one NATS connection, on which what they publish keeps *)
(* its order.                                                              *)
(***************************************************************************)
EXTENDS Naturals, Sequences, FiniteSets

CONSTANTS
    Client,       \* the feeder, and who else calls the service
    DebugClient,  \* those that use POST /v1/debug/recordMetric
    MaxRequests,  \* bound: requests of all clients
    MaxFaults     \* bound: broken connections, lost acknowledgements, crashes

ASSUME IngressAssumption ==
    /\ DebugClient \subseteq Client
    /\ MaxRequests \in Nat
    /\ MaxFaults \in Nat

VARIABLES
    sent,        \* the requests so far: their client, and whether they have a
                 \* source and a metric name
    waiting,     \* the request that each client waits for, or 0
    answers,     \* what the clients learned of their requests
    underway,    \* requests that did not reach the server yet
    received,    \* server goroutines that have not published yet
    publishing,  \* server goroutines that wait for JetStream's acknowledgement
    server,      \* up; stopping, in GracefulStop; closing, in Shutdown; or down
    wire,        \* messages on the NATS connection, in order
    stream,      \* METRICS_RECORDED
    acked,       \* messages whose acknowledgement is on its way back
    faults

vars == <<sent, waiting, answers, underway, received, publishing, server, wire, stream,
          acked, faults>>

Id == 1 .. Len(sent)
Request == [client : Client, valid : BOOLEAN]

TypeOK ==
    /\ sent \in Seq(Request)
    /\ Len(sent) <= MaxRequests
    /\ waiting \in [Client -> Id \cup {0}]
    /\ answers \in [Id -> {"none", "accepted", "failed"}]
    /\ underway \subseteq Id
    /\ received \subseteq Id
    /\ publishing \subseteq Id
    /\ server \in {"up", "stopping", "closing", "down"}
    /\ wire \in Seq(Id)
    /\ stream \in Seq(Id)
    /\ acked \subseteq Id
    /\ faults \in 0 .. MaxFaults

Init ==
    /\ sent = <<>>
    /\ waiting = [c \in Client |-> 0]
    /\ answers = <<>>
    /\ underway = {}
    /\ received = {}
    /\ publishing = {}
    /\ server = "down"
    /\ wire = <<>>
    /\ stream = <<>>
    /\ acked = {}
    /\ faults = 0

Fault == faults < MaxFaults /\ faults' = faults + 1

Elements(seq) == {seq[i] : i \in 1 .. Len(seq)}

-----------------------------------------------------------------------------
(* Clients *)

\* The next tick of the feeder; the call goes out whatever became of the last.
Send(c, valid) ==
    /\ waiting[c] = 0
    /\ Len(sent) < MaxRequests
    /\ sent' = Append(sent, [client |-> c, valid |-> valid])
    /\ answers' = Append(answers, "none")
    /\ waiting' = [waiting EXCEPT ![c] = Len(sent) + 1]
    /\ underway' = underway \cup {Len(sent) + 1}
    /\ UNCHANGED <<received, publishing, server, wire, stream, acked, faults>>

\* The answer of the server reaches a client that still waits for it.
Answer(n, what) ==
    IF waiting[sent[n].client] = n
    THEN /\ answers' = [answers EXCEPT ![n] = what]
         /\ waiting' = [waiting EXCEPT ![sent[n].client] = 0]
    ELSE UNCHANGED <<answers, waiting>>

\* The 2s are over, or the server is not reachable: the feeder goes on.
GiveUp(c) ==
    /\ waiting[c] # 0
    /\ answers' = [answers EXCEPT ![waiting[c]] = "failed"]
    /\ waiting' = [waiting EXCEPT ![c] = 0]
    /\ UNCHANGED <<sent, underway, received, publishing, server, wire, stream, acked, faults>>

-----------------------------------------------------------------------------
(* RecordMetric *)

\* Mutant: the call is answered before the metric is published.
ReceiveAnswering(n) ==
    /\ server = "up"
    /\ n \in underway
    /\ underway' = underway \ {n}
    /\ received' = received \cup {n}
    /\ Answer(n, "accepted")
    /\ UNCHANGED <<sent, publishing, server, wire, stream, acked, faults>>

\* The handler gets the call, whose client may have given up.
Arrive(n) ==
    /\ n \in underway
    /\ underway' = underway \ {n}
    /\ received' = received \cup {n}
    /\ UNCHANGED <<sent, waiting, answers, publishing, server, wire, stream, acked,
                   faults>>

\* A gRPC server that stops takes no new calls.
Receive(n) == server = "up" /\ sent[n].client \notin DebugClient /\ Arrive(n)

\* The HTTP server goes on to take them while the gRPC server stops.
ReceiveDebug(n) ==
    server \in {"up", "stopping"} /\ sent[n].client \in DebugClient /\ Arrive(n)

\* NewMetricRecorded refuses an empty source or metric name.
Refuse(n) ==
    /\ n \in received
    /\ ~sent[n].valid
    /\ received' = received \ {n}
    /\ Answer(n, "failed")
    /\ UNCHANGED <<sent, underway, publishing, server, wire, stream, acked, faults>>

\* js.Publish writes the message and waits.
Publish(n) ==
    /\ n \in received
    /\ sent[n].valid
    /\ received' = received \ {n}
    /\ publishing' = publishing \cup {n}
    /\ wire' = Append(wire, n)
    /\ UNCHANGED <<sent, waiting, answers, underway, server, stream, acked, faults>>

\* Mutant: a core NATS publish, which nobody acknowledges.
PublishReturnsAtOnce(n) ==
    /\ n \in publishing
    /\ publishing' = publishing \ {n}
    /\ acked' = acked \ {n}
    /\ Answer(n, "accepted")
    /\ UNCHANGED <<sent, underway, received, server, wire, stream, faults>>

\* The acknowledgement arrives: Accepted: true.
PublishReturns(n) ==
    /\ n \in publishing \cap acked
    /\ publishing' = publishing \ {n}
    /\ acked' = acked \ {n}
    /\ Answer(n, "accepted")
    /\ UNCHANGED <<sent, underway, received, server, wire, stream, faults>>

\* Mutant: a publication that failed is tried again.
PublishRetried(n) ==
    /\ n \in publishing
    /\ Fault
    /\ wire' = Append(wire, n)
    /\ UNCHANGED <<sent, waiting, answers, underway, received, publishing, server, stream,
                   acked>>

\* Mutant: the publication has no timeout.
PublishNeverFails(n) == PublishReturns(n)

\* The 5s are over, or the context of a client that gave up: codes.Internal.
\* The message may be stored all the same.
PublishFails(n) ==
    /\ n \in publishing
    /\ publishing' = publishing \ {n}
    /\ acked' = acked \ {n}
    /\ Answer(n, "failed")
    /\ UNCHANGED <<sent, underway, received, server, wire, stream, faults>>

-----------------------------------------------------------------------------
(* NATS *)

\* JetStream stores the next message; its acknowledgement may be lost.
Store ==
    /\ wire # <<>>
    /\ wire' = Tail(wire)
    /\ stream' = Append(stream, Head(wire))
    /\ \/ /\ acked' = acked \cup ({Head(wire)} \cap publishing)
          /\ UNCHANGED faults
       \/ Fault /\ UNCHANGED acked
    /\ UNCHANGED <<sent, waiting, answers, underway, received, publishing, server>>

\* The connection breaks: what was under way is lost.
LoseWire ==
    /\ wire # <<>>
    /\ Fault
    /\ wire' = <<>>
    /\ acked' = {}
    /\ UNCHANGED <<sent, waiting, answers, underway, received, publishing, server, stream>>

-----------------------------------------------------------------------------
(* metrics-service *)

StartServer ==
    /\ server = "down"
    /\ server' = "up"
    /\ UNCHANGED <<sent, waiting, answers, underway, received, publishing, wire, stream, acked,
                   faults>>

\* SIGTERM, or a server that failed.
StopServer ==
    /\ server = "up"
    /\ Fault
    /\ server' = "stopping"
    /\ UNCHANGED <<sent, waiting, answers, underway, received, publishing, wire, stream, acked>>

\* GracefulStop waits for the gRPC calls in work, and Shutdown begins.
GracefulStop ==
    /\ server = "stopping"
    /\ \A n \in received \cup publishing : sent[n].client \in DebugClient
    /\ server' = "closing"
    /\ UNCHANGED <<sent, waiting, answers, underway, received, publishing, wire, stream, acked,
                   faults>>

\* Shutdown waits for the HTTP calls in work, up to 10s, which is longer than a
\* publication can take.  The publisher is closed at last; what abandoned calls
\* left on the connection is flushed as far as it gets.
ExitServer ==
    /\ server = "closing"
    /\ received = {}
    /\ publishing = {}
    /\ server' = "down"
    /\ \E flushed \in 0 .. Len(wire) : stream' = stream \o SubSeq(wire, 1, flushed)
    /\ wire' = <<>>
    /\ UNCHANGED <<sent, waiting, answers, underway, received, publishing, acked, faults>>

CrashServer ==
    /\ server # "down"
    /\ Fault
    /\ server' = "down"
    /\ received' = {}
    /\ publishing' = {}
    /\ acked' = {}
    /\ \E flushed \in 0 .. Len(wire) : stream' = stream \o SubSeq(wire, 1, flushed)
    /\ wire' = <<>>
    /\ UNCHANGED <<sent, underway, waiting, answers>>

-----------------------------------------------------------------------------

Handler(n) == Refuse(n) \/ Publish(n) \/ PublishReturns(n) \/ PublishFails(n)

Next ==
    \/ \E c \in Client : GiveUp(c) \/ \E valid \in BOOLEAN : Send(c, valid)
    \/ \E n \in Id : \/ Receive(n) \/ ReceiveDebug(n) \/ Refuse(n)
                     \/ Publish(n) \/ PublishReturns(n) \/ PublishFails(n)
    \/ Store \/ LoseWire
    \/ StartServer \/ StopServer \/ GracefulStop \/ ExitServer \/ CrashServer

Spec == Init /\ [][Next]_vars

\* Calls end by their timeouts, goroutines run on, a server that was stopped
\* exits as soon as it may.
Fairness ==
    /\ \A c \in Client : WF_vars(GiveUp(c))
    /\ \A n \in 1 .. MaxRequests : WF_vars(n \in Id /\ Handler(n))
    /\ WF_vars(Store)
    /\ WF_vars(GracefulStop)
    /\ WF_vars(ExitServer)

FairSpec == Spec /\ Fairness

-----------------------------------------------------------------------------
(* Properties *)

Position(n) == CHOOSE i \in 1 .. Len(stream) : stream[i] = n

\* Accepted means stored: RecordMetric answers Accepted only after JetStream
\* acknowledged, whatever is lost, timed out or killed.
AcceptedIsStored == \A n \in Id : answers[n] = "accepted" => n \in Elements(stream)

\* Nothing is stored twice, or without a source and a metric name: nobody
\* retries a call or a publication whose outcome is unknown.
StoredOnce ==
    /\ \A i, j \in 1 .. Len(stream) : stream[i] = stream[j] => i = j
    /\ \A n \in Elements(stream) : sent[n].valid

\* What a client sends after an Accepted is behind the accepted metric in the
\* stream, although every call has a goroutine of its own.
AcceptedKeepsOrder ==
    \A m, n \in Elements(stream) :
        /\ m < n
        /\ sent[m].client = sent[n].client
        /\ answers[m] = "accepted"
        => Position(m) < Position(n)

\* GracefulStop has no deadline, yet it ends, as every gRPC call in work ends by
\* the timeout of its publication, although HTTP calls go on to come in.
GracefulStopEnds == server = "stopping" ~> server = "down"

\* "Zero Data Loss" (README.MD:20): a metric that metrics-service took and
\* tried to publish gets into the stream.
NoMetricDropped ==
    \A n \in 1 .. MaxRequests : [](n \in publishing => <>(n \in Elements(stream)))
=============================================================================
