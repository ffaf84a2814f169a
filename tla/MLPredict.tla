------------------------------ MODULE MLPredict ------------------------------
(***************************************************************************)
(* ml-predict-service: the consumer of METRICS_RECORDED that judges each   *)
(* metric with two models and publishes degradation.predicted.             *)
(*                                                                         *)
(*   main.py         run: the loop over the messages, signals              *)
(*   nats_client.py  subscribe, publish_prediction, close                  *)
(*   predictor.py    predict                                               *)
(*                                                                         *)
(* asyncio hands the loop one message at a time; the handling is split at  *)
(* its awaits.  What the models say of a metric depends on its value only. *)
(* No service makes a stream with the subject degradation.predicted, and   *)
(* js.publish waits for a stream to acknowledge: whether an operator made  *)
(* one decides if it can succeed.  nats-py leaves the durable in place.    *)
(***************************************************************************)
EXTENDS DurableConsumer

CONSTANT MaxFaults  \* bound: failed or lost calls, crashes and shutdowns

\* A number for "value"; an object without one; no JSON; neither of these:
\* JSON without get(), bytes that do not decode, a number the models refuse.
Shape == {"metric", "unusable", "garbled", "foreign"}

ASSUME MLAssumption ==
    /\ Payload \subseteq [shape : Shape, degraded : BOOLEAN]
    /\ MaxFaults \in Nat

VARIABLES
    proc,         \* the process: down or running
    pc,           \* where the loop is
    msg,          \* the stream sequence it works on, 0 when it waits
    predictions,  \* the metrics that the stored predictions are about
    hasStream,    \* some stream has the subject degradation.predicted
    faults        \* failures so far

vars == <<stream, exists, owned, cursor, pending, inbox,
          proc, pc, msg, predictions, hasStream, faults>>

Pc == {"idle", "predict", "publish", "ack", "discard", "nak"}

TypeOK ==
    /\ JsTypeOK
    /\ proc \in {"down", "running"}
    /\ pc \in Pc
    /\ msg \in 0 .. Len(stream)
    /\ pc # "idle" => msg # 0 /\ proc = "running"
    /\ predictions \in Seq(1 .. Len(stream))
    /\ hasStream \in BOOLEAN
    /\ faults \in 0 .. MaxFaults

Init ==
    /\ JsInit
    /\ proc = "down"
    /\ pc = "idle"
    /\ msg = 0
    /\ predictions = <<>>
    /\ hasStream \in BOOLEAN
    /\ faults = 0

Fault == faults < MaxFaults /\ faults' = faults + 1

Idle == pc' = "idle" /\ msg' = 0

-----------------------------------------------------------------------------
(* The loop of run *)

AfterDecoding(p) ==
    CASE p.shape = "metric"   -> "predict"
      [] p.shape = "unusable" -> "ack"
      [] p.shape = "garbled"  -> "discard"
      [] p.shape = "foreign"  -> "nak"

\* The loop takes the next copy and decodes it.
NextMessage ==
    /\ proc = "running"
    /\ pc = "idle"
    /\ inbox # <<>>
    /\ msg' = Head(inbox)
    /\ inbox' = Tail(inbox)
    /\ pc' = AfterDecoding(stream[Head(inbox)])
    /\ UNCHANGED <<stream, exists, owned, cursor, pending, proc, predictions,
                   hasStream, faults>>

\* predict: one of the models objects, or none does, or the inference fails.
Predict ==
    /\ pc = "predict"
    /\ \/ pc' = (IF stream[msg].degraded THEN "publish" ELSE "ack") /\ UNCHANGED faults
       \/ pc' = "nak" /\ Fault
    /\ UNCHANGED <<jsVars, proc, msg, predictions, hasStream>>

\* Mutant: an error of the publication does not reach the loop.
PublishPredictionUnchecked ==
    /\ pc = "publish"
    /\ \/ predictions' = Append(predictions, msg) /\ hasStream /\ UNCHANGED faults
       \/ ~hasStream /\ UNCHANGED <<predictions, faults>>
       \/ predictions' = predictions /\ hasStream /\ Fault
    /\ pc' = "ack"
    /\ UNCHANGED <<jsVars, proc, msg, hasStream>>

\* js.publish raises when no stream answers, and when the answer is late or
\* lost, although the prediction may have been stored.
PublishPrediction ==
    /\ pc = "publish"
    /\ \/ /\ hasStream
          /\ predictions' = Append(predictions, msg)
          /\ pc' = "ack"
          /\ UNCHANGED faults
       \/ /\ hasStream
          /\ Fault
          /\ predictions' \in {predictions, Append(predictions, msg)}
          /\ pc' = "nak"
       \/ /\ ~hasStream
          /\ pc' = "nak"
          /\ UNCHANGED <<predictions, faults>>
    /\ UNCHANGED <<jsVars, proc, msg, hasStream>>

\* The reply of message.ack arrives, or is lost on its way.
AckSent ==
    /\ Idle
    /\ \/ Settle(msg) /\ UNCHANGED faults
       \/ UNCHANGED pending /\ Fault

\* message.ack inside the try block: an error of it leads to message.nak.
Ack ==
    /\ pc = "ack"
    /\ \/ AckSent
       \/ pc' = "nak" /\ UNCHANGED <<msg, pending>> /\ Fault
    /\ UNCHANGED <<stream, exists, owned, cursor, inbox, proc, predictions, hasStream>>

\* Mutant: a payload that is no JSON is left without an answer.
DiscardNot ==
    /\ pc = "discard"
    /\ Idle
    /\ UNCHANGED <<jsVars, proc, predictions, hasStream, faults>>

\* message.ack in the handler of JSONDecodeError.
Discard ==
    /\ pc = "discard"
    /\ AckSent
    /\ UNCHANGED <<stream, exists, owned, cursor, inbox, proc, predictions, hasStream>>

\* message.nak: at most an earlier PushAgain.
Nak ==
    /\ pc = "nak"
    /\ Idle
    /\ UNCHANGED <<jsVars, proc, predictions, hasStream, faults>>

LoopStep == NextMessage \/ Predict \/ PublishPrediction \/ Ack \/ Discard \/ Nak

-----------------------------------------------------------------------------
(* The process *)

\* The models load, and subscribe creates or resumes the durable.
Start ==
    /\ proc = "down"
    /\ proc' = "running"
    /\ Subscribe
    /\ UNCHANGED <<pc, msg, predictions, hasStream, faults>>

\* Mutant: the task outlives its connection.
StopKeepingTask ==
    /\ proc = "running"
    /\ Fault
    /\ proc' = "down"
    /\ owned' = FALSE
    /\ LoseInbox
    /\ UNCHANGED <<stream, exists, cursor, pending, pc, msg, predictions, hasStream>>

\* A signal cancels the task at whatever it awaits: no reply, and the connection
\* is closed.  The same if the process is killed, or a reply outside the try
\* block raises.  A prediction under way may still be stored.
Stop ==
    /\ proc = "running"
    /\ Fault
    /\ proc' = "down"
    /\ Idle
    /\ predictions' \in IF pc = "publish" /\ hasStream
                        THEN {predictions, Append(predictions, msg)}
                        ELSE {predictions}
    /\ owned' = FALSE
    /\ LoseInbox
    /\ UNCHANGED <<stream, exists, cursor, pending, hasStream>>

-----------------------------------------------------------------------------
(* The server, and the whole *)

ServerPublish ==
    /\ \E p \in Payload : Publish(p)
    /\ UNCHANGED <<proc, pc, msg, predictions, hasStream, faults>>

ServerPush ==
    /\ proc = "running"
    /\ Push
    /\ UNCHANGED <<proc, pc, msg, predictions, hasStream, faults>>

ServerPushAgain(n) ==
    /\ proc = "running"
    /\ PushAgain(n)
    /\ UNCHANGED <<proc, pc, msg, predictions, hasStream, faults>>

Next ==
    \/ NextMessage \/ Predict \/ PublishPrediction \/ Ack \/ Discard \/ Nak
    \/ Start \/ Stop
    \/ ServerPublish \/ ServerPush
    \/ \E n \in Sequence : ServerPushAgain(n)

Spec == Init /\ [][Next]_vars

\* The loop goes on.  The server pushes new messages in between redeliveries;
\* it never waits for room in the client, which only the bound MaxInbox makes it
\* do, hence the strong fairness.  Nothing restarts the process.
Fairness ==
    /\ WF_vars(LoopStep)
    /\ SF_vars(ServerPush)
    /\ \A n \in Sequence : SF_vars(ServerPushAgain(n))

FairSpec == Spec /\ Fairness

-----------------------------------------------------------------------------
(* Properties *)

Predicted(n) == \E i \in 1 .. Len(predictions) : predictions[i] = n

Degraded(p) == p.shape = "metric" /\ p.degraded

\* Acknowledged "only after successful processing" (main.py:63): a metric that
\* the models object to leaves the stream with its prediction stored, whatever
\* publication, reply or process failed, and only payloads without a usable
\* value leave it unjudged.
SettledIsPredicted ==
    \A n \in 1 .. Len(stream) :
        Settled(n) => /\ Degraded(stream[n]) => Predicted(n)
                      /\ stream[n].shape # "foreign"

\* The messages that no attempt can settle.
Stuck == {n \in 1 .. Len(stream) :
              \/ stream[n].shape = "foreign"
              \/ Degraded(stream[n]) /\ ~hasStream}

\* "Ack poison messages to avoid infinite loops" (main.py:68): messages that are
\* given back for ever do not keep the service from the others, as long as they
\* do not use up what the server lets it leave unacknowledged.
OthersAreSettled ==
    <>[](proc = "running") /\ [](Cardinality(Stuck) < MaxAckPending) =>
        \A n \in Sequence : [](n <= Len(stream) /\ n \notin Stuck => <>Settled(n))
=============================================================================
