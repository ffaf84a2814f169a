--------------------------- MODULE MLPredictProofs ---------------------------
(***************************************************************************)
(* What ml-predict-service guarantees for every stream and every number of *)
(* failures.  SettledIsPredicted is about messages that are done with;     *)
(* ReplyInv adds what is known of the message in work, at each place of    *)
(* the loop, so that the reply keeps it.                                   *)
(***************************************************************************)
EXTENDS MLPredict, DurableConsumerProofs

\* What the reply to come rests on.
ReplyInv ==
    /\ pc \in {"predict", "publish"} => stream[msg].shape = "metric"
    /\ pc = "ack" => stream[msg].shape \in {"metric", "unusable"}
    /\ pc = "ack" /\ Degraded(stream[msg]) => Predicted(msg)
    /\ pc = "discard" => stream[msg].shape = "garbled"

IInv == TypeOK /\ SettledIsPredicted /\ ReplyInv

\* The disjuncts of Next, grouped by who takes them.
ProcessStep == Start \/ Stop
ServerStep == ServerPublish \/ ServerPush \/ \E n \in Sequence : ServerPushAgain(n)

-----------------------------------------------------------------------------
(* The types *)

\* One more prediction is about a message of the stream.
LEMMA OnePrediction ==
    ASSUME TypeOK, NEW n \in 1 .. Len(stream)
    PROVE  /\ Append(predictions, n) \in Seq(1 .. Len(stream))
           /\ \E i \in 1 .. Len(Append(predictions, n)) : Append(predictions, n)[i] = n
           /\ \A i \in 1 .. Len(predictions) :
                 /\ i \in 1 .. Len(Append(predictions, n))
                 /\ Append(predictions, n)[i] = predictions[i]
<1>1. predictions \in Seq(1 .. Len(stream)) /\ Len(predictions) \in Nat
  BY DEF TypeOK
<1>2. /\ Append(predictions, n) \in Seq(1 .. Len(stream))
      /\ Len(Append(predictions, n)) = Len(predictions) + 1
      /\ Append(predictions, n)[Len(predictions) + 1] = n
      /\ \A i \in 1 .. Len(predictions) : Append(predictions, n)[i] = predictions[i]
  BY <1>1
<1>3. Len(predictions) + 1 \in 1 .. Len(predictions) + 1
  BY <1>1
<1> QED
  BY <1>1, <1>2, <1>3

\* A failure is counted within the bound.
LEMMA FaultType ==
    faults \in 0 .. MaxFaults /\ (Fault \/ UNCHANGED faults) => faults' \in 0 .. MaxFaults
  BY MLAssumption DEF Fault

\* The types hold at the start.
LEMMA InitTypeOK == Init => TypeOK
<1> SUFFICES ASSUME Init PROVE TypeOK
  OBVIOUS
<1>1. JsTypeOK
  BY JsInitType DEF Init
<1>2. <<>> \in Seq(1 .. Len(stream)) /\ 0 \in 0 .. Len(stream) /\ 0 \in 0 .. MaxFaults
  BY <1>1, MLAssumption DEF JsTypeOK
<1> QED
  BY <1>1, <1>2 DEF Init, TypeOK, Pc

\* The loop keeps the types.
LEMMA LoopTypeOK == TypeOK /\ LoopStep => TypeOK'
<1> SUFFICES ASSUME TypeOK, LoopStep PROVE TypeOK'
  OBVIOUS
<1>1. JsTypeOK /\ Len(stream) \in Nat /\ faults \in 0 .. MaxFaults
  BY DEF TypeOK, JsTypeOK
<1>2. CASE NextMessage
  <2>1. JsTypeOK' /\ Head(inbox) \in 1 .. Len(stream)
    BY <1>1, <1>2, JsTake DEF NextMessage
  <2>2. stream[Head(inbox)] \in [shape : Shape, degraded : BOOLEAN]
    BY <1>1, <2>1, MLAssumption DEF JsTypeOK
  <2>3. AfterDecoding(stream[Head(inbox)]) \in Pc
    BY <2>2 DEF AfterDecoding, Shape, Pc
  <2> QED
    BY <1>2, <2>1, <2>3 DEF NextMessage, TypeOK
<1>3. CASE Predict
  BY <1>1, <1>3, JsUnchanged, FaultType DEF Predict, TypeOK, jsVars, Pc
<1>4. CASE PublishPrediction
  <2>1. msg \in 1 .. Len(stream)
    BY <1>1, <1>4 DEF PublishPrediction, TypeOK
  <2>2. /\ UNCHANGED <<stream, inbox>>
        /\ JsTypeOK'
        /\ faults' \in 0 .. MaxFaults
        /\ pc' \in Pc
        /\ UNCHANGED <<proc, msg, hasStream>>
    BY <1>1, <1>4, JsUnchanged, FaultType DEF PublishPrediction, jsVars, Pc
  <2>3. predictions' \in Seq(1 .. Len(stream))
    BY <1>4, <2>1, OnePrediction DEF PublishPrediction, TypeOK
  <2> QED
    BY <1>4, <2>1, <2>2, <2>3 DEF PublishPrediction, TypeOK
<1>5. CASE Ack \/ Discard
  <2>1. /\ Settle(msg) \/ UNCHANGED pending
        /\ UNCHANGED <<stream, exists, owned, cursor, inbox>>
        /\ Fault \/ UNCHANGED faults
        /\ UNCHANGED <<proc, predictions, hasStream>>
        /\ Idle \/ (pc' = "nak" /\ UNCHANGED msg)
    BY <1>5 DEF Ack, Discard, AckSent
  <2>2. JsTypeOK' /\ faults' \in 0 .. MaxFaults
    BY <1>1, <2>1, JsReply, FaultType
  <2>3. pc \in {"ack", "discard"}
    BY <1>5 DEF Ack, Discard
  <2> QED
    BY <1>1, <2>1, <2>2, <2>3 DEF Idle, TypeOK, Pc
<1>6. CASE Nak
  BY <1>1, <1>6, JsUnchanged DEF Nak, Idle, TypeOK, jsVars, Pc
<1> QED
  BY <1>2, <1>3, <1>4, <1>5, <1>6 DEF LoopStep

\* Starting and stopping keep the types.
LEMMA ProcessTypeOK == TypeOK /\ ProcessStep => TypeOK'
<1> SUFFICES ASSUME TypeOK, ProcessStep PROVE TypeOK'
  OBVIOUS
<1>1. JsTypeOK /\ Len(stream) \in Nat /\ faults \in 0 .. MaxFaults
  BY DEF TypeOK, JsTypeOK
<1>2. CASE Start
  <2>1. JsTypeOK' /\ UNCHANGED stream
    BY <1>1, <1>2, JsSubscribe DEF Start, Subscribe
  <2> QED
    BY <1>1, <1>2, <2>1 DEF Start, TypeOK
<1>3. CASE Stop
  <2>1. JsTypeOK' /\ faults' \in 0 .. MaxFaults
    BY <1>1, <1>3, JsLoseInbox, FaultType DEF Stop
  <2>2. predictions' \in Seq(1 .. Len(stream))
    BY <1>1, <1>3, OnePrediction DEF Stop, TypeOK
  <2> QED
    BY <1>1, <1>3, <2>1, <2>2 DEF Stop, Idle, TypeOK, Pc
<1> QED
  BY <1>2, <1>3 DEF ProcessStep

\* Publishing and pushing keep the types.
LEMMA ServerTypeOK == TypeOK /\ ServerStep => TypeOK'
<1> SUFFICES ASSUME TypeOK, ServerStep PROVE TypeOK'
  OBVIOUS
<1>1. JsTypeOK
  BY DEF TypeOK
<1>2. CASE ServerPublish
  <2>1. PICK p \in Payload : Publish(p)
    BY <1>2 DEF ServerPublish
  <2>2. JsTypeOK' /\ Len(stream') = Len(stream) + 1
    BY <1>1, <2>1, JsPublish
  <2>3. predictions' \in Seq(1 .. Len(stream'))
    <3>1. predictions' = predictions /\ predictions \in Seq(1 .. Len(stream))
      BY <1>2 DEF ServerPublish, TypeOK
    <3>2. \A i \in 1 .. Len(predictions) : predictions[i] \in 1 .. Len(stream')
      BY <1>1, <2>2, <3>1 DEF JsTypeOK
    <3> QED
      BY <3>1, <3>2
  <2> QED
    BY <1>1, <1>2, <2>2, <2>3 DEF ServerPublish, TypeOK, JsTypeOK
<1>3. CASE ServerPush
  BY <1>1, <1>3, JsPush DEF ServerPush, Push, TypeOK
<1>4. ASSUME NEW n \in Sequence, ServerPushAgain(n) PROVE TypeOK'
  BY <1>1, <1>4, JsPushAgain DEF ServerPushAgain, PushAgain, TypeOK
<1> QED
  BY <1>2, <1>3, <1>4 DEF ServerStep

\* Every step keeps the types.
LEMMA StepTypeOK == TypeOK /\ [Next]_vars => TypeOK'
<1>1. TypeOK /\ UNCHANGED vars => TypeOK'
  BY JsUnchanged DEF vars, jsVars, TypeOK
<1>2. Next <=> LoopStep \/ ProcessStep \/ ServerStep
  BY DEF Next, LoopStep, ProcessStep, ServerStep
<1> QED
  BY <1>1, <1>2, LoopTypeOK, ProcessTypeOK, ServerTypeOK

-----------------------------------------------------------------------------
(* The invariant *)

\* The stream keeps its messages, and no prediction is withdrawn.
LEMMA NothingForgotten ==
    ASSUME TypeOK, [Next]_vars, NEW n \in 1 .. Len(stream)
    PROVE  n \in 1 .. Len(stream') /\ stream'[n] = stream[n] /\ (Predicted(n) => Predicted(n)')
<1>1. JsTypeOK
  BY DEF TypeOK
<1>2. n \in 1 .. Len(stream') /\ stream'[n] = stream[n]
  <2>1. CASE ServerPublish
    <3>1. PICK p \in Payload : Publish(p)
      BY <2>1 DEF ServerPublish
    <3>2. /\ Len(stream') = Len(stream) + 1
          /\ stream'[n] = stream[n]
      BY <1>1, <3>1, JsPublish
    <3>3. Len(stream) \in Nat
      BY <1>1 DEF JsTypeOK
    <3> QED
      BY <3>2, <3>3
  <2>2. CASE ~ServerPublish
    BY <2>2 DEF Next, vars, jsVars, NextMessage, Predict, PublishPrediction, Ack, AckSent,
       Discard, Nak, Start, Subscribe, Stop, ServerPush, Push, ServerPushAgain, PushAgain
  <2> QED
    BY <2>1, <2>2
<1>3. Predicted(n) => Predicted(n)'
  <2>1. \/ UNCHANGED predictions
        \/ msg \in 1 .. Len(stream) /\ predictions' = Append(predictions, msg)
    BY <1>1 DEF Next, vars, NextMessage, Predict, PublishPrediction, Ack, Discard, Nak,
       Start, Stop, ServerPublish, ServerPush, ServerPushAgain, TypeOK, JsTypeOK
  <2>2. CASE predictions' = Append(predictions, msg) /\ msg \in 1 .. Len(stream)
    <3>1. \A i \in 1 .. Len(predictions) :
             i \in 1 .. Len(predictions') /\ predictions'[i] = predictions[i]
      BY <2>2, OnePrediction
    <3> QED
      BY <3>1 DEF Predicted
  <2> QED
    BY <2>1, <2>2 DEF Predicted
<1> QED
  BY <1>2, <1>3

\* Of all steps, only a reply settles a message, and ReplyInv says what is known
\* of it.
LEMMA StepSettledIsPredicted ==
    ASSUME IInv, [Next]_vars
    PROVE  SettledIsPredicted'
<1> SUFFICES ASSUME NEW n \in 1 .. Len(stream'), Settled(n)'
             PROVE  (Degraded(stream[n]) => Predicted(n))' /\ (stream[n].shape # "foreign")'
  BY DEF SettledIsPredicted
<1>1. TypeOK /\ TypeOK' /\ JsTypeOK /\ Len(stream) \in Nat /\ Len(stream') \in Nat
  BY StepTypeOK DEF IInv, TypeOK, JsTypeOK
<1>2. CASE Settled(n)
  <2>1. n \in 1 .. Len(stream)
    BY <1>1, <1>2, SettledOfStream
  <2>2. (Degraded(stream[n]) => Predicted(n)) /\ stream[n].shape # "foreign"
    BY <1>2, <2>1 DEF IInv, SettledIsPredicted
  <2> QED
    BY <1>1, <2>1, <2>2, NothingForgotten DEF Degraded
<1>3. CASE ~Settled(n)
  <2>1. Ack \/ Discard
    <3>1. CASE ~(Ack \/ Discard)
      <4>1. ServerKeeps
        BY <3>1 DEF ServerKeeps, Next, vars, jsVars, NextMessage, Predict,
           PublishPrediction, Nak, Start, Subscribe, Stop, ServerPublish, Publish,
           ServerPush, Push, ServerPushAgain, PushAgain
      <4> QED
        BY <1>1, <1>3, <4>1, NothingElseSettles
    <3> QED
      BY <3>1
  <2>2. n = msg
    <3>1. (Settle(msg) \/ UNCHANGED pending) /\ UNCHANGED cursor
      BY <2>1 DEF Ack, Discard, AckSent
    <3> QED
      BY <1>1, <1>3, <3>1, OneIsSettled
  <2>3. n \in 1 .. Len(stream)
    BY <1>1, <2>1, <2>2 DEF Ack, Discard, TypeOK
  <2>4. (Degraded(stream[n]) => Predicted(n)) /\ stream[n].shape # "foreign"
    BY <2>1, <2>2 DEF Ack, Discard, IInv, ReplyInv, Degraded
  <2> QED
    BY <1>1, <2>3, <2>4, NothingForgotten DEF Degraded
<1> QED
  BY <1>2, <1>3

\* The loop reaches a reply only over what makes it right.
LEMMA StepReplyInv ==
    ASSUME IInv, [Next]_vars
    PROVE  ReplyInv'
<1>1. TypeOK /\ JsTypeOK /\ ReplyInv /\ Len(stream) \in Nat
  BY DEF IInv, TypeOK, JsTypeOK
<1>2. CASE NextMessage
  <2>1. Head(inbox) \in 1 .. Len(stream)
    BY <1>1, <1>2, JsTake DEF NextMessage
  <2>2. stream[Head(inbox)] \in [shape : Shape, degraded : BOOLEAN]
    BY <1>1, <2>1, MLAssumption DEF JsTypeOK
  <2> QED
    BY <1>2, <2>2 DEF NextMessage, AfterDecoding, Shape, ReplyInv, Degraded
<1>3. CASE Predict
  BY <1>1, <1>3 DEF Predict, ReplyInv, Degraded, jsVars
<1>4. CASE PublishPrediction
  <2>1. msg \in 1 .. Len(stream)
    BY <1>1, <1>4 DEF PublishPrediction, TypeOK
  <2>2. CASE pc' = "ack"
    <3>1. predictions' = Append(predictions, msg) /\ UNCHANGED <<stream, msg>>
      BY <1>4, <2>2 DEF PublishPrediction, jsVars
    <3>2. Predicted(msg)'
      BY <2>1, <3>1, <1>1, OnePrediction DEF Predicted
    <3> QED
      BY <1>1, <1>4, <2>2, <3>1, <3>2 DEF PublishPrediction, ReplyInv
  <2>3. CASE pc' = "nak"
    BY <2>3 DEF ReplyInv
  <2> QED
    BY <1>4, <2>2, <2>3 DEF PublishPrediction
<1>5. CASE Ack \/ Discard \/ Nak \/ Stop
  <2>1. pc' \in {"idle", "nak"}
    BY <1>5 DEF Ack, AckSent, Discard, Nak, Stop, Idle
  <2> QED
    BY <2>1 DEF ReplyInv
<1>6. CASE Start \/ ServerStep \/ UNCHANGED vars
  <2>1. UNCHANGED <<pc, msg>> /\ (pc # "idle" => msg \in 1 .. Len(stream))
    BY <1>1, <1>6 DEF Start, ServerStep, ServerPublish, ServerPush, ServerPushAgain,
       vars, TypeOK
  <2>2. pc # "idle" => stream'[msg] = stream[msg] /\ (Predicted(msg) => Predicted(msg)')
    BY <1>1, <2>1, NothingForgotten
  <2> QED
    BY <1>1, <2>1, <2>2 DEF ReplyInv, Degraded
<1> QED
  BY <1>2, <1>3, <1>4, <1>5, <1>6 DEF Next, ServerStep

\* The invariant holds at the start.
LEMMA InitIInv == Init => IInv
<1> SUFFICES ASSUME Init PROVE IInv
  OBVIOUS
<1>1. Len(stream) = 0 /\ pc = "idle"
  BY DEF Init, JsInit
<1> QED
  BY <1>1, InitTypeOK DEF IInv, SettledIsPredicted, ReplyInv

\* The invariant holds in every reachable state.
LEMMA Invariance == Spec => []IInv
<1>1. IInv /\ [Next]_vars => IInv'
  BY StepTypeOK, StepSettledIsPredicted, StepReplyInv DEF IInv
<1> QED
  BY <1>1, InitIInv, PTL DEF Spec

-----------------------------------------------------------------------------
(* Theorems *)

\* Every variable keeps its type: in particular the loop works on a message
\* exactly while the process runs.
THEOREM TypeCorrectness == Spec => []TypeOK
<1>1. IInv => TypeOK
  BY DEF IInv
<1> QED
  BY <1>1, Invariance, PTL

\* No metric that the models object to leaves the stream without a stored
\* prediction, and no payload that the loop cannot read leaves it at all,
\* whatever fails or is killed, with a stream for the predictions or without.
THEOREM NothingUnjudged == Spec => []SettledIsPredicted
<1>1. IInv => SettledIsPredicted
  BY DEF IInv
<1> QED
  BY <1>1, Invariance, PTL
=============================================================================
