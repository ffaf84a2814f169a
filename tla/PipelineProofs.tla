---------------------------- MODULE PipelineProofs ----------------------------
(***************************************************************************)
(* What pattern-service guarantees, and what holds from the metric to the  *)
(* row, for every configuration of the detector, every workload and every  *)
(* number of failures.                                                     *)
(*                                                                         *)
(* The first part is about pattern-service on its own, whose specification *)
(* Pipeline extends: as in MLPredictProofs, ReplyInv adds what is known of *)
(* the message in work.  Nothing is used of the rule but that it gives a   *)
(* verdict.  Then come the calm runs: CalmInv says that the windows are    *)
(* the newest values of what was taken from the inbox, in stream order,    *)
(* and that the events are the expected ones so far.                       *)
(*                                                                         *)
(* The second part is about the pipeline.  Its inductive invariant is the  *)
(* invariants of both services: a step of one of them is, for the other, a *)
(* publication or nothing at all.                                          *)
(***************************************************************************)
EXTENDS Pipeline, DurableConsumerProofs, FiniteSetTheorems

-----------------------------------------------------------------------------
(* pattern-service: the invariant *)

\* What the publication and the reply to come rest on.
ReplyInv ==
    /\ pc # "idle" => msg \in 1 .. Len(stream)
    /\ pc = "publish" => /\ msg \in breaches /\ (Reported(msg) => msg \in again)
                         /\ ~Invalid(stream[msg]) /\ ~Malformed(stream[msg])
    /\ pc = "ack" => msg \in cleared \/ Reported(msg)
    /\ pc = "term" => Malformed(stream[msg])

IInv == TypeOK /\ SettledIsJudged /\ OnlyBreachesReported /\ ReplyInv

\* The disjuncts of Next, grouped by who takes them.
ProcessStep ==
    \/ Start \/ Stop \/ DrainDeletesDurable \/ CloseConnection \/ Exit \/ Crash
    \/ \E s \in Series : Cleanup(s)
ServerStep == ServerPublish \/ ServerPush \/ \E n \in Sequence : ServerPushAgain(n)

-----------------------------------------------------------------------------
(* Lemmas *)

\* A detector has room for at least one value, whatever its environment says.
LEMMA ConfigSize == Config.windowSize \in Nat \ {0}
<1> DEFINE c == Load(Environment)
<1>1. /\ DOMAIN Defaults = {"windowSize", "warmup", "thresholdK", "mode", "minMad", "minDelta"}
      /\ Defaults["windowSize"] = 50
  BY DEF Defaults
<1>2. c.windowSize \in Int
  <2>1. "windowSize" \in DOMAIN Environment => Environment["windowSize"] \in Int
    BY <1>1, PatternAssumption
  <2> QED
    BY <1>1, <2>1 DEF Load
<1>3. Config.windowSize = IF c.windowSize <= 0 THEN 50 ELSE c.windowSize
  BY DEF Config, NewMADDetector
<1> QED
  BY <1>2, <1>3

\* A window that takes a value is a window, and grows no further than its size.
LEMMA WindowAppendType ==
    ASSUME NEW held \in SlidingWindow, NEW v \in Value
    PROVE  WindowAppend(Config, held, v) \in SlidingWindow
<1>1. /\ held \in Seq(Value) /\ Len(held) \in Nat /\ Len(held) <= Config.windowSize
      /\ Config.windowSize \in Nat \ {0}
  BY ConfigSize DEF SlidingWindow
<1>2. /\ Append(held, v) \in Seq(Value)
      /\ Len(Append(held, v)) = Len(held) + 1
  BY <1>1
<1>3. Tail(Append(held, v)) \in Seq(Value) /\ Len(Tail(Append(held, v))) = Len(held)
  BY <1>1, <1>2
<1>4. CASE Len(Append(held, v)) <= Config.windowSize
  BY <1>2, <1>4 DEF WindowAppend, SlidingWindow
<1>5. CASE ~(Len(Append(held, v)) <= Config.windowSize)
  BY <1>1, <1>3, <1>5 DEF WindowAppend, SlidingWindow
<1> QED
  BY <1>4, <1>5

\* The empty window is one.
LEMMA EmptyWindow == <<>> \in SlidingWindow
<1>1. <<>> \in Seq(Value) /\ Len(<<>>) = 0
  OBVIOUS
<1> QED
  BY <1>1, ConfigSize DEF SlidingWindow

\* A message of the stream is of the type of the payloads.
LEMMA MessageType ==
    ASSUME JsTypeOK, NEW n \in 1 .. Len(stream)
    PROVE  stream[n].shape \in Shape /\ stream[n].series \in Series /\ stream[n].value \in Value
  BY PatternAssumption DEF JsTypeOK

\* One more event is about a message of the stream.
LEMMA OneEvent ==
    ASSUME TypeOK, NEW n \in 1 .. Len(stream), anomalies' = Append(anomalies, n)
    PROVE  /\ anomalies' \in Seq(1 .. Len(stream))
           /\ \A m : Reported(m)' <=> Reported(m) \/ m = n
<1>1. anomalies \in Seq(1 .. Len(stream)) /\ Len(anomalies) \in Nat
  BY DEF TypeOK
<1>2. /\ anomalies' \in Seq(1 .. Len(stream))
      /\ Len(anomalies') = Len(anomalies) + 1
      /\ anomalies'[Len(anomalies) + 1] = n
      /\ \A i \in 1 .. Len(anomalies) : anomalies'[i] = anomalies[i]
  BY <1>1
<1>3. \A i \in 1 .. Len(anomalies) + 1 : i \in 1 .. Len(anomalies) \/ i = Len(anomalies) + 1
  BY <1>1
<1>4. Len(anomalies) + 1 \in 1 .. Len(anomalies')
  BY <1>1, <1>2
<1>5. ASSUME NEW m PROVE Reported(m)' <=> Reported(m) \/ m = n
  <2>1. \A i \in 1 .. Len(anomalies) : i \in 1 .. Len(anomalies')
    BY <1>1, <1>2
  <2> QED
    BY <1>2, <1>3, <1>4, <2>1 DEF Reported
<1> QED
  BY <1>2, <1>5

\* A failure is counted within the bound, and is not calm.
LEMMA FaultType ==
    ASSUME faults \in 0 .. MaxFaults, calm \in BOOLEAN, Fault \/ UNCHANGED <<faults, calm>>
    PROVE  faults' \in 0 .. MaxFaults /\ calm' \in BOOLEAN
<1>1. faults' = faults \/ (faults < MaxFaults /\ faults' = faults + 1)
  BY DEF Fault
<1>2. calm' = FALSE \/ calm' = calm
  BY DEF Fault
<1>3. faults' \in 0 .. MaxFaults
  BY <1>1, PatternAssumption
<1> QED
  BY <1>2, <1>3

\* What a verdict does: the window, the histories, and where handleMessage goes on.
LEMMA Verdicts ==
    ASSUME TypeOK, HandleMessage
    PROVE  /\ msg' = Head(inbox)
           /\ windows' \in [Series -> SlidingWindow]
           /\ \/ /\ Malformed(stream[Head(inbox)])
                 /\ pc' = "term" /\ UNCHANGED <<breaches, again, cleared>>
              \/ /\ ~Malformed(stream[Head(inbox)])
                 /\ pc' = "ack" /\ cleared' = cleared \cup {Head(inbox)}
                 /\ UNCHANGED <<breaches, again>>
              \/ /\ ~Malformed(stream[Head(inbox)])
                 /\ pc' = (IF Invalid(stream[Head(inbox)]) THEN "nak" ELSE "publish")
                 /\ breaches' = breaches \cup {Head(inbox)}
                 /\ again' = again \cup ({Head(inbox)} \cap breaches)
                 /\ UNCHANGED cleared
<1> DEFINE n == Head(inbox)
           w == WindowWith(stream[n])
<1>1. CASE Malformed(stream[n])
  BY <1>1 DEF HandleMessage, TypeOK
<1>2. CASE ~Malformed(stream[n])
  <2>1. JsTypeOK /\ n \in 1 .. Len(stream)
    BY JsTake DEF HandleMessage, TypeOK
  <2>2. stream[n].series \in Series /\ w \in SlidingWindow
    BY <2>1, MessageType, WindowAppendType DEF WindowWith, TypeOK
  <2>3. Judge(n, w, IsAnomaly(w)) /\ msg' = n
    BY <1>2 DEF HandleMessage
  <2>4. windows' \in [Series -> SlidingWindow]
    BY <2>2, <2>3 DEF Judge, TypeOK
  <2>5. CASE IsAnomaly(w)
    BY <1>2, <2>3, <2>4, <2>5 DEF Judge, AfterVerdict
  <2>6. CASE ~IsAnomaly(w)
    BY <1>2, <2>3, <2>4, <2>6 DEF Judge, AfterVerdict
  <2> QED
    BY <2>5, <2>6
<1> QED
  BY <1>1, <1>2

-----------------------------------------------------------------------------
(* The types *)

\* The types hold at the start.
LEMMA InitTypeOK == Init => TypeOK
<1> SUFFICES ASSUME Init PROVE TypeOK
  OBVIOUS
<1>1. JsTypeOK
  BY JsInitType DEF Init
<1>2. <<>> \in Seq(1 .. Len(stream)) /\ 0 \in 0 .. Len(stream) /\ 0 \in 0 .. MaxFaults
  BY <1>1, PatternAssumption DEF JsTypeOK
<1>3. windows \in [Series -> SlidingWindow]
  BY EmptyWindow DEF Init, NoWindows
<1> QED
  BY <1>1, <1>2, <1>3 DEF Init, TypeOK, Pc, Proc

\* handleMessage keeps the types.
LEMMA HandlerTypeOK == TypeOK /\ ReplyInv /\ HandlerStep => TypeOK'
<1> SUFFICES ASSUME TypeOK, ReplyInv, HandlerStep PROVE TypeOK'
  OBVIOUS
<1>1. JsTypeOK /\ Len(stream) \in Nat /\ faults \in 0 .. MaxFaults /\ calm \in BOOLEAN
  BY DEF TypeOK, JsTypeOK
<1>2. CASE HandleMessage
  <2>1. JsTypeOK' /\ Head(inbox) \in 1 .. Len(stream)
    BY <1>1, <1>2, JsTake DEF HandleMessage
  <2>2. /\ pc' \in Pc /\ msg' \in 0 .. Len(stream)
        /\ windows' \in [Series -> SlidingWindow]
        /\ breaches' \subseteq 1 .. Len(stream)
        /\ again' \subseteq 1 .. Len(stream)
        /\ cleared' \subseteq 1 .. Len(stream)
    <3>1. /\ breaches \subseteq 1 .. Len(stream) /\ again \subseteq 1 .. Len(stream)
          /\ cleared \subseteq 1 .. Len(stream)
      BY DEF TypeOK
    <3>2. /\ windows' \in [Series -> SlidingWindow] /\ msg' = Head(inbox)
          /\ pc' \in {"term", "ack", "nak", "publish"}
          /\ breaches' \in {breaches, breaches \cup {Head(inbox)}}
          /\ again' \in {again, again \cup ({Head(inbox)} \cap breaches)}
          /\ cleared' \in {cleared, cleared \cup {Head(inbox)}}
      BY <1>2, Verdicts
    <3> QED
      BY <1>1, <2>1, <3>1, <3>2 DEF Pc
  <2> QED
    BY <1>2, <2>1, <2>2 DEF HandleMessage, TypeOK
<1>3. CASE PublishAnomalyDetected
  <2>1. msg \in 1 .. Len(stream)
    BY <1>3 DEF PublishAnomalyDetected, ReplyInv
  <2>2. /\ JsTypeOK' /\ UNCHANGED stream /\ pc' \in Pc
        /\ faults' \in 0 .. MaxFaults /\ calm' \in BOOLEAN
    BY <1>1, <1>3, JsUnchanged, FaultType DEF PublishAnomalyDetected, jsVars, Pc
  <2>3. anomalies' \in Seq(1 .. Len(stream))
    <3>1. anomalies' = anomalies \/ anomalies' = Append(anomalies, msg)
      BY <1>3 DEF PublishAnomalyDetected
    <3>2. anomalies \in Seq(1 .. Len(stream))
      BY DEF TypeOK
    <3> QED
      BY <2>1, <3>1, <3>2, OneEvent
  <2> QED
    BY <1>3, <2>2, <2>3 DEF PublishAnomalyDetected, TypeOK
<1>4. CASE AckOrTerm
  <2>1. JsTypeOK' /\ faults' \in 0 .. MaxFaults /\ calm' \in BOOLEAN
    BY <1>1, <1>4, JsReply, FaultType DEF AckOrTerm
  <2> QED
    BY <1>1, <1>4, <2>1 DEF AckOrTerm, TypeOK, Pc
<1>5. CASE Nak
  BY <1>1, <1>5, JsUnchanged DEF Nak, TypeOK, jsVars, Pc
<1> QED
  BY <1>2, <1>3, <1>4, <1>5 DEF HandlerStep

\* Starting, stopping, dying and evicting keep the types.
LEMMA ProcessTypeOK == TypeOK /\ ReplyInv /\ ProcessStep => TypeOK'
<1> SUFFICES ASSUME TypeOK, ReplyInv, ProcessStep PROVE TypeOK'
  OBVIOUS
<1>1. /\ JsTypeOK /\ Len(stream) \in Nat
      /\ faults \in 0 .. MaxFaults /\ calm \in BOOLEAN
      /\ windows \in [Series -> SlidingWindow]
  BY DEF TypeOK, JsTypeOK
<1>2. CASE Start
  <2>1. JsTypeOK' /\ UNCHANGED stream
    BY <1>1, <1>2, JsSubscribe DEF Start, Subscribe
  <2> QED
    BY <1>2, <2>1 DEF Start, TypeOK, Proc
<1>3. CASE Stop
  <2>1. JsTypeOK' /\ UNCHANGED stream /\ faults' \in 0 .. MaxFaults /\ calm' \in BOOLEAN
    BY <1>1, <1>3, JsUnchanged, FaultType DEF Stop, jsVars
  <2> QED
    BY <1>3, <2>1 DEF Stop, TypeOK, Proc
<1>4. CASE DrainDeletesDurable
  <2>1. JsTypeOK' /\ UNCHANGED stream
    BY <1>1, <1>4, JsDelete DEF DrainDeletesDurable, DeleteDurable
  <2> QED
    BY <1>4, <2>1 DEF DrainDeletesDurable, TypeOK
<1>5. CASE CloseConnection
  <2>1. JsTypeOK' /\ UNCHANGED stream
    BY <1>1, <1>5, JsLoseInbox DEF CloseConnection, JsTypeOK
  <2> QED
    BY <1>5, <2>1 DEF CloseConnection, TypeOK, Proc
<1>6. CASE Exit \/ Crash
  <2>1. ProcessGone /\ (Fault \/ UNCHANGED <<faults, calm>>)
    BY <1>6 DEF Exit, Crash
  <2>2. /\ JsTypeOK' /\ UNCHANGED <<stream, breaches, again, cleared>>
        /\ faults' \in 0 .. MaxFaults /\ calm' \in BOOLEAN
    BY <1>1, <2>1, JsLoseInbox, FaultType DEF ProcessGone
  <2>3. anomalies' \in Seq(1 .. Len(stream))
    BY <2>1, OneEvent DEF ProcessGone, ReplyInv, TypeOK
  <2>4. windows' \in [Series -> SlidingWindow]
    BY <2>1, EmptyWindow DEF ProcessGone, NoWindows
  <2>5. proc' \in Proc /\ pc' \in Pc /\ msg' \in 0 .. Len(stream)
    BY <1>1, <2>1 DEF ProcessGone, Proc, Pc
  <2> QED
    BY <2>2, <2>3, <2>4, <2>5 DEF TypeOK
<1>7. ASSUME NEW s \in Series, Cleanup(s) PROVE TypeOK'
  <2>1. JsTypeOK' /\ UNCHANGED stream /\ faults' \in 0 .. MaxFaults /\ calm' \in BOOLEAN
    BY <1>1, <1>7, JsUnchanged, FaultType DEF Cleanup, jsVars
  <2>2. windows' \in [Series -> SlidingWindow]
    BY <1>1, <1>7, EmptyWindow DEF Cleanup
  <2> QED
    BY <1>7, <2>1, <2>2 DEF Cleanup, TypeOK
<1> QED
  BY <1>2, <1>3, <1>4, <1>5, <1>6, <1>7 DEF ProcessStep

\* Publishing and pushing keep the types.
LEMMA ServerTypeOK == TypeOK /\ ServerStep => TypeOK'
<1> SUFFICES ASSUME TypeOK, ServerStep PROVE TypeOK'
  OBVIOUS
<1>1. JsTypeOK
  BY DEF TypeOK
<1>2. CASE ServerPublish
  <2>1. PICK p \in Payload : Publish(p)
    BY <1>2 DEF ServerPublish
  <2>2. JsTypeOK' /\ Len(stream') = Len(stream) + 1 /\ Len(stream) \in Nat
    BY <1>1, <2>1, JsPublish DEF JsTypeOK
  <2>3. anomalies' \in Seq(1 .. Len(stream'))
    <3>1. anomalies' = anomalies /\ anomalies \in Seq(1 .. Len(stream))
      BY <1>2 DEF ServerPublish, TypeOK
    <3>2. \A i \in 1 .. Len(anomalies) : anomalies[i] \in 1 .. Len(stream')
      BY <2>2, <3>1
    <3> QED
      BY <3>1, <3>2
  <2>4. /\ msg' \in 0 .. Len(stream')
        /\ breaches' \subseteq 1 .. Len(stream') /\ again' \subseteq 1 .. Len(stream')
        /\ cleared' \subseteq 1 .. Len(stream')
    BY <1>2, <2>2 DEF ServerPublish, TypeOK
  <2> QED
    BY <1>2, <2>2, <2>3, <2>4 DEF ServerPublish, TypeOK
<1>3. CASE ServerPush
  <2>1. JsTypeOK' /\ UNCHANGED stream
    BY <1>1, <1>3, JsPush DEF ServerPush, Push
  <2> QED
    BY <1>3, <2>1 DEF ServerPush, TypeOK
<1>4. ASSUME NEW n \in Sequence, ServerPushAgain(n) PROVE TypeOK'
  <2>1. JsTypeOK' /\ UNCHANGED stream
    BY <1>1, <1>4, JsPushAgain DEF ServerPushAgain, PushAgain
  <2> QED
    BY <1>4, <2>1 DEF ServerPushAgain, TypeOK
<1> QED
  BY <1>2, <1>3, <1>4 DEF ServerStep

\* Every step keeps the types.
LEMMA StepTypeOK == TypeOK /\ ReplyInv /\ [Next]_vars => TypeOK'
<1>1. TypeOK /\ UNCHANGED vars => TypeOK'
  BY JsUnchanged DEF vars, jsVars, TypeOK
<1>2. Next <=> HandlerStep \/ ProcessStep \/ ServerStep
  BY DEF Next, HandlerStep, ProcessStep, ServerStep
<1> QED
  BY <1>1, <1>2, HandlerTypeOK, ProcessTypeOK, ServerTypeOK

-----------------------------------------------------------------------------
(* The invariant *)

\* An event is published, if any, about the message in work.
LEMMA EventsGrow ==
    ASSUME ReplyInv, [Next]_vars
    PROVE  \/ UNCHANGED anomalies
           \/ msg \in 1 .. Len(stream) /\ anomalies' = Append(anomalies, msg)
  BY DEF ReplyInv, Next, vars, HandleMessage, PublishAnomalyDetected, AckOrTerm,
     Nak, Cleanup, Start, Stop, DrainDeletesDurable, CloseConnection, Exit, Crash,
     ProcessGone, ServerPublish, ServerPush, ServerPushAgain

\* The stream keeps its messages, events are never withdrawn, and verdicts are
\* not forgotten by the histories.
LEMMA NothingForgotten ==
    ASSUME TypeOK, ReplyInv, [Next]_vars, NEW n \in 1 .. Len(stream)
    PROVE  /\ n \in 1 .. Len(stream') /\ stream'[n] = stream[n]
           /\ Reported(n) => Reported(n)'
           /\ n \in breaches => n \in breaches'
           /\ n \in again => n \in again'
           /\ n \in cleared => n \in cleared'
<1>1. JsTypeOK
  BY DEF TypeOK
<1>2. n \in 1 .. Len(stream') /\ stream'[n] = stream[n]
  <2>1. CASE ServerPublish
    BY <1>1, <2>1, JsPublish DEF ServerPublish, JsTypeOK
  <2>2. CASE ~ServerPublish
    BY <2>2 DEF Next, vars, jsVars, HandleMessage, PublishAnomalyDetected, AckOrTerm,
       Nak, Cleanup, Start, Subscribe, Stop, DrainDeletesDurable, DeleteDurable,
       CloseConnection, Exit, Crash, ProcessGone, ServerPush, Push, ServerPushAgain,
       PushAgain
  <2> QED
    BY <2>1, <2>2
<1>3. Reported(n) => Reported(n)'
  <2>1. \/ UNCHANGED anomalies
        \/ msg \in 1 .. Len(stream) /\ anomalies' = Append(anomalies, msg)
    BY EventsGrow
  <2>2. CASE UNCHANGED anomalies
    BY <2>2 DEF Reported
  <2>3. CASE msg \in 1 .. Len(stream) /\ anomalies' = Append(anomalies, msg)
    BY <2>3, OneEvent
  <2> QED
    BY <2>1, <2>2, <2>3
<1>4. /\ n \in breaches => n \in breaches'
      /\ n \in again => n \in again'
      /\ n \in cleared => n \in cleared'
  <2>1. CASE HandleMessage
    BY <2>1, Verdicts
  <2>2. CASE ~HandleMessage
    BY <2>2 DEF Next, vars, PublishAnomalyDetected, AckOrTerm, Nak, Cleanup, Start,
       Stop, DrainDeletesDurable, CloseConnection, Exit, Crash, ProcessGone,
       ServerPublish, ServerPush, ServerPushAgain
  <2> QED
    BY <2>1, <2>2
<1> QED
  BY <1>2, <1>3, <1>4

\* Only an Ack or a Term settles a message, and ReplyInv says what is known of it.
LEMMA StepSettledIsJudged ==
    ASSUME IInv, [Next]_vars
    PROVE  SettledIsJudged'
<1> SUFFICES ASSUME NEW n \in 1 .. Len(stream'), Settled(n)'
             PROVE  Malformed(stream[n])' \/ (n \in cleared)' \/ Reported(n)'
  BY DEF SettledIsJudged
<1>1. /\ TypeOK /\ ReplyInv /\ TypeOK' /\ JsTypeOK
      /\ Len(stream) \in Nat /\ Len(stream') \in Nat
  <2>1. TypeOK /\ ReplyInv /\ TypeOK'
    BY StepTypeOK DEF IInv
  <2>2. JsTypeOK /\ JsTypeOK'
    BY <2>1 DEF TypeOK
  <2> QED
    BY <2>1, <2>2 DEF JsTypeOK
<1>2. CASE Settled(n)
  <2>1. n \in 1 .. Len(stream)
    BY <1>1, <1>2, SettledOfStream
  <2>2. Malformed(stream[n]) \/ n \in cleared \/ Reported(n)
    BY <1>2, <2>1 DEF IInv, SettledIsJudged
  <2> QED
    BY <1>1, <2>1, <2>2, NothingForgotten DEF Malformed
<1>3. CASE ~Settled(n)
  <2>1. AckOrTerm
    <3>1. CASE ~AckOrTerm
      <4>1. ServerKeeps
        BY <3>1 DEF ServerKeeps, Next, vars, jsVars, HandleMessage,
           PublishAnomalyDetected, Nak, Cleanup, Start, Subscribe, Stop,
           DrainDeletesDurable, DeleteDurable, CloseConnection, Exit, Crash,
           ProcessGone, ServerPublish, Publish, ServerPush, Push, ServerPushAgain,
           PushAgain
      <4> QED
        BY <1>1, <1>3, <4>1, NothingElseSettles
    <3> QED
      BY <3>1
  <2>2. n = msg
    <3>1. (Settle(msg) \/ UNCHANGED pending) /\ UNCHANGED cursor
      BY <2>1 DEF AckOrTerm
    <3> QED
      BY <1>1, <1>3, <3>1, OneIsSettled
  <2>3. /\ n \in 1 .. Len(stream)
        /\ Malformed(stream[n]) \/ n \in cleared \/ Reported(n)
    BY <1>1, <2>1, <2>2 DEF AckOrTerm, ReplyInv
  <2> QED
    BY <1>1, <2>3, NothingForgotten DEF Malformed
<1> QED
  BY <1>2, <1>3

\* An event is published only for the message in work, whose verdict ReplyInv
\* remembers; a process that dies may leave it to be stored.
LEMMA EventOfVerdict ==
    ASSUME IInv, [Next]_vars
    PROVE  \/ UNCHANGED anomalies
           \/ /\ anomalies' = Append(anomalies, msg) /\ msg \in 1 .. Len(stream)
              /\ msg \in breaches /\ ~Invalid(stream[msg]) /\ ~Malformed(stream[msg])
              /\ Reported(msg) => msg \in again
<1>1. \/ UNCHANGED anomalies
      \/ pc = "publish" /\ anomalies' = Append(anomalies, msg)
  BY DEF Next, vars, HandleMessage, PublishAnomalyDetected, AckOrTerm, Nak, Cleanup,
     Start, Stop, DrainDeletesDurable, CloseConnection, Exit, Crash, ProcessGone,
     ServerPublish, ServerPush, ServerPushAgain
<1> QED
  BY <1>1 DEF IInv, ReplyInv

\* What is reported was called an anomaly, and remains so.
LEMMA StepReportedAreBreaches ==
    ASSUME IInv, [Next]_vars, NEW n \in 1 .. Len(stream'), Reported(n)'
    PROVE  (n \in breaches /\ ~Invalid(stream[n]) /\ ~Malformed(stream[n]))'
<1>1. TypeOK /\ ReplyInv
  BY DEF IInv
<1>2. /\ n \in 1 .. Len(stream)
      /\ n \in breaches /\ ~Invalid(stream[n]) /\ ~Malformed(stream[n])
  <2>1. CASE Reported(n)
    <3>1. n \in 1 .. Len(stream)
      BY <1>1, <2>1 DEF Reported, TypeOK
    <3> QED
      BY <2>1, <3>1 DEF IInv, OnlyBreachesReported
  <2>2. CASE ~Reported(n)
    <3>1. ~UNCHANGED anomalies
      BY <2>2 DEF Reported
    <3>2. /\ anomalies' = Append(anomalies, msg) /\ msg \in 1 .. Len(stream)
          /\ msg \in breaches /\ ~Invalid(stream[msg]) /\ ~Malformed(stream[msg])
      BY <3>1, EventOfVerdict
    <3>3. n = msg
      BY <1>1, <2>2, <3>2, OneEvent
    <3> QED
      BY <3>2, <3>3
  <2> QED
    BY <2>1, <2>2
<1> QED
  BY <1>1, <1>2, NothingForgotten DEF Invalid, Malformed

\* A second event about a metric has a second verdict behind it.
LEMMA StepReportedAgain ==
    ASSUME IInv, [Next]_vars,
           NEW i \in 1 .. Len(anomalies'), NEW j \in 1 .. Len(anomalies'),
           anomalies'[i] = anomalies'[j], i # j
    PROVE  anomalies'[i] \in again'
<1>1. /\ TypeOK /\ ReplyInv
      /\ anomalies \in Seq(1 .. Len(stream)) /\ Len(anomalies) \in Nat
  BY DEF IInv, TypeOK
<1>2. anomalies'[i] \in again /\ anomalies'[i] \in 1 .. Len(stream)
  <2>1. CASE UNCHANGED anomalies
    BY <1>1, <2>1 DEF IInv, OnlyBreachesReported
  <2>2. CASE /\ anomalies' = Append(anomalies, msg) /\ msg \in 1 .. Len(stream)
             /\ Reported(msg) => msg \in again
    <3>1. /\ Len(anomalies') = Len(anomalies) + 1
          /\ anomalies'[Len(anomalies) + 1] = msg
          /\ \A k \in 1 .. Len(anomalies) : anomalies'[k] = anomalies[k]
      BY <1>1, <2>2
    <3>2. /\ i \in 1 .. Len(anomalies) \/ i = Len(anomalies) + 1
          /\ j \in 1 .. Len(anomalies) \/ j = Len(anomalies) + 1
      BY <1>1, <3>1
    <3>3. CASE i \in 1 .. Len(anomalies) /\ j \in 1 .. Len(anomalies)
      BY <1>1, <3>1, <3>3 DEF IInv, OnlyBreachesReported
    <3>4. CASE i = Len(anomalies) + 1 \/ j = Len(anomalies) + 1
      <4>1. Reported(msg) /\ anomalies'[i] = msg
        BY <3>1, <3>2, <3>4 DEF Reported
      <4> QED
        BY <2>2, <4>1
    <3> QED
      BY <3>2, <3>3, <3>4
  <2> QED
    BY <2>1, <2>2, EventOfVerdict
<1> QED
  BY <1>1, <1>2, NothingForgotten

\* Together: no event that no verdict of its own stands behind.
LEMMA StepOnlyBreachesReported ==
    ASSUME IInv, [Next]_vars
    PROVE  OnlyBreachesReported'
  BY StepReportedAreBreaches, StepReportedAgain DEF OnlyBreachesReported

\* handleMessage reaches a reply only over what makes it right.
LEMMA StepReplyInv ==
    ASSUME IInv, [Next]_vars
    PROVE  ReplyInv'
<1>1. TypeOK /\ JsTypeOK /\ ReplyInv
  BY DEF IInv, TypeOK
<1>2. CASE HandleMessage
  <2>1. Head(inbox) \in 1 .. Len(stream) /\ UNCHANGED <<stream, anomalies>>
    BY <1>1, <1>2, JsTake DEF HandleMessage
  <2>2. Reported(Head(inbox)) => Head(inbox) \in breaches
    BY <2>1 DEF IInv, OnlyBreachesReported
  <2>3. \A n : Reported(n)' <=> Reported(n)
    BY <2>1 DEF Reported
  <2> QED
    BY <1>1, <1>2, <2>1, <2>2, <2>3, Verdicts DEF ReplyInv, Malformed, Invalid
<1>3. CASE PublishAnomalyDetected
  <2>1. msg \in 1 .. Len(stream) /\ UNCHANGED <<stream, msg>>
    BY <1>1, <1>3 DEF PublishAnomalyDetected, ReplyInv, jsVars
  <2>2. CASE pc' = "ack"
    <3>1. anomalies' = Append(anomalies, msg)
      BY <1>3, <2>2 DEF PublishAnomalyDetected
    <3>2. Reported(msg)'
      BY <1>1, <2>1, <3>1, OneEvent DEF Reported
    <3> QED
      BY <2>1, <2>2, <3>2 DEF ReplyInv
  <2>3. CASE pc' = "nak"
    BY <2>1, <2>3 DEF ReplyInv
  <2> QED
    BY <1>3, <2>2, <2>3 DEF PublishAnomalyDetected
<1>4. CASE AckOrTerm \/ Nak \/ Exit \/ Crash
  <2>1. pc' = "idle"
    BY <1>4 DEF AckOrTerm, Nak, Exit, Crash, ProcessGone
  <2> QED
    BY <2>1 DEF ReplyInv
<1>5. CASE \/ Start \/ Stop \/ DrainDeletesDurable \/ CloseConnection
           \/ \E s \in Series : Cleanup(s)
           \/ ServerStep \/ UNCHANGED vars
  <2>1. UNCHANGED <<pc, msg, anomalies>>
    BY <1>5 DEF Start, Stop, DrainDeletesDurable, CloseConnection, Cleanup, ServerStep,
       ServerPublish, ServerPush, ServerPushAgain, vars
  <2>2. ASSUME pc # "idle", NEW n, n = msg
        PROVE  /\ n \in 1 .. Len(stream) /\ n \in 1 .. Len(stream') /\ stream'[n] = stream[n]
               /\ Reported(n) => Reported(n)'
               /\ pc = "publish" => (Reported(n)' => Reported(n))
               /\ n \in breaches => n \in breaches'
               /\ n \in again => n \in again'
               /\ n \in cleared => n \in cleared'
    <3>1. n \in 1 .. Len(stream)
      BY <1>1, <2>2 DEF ReplyInv
    <3>2. Reported(n)' <=> Reported(n)
      BY <2>1 DEF Reported
    <3> QED
      BY <1>1, <3>1, <3>2, NothingForgotten
  <2> QED
    BY <1>1, <2>1, <2>2 DEF ReplyInv, Reported, Malformed, Invalid
<1> QED
  BY <1>2, <1>3, <1>4, <1>5 DEF Next, ServerStep

\* The invariant holds at the start.
LEMMA InitIInv == Init => IInv
<1> SUFFICES ASSUME Init PROVE IInv
  OBVIOUS
<1>1. Len(stream) = 0 /\ Len(anomalies) = 0 /\ pc = "idle"
  BY DEF Init, JsInit
<1> QED
  BY <1>1, InitTypeOK DEF IInv, SettledIsJudged, OnlyBreachesReported, ReplyInv

\* Every step keeps the whole invariant.
LEMMA StepIInv == IInv /\ [Next]_vars => IInv'
  BY StepTypeOK, StepSettledIsJudged, StepOnlyBreachesReported, StepReplyInv DEF IInv

\* So do failures elsewhere that count towards the same bound.
LEMMA SurroundingsIInv ==
    ASSUME IInv, faults' \in 0 .. MaxFaults,
           UNCHANGED <<jsVars, proc, pc, msg, windows, anomalies, breaches, again, cleared, calm>>
    PROVE  IInv'
<1>1. TypeOK'
  BY JsUnchanged DEF IInv, TypeOK, jsVars
<1>2. SettledIsJudged' /\ OnlyBreachesReported' /\ ReplyInv'
  BY DEF IInv, SettledIsJudged, OnlyBreachesReported, ReplyInv, Settled, Reported,
     Malformed, Invalid, jsVars
<1> QED
  BY <1>1, <1>2 DEF IInv

\* The invariant holds in every reachable state.
LEMMA Invariance == Spec => []IInv
  BY InitIInv, StepIInv, PTL DEF Spec

-----------------------------------------------------------------------------
(* Theorems *)

\* Every variable keeps its type: in particular each window holds values only,
\* and each event is about a message of the stream.
THEOREM TypeCorrectness == Spec => []TypeOK
<1>1. IInv => TypeOK
  BY DEF IInv
<1> QED
  BY <1>1, Invariance, PTL

\* No metric leaves METRICS_RECORDED unjudged, whatever publication, reply or
\* process fails.
THEOREM NothingUnjudged == Spec => []SettledIsJudged
<1>1. IInv => SettledIsJudged
  BY DEF IInv
<1> QED
  BY <1>1, Invariance, PTL

\* No event is published that no verdict stands behind, not even by a process
\* that dies in the middle of the publication; and two events of a metric are
\* of two verdicts, whatever is retried.
THEOREM NoFalseEvent == Spec => []OnlyBreachesReported
<1>1. IInv => OnlyBreachesReported
  BY DEF IInv
<1> QED
  BY <1>1, Invariance, PTL

-----------------------------------------------------------------------------
(* Calm runs: the windows *)

\* The metrics of a series up to the n-th are finitely many.
LEMMA PlacesFinite ==
    ASSUME NEW s, NEW n \in Nat
    PROVE  /\ Places(s, n) \subseteq 1 .. n
           /\ IsFiniteSet(Places(s, n)) /\ Cardinality(Places(s, n)) \in Nat
           /\ \A P \in SUBSET Places(s, n) : IsFiniteSet(P) /\ Cardinality(P) \in Nat
<1>1. IsFiniteSet(1 .. n) /\ Places(s, n) \subseteq 1 .. n
  BY FS_Interval DEF Places
<1> QED
  BY <1>1, FS_Subset, FS_CardinalityType

\* The next metric is a further place of its series, and of no other.
LEMMA PlacesNext ==
    ASSUME NEW s, NEW n \in Nat
    PROVE  Places(s, n + 1) =
              IF stream[n + 1].series = s /\ ~Malformed(stream[n + 1])
              THEN Places(s, n) \cup {n + 1} ELSE Places(s, n)
<1>1. 1 .. n + 1 = (1 .. n) \cup {n + 1}
  OBVIOUS
<1> QED
  BY <1>1 DEF Places

\* A series that the next metric does not belong to keeps its window.
LEMMA WindowKept ==
    ASSUME NEW s, NEW n \in Nat, stream[n + 1].series # s \/ Malformed(stream[n + 1])
    PROVE  WindowOf(s, n + 1) = WindowOf(s, n)
<1>1. Places(s, n + 1) = Places(s, n)
  BY PlacesNext
<1> QED
  BY <1>1 DEF WindowOf, ValueAt

\* The metrics to come do not change what is expected of the ones before.
LEMMA WindowStable ==
    ASSUME NEW s, NEW n \in Nat, \A m \in 1 .. n : stream'[m] = stream[m]
    PROVE  WindowOf(s, n)' = WindowOf(s, n)
<1>1. Places(s, n)' = Places(s, n)
  BY DEF Places, Malformed
<1>2. ASSUME NEW k PROVE ValueAt(s, n, k)' = ValueAt(s, n, k)
  <2> DEFINE place == {m \in Places(s, n) : Cardinality({q \in Places(s, n) : q > m}) = k}
  <2>1. place \subseteq 1 .. n /\ place' = place
    BY <1>1 DEF Places
  <2>2. {stream'[m].value : m \in place} = {stream[m].value : m \in place}
    BY <2>1
  <2>3. ValueAt(s, n, k)' = CHOOSE v \in {stream'[m].value : m \in place} : TRUE
    BY <1>1 DEF ValueAt
  <2>4. ValueAt(s, n, k) = CHOOSE v \in {stream[m].value : m \in place} : TRUE
    BY DEF ValueAt
  <2> QED
    BY <2>2, <2>3, <2>4
<1> QED
  BY <1>1, <1>2 DEF WindowOf

\* The next metric of a series is followed by none, ...
LEMMA ValueAtNewest ==
    ASSUME NEW s, NEW n \in Nat, stream[n + 1].series = s, ~Malformed(stream[n + 1])
    PROVE  ValueAt(s, n + 1, 0) = stream[n + 1].value
<1> DEFINE later(m) == {q \in Places(s, n + 1) : q > m}
           place == {m \in Places(s, n + 1) : Cardinality(later(m)) = 0}
<1>1. Places(s, n + 1) = Places(s, n) \cup {n + 1} /\ Places(s, n) \subseteq 1 .. n
  BY PlacesNext, PlacesFinite
<1>2. n + 1 \in place
  <2>1. later(n + 1) = {}
    BY <1>1
  <2> QED
    BY <1>1, <2>1, FS_EmptySet
<1>3. ASSUME NEW m \in place PROVE m = n + 1
  <2>1. CASE m # n + 1
    <3>1. n + 1 \in later(m)
      BY <1>1, <2>1
    <3>2. IsFiniteSet(later(m))
      BY PlacesFinite, n + 1 \in Nat
    <3> QED
      BY <3>1, <3>2, FS_EmptySet
  <2> QED
    BY <2>1
<1>4. place = {n + 1}
  BY <1>2, <1>3
<1>5. ValueAt(s, n + 1, 0) = CHOOSE v \in {stream[m].value : m \in place} : TRUE
  BY DEF ValueAt
<1>6. {stream[m].value : m \in place} = {stream[n + 1].value}
  BY <1>4
<1> QED
  BY <1>5, <1>6

\* ... and the ones before it are followed by one more.
LEMMA ValueAtOlder ==
    ASSUME NEW s, NEW n \in Nat, stream[n + 1].series = s, ~Malformed(stream[n + 1]),
           NEW k \in Nat
    PROVE  ValueAt(s, n + 1, k + 1) = ValueAt(s, n, k)
<1> DEFINE later(m) == {q \in Places(s, n) : q > m}
           laterNow(m) == {q \in Places(s, n + 1) : q > m}
           place == {m \in Places(s, n) : Cardinality(later(m)) = k}
           placeNow == {m \in Places(s, n + 1) : Cardinality(laterNow(m)) = k + 1}
<1>1. Places(s, n + 1) = Places(s, n) \cup {n + 1} /\ Places(s, n) \subseteq 1 .. n
  BY PlacesNext, PlacesFinite
<1>2. ASSUME NEW m \in Places(s, n)
      PROVE  Cardinality(laterNow(m)) = k + 1 <=> Cardinality(later(m)) = k
  <2>1. laterNow(m) = later(m) \cup {n + 1} /\ n + 1 \notin later(m)
    BY <1>1
  <2>2. IsFiniteSet(later(m)) /\ Cardinality(later(m)) \in Nat
    BY PlacesFinite
  <2>3. Cardinality(laterNow(m)) = Cardinality(later(m)) + 1
    BY <2>1, <2>2, FS_AddElement
  <2> QED
    BY <2>2, <2>3
<1>3. n + 1 \notin placeNow
  <2>1. laterNow(n + 1) = {}
    BY <1>1
  <2>2. Cardinality(laterNow(n + 1)) = 0
    BY <2>1, FS_EmptySet
  <2> QED
    BY <2>2
<1>4. placeNow = place
  BY <1>1, <1>2, <1>3
<1>5. ValueAt(s, n + 1, k + 1) = CHOOSE v \in {stream[m].value : m \in placeNow} : TRUE
  BY DEF ValueAt
<1>6. ValueAt(s, n, k) = CHOOSE v \in {stream[m].value : m \in place} : TRUE
  BY DEF ValueAt
<1> QED
  BY <1>4, <1>5, <1>6

\* So the window that Observe makes of the last one is the newest values again.
LEMMA WindowNext ==
    ASSUME NEW s, NEW n \in Nat, stream[n + 1].series = s, ~Malformed(stream[n + 1]),
           WindowOf(s, n) \in Seq(Value), stream[n + 1].value \in Value
    PROVE  WindowOf(s, n + 1) = WindowAppend(Config, WindowOf(s, n), stream[n + 1].value)
<1> DEFINE w == WindowOf(s, n)
           v == stream[n + 1].value
           count == Cardinality(Places(s, n))
           room == Config.windowSize
           size == IF count > room THEN room ELSE count
           sizeNow == IF count + 1 > room THEN room ELSE count + 1
<1>1. room \in Nat \ {0} /\ count \in Nat
  BY ConfigSize, PlacesFinite
<1>2. Cardinality(Places(s, n + 1)) = count + 1
  <2>1. /\ Places(s, n + 1) = Places(s, n) \cup {n + 1} /\ n + 1 \notin Places(s, n)
        /\ IsFiniteSet(Places(s, n))
    <3>1. Places(s, n + 1) = Places(s, n) \cup {n + 1}
      BY PlacesNext
    <3>2. Places(s, n) \subseteq 1 .. n /\ IsFiniteSet(Places(s, n))
      BY PlacesFinite
    <3> QED
      BY <3>1, <3>2
  <2> QED
    BY <2>1, FS_AddElement
<1>3. w = [i \in 1 .. size |-> ValueAt(s, n, size - i)]
  BY DEF WindowOf
<1>4. WindowOf(s, n + 1) = [i \in 1 .. sizeNow |-> ValueAt(s, n + 1, sizeNow - i)]
  BY <1>2 DEF WindowOf
<1>5. size \in Nat /\ sizeNow \in Nat /\ Len(w) = size
  BY <1>1, <1>3
<1>6. ASSUME NEW i \in 1 .. sizeNow
      PROVE  ValueAt(s, n + 1, sizeNow - i)
               = IF i = sizeNow THEN v ELSE ValueAt(s, n, sizeNow - 1 - i)
  <2>1. CASE i = sizeNow
    <3>1. sizeNow - i = 0
      BY <1>5, <2>1
    <3> QED
      BY <2>1, <3>1, ValueAtNewest
  <2>2. CASE i # sizeNow
    <3>1. /\ sizeNow - 1 - i \in Nat
          /\ sizeNow - i = (sizeNow - 1 - i) + 1
      BY <1>5, <2>2
    <3>2. ValueAt(s, n + 1, (sizeNow - 1 - i) + 1) = ValueAt(s, n, sizeNow - 1 - i)
      BY <3>1, ValueAtOlder
    <3> QED
      BY <2>2, <3>1, <3>2
  <2> QED
    BY <2>1, <2>2
<1> DEFINE longer == Append(w, v)
           new == [i \in 1 .. sizeNow |->
                      IF i = sizeNow THEN v ELSE ValueAt(s, n, sizeNow - 1 - i)]
<1>7. WindowOf(s, n + 1) = new
  <2> HIDE DEF sizeNow, v
  <2> QED
    BY <1>4, <1>6
<1>8. /\ longer \in Seq(Value) /\ Len(longer) = size + 1
      /\ \A i \in 1 .. size : longer[i] = ValueAt(s, n, size - i)
      /\ longer[size + 1] = v
  <2>1. \A i \in 1 .. size : w[i] = ValueAt(s, n, size - i)
    BY <1>3
  <2> HIDE DEF w, size, v
  <2> QED
    BY <1>5, <2>1 DEF v, w
<1>9. CASE count < room
  <2>1. size = count /\ sizeNow = size + 1 /\ Len(longer) <= room
    BY <1>1, <1>8, <1>9
  <2>2. WindowAppend(Config, w, v) = longer
    BY <2>1 DEF WindowAppend
  <2>3. longer = new
    <3>1. longer = [i \in 1 .. size + 1 |-> longer[i]]
      <4> HIDE DEF longer
      <4> QED
        BY <1>5, <1>8
    <3>2. ASSUME NEW i \in 1 .. size + 1
          PROVE  longer[i] = IF i = sizeNow THEN v ELSE ValueAt(s, n, sizeNow - 1 - i)
      <4>1. i \in 1 .. size \/ i = size + 1
        BY <1>5
      <4>2. sizeNow - 1 - i = size - i
        BY <2>1, <1>1
      <4>3. i \in 1 .. size => i # sizeNow
        BY <2>1, <1>1
      <4> HIDE DEF longer, size, sizeNow, v
      <4> QED
        BY <1>8, <2>1, <4>1, <4>2, <4>3
    <3> HIDE DEF longer, v, size, sizeNow
    <3> QED
      BY <2>1, <3>1, <3>2
  <2> QED
    BY <1>7, <2>2, <2>3
<1>10. CASE ~ (count < room)
  <2>1. size = room /\ sizeNow = room /\ ~ (Len(longer) <= room)
    BY <1>1, <1>8, <1>10
  <2>2. WindowAppend(Config, w, v) = Tail(longer)
    BY <2>1 DEF WindowAppend
  <2>3. Tail(longer) = [i \in 1 .. size |-> longer[i + 1]]
    <3> HIDE DEF longer, size
    <3>1. /\ Tail(longer) \in Seq(Value) /\ Len(Tail(longer)) = size
          /\ \A i \in 1 .. size : Tail(longer)[i] = longer[i + 1]
      BY <1>5, <1>8
    <3>2. Tail(longer) = [i \in 1 .. size |-> Tail(longer)[i]]
      <4> DEFINE tail == Tail(longer)
      <4>1. tail \in Seq(Value) /\ Len(tail) = size
        BY <3>1
      <4> HIDE DEF tail
      <4>2. tail = [i \in 1 .. size |-> tail[i]]
        BY <1>5, <4>1
      <4> QED
        BY <4>2 DEF tail
    <3> QED
      BY <3>1, <3>2
  <2>4. ASSUME NEW i \in 1 .. size
        PROVE  longer[i + 1] = IF i = sizeNow THEN v ELSE ValueAt(s, n, sizeNow - 1 - i)
    <3>1. CASE i = size
      <4> HIDE DEF longer, size, sizeNow, v
      <4> QED
        BY <1>8, <2>1, <3>1
    <3>2. CASE i # size
      <4>1. i + 1 \in 1 .. size /\ size - (i + 1) = sizeNow - 1 - i
        BY <1>5, <2>1, <3>2
      <4> HIDE DEF longer, size, sizeNow, v
      <4> QED
        BY <1>8, <2>1, <3>2, <4>1
    <3> QED
      BY <3>1, <3>2
  <2>5. [i \in 1 .. size |-> longer[i + 1]] = new
    <3> HIDE DEF longer, v, size, sizeNow
    <3> QED
      BY <2>1, <2>4
  <2> QED
    BY <1>7, <2>2, <2>3, <2>5
<1> QED
  BY <1>9, <1>10

-----------------------------------------------------------------------------
(* Calm runs: the invariant *)

\* The metrics that handleMessage took, while none was pushed twice or lost.
Taken == cursor - Len(inbox)

\* The inbox holds the newest metrics, nothing that is ahead is settled, and the
\* message in work is the last one taken.
CalmServer ==
    /\ proc \in {"down", "running"}
    /\ proc = "down" => cursor = 0 /\ pc = "idle"
    /\ Taken \in Nat
    /\ \A i \in 1 .. Len(inbox) : inbox[i] = Taken + i
    /\ \A n \in 1 .. cursor : n > Taken => n \in pending
    /\ pc # "idle" => msg = Taken /\ msg \in pending

\* The windows are those of what was taken.
CalmWindows == \A s \in Series : windows[s] = WindowOf(s, Taken)

\* Up to the message in work, the events are the expected ones, in order.
CalmEvents ==
    /\ \A i \in 1 .. Len(anomalies) : /\ anomalies[i] <= Taken
                                      /\ pc = "publish" => anomalies[i] < Taken
    /\ \A i, j \in 1 .. Len(anomalies) : i < j => anomalies[i] < anomalies[j]
    /\ \A n \in 1 .. Taken : Expected(n) <=> Reported(n) \/ (pc = "publish" /\ n = Taken)

CalmInv == calm => CalmServer /\ CalmWindows /\ CalmEvents

\* A run begins calm, and nothing is expected of it yet.
LEMMA InitCalmInv == Init => CalmInv
<1> SUFFICES ASSUME Init PROVE CalmServer /\ CalmWindows /\ CalmEvents
  BY DEF CalmInv
<1>1. Taken = 0 /\ cursor = 0 /\ Len(inbox) = 0 /\ proc = "down" /\ pc = "idle"
  <2>1. cursor = 0 /\ Len(inbox) = 0
    BY DEF Init, JsInit
  <2> QED
    BY <2>1 DEF Init, Taken
<1>2. CalmServer
  BY <1>1 DEF CalmServer
<1>3. CalmWindows
  <2> SUFFICES ASSUME NEW s \in Series PROVE windows[s] = WindowOf(s, 0)
    BY <1>1 DEF CalmWindows
  <2>1. Cardinality(Places(s, 0)) = 0
    <3>1. Places(s, 0) = {}
      BY DEF Places
    <3> QED
      BY <3>1, FS_EmptySet
  <2>2. WindowOf(s, 0) = [i \in 1 .. 0 |-> ValueAt(s, 0, 0 - i)]
    BY <2>1, ConfigSize DEF WindowOf
  <2>3. WindowOf(s, 0) = <<>>
    BY <2>2
  <2> QED
    BY <2>3 DEF Init, NoWindows
<1>4. CalmEvents
  BY <1>1 DEF CalmEvents, Init
<1> QED
  BY <1>2, <1>3, <1>4

\* What is expected of a metric does not depend on those to come.
LEMMA ExpectedStable ==
    ASSUME NEW n \in Nat \ {0}, \A m \in 1 .. n : stream'[m] = stream[m]
    PROVE  Expected(n)' <=> Expected(n)
<1> SUFFICES ASSUME NEW s, s = stream[n].series PROVE Expected(n)' <=> Expected(n)
  OBVIOUS
<1>1. WindowOf(s, n)' = WindowOf(s, n)
  BY WindowStable
<1>2. stream'[n] = stream[n]
  BY n \in 1 .. n
<1>3. Expected(n)' <=> /\ ~Malformed(stream'[n]) /\ ~Invalid(stream'[n])
                       /\ IsAnomaly(WindowOf(s, n)')
  BY <1>2 DEF Expected, Malformed, Invalid, IsAnomaly, WindowOf, ValueAt, Places
<1> QED
  BY <1>1, <1>2, <1>3 DEF Expected

\* The steps that leave a run calm: no failure, no second copy, no restart.
CalmStep ==
    \/ HandleMessage
    \/ PublishAnomalyDetected /\ pc' = "ack"
    \/ AckOrTerm /\ Settle(msg)
    \/ Nak \/ Start \/ ServerPublish \/ ServerPush \/ UNCHANGED vars

\* There are no others.
LEMMA CalmSteps ==
    ASSUME CalmInv, [Next]_vars, calm', calm \in BOOLEAN
    PROVE  calm /\ CalmServer /\ CalmWindows /\ CalmEvents /\ CalmStep
<1>1. ~Fault
  BY DEF Fault
<1>2. calm
  BY <1>1 DEF Next, vars, HandleMessage, PublishAnomalyDetected, AckOrTerm, Nak, Cleanup,
     Start, Stop, DrainDeletesDurable, CloseConnection, Exit, Crash, ServerPublish,
     ServerPush, ServerPushAgain
<1>3. CalmServer /\ CalmWindows /\ CalmEvents
  BY <1>2 DEF CalmInv
<1>4. proc # "draining" /\ proc # "closed"
  BY <1>3 DEF CalmServer
<1>5. \A n \in Sequence : ~ServerPushAgain(n)
  BY DEF ServerPushAgain
<1>6. /\ \A s \in Series : ~Cleanup(s)
      /\ ~Stop /\ ~DrainDeletesDurable /\ ~CloseConnection /\ ~Exit /\ ~Crash
  BY <1>1, <1>4 DEF Cleanup, Stop, DrainDeletesDurable, CloseConnection, Exit, Crash
<1>7. CASE PublishAnomalyDetected
  BY <1>1, <1>2, <1>3, <1>7 DEF PublishAnomalyDetected, CalmStep
<1>8. CASE AckOrTerm
  BY <1>1, <1>2, <1>3, <1>4, <1>8 DEF AckOrTerm, CalmStep
<1> QED
  BY <1>2, <1>3, <1>5, <1>6, <1>7, <1>8 DEF Next, CalmStep

\* Taking a message moves the border between what is taken and what is ahead.
LEMMA CalmTake ==
    ASSUME TypeOK, CalmServer, HandleMessage
    PROVE  /\ Taken' = Taken + 1 /\ Taken \in Nat /\ Taken + 1 \in 1 .. Len(stream)
           /\ Head(inbox) = Taken + 1 /\ Taken + 1 \in pending /\ Taken + 1 <= cursor
           /\ \A i \in 1 .. Len(inbox') : inbox'[i] = inbox[i + 1] /\ i + 1 \in 1 .. Len(inbox)
<1>1. /\ inbox \in Seq(1 .. Len(stream)) /\ inbox # <<>> /\ inbox' = Tail(inbox)
      /\ UNCHANGED cursor /\ cursor \in 0 .. Len(stream) /\ Len(stream) \in Nat
  BY DEF TypeOK, JsTypeOK, HandleMessage
<1>2. /\ Len(inbox) \in Nat /\ Len(inbox) >= 1 /\ Len(inbox') = Len(inbox) - 1
      /\ Head(inbox) = inbox[1]
      /\ \A i \in 1 .. Len(inbox') : inbox'[i] = inbox[i + 1]
  BY <1>1
<1>3. Taken' = Taken + 1 /\ Taken \in Nat /\ Taken + 1 <= cursor
  BY <1>1, <1>2 DEF Taken, CalmServer
<1>4. Head(inbox) = Taken + 1
  BY <1>2 DEF CalmServer
<1>5. Taken + 1 \in pending
  BY <1>1, <1>3 DEF CalmServer
<1> QED
  BY <1>1, <1>2, <1>3, <1>4, <1>5

\* Taken changes with a message that is taken only.
LEMMA TakenKept ==
    ASSUME TypeOK, CalmServer, CalmStep, ~HandleMessage
    PROVE  Taken' = Taken
<1>1. inbox \in Seq(1 .. Len(stream)) /\ cursor \in Nat /\ Len(inbox) \in Nat
  BY DEF TypeOK, JsTypeOK
<1>2. CASE Start
  <2>1. cursor = 0 /\ cursor' = cursor /\ inbox' = <<>> /\ Taken \in Nat
    BY <1>2 DEF Start, Subscribe, CalmServer
  <2> QED
    BY <1>1, <2>1 DEF Taken
<1>3. CASE ServerPush
  <2>1. cursor' = cursor + 1 /\ inbox' = Append(inbox, cursor + 1)
    BY <1>3 DEF ServerPush, Push
  <2>2. Len(inbox') = Len(inbox) + 1
    BY <1>1, <2>1
  <2> QED
    BY <1>1, <2>1, <2>2 DEF Taken
<1>4. CASE ~Start /\ ~ServerPush
  <2>1. UNCHANGED <<cursor, inbox>>
    BY <1>4 DEF CalmStep, PublishAnomalyDetected, AckOrTerm, Nak, ServerPublish, Publish,
       vars, jsVars
  <2> QED
    BY <2>1 DEF Taken
<1> QED
  BY <1>2, <1>3, <1>4

\* What is ahead stays unsettled and in order.
LEMMA StepCalmServer ==
    ASSUME TypeOK, ReplyInv, CalmServer, CalmStep
    PROVE  CalmServer'
<1>1. /\ inbox \in Seq(1 .. Len(stream)) /\ cursor \in Nat /\ Len(inbox) \in Nat
      /\ pending \subseteq 1 .. cursor /\ Taken \in Nat
  BY DEF TypeOK, JsTypeOK, CalmServer
<1>2. CASE HandleMessage
  <2>1. /\ UNCHANGED <<cursor, pending, proc>> /\ msg' = Head(inbox) /\ proc # "down"
    BY <1>2 DEF HandleMessage
  <2>2. \A i \in 1 .. Len(inbox') : inbox'[i] = Taken' + i
    BY <1>1, <1>2, CalmTake DEF CalmServer
  <2> QED
    BY <1>1, <1>2, <2>1, <2>2, CalmTake DEF CalmServer
<1>3. CASE ServerPush
  <2>1. /\ cursor' = cursor + 1 /\ inbox' = Append(inbox, cursor + 1)
        /\ pending' = pending \cup {cursor + 1}
        /\ UNCHANGED <<proc, pc, msg>> /\ proc # "down"
    BY <1>3 DEF ServerPush, Push
  <2>2. Taken' = Taken
    BY <1>3, TakenKept DEF ServerPush, HandleMessage, Push
  <2>3. /\ Len(inbox') = Len(inbox) + 1
        /\ \A i \in 1 .. Len(inbox) : inbox'[i] = inbox[i]
        /\ inbox'[Len(inbox) + 1] = cursor + 1
    BY <1>1, <2>1
  <2>4. \A i \in 1 .. Len(inbox') : inbox'[i] = Taken + i
    <3>1. Taken + (Len(inbox) + 1) = cursor + 1
      BY <1>1 DEF Taken
    <3>2. \A i \in 1 .. Len(inbox') : i \in 1 .. Len(inbox) \/ i = Len(inbox) + 1
      BY <1>1, <2>3
    <3> QED
      BY <2>3, <3>1, <3>2 DEF CalmServer
  <2>5. \A n \in 1 .. cursor' : n \in 1 .. cursor \/ n = cursor + 1
    BY <1>1, <2>1
  <2> QED
    BY <2>1, <2>2, <2>4, <2>5 DEF CalmServer
<1>4. CASE Start
  <2>1. /\ proc = "down" /\ proc' = "running" /\ inbox' = <<>>
        /\ UNCHANGED <<cursor, pending, pc, msg>>
    BY <1>4 DEF Start, Subscribe
  <2>2. Taken' = Taken
    BY <1>4, <2>1, TakenKept DEF HandleMessage
  <2> QED
    BY <2>1, <2>2 DEF CalmServer
<1>5. CASE PublishAnomalyDetected /\ pc' = "ack"
  <2>1. UNCHANGED <<cursor, pending, inbox, msg, proc>> /\ pc = "publish"
    BY <1>5 DEF PublishAnomalyDetected, jsVars
  <2> QED
    BY <2>1 DEF CalmServer, Taken
<1>6. CASE AckOrTerm /\ Settle(msg)
  <2>1. /\ UNCHANGED <<cursor, inbox, proc>> /\ pc' = "idle" /\ pc # "idle"
        /\ pending' = pending \ {msg}
    BY <1>6 DEF AckOrTerm, Settle
  <2>2. msg = Taken /\ Taken' = Taken
    BY <2>1 DEF CalmServer, Taken
  <2>3. \A n \in 1 .. cursor : n > Taken => n # msg
    BY <1>1, <2>2
  <2> QED
    BY <2>1, <2>2, <2>3 DEF CalmServer
<1>7. CASE Nak
  BY <1>7 DEF Nak, CalmServer, Taken, jsVars
<1>8. CASE ServerPublish \/ UNCHANGED vars
  <2>1. UNCHANGED <<cursor, pending, inbox, proc, pc, msg>>
    BY <1>8 DEF ServerPublish, Publish, vars, jsVars
  <2> QED
    BY <2>1 DEF CalmServer, Taken
<1> QED
  BY <1>2, <1>3, <1>4, <1>5, <1>6, <1>7, <1>8 DEF CalmStep

\* The verdict on a message is about the newest values of its series.
LEMMA TakenWindow ==
    ASSUME TypeOK, CalmServer, CalmWindows, HandleMessage, ~Malformed(stream[Taken + 1])
    PROVE  LET p == stream[Taken + 1]
           IN  WindowWith(p) = WindowOf(p.series, Taken + 1)
<1> DEFINE p == stream[Taken + 1]
           w == WindowOf(p.series, Taken)
<1>1. Taken \in Nat /\ Taken + 1 \in 1 .. Len(stream)
  BY CalmTake
<1>2. p.series \in Series /\ p.value \in Value
  BY <1>1, MessageType DEF TypeOK
<1>3. w = windows[p.series] /\ w \in Seq(Value)
  BY <1>2 DEF CalmWindows, TypeOK, SlidingWindow
<1>4. WindowOf(p.series, Taken + 1) = WindowAppend(Config, w, p.value)
  BY <1>1, <1>2, <1>3, WindowNext
<1> QED
  BY <1>3, <1>4 DEF WindowWith

\* What the windows are next depends on how many were taken by then.
LEMMA WindowsAt ==
    ASSUME \A s \in Series : \A now : now = Taken' => windows'[s] = WindowOf(s, now)'
    PROVE  CalmWindows'
  BY DEF CalmWindows, WindowOf, ValueAt

\* The windows take each value as it is taken from the inbox.
LEMMA StepCalmWindows ==
    ASSUME TypeOK, ReplyInv, CalmServer, CalmWindows, CalmStep, [Next]_vars
    PROVE  CalmWindows'
<1> SUFFICES ASSUME NEW s \in Series, NEW now, now = Taken'
             PROVE  windows'[s] = WindowOf(s, now)'
  BY WindowsAt
<1>1. Taken \in 0 .. Len(stream) /\ Taken' \in Nat /\ windows[s] = WindowOf(s, Taken)
  <2>1. Len(inbox) \in Nat /\ cursor \in 0 .. Len(stream) /\ Len(stream) \in Nat
    BY DEF TypeOK, JsTypeOK
  <2> QED
    BY <2>1, StepCalmServer DEF CalmServer, CalmWindows, Taken
<1>2. ASSUME NEW n \in 0 .. Len(stream) PROVE WindowOf(s, n)' = WindowOf(s, n)
  <2>1. \A m \in 1 .. n : stream'[m] = stream[m]
    <3>1. \A m \in 1 .. n : m \in 1 .. Len(stream)
      BY DEF TypeOK, JsTypeOK
    <3> QED
      BY <3>1, NothingForgotten
  <2> QED
    BY <2>1, WindowStable
<1>3. CASE HandleMessage
  <2> DEFINE n == Taken + 1
             p == stream[n]
  <2>1. Head(inbox) = n /\ Taken' = n /\ n \in 1 .. Len(stream)
    BY <1>3, CalmTake
  <2>2. p.series \in Series /\ p.value \in Value
    BY <2>1, MessageType DEF TypeOK
  <2>3. CASE p.series = s /\ ~Malformed(p)
    <3>1. windows' = [windows EXCEPT ![s] = WindowWith(p)]
      BY <1>3, <2>1, <2>3 DEF HandleMessage, Judge
    <3>2. WindowWith(p) = WindowOf(s, n)
      BY <1>3, <2>3, TakenWindow
    <3> QED
      BY <1>2, <2>1, <3>1, <3>2 DEF TypeOK
  <2>4. CASE p.series # s \/ Malformed(p)
    <3>1. windows'[s] = windows[s]
      BY <1>3, <2>1, <2>4 DEF HandleMessage, Judge, TypeOK
    <3>2. WindowOf(s, n) = WindowOf(s, Taken)
      BY <1>1, <2>4, WindowKept
    <3> QED
      BY <1>1, <1>2, <2>1, <3>1, <3>2
  <2> QED
    BY <2>3, <2>4
<1>4. CASE ~HandleMessage
  <2>1. Taken' = Taken
    BY <1>4, TakenKept
  <2>2. UNCHANGED windows
    BY <1>4 DEF CalmStep, PublishAnomalyDetected, AckOrTerm, Nak, Start, ServerPublish,
       ServerPush, vars
  <2> QED
    BY <1>1, <1>2, <2>1, <2>2
<1> QED
  BY <1>3, <1>4

\* The events follow the expectations: a message in work has none yet.
LEMMA StepCalmEvents ==
    ASSUME TypeOK, ReplyInv, CalmServer, CalmWindows, CalmEvents, CalmStep, [Next]_vars
    PROVE  CalmEvents'
<1>1. /\ Len(stream) \in Nat /\ Taken \in Nat /\ Taken <= Len(stream)
      /\ anomalies \in Seq(1 .. Len(stream)) /\ Len(anomalies) \in Nat
  <2>1. /\ Len(inbox) \in Nat /\ cursor \in 0 .. Len(stream) /\ Len(stream) \in Nat
        /\ anomalies \in Seq(1 .. Len(stream))
    BY DEF TypeOK, JsTypeOK
  <2> QED
    BY <2>1 DEF CalmServer, Taken
<1>2. ASSUME NEW n \in 1 .. Len(stream) PROVE Expected(n)' <=> Expected(n)
  <2>1. n \in Nat \ {0} /\ \A m \in 1 .. n : m \in 1 .. Len(stream)
    BY <1>1
  <2> QED
    BY <2>1, NothingForgotten, ExpectedStable
<1>3. \A n \in 1 .. Taken : n \in 1 .. Len(stream)
  BY <1>1
<1>4. \A i \in 1 .. Len(anomalies) : anomalies[i] \in Nat
  BY <1>1
<1>5. CASE HandleMessage
  <2> DEFINE k == Taken + 1
             p == stream[k]
  <2>1. /\ Taken' = k /\ Head(inbox) = k /\ k \in 1 .. Len(stream)
        /\ pc = "idle" /\ UNCHANGED anomalies
    BY <1>5, CalmTake DEF HandleMessage
  <2>2. pc' = "publish" <=> Expected(k)
    <3>1. CASE Malformed(p)
      BY <1>5, <2>1, <3>1 DEF HandleMessage, Expected
    <3>2. CASE ~Malformed(p)
      <4>1. WindowWith(p) = WindowOf(p.series, k)
        BY <1>5, <3>2, TakenWindow
      <4>2. pc' = AfterVerdict(p, IsAnomaly(WindowWith(p)))
        BY <1>5, <2>1, <3>2 DEF HandleMessage, Judge
      <4>3. Expected(k) <=> ~Invalid(p) /\ IsAnomaly(WindowWith(p))
        BY <3>2, <4>1 DEF Expected
      <4>4. CASE IsAnomaly(WindowWith(p))
        BY <4>2, <4>3, <4>4 DEF AfterVerdict
      <4>5. CASE ~IsAnomaly(WindowWith(p))
        BY <4>2, <4>3, <4>5 DEF AfterVerdict
      <4> QED
        BY <4>4, <4>5
    <3> QED
      BY <3>1, <3>2
  <2>3. \A i \in 1 .. Len(anomalies) : anomalies[i] <= Taken /\ anomalies[i] < k
    BY <1>1, <1>4 DEF CalmEvents
  <2>4. ~Reported(k) /\ \A n : Reported(n)' <=> Reported(n)
    <3>1. \A i \in 1 .. Len(anomalies) : anomalies[i] # k
      BY <1>1, <1>4, <2>3
    <3> QED
      BY <2>1, <3>1 DEF Reported
  <2>5. \A n \in 1 .. k : n \in 1 .. Taken \/ n = k
    BY <1>1
  <2>6. \A n \in 1 .. k : Expected(n)' <=> Reported(n)' \/ (pc' = "publish" /\ n = k)
    <3>1. ASSUME NEW n \in 1 .. Taken PROVE Expected(n) <=> Reported(n)
      BY <2>1, <3>1 DEF CalmEvents
    <3>2. \A n \in 1 .. Taken : n # k
      BY <1>1
    <3> QED
      BY <1>2, <1>3, <2>1, <2>2, <2>4, <2>5, <3>1, <3>2
  <2>7. /\ \A i \in 1 .. Len(anomalies) : anomalies[i] <= k
        /\ \A i, j \in 1 .. Len(anomalies) : i < j => anomalies[i] < anomalies[j]
    BY <1>1, <1>4, <2>3 DEF CalmEvents
  <2> HIDE DEF k
  <2> QED
    BY <2>1, <2>3, <2>6, <2>7 DEF CalmEvents
<1>6. CASE PublishAnomalyDetected /\ pc' = "ack"
  <2>1. /\ anomalies' = Append(anomalies, msg) /\ pc = "publish" /\ msg = Taken
        /\ Taken' = Taken /\ UNCHANGED stream
    BY <1>6 DEF PublishAnomalyDetected, CalmServer, Taken, jsVars
  <2>2. msg \in 1 .. Len(stream)
    BY <2>1 DEF ReplyInv
  <2>3. /\ Len(anomalies') = Len(anomalies) + 1
        /\ \A i \in 1 .. Len(anomalies) : anomalies'[i] = anomalies[i]
        /\ anomalies'[Len(anomalies) + 1] = Taken
    BY <1>1, <2>1, <2>2
  <2>4. \A n : Reported(n)' <=> Reported(n) \/ n = Taken
    BY <2>1, <2>2, OneEvent
  <2>5. \A n \in 1 .. Taken : Expected(n) <=> Reported(n) \/ n = Taken
    BY <2>1 DEF CalmEvents
  <2>6. \A n \in 1 .. Taken : Expected(n)' <=> Reported(n)'
    BY <1>2, <1>3, <2>4, <2>5
  <2>7. \A i \in 1 .. Len(anomalies') : i \in 1 .. Len(anomalies) \/ i = Len(anomalies) + 1
    BY <1>1, <2>3
  <2>8. \A i \in 1 .. Len(anomalies) : anomalies[i] < Taken
    BY <2>1 DEF CalmEvents
  <2>9. \A i \in 1 .. Len(anomalies') : anomalies'[i] <= Taken
    BY <1>1, <1>4, <2>3, <2>7, <2>8
  <2>10. ASSUME NEW i \in 1 .. Len(anomalies'), NEW j \in 1 .. Len(anomalies'), i < j
         PROVE  anomalies'[i] < anomalies'[j]
    <3>1. i \in 1 .. Len(anomalies)
      BY <1>1, <2>3, <2>10
    <3>2. CASE j \in 1 .. Len(anomalies)
      BY <2>3, <2>10, <3>1, <3>2 DEF CalmEvents
    <3>3. CASE j = Len(anomalies) + 1
      BY <2>3, <2>8, <3>1, <3>3
    <3> QED
      BY <2>7, <3>2, <3>3
  <2> QED
    BY <1>6, <2>1, <2>6, <2>9, <2>10 DEF CalmEvents
<1>7. CASE ~HandleMessage /\ ~ (PublishAnomalyDetected /\ pc' = "ack")
  <2>1. UNCHANGED anomalies /\ (pc' = "publish" <=> pc = "publish")
    BY <1>7 DEF CalmStep, AckOrTerm, Nak, Start, ServerPublish, ServerPush, vars
  <2>2. Taken' = Taken
    BY <1>7, TakenKept
  <2>3. \A n : Reported(n)' <=> Reported(n)
    BY <2>1 DEF Reported
  <2>4. \A n \in 1 .. Taken : Expected(n)' <=> Reported(n)' \/ (pc' = "publish" /\ n = Taken)
    BY <1>2, <1>3, <2>1, <2>3 DEF CalmEvents
  <2> QED
    BY <2>1, <2>2, <2>4 DEF CalmEvents
<1> QED
  BY <1>5, <1>6, <1>7

\* Every step keeps a calm run on its course, or ends the calm.
LEMMA StepCalmInv == IInv /\ CalmInv /\ [Next]_vars => CalmInv'
<1> SUFFICES ASSUME IInv, CalmInv, [Next]_vars, calm'
             PROVE  CalmServer' /\ CalmWindows' /\ CalmEvents'
  BY DEF CalmInv
<1>1. TypeOK /\ ReplyInv /\ calm \in BOOLEAN
  BY DEF IInv, TypeOK
<1>2. CalmServer /\ CalmWindows /\ CalmEvents /\ CalmStep
  BY <1>1, CalmSteps
<1> QED
  BY <1>1, <1>2, StepCalmServer, StepCalmWindows, StepCalmEvents

\* So does what happens elsewhere.
LEMMA SurroundingsCalmInv ==
    ASSUME CalmInv,
           UNCHANGED <<jsVars, proc, pc, msg, windows, anomalies, breaches, again, cleared, calm>>
    PROVE  CalmInv'
<1> SUFFICES ASSUME CalmServer, CalmWindows, CalmEvents
             PROVE  CalmServer' /\ CalmWindows' /\ CalmEvents'
  BY DEF CalmInv
<1>1. CalmServer' /\ Taken' = Taken /\ Taken \in Nat
  BY DEF CalmServer, Taken, jsVars
<1>2. CalmWindows'
  <2> SUFFICES ASSUME NEW s \in Series, NEW now, now = Taken'
               PROVE  windows'[s] = WindowOf(s, now)'
    BY WindowsAt
  <2>1. WindowOf(s, now)' = WindowOf(s, now)
    BY <1>1, WindowStable DEF jsVars
  <2> QED
    BY <1>1, <2>1 DEF CalmWindows
<1>3. CalmEvents'
  <2>1. ASSUME NEW n \in 1 .. Taken PROVE Expected(n)' <=> Expected(n)
    <3>1. n \in Nat \ {0} /\ stream' = stream
      BY <1>1 DEF jsVars
    <3> QED
      BY <3>1, ExpectedStable
  <2>2. \A n : Reported(n)' <=> Reported(n)
    BY DEF Reported
  <2> QED
    BY <1>1, <2>1, <2>2 DEF CalmEvents
<1> QED
  BY <1>1, <1>2, <1>3

\* What left the stream of a calm run was taken, and is not in work.
LEMMA CalmRun == IInv /\ CalmInv => CalmRunIsExact
<1> SUFFICES ASSUME IInv, calm, CalmServer, CalmEvents
             PROVE  /\ \A n \in 1 .. Len(stream) : Settled(n) => (Reported(n) <=> Expected(n))
                    /\ \A i, j \in 1 .. Len(anomalies) : i < j => anomalies[i] < anomalies[j]
  BY DEF CalmInv, CalmRunIsExact
<1>1. ASSUME NEW n \in 1 .. Len(stream), Settled(n)
      PROVE  Reported(n) <=> Expected(n)
  <2>1. n <= cursor /\ n \notin pending
    BY <1>1 DEF Settled
  <2>2. n \in 1 .. cursor /\ Taken \in Nat
    BY <2>1 DEF CalmServer, IInv, TypeOK, JsTypeOK
  <2>3. ~ (n > Taken)
    BY <2>1, <2>2 DEF CalmServer
  <2>4. n \in 1 .. Taken
    BY <2>2, <2>3
  <2>5. ~ (pc = "publish" /\ n = Taken)
    BY <2>1 DEF CalmServer
  <2> QED
    BY <2>4, <2>5 DEF CalmEvents
<1> QED
  BY <1>1 DEF CalmEvents

\* While nothing fails, is pushed twice or is evicted, exactly the metrics that
\* breach the threshold of their series are reported, once and in order.
THEOREM CalmRunExact == Spec => []CalmRunIsExact
<1>1. Init => IInv /\ CalmInv
  BY InitIInv, InitCalmInv
<1>2. IInv /\ CalmInv /\ [Next]_vars => (IInv /\ CalmInv)'
  BY StepIInv, StepCalmInv
<1>3. Spec => [](IInv /\ CalmInv)
  BY <1>1, <1>2, PTL DEF Spec
<1> QED
  BY <1>3, CalmRun, PTL

-----------------------------------------------------------------------------
(* The pipeline: the invariant *)

\* What is proved of Projector, for the stream that pattern-service fills.
RP == INSTANCE ProjectorProofs WITH
    Payload <- [shape : {"envelope"}, id : 1 .. MaxEvents, series : Series, ts : Sequence],
    EventId <- 1 .. MaxEvents, Timestamp <- Sequence, MaxStream <- MaxEvents,
    stream <- Events, exists <- aExists, owned <- aOwned, cursor <- aCursor,
    pending <- aPending, inbox <- aInbox, proc <- rProc, pc <- rPc, msg <- rMsg

PInv == IInv /\ CalmInv /\ RP!IInv

-----------------------------------------------------------------------------
(* The assumptions of Projector hold of the events *)

\* The bounds of the durable on ANOMALIES.
LEMMA EventsBounds == RP!BoundsAssumption
  BY BoundsAssumption, PipelineAssumption DEF RP!BoundsAssumption

\* The event ids and the empty tables.
LEMMA EventsAssumption == RP!ProjectorAssumption
<1>1. NoRow \notin RP!Row
  BY PipelineAssumption DEF RP!Row, RP!Key, RP!Sequence, Read!Row, Read!Key, Read!Sequence
<1>2. NoId \notin 1 .. MaxEvents /\ MaxFaults \in Nat
  BY PipelineAssumption, PatternAssumption
<1>3. [shape : {"envelope"}, id : 1 .. MaxEvents, series : Series, ts : Sequence]
        \subseteq [shape : RP!Shape, id : 1 .. MaxEvents \cup {NoId},
                   series : Series, ts : Sequence]
  BY DEF RP!Shape
<1> QED
  BY <1>1, <1>2, <1>3 DEF RP!ProjectorAssumption

-----------------------------------------------------------------------------
(* The events *)

\* There is one for each entry of `anomalies`, about the metric it names.
LEMMA EventsOfAnomalies ==
    ASSUME TypeOK
    PROVE  /\ Len(Events) = Len(anomalies)
           /\ \A i \in 1 .. Len(anomalies) : /\ Events[i] = EventOf(i, anomalies[i])
                                             /\ anomalies[i] \in 1 .. Len(stream)
<1>1. anomalies \in Seq(1 .. Len(stream)) /\ Len(anomalies) \in Nat
  BY DEF TypeOK
<1> QED
  BY <1>1 DEF Events

\* They are payloads of read-service's stream, and no more than its bound.
LEMMA EventsType ==
    ASSUME TypeOK, Len(anomalies) <= MaxEvents
    PROVE  Events \in Seq([shape : {"envelope"}, id : 1 .. MaxEvents,
                           series : Series, ts : Sequence])
<1> DEFINE P == [shape : {"envelope"}, id : 1 .. MaxEvents, series : Series, ts : Sequence]
<1>1. JsTypeOK /\ Len(anomalies) \in Nat /\ MaxEvents \in Nat
  BY PipelineAssumption DEF TypeOK
<1>2. ASSUME NEW i \in 1 .. Len(anomalies) PROVE EventOf(i, anomalies[i]) \in P
  <2>1. anomalies[i] \in 1 .. Len(stream)
    BY DEF TypeOK
  <2>2. stream[anomalies[i]].series \in Series
    BY <1>1, <2>1, MessageType
  <2>3. i \in 1 .. MaxEvents /\ anomalies[i] \in Sequence
    BY <1>1, <2>1, BoundsAssumption DEF JsTypeOK, Sequence
  <2> QED
    BY <2>2, <2>3 DEF EventOf
<1> QED
  BY <1>1, <1>2 DEF Events

\* As long as they are a stream of read-service's, there are not more.
LEMMA EventsWithinBound ==
    ASSUME PInv
    PROVE  Len(anomalies) <= MaxEvents /\ \A i \in 1 .. Len(anomalies) : i \in 1 .. MaxEvents
<1>1. TypeOK /\ Len(Events) <= MaxEvents
  BY DEF PInv, IInv, RP!IInv, RP!TypeOK, RP!JsTypeOK
<1>2. Len(anomalies) \in Nat /\ Len(anomalies) <= MaxEvents
  BY <1>1, EventsOfAnomalies DEF TypeOK
<1> QED
  BY <1>2, PipelineAssumption

\* A metric more changes no event.
LEMMA EventsKept ==
    ASSUME TypeOK, UNCHANGED anomalies,
           \A n \in 1 .. Len(stream) : stream'[n] = stream[n]
    PROVE  UNCHANGED Events
<1>1. \A i \in 1 .. Len(anomalies) : anomalies[i] \in 1 .. Len(stream)
  BY DEF TypeOK
<1> QED
  BY <1>1 DEF Events, EventOf

\* An event that pattern-service publishes is a publication to ANOMALIES.
LEMMA EventPublished ==
    ASSUME TypeOK, UNCHANGED stream, NEW n \in 1 .. Len(stream),
           anomalies' = Append(anomalies, n), Len(anomalies') <= MaxEvents
    PROVE  \E p \in [shape : {"envelope"}, id : 1 .. MaxEvents,
                     series : Series, ts : Sequence] :
              Len(Events) < MaxEvents /\ Events' = Append(Events, p)
<1> DEFINE k == Len(anomalies)
           p == EventOf(k + 1, n)
<1>1. /\ anomalies \in Seq(1 .. Len(stream)) /\ k \in Nat
      /\ Len(anomalies') = k + 1
      /\ anomalies'[k + 1] = n
      /\ \A i \in 1 .. k : anomalies'[i] = anomalies[i]
  BY DEF TypeOK
<1>2. p \in [shape : {"envelope"}, id : 1 .. MaxEvents, series : Series, ts : Sequence]
  <2>1. JsTypeOK /\ MaxEvents \in Nat /\ k + 1 <= MaxEvents
    BY <1>1, PipelineAssumption DEF TypeOK
  <2>2. stream[n].series \in Series /\ n \in Sequence
    BY <2>1, MessageType, BoundsAssumption DEF JsTypeOK, Sequence
  <2> QED
    BY <1>1, <2>1, <2>2 DEF EventOf
<1>3. Len(Events) < MaxEvents
  BY <1>1, EventsOfAnomalies, PipelineAssumption
<1>4. Events' = Append(Events, p)
  <2>1. /\ Events \in Seq([shape : {"envelope"}, id : 1 .. MaxEvents,
                           series : Series, ts : Sequence])
        /\ Len(Events) = k
        /\ \A i \in 1 .. k : Events[i] = EventOf(i, anomalies[i])
    BY <1>1, EventsType, EventsOfAnomalies, PipelineAssumption
  <2>2. Events' = [i \in 1 .. k + 1 |-> EventOf(i, anomalies'[i])]
    BY <1>1 DEF Events, EventOf
  <2>3. ASSUME NEW i \in 1 .. k + 1 PROVE EventOf(i, anomalies'[i]) = Append(Events, p)[i]
    <3>1. CASE i \in 1 .. k
      BY <1>1, <2>1, <3>1, <1>2
    <3>2. CASE i = k + 1
      BY <1>1, <2>1, <3>2, <1>2
    <3>3. i \in 1 .. k \/ i = k + 1
      BY <1>1
    <3> QED
      BY <3>1, <3>2, <3>3
  <2>4. /\ DOMAIN Append(Events, p) = 1 .. k + 1
        /\ Append(Events, p) = [i \in DOMAIN Append(Events, p) |-> Append(Events, p)[i]]
    BY <1>1, <1>2, <2>1
  <2> QED
    BY <2>2, <2>3, <2>4
<1> QED
  BY <1>2, <1>3, <1>4

-----------------------------------------------------------------------------
(* The steps *)

PatternStep == PatternHandler \/ PatternPush \/ PatternPushAgain \/ PatternProcess
ReadStep == ReadHandler \/ ReadPush \/ ReadPushAgain \/ ReadProcess

\* A step of pattern-service is one of PatternService, which keeps the stream
\* of the metrics and the bound on the events.
LEMMA PatternStepIsNext ==
    ASSUME PatternStep
    PROVE  /\ Next
           /\ UNCHANGED readVars
           /\ UNCHANGED stream
           /\ UNCHANGED anomalies \/ WithinBound
<1>1. CASE PatternHandler
  <2>1. HandlerStep /\ UNCHANGED readVars /\ WithinBound
    BY <1>1 DEF PatternHandler
  <2>2. UNCHANGED stream
    BY <2>1 DEF HandlerStep, HandleMessage, PublishAnomalyDetected, AckOrTerm, Nak, jsVars
  <2> QED
    BY <2>1, <2>2 DEF HandlerStep, Next
<1>2. CASE PatternPush
  BY <1>2 DEF PatternPush, Next, ServerPush, Push
<1>3. CASE PatternPushAgain
  BY <1>3 DEF PatternPushAgain, Next, ServerPushAgain, PushAgain
<1>4. CASE PatternProcess
  <2>1. ProcessStep /\ UNCHANGED readVars /\ WithinBound
    BY <1>4 DEF PatternProcess, ProcessStep
  <2>2. UNCHANGED stream
    BY <2>1 DEF ProcessStep, Start, Subscribe, Stop, DrainDeletesDurable, DeleteDurable,
       CloseConnection, Exit, Crash, ProcessGone, Cleanup, jsVars
  <2> QED
    BY <2>1, <2>2 DEF ProcessStep, Next
<1> QED
  BY <1>1, <1>2, <1>3, <1>4 DEF PatternStep

\* Projector and ProjectorProofs, both instantiated for the events, have the
\* same actions: those of handleMessage, ...
LEMMA SameHandler == Read!HandlerStep => RP!HandlerStep
<1> SUFFICES ASSUME Read!HandlerStep PROVE RP!HandlerStep
  OBVIOUS
<1>1. Read!HandleMessage => RP!HandleMessage
  BY DEF Read!HandleMessage, RP!HandleMessage, Read!Malformed, RP!Malformed
<1>2. Read!BeginTx => RP!BeginTx
  BY DEF Read!BeginTx, RP!BeginTx, Read!jsVars, RP!jsVars, Read!FailTransaction,
      RP!FailTransaction, Read!Fault, RP!Fault, Read!EmptyTables, RP!EmptyTables
<1>3. Read!TryMarkProcessed => RP!TryMarkProcessed
  BY DEF Read!TryMarkProcessed, RP!TryMarkProcessed, Read!jsVars, RP!jsVars,
      Read!DedupKey, RP!DedupKey, Read!EventID, RP!EventID, Read!FailTransaction,
      RP!FailTransaction, Read!Fault, RP!Fault, Read!EmptyTables, RP!EmptyTables
<1>4. Read!InsertAnomalyEvent => RP!InsertAnomalyEvent
  BY DEF Read!InsertAnomalyEvent, RP!InsertAnomalyEvent, Read!jsVars, RP!jsVars,
      Read!RowOf, RP!RowOf, Read!DedupKey, RP!DedupKey, Read!EventID, RP!EventID,
      Read!FailTransaction, RP!FailTransaction, Read!Fault, RP!Fault, Read!EmptyTables,
      RP!EmptyTables
<1>5. Read!UpsertSeriesState => RP!UpsertSeriesState
  BY DEF Read!UpsertSeriesState, RP!UpsertSeriesState, Read!jsVars, RP!jsVars, Read!RowOf,
      RP!RowOf, Read!DedupKey, RP!DedupKey, Read!EventID, RP!EventID,
      Read!FailTransaction, RP!FailTransaction, Read!Fault, RP!Fault, Read!EmptyTables,
      RP!EmptyTables
<1>6. Read!Commit => RP!Commit
  BY DEF Read!Commit, RP!Commit, Read!jsVars, RP!jsVars, Read!FailTransaction,
      RP!FailTransaction, Read!Fault, RP!Fault, Read!EmptyTables, RP!EmptyTables
<1>7. Read!AckOrTerm => RP!AckOrTerm
  BY DEF Read!AckOrTerm, RP!AckOrTerm, Read!Settle, RP!Settle, Read!Fault, RP!Fault
<1>8. Read!Nak => RP!Nak
  BY DEF Read!Nak, RP!Nak, Read!jsVars, RP!jsVars
<1> QED
  BY <1>1, <1>2, <1>3, <1>4, <1>5, <1>6, <1>7, <1>8
  DEF Read!HandlerStep, RP!HandlerStep

\* ... and those of the process.
LEMMA SameProcess ==
    ASSUME \/ Read!Start \/ Read!Stop \/ Read!DrainDeletesDurable
           \/ Read!CloseConnection \/ Read!Exit \/ Read!Crash
    PROVE  RP!ProcessStep
<1>1. Read!Start => RP!Start
  BY DEF Read!Start, RP!Start, Read!Subscribe, RP!Subscribe
<1>2. Read!Stop => RP!Stop
  BY DEF Read!Stop, RP!Stop, Read!Fault, RP!Fault, Read!jsVars, RP!jsVars
<1>3. Read!DrainDeletesDurable => RP!DrainDeletesDurable
  BY DEF Read!DrainDeletesDurable, RP!DrainDeletesDurable, Read!DeleteDurable,
      RP!DeleteDurable
<1>4. Read!CloseConnection => RP!CloseConnection
  BY DEF Read!CloseConnection, RP!CloseConnection, Read!LoseInbox, RP!LoseInbox
<1>5. Read!Exit => RP!Exit
  BY DEF Read!Exit, RP!Exit, Read!InTransaction, RP!InTransaction, Read!ProcessGone,
      RP!ProcessGone, Read!LoseInbox, RP!LoseInbox, Read!EmptyTables, RP!EmptyTables
<1>6. Read!Crash => RP!Crash
  BY DEF Read!Crash, RP!Crash, Read!Fault, RP!Fault, Read!ProcessGone, RP!ProcessGone,
      Read!LoseInbox, RP!LoseInbox, Read!EmptyTables, RP!EmptyTables
<1> QED
  BY <1>1, <1>2, <1>3, <1>4, <1>5, <1>6 DEF RP!ProcessStep

\* A step of read-service is one of Projector.
LEMMA ReadStepIsNext ==
    ASSUME ReadStep
    PROVE  RP!Next /\ UNCHANGED patternVars
<1>1. CASE ReadHandler
  <2>1. RP!HandlerStep
    BY <1>1, SameHandler DEF ReadHandler
  <2> QED
    BY <1>1, <2>1 DEF ReadHandler, RP!HandlerStep, RP!Next
<1>2. CASE ReadPush
  <2>1. RP!ServerPush
    BY <1>2 DEF ReadPush, Read!ServerPush, RP!ServerPush, Read!Push, RP!Push,
       Read!Cardinality, RP!Cardinality
  <2> QED
    BY <1>2, <2>1 DEF ReadPush, RP!Next
<1>3. CASE ReadPushAgain
  <2>1. PICK i \in 1 .. MaxEvents : Read!ServerPushAgain(i)
    BY <1>3 DEF ReadPushAgain
  <2>2. RP!ServerPushAgain(i) /\ i \in RP!Sequence
    BY <2>1 DEF Read!ServerPushAgain, RP!ServerPushAgain, Read!PushAgain,
       RP!PushAgain, RP!Sequence
  <2> QED
    BY <1>3, <2>2 DEF ReadPushAgain, RP!Next
<1>4. CASE ReadProcess
  BY <1>4, SameProcess DEF ReadProcess, RP!ProcessStep, RP!Next
<1> QED
  BY <1>1, <1>2, <1>3, <1>4 DEF ReadStep

-----------------------------------------------------------------------------
(* The invariant *)

\* It holds at the start.
LEMMA InitPInv == PipelineInit => PInv
<1> SUFFICES ASSUME PipelineInit PROVE PInv
  OBVIOUS
<1>1. IInv /\ CalmInv
  BY InitIInv, InitCalmInv DEF PipelineInit
<1>2. RP!Init
  BY DEF PipelineInit, Read!Init, RP!Init, Read!JsInit, RP!JsInit,
     Read!EmptyTables, RP!EmptyTables
<1>3. RP!IInv
  BY <1>2, RP!InitIInv, EventsBounds, EventsAssumption
<1> QED
  BY <1>1, <1>3 DEF PInv

\* For read-service, a step of pattern-service is an event more in its stream,
\* or nothing but a failure that is counted.
LEMMA AroundReadService ==
    ASSUME RP!IInv, UNCHANGED readVars, faults' \in 0 .. MaxFaults,
           \/ UNCHANGED Events
           \/ \E p \in [shape : {"envelope"}, id : 1 .. MaxEvents,
                        series : Series, ts : Sequence] :
                 Len(Events) < MaxEvents /\ Events' = Append(Events, p)
    PROVE  RP!IInv'
<1>1. \/ UNCHANGED RP!jsVars
      \/ \E p \in [shape : {"envelope"}, id : 1 .. MaxEvents,
                   series : Series, ts : Sequence] : RP!Publish(p)
  BY DEF RP!jsVars, RP!Publish, readVars
<1>2. UNCHANGED <<rProc, rPc, rMsg, tx, db>>
  BY DEF readVars
<1> QED
  BY <1>1, <1>2, RP!SurroundingsIInv, EventsBounds, EventsAssumption

\* Every step of either service, and every metric, keeps both invariants.
LEMMA StepPInv == PInv /\ [PipelineNext]_pipelineVars => PInv'
<1> SUFFICES ASSUME PInv, [PipelineNext]_pipelineVars PROVE PInv'
  OBVIOUS
<1>1. IInv /\ CalmInv /\ RP!IInv /\ TypeOK /\ ReplyInv /\ JsTypeOK
  BY DEF PInv, IInv, TypeOK
<1>2. CASE RecordMetric
  <2>1. PICK p \in Payload : Publish(p)
    BY <1>2 DEF RecordMetric
  <2>2. Next
    BY <1>2 DEF RecordMetric, ServerPublish, Next, readVars
  <2>3. IInv' /\ CalmInv' /\ TypeOK'
    BY <1>1, <2>2, StepIInv, StepCalmInv DEF IInv
  <2>4. UNCHANGED Events
    <3>1. \A n \in 1 .. Len(stream) : stream'[n] = stream[n]
      BY <1>1, <2>1, JsPublish
    <3> QED
      BY <1>1, <1>2, <3>1, EventsKept DEF RecordMetric
  <2>5. RP!IInv'
    BY <1>1, <1>2, <2>3, <2>4, AroundReadService DEF RecordMetric, TypeOK, readVars
  <2> QED
    BY <2>3, <2>5 DEF PInv
<1>3. CASE PatternStep
  <2>1. Next /\ UNCHANGED <<readVars, stream>> /\ (UNCHANGED anomalies \/ WithinBound)
    BY <1>3, PatternStepIsNext
  <2>2. IInv' /\ CalmInv' /\ TypeOK'
    BY <1>1, <2>1, StepIInv, StepCalmInv DEF IInv
  <2>3. \/ UNCHANGED Events
        \/ \E p \in [shape : {"envelope"}, id : 1 .. MaxEvents,
                     series : Series, ts : Sequence] :
              Len(Events) < MaxEvents /\ Events' = Append(Events, p)
    <3>1. CASE UNCHANGED anomalies
      BY <1>1, <2>1, <3>1, EventsKept
    <3>2. CASE ~UNCHANGED anomalies
      <4>1. msg \in 1 .. Len(stream) /\ anomalies' = Append(anomalies, msg)
        BY <1>1, <2>1, <3>2, EventsGrow
      <4> QED
        BY <1>1, <2>1, <3>2, <4>1, EventPublished DEF WithinBound
    <3> QED
      BY <3>1, <3>2
  <2>4. RP!IInv'
    BY <1>1, <2>1, <2>2, <2>3, AroundReadService DEF TypeOK
  <2> QED
    BY <2>2, <2>4 DEF PInv
<1>4. CASE ReadStep
  <2>1. RP!Next /\ UNCHANGED patternVars
    BY <1>4, ReadStepIsNext
  <2>2. RP!IInv'
    BY <1>1, <2>1, RP!StepIInv, EventsBounds, EventsAssumption
  <2>3. faults' \in 0 .. MaxFaults
    BY <2>2 DEF RP!IInv, RP!TypeOK
  <2>4. IInv' /\ CalmInv'
    BY <1>1, <2>1, <2>3, SurroundingsIInv, SurroundingsCalmInv DEF patternVars
  <2> QED
    BY <2>2, <2>4 DEF PInv
<1>5. CASE UNCHANGED pipelineVars
  <2>1. UNCHANGED <<readVars, faults>> /\ UNCHANGED vars
    BY <1>5 DEF pipelineVars, patternVars, vars, jsVars
  <2>2. UNCHANGED Events
    BY <2>1 DEF vars, Events, EventOf
  <2>3. IInv' /\ CalmInv'
    BY <1>1, <2>1, StepIInv, StepCalmInv
  <2>4. RP!IInv'
    BY <1>1, <2>1, <2>2, AroundReadService DEF TypeOK
  <2> QED
    BY <2>3, <2>4 DEF PInv
<1> QED
  BY <1>2, <1>3, <1>4, <1>5 DEF PipelineNext, PatternStep, ReadStep

\* It holds in every reachable state.
LEMMA PipelineInvariance == PipelineSpec => []PInv
  BY InitPInv, StepPInv, PTL DEF PipelineSpec

-----------------------------------------------------------------------------
(* From the row back to the metric, and from the metric to the row *)

\* A row of the history comes from one event, and carries what the event does.
LEMMA RowOfEvent ==
    ASSUME PInv, NEW k \in 1 .. Len(db.rows)
    PROVE  \E i \in 1 .. Len(anomalies) :
              /\ db.rows[k].key = [id |-> i, seq |-> 0]
              /\ db.rows[k].ts = anomalies[i]
              /\ db.rows[k].series = stream[anomalies[i]].series
<1>1. TypeOK /\ RP!RowsOfStream
  BY DEF PInv, IInv, RP!IInv
<1>2. PICK i \in 1 .. Len(Events) : db.rows[k] = RP!RowOf(i)
  BY <1>1 DEF RP!RowsOfStream
<1>3. i \in 1 .. Len(anomalies) /\ Events[i] = EventOf(i, anomalies[i])
  BY <1>1, <1>2, EventsOfAnomalies
<1>4. i # NoId
  BY <1>3, EventsWithinBound, PipelineAssumption
<1>5. RP!DedupKey(i) = [id |-> i, seq |-> 0]
  BY <1>3, <1>4 DEF RP!DedupKey, RP!EventID, EventOf
<1> QED
  BY <1>2, <1>3, <1>5 DEF RP!RowOf, EventOf

\* The history shows only what Observe called an anomaly.
LEMMA HistoryIsOfBreaches == PInv => RowsAreBreaches
<1> SUFFICES ASSUME PInv, NEW n \in Sequence, NEW k \in RowsAbout(n)
             PROVE  n \in breaches /\ db.rows[k].series = stream[n].series
  BY DEF RowsAreBreaches
<1>1. k \in 1 .. Len(db.rows) /\ db.rows[k].ts = n
  BY DEF RowsAbout
<1>2. PICK i \in 1 .. Len(anomalies) : /\ db.rows[k].ts = anomalies[i]
                                       /\ db.rows[k].series = stream[anomalies[i]].series
  BY <1>1, RowOfEvent
<1>3. Reported(n) /\ n \in 1 .. Len(stream)
  BY <1>1, <1>2, EventsOfAnomalies DEF Reported, PInv, IInv
<1> QED
  BY <1>1, <1>2, <1>3 DEF PInv, IInv, OnlyBreachesReported

\* An event that read-service has let go has its row.
LEMMA EventIsRecorded ==
    ASSUME PInv, NEW n \in 1 .. Len(stream), Reported(n), InTransit(n) = {}
    PROVE  RowsAbout(n) # {}
<1>1. PICK i \in 1 .. Len(anomalies) : anomalies[i] = n
  BY DEF Reported
<1>2. RP!Settled(i)
  BY <1>1 DEF InTransit, Read!Settled, RP!Settled
<1>3. i \in 1 .. Len(Events) /\ Events[i] = EventOf(i, n)
  BY <1>1, EventsOfAnomalies DEF PInv, IInv
<1>4. RP!DedupKey(i) = [id |-> i, seq |-> 0] /\ ~RP!Malformed(Events[i])
  BY <1>3, EventsWithinBound, PipelineAssumption
  DEF RP!DedupKey, RP!EventID, RP!Malformed, EventOf, PInv
<1>5. [id |-> i, seq |-> 0] \in RP!Keys(db.rows)
  BY <1>2, <1>3, <1>4 DEF PInv, RP!IInv, RP!SettledIsProcessed, RP!RecordedOnce
<1>6. PICK k \in 1 .. Len(db.rows) : db.rows[k].key = [id |-> i, seq |-> 0]
  BY <1>5 DEF RP!Keys
<1>7. PICK j \in 1 .. Len(anomalies) : /\ db.rows[k].key = [id |-> j, seq |-> 0]
                                       /\ db.rows[k].ts = anomalies[j]
  BY <1>6, RowOfEvent
<1>8. j = i
  <2>1. [id |-> i, seq |-> 0].id = i /\ [id |-> j, seq |-> 0].id = j
    OBVIOUS
  <2> QED
    BY <1>6, <1>7, <2>1
<1> QED
  BY <1>1, <1>6, <1>7, <1>8 DEF RowsAbout

\* What both services have let go is in the history, or was found normal.
LEMMA HistoryMissesNothing == PInv => NothingLostOnTheWay
  BY EventIsRecorded DEF NothingLostOnTheWay, PInv, IInv, SettledIsJudged

\* In a calm run two rows are not about one metric, and a metric has its row if
\* and only if it was expected to.
LEMMA HistoryIsCalm == PInv => CalmHistoryIsExact
<1> SUFFICES ASSUME PInv, calm, NEW n \in 1 .. Len(stream)
             PROVE  /\ Cardinality(RowsAbout(n)) <= 1
                    /\ Settled(n) /\ InTransit(n) = {} => (RowsAbout(n) # {} <=> Expected(n))
  BY DEF CalmHistoryIsExact
<1>1. Settled(n) => (Reported(n) <=> Expected(n))
  BY CalmRun DEF PInv, CalmRunIsExact
<1>2. \A i, j \in 1 .. Len(anomalies) : i < j => anomalies[i] < anomalies[j]
  BY CalmRun DEF PInv, CalmRunIsExact
<1>3. ASSUME NEW k \in RowsAbout(n), NEW l \in RowsAbout(n) PROVE k = l
  <2>1. /\ k \in 1 .. Len(db.rows) /\ db.rows[k].ts = n
        /\ l \in 1 .. Len(db.rows) /\ db.rows[l].ts = n
    BY DEF RowsAbout
  <2>2. PICK i \in 1 .. Len(anomalies) : /\ db.rows[k].key = [id |-> i, seq |-> 0]
                                         /\ n = anomalies[i]
    BY <2>1, RowOfEvent
  <2>3. PICK j \in 1 .. Len(anomalies) : /\ db.rows[l].key = [id |-> j, seq |-> 0]
                                         /\ n = anomalies[j]
    BY <2>1, RowOfEvent
  <2>4. i = j
    <3>1. Len(anomalies) \in Nat /\ n \in Nat /\ n = anomalies[i] /\ n = anomalies[j]
      BY <2>2, <2>3 DEF PInv, IInv, TypeOK, JsTypeOK
    <3>2. CASE i < j
      <4>1. anomalies[i] < anomalies[j]
        BY <1>2, <3>2
      <4> QED
        BY <3>1, <4>1
    <3>3. CASE j < i
      <4>1. anomalies[j] < anomalies[i]
        BY <1>2, <3>3
      <4> QED
        BY <3>1, <4>1
    <3> QED
      BY <3>1, <3>2, <3>3
  <2>5. RP!RecordedOnce
    BY DEF PInv, RP!IInv
  <2> QED
    BY <2>1, <2>2, <2>3, <2>4, <2>5 DEF RP!RecordedOnce
<1>4. Cardinality(RowsAbout(n)) <= 1
  <2>1. CASE RowsAbout(n) = {}
    BY <2>1, FS_EmptySet
  <2>2. CASE RowsAbout(n) # {}
    <3>1. PICK k : RowsAbout(n) = {k}
      <4>1. PICK k : k \in RowsAbout(n)
        BY <2>2
      <4>2. RowsAbout(n) = {k}
        BY <1>3, <4>1
      <4> QED
        BY <4>2
    <3>2. Cardinality({k}) = 1
      BY FS_Singleton
    <3> QED
      BY <3>1, <3>2
  <2> QED
    BY <2>1, <2>2
<1>5. RowsAbout(n) # {} => Reported(n)
  <2> SUFFICES ASSUME NEW k \in RowsAbout(n) PROVE Reported(n)
    OBVIOUS
  <2>1. k \in 1 .. Len(db.rows) /\ db.rows[k].ts = n
    BY DEF RowsAbout
  <2> QED
    BY <2>1, RowOfEvent DEF Reported
<1> QED
  BY <1>1, <1>4, <1>5, EventIsRecorded

-----------------------------------------------------------------------------
(* Theorems *)

\* No row of the history stands for a value within its threshold, and each is
\* filed under the series of its metric.
THEOREM HistoryIsTrue == PipelineSpec => []RowsAreBreaches
  BY PipelineInvariance, HistoryIsOfBreaches, PTL

\* A metric that left both streams was called normal, was unreadable, or is in
\* the history, whatever failed in either service.
THEOREM HistoryIsComplete == PipelineSpec => []NothingLostOnTheWay
  BY PipelineInvariance, HistoryMissesNothing, PTL

\* As long as pattern-service is undisturbed, whatever read-service goes through,
\* the history has exactly the expected anomalies, each once.
THEOREM CalmHistory == PipelineSpec => []CalmHistoryIsExact
  BY PipelineInvariance, HistoryIsCalm, PTL

\* For those who query it, the two services and their streams together are the
\* atomic, exactly-once recording of ReadModel.
THEOREM HistoryIsReadModel == PipelineSpec => RP!ImplementsReadModel
<1>1. PInv /\ PipelineInit => RP!RM!Init
  BY DEF PipelineInit, Read!Init, Read!EmptyTables, RP!RM!Init
<1>2. PInv /\ [PipelineNext]_pipelineVars => [RP!RM!Next]_<<db.rows, db.state>>
  <2> SUFFICES ASSUME PInv, [PipelineNext]_pipelineVars
               PROVE  [RP!RM!Next]_<<db.rows, db.state>>
    OBVIOUS
  <2>1. CASE ReadStep
    BY <2>1, ReadStepIsNext, RP!StepReadModel, EventsBounds, EventsAssumption DEF PInv
  <2>2. CASE ~ReadStep
    <3>1. UNCHANGED readVars
      BY <2>2, PatternStepIsNext DEF PipelineNext, RecordMetric, PatternStep, ReadStep,
         pipelineVars
    <3> QED
      BY <3>1 DEF readVars
  <2> QED
    BY <2>1, <2>2
<1> QED
  BY <1>1, <1>2, InitPInv, PipelineInvariance, PTL
  DEF PipelineSpec, RP!ImplementsReadModel, RP!RM!Spec
=============================================================================
