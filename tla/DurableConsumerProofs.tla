------------------------ MODULE DurableConsumerProofs ------------------------
(***************************************************************************)
(* Lemmas on the JetStream side of a consumer, for the proofs about the    *)
(* services that extend it: each operation keeps JsTypeOK, the stream      *)
(* keeps its messages, and only Settle settles.                            *)
(***************************************************************************)
EXTENDS DurableConsumer, TLAPS

\* A step that leaves the server and the inbox alone keeps their types.
LEMMA JsUnchanged == JsTypeOK /\ UNCHANGED jsVars => JsTypeOK'
  BY DEF JsTypeOK, jsVars

\* The types hold before anything was published.
LEMMA JsInitType == JsInit => JsTypeOK
<1> SUFFICES ASSUME JsInit PROVE JsTypeOK
  OBVIOUS
<1>1. /\ <<>> \in Seq(Payload)
      /\ <<>> \in Seq(1 .. Len(stream))
      /\ Len(stream) = 0 /\ Len(inbox) = 0
      /\ 0 <= MaxStream /\ 0 <= MaxInbox
  BY BoundsAssumption DEF JsInit
<1>2. 0 \in 0 .. Len(stream) /\ {} \subseteq 1 .. 0
  BY <1>1
<1> QED
  BY <1>1, <1>2 DEF JsInit, JsTypeOK

\* A publication keeps the types, adds one message and moves none.
LEMMA JsPublish ==
    ASSUME JsTypeOK, NEW p \in Payload, Publish(p)
    PROVE  /\ JsTypeOK'
           /\ Len(stream') = Len(stream) + 1
           /\ \A n \in 1 .. Len(stream) : stream'[n] = stream[n]
<1>1. /\ stream' \in Seq(Payload)
      /\ Len(stream') = Len(stream) + 1
      /\ Len(stream') <= MaxStream
      /\ \A n \in 1 .. Len(stream) : stream'[n] = stream[n]
  BY BoundsAssumption DEF Publish, JsTypeOK
<1>2. inbox' \in Seq(1 .. Len(stream'))
  <2>1. inbox' = inbox /\ inbox \in Seq(1 .. Len(stream))
    BY DEF Publish, JsTypeOK
  <2>2. \A i \in 1 .. Len(inbox) : inbox[i] \in 1 .. Len(stream')
    BY <1>1, <2>1 DEF JsTypeOK
  <2> QED
    BY <2>1, <2>2
<1> QED
  BY <1>1, <1>2 DEF Publish, JsTypeOK

\* Binding to the durable, or creating it, keeps the types.
LEMMA JsSubscribe == JsTypeOK /\ Subscribe => JsTypeOK'
<1>1. <<>> \in Seq(1 .. Len(stream)) /\ Len(<<>>) <= MaxInbox
  BY BoundsAssumption
<1> QED
  BY <1>1 DEF Subscribe, JsTypeOK

\* A first push keeps the types.
LEMMA JsPush == JsTypeOK /\ Push => JsTypeOK'
<1> SUFFICES ASSUME JsTypeOK, Push PROVE JsTypeOK'
  OBVIOUS
<1>1. cursor + 1 \in 1 .. Len(stream)
  BY DEF Push, JsTypeOK
<1>2. /\ Append(inbox, cursor + 1) \in Seq(1 .. Len(stream))
      /\ Len(Append(inbox, cursor + 1)) <= MaxInbox
  BY <1>1, BoundsAssumption DEF Push, JsTypeOK
<1> QED
  BY <1>1, <1>2 DEF Push, JsTypeOK

\* Another push keeps the types.
LEMMA JsPushAgain == ASSUME JsTypeOK, NEW n, PushAgain(n) PROVE JsTypeOK'
<1>1. n \in 1 .. Len(stream)
  BY DEF PushAgain, JsTypeOK
<1>2. /\ Append(inbox, n) \in Seq(1 .. Len(stream))
      /\ Len(Append(inbox, n)) <= MaxInbox
  BY <1>1, BoundsAssumption DEF PushAgain, JsTypeOK
<1> QED
  BY <1>2 DEF PushAgain, JsTypeOK

\* A handler that takes a copy takes a message of the stream.
LEMMA JsTake ==
    ASSUME JsTypeOK, inbox # <<>>, inbox' = Tail(inbox),
           UNCHANGED <<stream, exists, owned, cursor, pending>>
    PROVE  JsTypeOK' /\ Head(inbox) \in 1 .. Len(stream)
<1>1. /\ Head(inbox) \in 1 .. Len(stream)
      /\ Tail(inbox) \in Seq(1 .. Len(stream))
      /\ Len(Tail(inbox)) <= MaxInbox
  BY BoundsAssumption DEF JsTypeOK
<1> QED
  BY <1>1 DEF JsTypeOK

\* An answer, or its loss, keeps the types.
LEMMA JsReply ==
    ASSUME JsTypeOK, NEW n, Settle(n) \/ UNCHANGED pending,
           UNCHANGED <<stream, exists, owned, cursor, inbox>>
    PROVE  JsTypeOK'
  BY DEF Settle, JsTypeOK

\* So does the loss of the inbox, with or without that of the ownership.
LEMMA JsLoseInbox ==
    ASSUME JsTypeOK, LoseInbox, owned' \in BOOLEAN,
           UNCHANGED <<stream, exists, cursor, pending>>
    PROVE  JsTypeOK'
<1>1. <<>> \in Seq(1 .. Len(stream)) /\ Len(<<>>) <= MaxInbox
  BY BoundsAssumption
<1> QED
  BY <1>1 DEF LoseInbox, JsTypeOK

\* So does the end of a drain that deletes the durable.
LEMMA JsDelete == JsTypeOK /\ DeleteDurable => JsTypeOK'
<1> SUFFICES ASSUME JsTypeOK, DeleteDurable PROVE JsTypeOK'
  OBVIOUS
<1>1. 0 \in 0 .. Len(stream) /\ {} \subseteq 1 .. 0
  BY DEF JsTypeOK
<1> QED
  BY <1>1 DEF DeleteDurable, JsTypeOK

-----------------------------------------------------------------------------

\* What an operation of the server other than Settle may do to what is settled:
\* nothing, a first push, or the reset with the durable.
ServerKeeps ==
    \/ UNCHANGED <<cursor, pending>>
    \/ cursor' = cursor + 1 /\ pending' = pending \cup {cursor + 1}
    \/ cursor' = 0 /\ pending' = {}

\* None of these settles a message.
LEMMA NothingElseSettles ==
    ASSUME JsTypeOK, ServerKeeps, NEW n \in Nat \ {0}, Settled(n)'
    PROVE  Settled(n)
  BY DEF ServerKeeps, Settled, JsTypeOK

\* An answer settles the message it is about and no other.
LEMMA OneIsSettled ==
    ASSUME JsTypeOK, NEW m, Settle(m) \/ UNCHANGED pending, UNCHANGED cursor,
           NEW n \in Nat \ {0}, Settled(n)'
    PROVE  Settled(n) \/ n = m
  BY DEF Settle, Settled, JsTypeOK

\* A settled message is one of the stream.
LEMMA SettledOfStream ==
    ASSUME JsTypeOK, NEW n \in Nat \ {0}, Settled(n)
    PROVE  n \in 1 .. Len(stream)
  BY DEF Settled, JsTypeOK
=============================================================================
