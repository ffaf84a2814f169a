--------------------------- MODULE DurableConsumer ---------------------------
(***************************************************************************)
(* The JetStream side of a consumer: a stream, one durable push consumer   *)
(* on it, and the inbox of the subscription that a service opened with     *)
(*                                                                         *)
(*     js.Subscribe(subject, handleMessage, Durable(..), ManualAck(),      *)
(*                  BindStream(..))                                        *)
(*                                                                         *)
(* JetStream and nats.go are not part of the repository: this module is    *)
(* the contract that pattern-service, read-service and ml-predict-service  *)
(* rely on.  Each extends it by the process that takes messages from the   *)
(* inbox.                                                                  *)
(*                                                                         *)
(*  - The durable keeps a cursor (the last sequence it pushed once) and    *)
(*    the set of pushed sequences it holds no acknowledgement of.          *)
(*  - It pushes a pending sequence again whenever its AckWait expires or   *)
(*    a Nak arrives.  AckWait is 30s, the time budget of a handler, so a   *)
(*    second copy may be pushed while the first is queued or in work.      *)
(*  - It pushes nothing new while MaxAckPending sequences are pending: the *)
(*    services leave the limit at the server's default of 1000.            *)
(*  - nats.go calls handleMessage for the copies in the inbox in order,    *)
(*    one at a time.                                                       *)
(*  - nats.go remembers whether its Subscribe call created the durable; if *)
(*    so, Drain deletes the durable once the inbox is empty.               *)
(***************************************************************************)
EXTENDS Naturals, Sequences, FiniteSets

CONSTANTS
    Payload,        \* what a message may carry
    MaxAckPending,  \* how many sequences may be pending before pushes stop
    MaxStream,      \* bound: messages published to the stream
    MaxInbox        \* bound: copies waiting in the client's inbox

ASSUME BoundsAssumption ==
    /\ MaxAckPending \in Nat \ {0}
    /\ MaxStream \in Nat
    /\ MaxInbox \in Nat \ {0}

VARIABLES
    stream,   \* the messages of the stream; the n-th has stream sequence n
    exists,   \* the durable exists on the server
    owned,    \* this process's Subscribe created it, so its Drain deletes it
    cursor,   \* the durable pushed the sequences 1..cursor at least once
    pending,  \* pushed sequences without an acknowledgement
    inbox     \* sequences pushed to the client and not yet taken by a handler

jsVars == <<stream, exists, owned, cursor, pending, inbox>>

Sequence == 1 .. MaxStream

JsTypeOK ==
    /\ stream \in Seq(Payload)
    /\ Len(stream) <= MaxStream
    /\ exists \in BOOLEAN
    /\ owned \in BOOLEAN
    /\ cursor \in 0 .. Len(stream)
    /\ pending \subseteq 1 .. cursor
    /\ inbox \in Seq(1 .. Len(stream))
    /\ Len(inbox) <= MaxInbox

JsInit ==
    /\ stream = <<>>
    /\ exists = FALSE
    /\ owned = FALSE
    /\ cursor = 0
    /\ pending = {}
    /\ inbox = <<>>

\* The producer of the stream has a message stored.
Publish(p) ==
    /\ Len(stream) < MaxStream
    /\ stream' = Append(stream, p)
    /\ UNCHANGED <<exists, owned, cursor, pending, inbox>>

\* js.Subscribe: binds to the durable, or creates it with DeliverAll.
Subscribe ==
    /\ exists' = TRUE
    /\ owned' = ~exists
    /\ inbox' = <<>>
    /\ UNCHANGED <<stream, cursor, pending>>

\* First push of the next message of the stream.
Push ==
    /\ exists
    /\ cursor < Len(stream)
    /\ Cardinality(pending) < MaxAckPending
    /\ Len(inbox) < MaxInbox
    /\ cursor' = cursor + 1
    /\ pending' = pending \cup {cursor + 1}
    /\ inbox' = Append(inbox, cursor + 1)
    /\ UNCHANGED <<stream, exists, owned>>

\* AckWait expired, or a Nak arrived: another copy is pushed.
PushAgain(n) ==
    /\ n \in pending
    /\ Len(inbox) < MaxInbox
    /\ inbox' = Append(inbox, n)
    /\ UNCHANGED <<stream, exists, owned, cursor, pending>>

\* An Ack or a Term of n reaches the server, whichever copy it answers.
Settle(n) == pending' = pending \ {n}

\* The connection is gone: copies the client still held are lost with it.
LoseInbox == inbox' = <<>>

\* End of the Drain of a subscription that created the durable.
DeleteDurable ==
    /\ owned
    /\ exists
    /\ inbox = <<>>
    /\ exists' = FALSE
    /\ owned' = FALSE
    /\ cursor' = 0
    /\ pending' = {}
    /\ UNCHANGED <<stream, inbox>>

\* The server knows n to be dealt with: pushed, and answered by Ack or Term.
Settled(n) == n <= cursor /\ n \notin pending
=============================================================================
