------------------------------ MODULE Projector ------------------------------
(***************************************************************************)
(* read-service: the JetStream consumer of ANOMALIES and the projection of *)
(* its messages into Postgres.                                             *)
(*                                                                         *)
(*   natsjs/consumer.go            Start, handleMessage                    *)
(*   natsjs/mapper_detected_..go   DecodeDetectedAnomaly                   *)
(*   anomaly_detected/handler.go   Handle (malformed or not, dedup key)    *)
(*   anomaly_detected/projector.go Project, one transaction                *)
(*   cmd/read-service/main.go      start, signal, exit                     *)
(*                                                                         *)
(* handleMessage is split where it waits for Postgres or NATS: each        *)
(* statement of the transaction, the commit and the reply are steps of     *)
(* their own, each may fail, and the process may die between any two.      *)
(* The process is the only writer of the tables, so a transaction works on *)
(* a copy of them (tx) that the commit puts in their place.                *)
(***************************************************************************)
EXTENDS DurableConsumer

CONSTANTS
    Series,     \* (source, metric_name, env, region) of an event
    EventId,    \* event ids that producers put in meta.event_id
    NoId,       \* the empty event id
    Timestamp,  \* times of the observations
    NoRow,      \* series_state has no row for the series
    MaxFaults   \* bound: failed or lost calls, crashes and shutdowns

\* A dedup key is an event id or a place in the stream, and never empty: one
\* empty key would make all events without an id the same event.
Key == [id : EventId, seq : {0}] \cup [id : {NoId}, seq : Sequence]
Row == [key : Key, series : Series, ts : Timestamp, seq : Sequence]

Shape == {"envelope", "flat", "malformed"}

ASSUME ProjectorAssumption ==
    /\ Payload \subseteq [shape : Shape, id : EventId \cup {NoId},
                          series : Series, ts : Timestamp]
    /\ NoId \notin EventId
    /\ NoRow \notin Row
    /\ MaxFaults \in Nat

VARIABLES
    proc,    \* the process: down, running, draining or closed (connection)
    pc,      \* where handleMessage is
    msg,     \* the stream sequence it works on, 0 when idle
    tx,      \* the tables as its open transaction sees them
    db,      \* the committed tables
    faults   \* failures so far

vars == <<stream, exists, owned, cursor, pending, inbox,
          proc, pc, msg, tx, db, faults>>

-----------------------------------------------------------------------------
(* The tables *)

Tables == [processed : SUBSET Key,                   \* processed_events
           rows      : Seq(Row),                     \* anomaly_events
           state     : [Series -> Row \cup {NoRow}]] \* series_state

EmptyTables == [processed |-> {}, rows |-> <<>>, state |-> [s \in Series |-> NoRow]]

(* DecodeDetectedAnomaly fails when the payload is not JSON, or lacks the  *)
(* source or the metric name.  A flat (V1) payload carries no event id.    *)
Malformed(p) == p.shape = "malformed"
EventID(p) == IF p.shape = "envelope" THEN p.id ELSE NoId

\* Mutant: no fallback, the key of every event without an id is "".
DedupKeyNoFallback(n) == [id |-> EventID(stream[n]), seq |-> 0]

\* Handle: the event id, or else subject:sequence, identifies the event.
DedupKey(n) ==
    LET id == EventID(stream[n])
    IN  [id |-> id, seq |-> IF id = NoId THEN n ELSE 0]

RowOf(n) == [key |-> DedupKey(n), series |-> stream[n].series,
             ts |-> stream[n].ts, seq |-> n]

-----------------------------------------------------------------------------
(* States of handleMessage and of the process *)

InTransaction == pc \in {"mark", "insert", "upsert", "commit", "skip"}
Pc == {"idle", "begin", "mark", "insert", "upsert", "commit", "skip",
       "ack", "nak", "term"}
Proc == {"down", "running", "draining", "closed"}

TypeOK ==
    /\ JsTypeOK
    /\ proc \in Proc
    /\ pc \in Pc
    /\ msg \in 0 .. Len(stream)
    /\ tx \in Tables
    /\ db \in Tables
    /\ faults \in 0 .. MaxFaults

Init ==
    /\ JsInit
    /\ proc = "down"
    /\ pc = "idle"
    /\ msg = 0
    /\ tx = EmptyTables
    /\ db = EmptyTables
    /\ faults = 0

Fault == faults < MaxFaults /\ faults' = faults + 1

-----------------------------------------------------------------------------
(* handleMessage *)

\* Mutant: a malformed payload is retried.
HandleMessageRetryingMalformed ==
    /\ proc # "down"
    /\ pc = "idle"
    /\ inbox # <<>>
    /\ msg' = Head(inbox)
    /\ inbox' = Tail(inbox)
    /\ pc' = IF Malformed(stream[Head(inbox)]) THEN "nak" ELSE "begin"
    /\ UNCHANGED <<stream, exists, owned, cursor, pending, proc, tx, db, faults>>

\* nats.go hands the next copy to the callback; Handle decodes it and picks
\* the dedup key.  No retry for a malformed payload.
HandleMessage ==
    /\ proc # "down"
    /\ pc = "idle"
    /\ inbox # <<>>
    /\ msg' = Head(inbox)
    /\ inbox' = Tail(inbox)
    /\ pc' = IF Malformed(stream[Head(inbox)]) THEN "term" ELSE "begin"
    /\ UNCHANGED <<stream, exists, owned, cursor, pending, proc, tx, db, faults>>

\* The deferred Rollback, and the error that makes handleMessage Nak.
FailTransaction ==
    /\ Fault
    /\ pc' = "nak"
    /\ tx' = EmptyTables

BeginTx ==
    /\ pc = "begin"
    /\ \/ /\ pc' = "mark"
          /\ tx' = db
          /\ UNCHANGED faults
       \/ FailTransaction
    /\ UNCHANGED <<jsVars, proc, msg, db>>

\* Mutant: the conflict on the dedup key goes unnoticed.
TryMarkProcessedUnchecked ==
    /\ pc = "mark"
    /\ \/ /\ pc' = "insert"
          /\ tx' = [tx EXCEPT !.processed = @ \cup {DedupKey(msg)}]
          /\ UNCHANGED faults
       \/ FailTransaction
    /\ UNCHANGED <<jsVars, proc, msg, db>>

\* INSERT .. ON CONFLICT DO NOTHING RETURNING: no row means already processed.
TryMarkProcessed ==
    /\ pc = "mark"
    /\ \/ /\ DedupKey(msg) \in tx.processed
          /\ pc' = "skip"
          /\ UNCHANGED <<tx, faults>>
       \/ /\ DedupKey(msg) \notin tx.processed
          /\ pc' = "insert"
          /\ tx' = [tx EXCEPT !.processed = @ \cup {DedupKey(msg)}]
          /\ UNCHANGED faults
       \/ FailTransaction
    /\ UNCHANGED <<jsVars, proc, msg, db>>

InsertAnomalyEvent ==
    /\ pc = "insert"
    /\ \/ /\ pc' = "upsert"
          /\ tx' = [tx EXCEPT !.rows = Append(@, RowOf(msg))]
          /\ UNCHANGED faults
       \/ FailTransaction
    /\ UNCHANGED <<jsVars, proc, msg, db>>

\* Mutant: ON CONFLICT DO NOTHING.
UpsertSeriesStateOnlyOnce ==
    /\ pc = "upsert"
    /\ \/ /\ pc' = "commit"
          /\ tx' = IF tx.state[stream[msg].series] = NoRow
                   THEN [tx EXCEPT !.state[stream[msg].series] = RowOf(msg)]
                   ELSE tx
          /\ UNCHANGED faults
       \/ FailTransaction
    /\ UNCHANGED <<jsVars, proc, msg, db>>

\* Mutant: the state is written outside the transaction.
UpsertSeriesStateOutsideTx ==
    /\ pc = "upsert"
    /\ \/ /\ pc' = "commit"
          /\ tx' = [tx EXCEPT !.state[stream[msg].series] = RowOf(msg)]
          /\ db' = [db EXCEPT !.state[stream[msg].series] = RowOf(msg)]
          /\ UNCHANGED faults
       \/ FailTransaction /\ UNCHANGED db
    /\ UNCHANGED <<jsVars, proc, msg>>

\* ON CONFLICT (source, metric_name, env, region) DO UPDATE: always overwrites.
UpsertSeriesState ==
    /\ pc = "upsert"
    /\ \/ /\ pc' = "commit"
          /\ tx' = [tx EXCEPT !.state[stream[msg].series] = RowOf(msg)]
          /\ UNCHANGED faults
       \/ FailTransaction
    /\ UNCHANGED <<jsVars, proc, msg, db>>

\* tx.Commit, at the end of Project and on the idempotent skip.  It may fail
\* before Postgres committed, or after: the answer is lost or the 30s are over.
Commit ==
    /\ pc \in {"commit", "skip"}
    /\ \/ /\ db' = tx
          /\ pc' = "ack"
          /\ tx' = EmptyTables
          /\ UNCHANGED faults
       \/ FailTransaction /\ db' \in {db, tx}
    /\ UNCHANGED <<jsVars, proc, msg>>

\* message.Ack, message.Term: the reply may be lost, and is once the
\* connection is closed.  Errors of the reply are ignored.
AckOrTerm ==
    /\ pc \in {"ack", "term"}
    /\ \/ proc # "closed" /\ Settle(msg) /\ UNCHANGED faults
       \/ proc # "closed" /\ Fault /\ UNCHANGED pending
       \/ proc = "closed" /\ UNCHANGED <<pending, faults>>
    /\ pc' = "idle"
    /\ msg' = 0
    /\ UNCHANGED <<stream, exists, owned, cursor, inbox, proc, tx, db>>

\* Mutant: a message whose processing failed is acknowledged.
NakAcknowledging ==
    /\ pc = "nak"
    /\ pc' = "idle"
    /\ msg' = 0
    /\ Settle(msg)
    /\ UNCHANGED <<stream, exists, owned, cursor, inbox, proc, tx, db, faults>>

\* message.Nak: at most an earlier PushAgain.
Nak ==
    /\ pc = "nak"
    /\ pc' = "idle"
    /\ msg' = 0
    /\ UNCHANGED <<jsVars, proc, tx, db, faults>>

HandlerStep ==
    \/ HandleMessage \/ BeginTx \/ TryMarkProcessed \/ InsertAnomalyEvent
    \/ UpsertSeriesState \/ Commit \/ AckOrTerm \/ Nak

-----------------------------------------------------------------------------
(* The process *)

\* main connects to Postgres and NATS, and starts the consumer.
Start ==
    /\ proc = "down"
    /\ proc' = "running"
    /\ Subscribe
    /\ UNCHANGED <<pc, msg, tx, db, faults>>

\* The signal context is done; Start goes on with subject.Drain().
Stop ==
    /\ proc = "running"
    /\ Fault
    /\ proc' = "draining"
    /\ UNCHANGED <<jsVars, pc, msg, tx, db>>

\* The drained subscription deletes the durable it created.
DrainDeletesDurable ==
    /\ proc = "draining"
    /\ DeleteDurable
    /\ UNCHANGED <<proc, pc, msg, tx, db, faults>>

\* conn.Drain and conn.Close: after wg.Wait, which sees a running handler but
\* not the queued copies, or after shutdownWaitTimeout, in mid-handler.
CloseConnection ==
    /\ proc = "draining"
    /\ proc' = "closed"
    /\ LoseInbox
    /\ UNCHANGED <<stream, exists, owned, cursor, pending, pc, msg, tx, db, faults>>

ProcessGone ==
    /\ proc' = "down"
    /\ pc' = "idle"
    /\ msg' = 0
    /\ tx' = EmptyTables
    /\ owned' = FALSE
    /\ LoseInbox
    /\ UNCHANGED <<stream, exists, cursor, pending>>

\* main returns after srv.Shutdown.  It does not wait for the consumer, but
\* the deferred pool.Close waits for the connection of an open transaction.
Exit ==
    /\ proc \in {"draining", "closed"}
    /\ ~InTransaction
    /\ ProcessGone
    /\ UNCHANGED <<db, faults>>

\* Killed at any point; a commit under way may still take effect.
Crash ==
    /\ proc # "down"
    /\ Fault
    /\ ProcessGone
    /\ db' \in IF pc \in {"commit", "skip"} THEN {db, tx} ELSE {db}

-----------------------------------------------------------------------------
(* The server, and the whole *)

ServerPublish ==
    /\ \E p \in Payload : Publish(p)
    /\ UNCHANGED <<proc, pc, msg, tx, db, faults>>

ServerPush ==
    /\ proc = "running"
    /\ Push
    /\ UNCHANGED <<proc, pc, msg, tx, db, faults>>

ServerPushAgain(n) ==
    /\ proc = "running"
    /\ PushAgain(n)
    /\ UNCHANGED <<proc, pc, msg, tx, db, faults>>

Next ==
    \/ HandleMessage \/ BeginTx \/ TryMarkProcessed \/ InsertAnomalyEvent
    \/ UpsertSeriesState \/ Commit \/ AckOrTerm \/ Nak
    \/ Start \/ Stop \/ DrainDeletesDurable \/ CloseConnection \/ Exit \/ Crash
    \/ ServerPublish \/ ServerPush
    \/ \E n \in Sequence : ServerPushAgain(n)

Spec == Init /\ [][Next]_vars

\* The handler goroutine runs on, the server pushes what it owes, and a
\* process that was told to stop exits.  Nothing restarts a process that is
\* down (docker-compose.yaml has no restart policy).
Fairness ==
    /\ WF_vars(HandlerStep)
    /\ WF_vars(ServerPush)
    /\ \A n \in Sequence : WF_vars(ServerPushAgain(n))
    /\ WF_vars(Exit)

FairSpec == Spec /\ Fairness

-----------------------------------------------------------------------------
(* Properties *)

Keys(rows) == {rows[i].key : i \in 1 .. Len(rows)}

\* processed_events and anomaly_events agree, and no dedup key has two rows:
\* what Project's one transaction and its ON CONFLICT insert are for.
RecordedOnce ==
    /\ db.processed = Keys(db.rows)
    /\ \A i, j \in 1 .. Len(db.rows) : db.rows[i].key = db.rows[j].key => i = j

\* The state of a series is the row recorded last for it: history and
\* current state never drift apart, whatever statement or commit fails.
StateIsLastRow ==
    \A s \in Series :
        \/ /\ db.state[s] = NoRow
           /\ \A i \in 1 .. Len(db.rows) : db.rows[i].series # s
        \/ \E i \in 1 .. Len(db.rows) :
              /\ db.state[s] = db.rows[i]
              /\ db.rows[i].series = s
              /\ \A j \in i + 1 .. Len(db.rows) : db.rows[j].series # s

\* The message m of the stream is the event that n is: the same message, or
\* one that carries the same event id.  A message without an id is its own.
SameEvent(m, n) ==
    m = n \/ (EventID(stream[n]) # NoId /\ EventID(stream[m]) = EventID(stream[n]))

\* At-least-once: an event that the server will not push again has its row in
\* the tables, unless its payload is malformed.  The row is of that message or
\* of one with the same event id, whatever the dedup key makes of the two.
SettledIsRecorded ==
    \A n \in 1 .. Len(stream) :
        Settled(n) => \/ Malformed(stream[n])
                      \/ \E i \in 1 .. Len(db.rows) : SameEvent(db.rows[i].seq, n)

\* What the open transaction holds at each step, and what the reply to come
\* rests on: with the properties above, this makes them inductive.
TransactionInv ==
    /\ pc # "idle" => msg \in 1 .. Len(stream)
    /\ pc \in {"mark", "skip"} => tx = db
    /\ pc \in {"insert", "upsert", "commit"} =>
          /\ DedupKey(msg) \notin db.processed
          /\ tx.processed = db.processed \cup {DedupKey(msg)}
    /\ pc = "insert" => tx.rows = db.rows
    /\ pc \in {"upsert", "commit"} => tx.rows = Append(db.rows, RowOf(msg))
    /\ pc \in {"insert", "upsert"} => tx.state = db.state
    /\ pc = "commit" =>
          tx.state = [db.state EXCEPT ![stream[msg].series] = RowOf(msg)]
    /\ pc \in {"skip", "ack"} => DedupKey(msg) \in db.processed
    /\ pc = "term" => Malformed(stream[msg])

\* Project implements the atomic, exactly-once recording of ReadModel.
RM == INSTANCE ReadModel WITH
        Event <- Row, NoEvent <- NoRow, log <- db.rows, current <- db.state

ImplementsReadModel == RM!Spec

\* A service that stays up deals with every message: it is recorded or is
\* malformed, and the server knows.
EveryMessageSettled ==
    <>[](proc = "running") =>
        \A n \in Sequence : [](n <= Len(stream) => <>Settled(n))

\* "Update the latest known state for this series" (projector.go:111): when
\* events are published in the order of their times, the state of a series is
\* not older than any of its rows.
StreamInTimeOrder ==
    \A m, n \in 1 .. Len(stream) : m < n => stream[m].ts <= stream[n].ts

LatestState ==
    StreamInTimeOrder =>
        \A i \in 1 .. Len(db.rows) :
            db.state[db.rows[i].series].ts >= db.rows[i].ts

\* "graceful shutdown (Drain + wait in-flight)" (natsjs/consumer.go:29): the process
\* does not exit under a handler that is running.
ExitWaitsForHandler == [][Exit => pc = "idle"]_vars

\* "after a service restart the consumer reconnects to the same position in
\* the stream" (docs/architecture-code-guide.md:554).
PositionIsKept == [][cursor' >= cursor]_vars
=============================================================================
