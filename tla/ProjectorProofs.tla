--------------------------- MODULE ProjectorProofs ---------------------------
(***************************************************************************)
(* What read-service's projection guarantees for every stream, every       *)
(* number of failures and every order of deliveries.                       *)
(*                                                                         *)
(* IInv is inductive: TransactionInv says what the transaction's copy of   *)
(* the tables differs in from the committed ones at each step, and this is *)
(* what a commit, expected, ambiguous or in a crash, makes visible.        *)
(***************************************************************************)
EXTENDS Projector, DurableConsumerProofs

\* Each row was made of a message of the stream.
RowsOfStream ==
    \A i \in 1 .. Len(db.rows) : \E n \in 1 .. Len(stream) : db.rows[i] = RowOf(n)

\* A message that the server will not push again has its dedup key marked: what
\* the transaction itself sees of a recorded message.
SettledIsProcessed ==
    \A n \in 1 .. Len(stream) :
        Settled(n) => Malformed(stream[n]) \/ DedupKey(n) \in db.processed

IInv ==
    /\ TypeOK /\ RecordedOnce /\ StateIsLastRow /\ SettledIsProcessed /\ TransactionInv
    /\ RowsOfStream

-----------------------------------------------------------------------------
(* Lemmas about the tables *)

\* The key and the row that Handle makes of a message of the stream are of the
\* types of the tables.
LEMMA RowOfType ==
    ASSUME JsTypeOK, NEW n \in 1 .. Len(stream)
    PROVE  /\ stream[n] \in Payload
           /\ DedupKey(n) \in Key
           /\ RowOf(n) \in Row
           /\ RowOf(n).key = DedupKey(n)
           /\ RowOf(n).series = stream[n].series
           /\ stream[n].series \in Series
<1>1. stream[n] \in Payload /\ n \in Sequence
  BY BoundsAssumption DEF JsTypeOK, Sequence
<1>2. stream[n] \in [shape : Shape, id : EventId \cup {NoId}, series : Series, ts : Timestamp]
  BY <1>1, ProjectorAssumption
<1>3. DedupKey(n) \in Key
  <2>1. EventID(stream[n]) \in EventId \cup {NoId}
    BY <1>1, <1>2 DEF EventID
  <2> QED
    BY <1>1, <2>1 DEF DedupKey, Key
<1> QED
  BY <1>1, <1>2, <1>3 DEF RowOf, Row

\* Appending a row adds its key and keeps every earlier row where it was.
LEMMA AppendRow ==
    ASSUME NEW rows \in Seq(Row), NEW r \in Row
    PROVE  /\ Append(rows, r) \in Seq(Row)
           /\ Len(Append(rows, r)) = Len(rows) + 1
           /\ \A i \in 1 .. Len(rows) : Append(rows, r)[i] = rows[i]
           /\ Append(rows, r)[Len(rows) + 1] = r
           /\ Keys(Append(rows, r)) = Keys(rows) \cup {r.key}
<1>1. /\ Append(rows, r) \in Seq(Row)
      /\ Len(Append(rows, r)) = Len(rows) + 1
      /\ \A i \in 1 .. Len(rows) : Append(rows, r)[i] = rows[i]
      /\ Append(rows, r)[Len(rows) + 1] = r
      /\ Len(rows) \in Nat
  OBVIOUS
<1>2. ASSUME NEW k PROVE k \in Keys(Append(rows, r)) <=> k \in Keys(rows) \cup {r.key}
  <2>1. \A i \in 1 .. Len(rows) + 1 : i \in 1 .. Len(rows) \/ i = Len(rows) + 1
    BY <1>1
  <2> QED
    BY <1>1, <2>1 DEF Keys
<1> QED
  BY <1>1, <1>2

\* The tables of a finished transaction: what a commit makes visible.
LEMMA CommittedTables ==
    ASSUME TypeOK, RecordedOnce, StateIsLastRow, TransactionInv,
           pc \in {"commit", "skip"}
    PROVE  /\ tx.processed = Keys(tx.rows)
           /\ \A i, j \in 1 .. Len(tx.rows) : tx.rows[i].key = tx.rows[j].key => i = j
           /\ \A s \in Series :
                \/ /\ tx.state[s] = NoRow
                   /\ \A i \in 1 .. Len(tx.rows) : tx.rows[i].series # s
                \/ \E i \in 1 .. Len(tx.rows) :
                      /\ tx.state[s] = tx.rows[i]
                      /\ tx.rows[i].series = s
                      /\ \A j \in i + 1 .. Len(tx.rows) : tx.rows[j].series # s
           /\ DedupKey(msg) \in tx.processed
           /\ db.processed \subseteq tx.processed
<1>1. CASE pc = "skip"
  <2>1. tx = db /\ DedupKey(msg) \in db.processed
    BY <1>1 DEF TransactionInv
  <2> QED
    BY <2>1 DEF RecordedOnce, StateIsLastRow
<1>2. CASE pc = "commit"
  <2> DEFINE r == RowOf(msg)
             n == Len(db.rows)
  <2>1. /\ msg \in 1 .. Len(stream)
        /\ DedupKey(msg) \notin db.processed
        /\ tx.processed = db.processed \cup {DedupKey(msg)}
        /\ tx.rows = Append(db.rows, r)
        /\ tx.state = [db.state EXCEPT ![stream[msg].series] = r]
    BY <1>2 DEF TransactionInv
  <2>2. r \in Row /\ r.key = DedupKey(msg) /\ r.series = stream[msg].series /\ r.series \in Series
    BY <2>1, RowOfType DEF TypeOK
  <2>3. db.rows \in Seq(Row) /\ db.state \in [Series -> Row \cup {NoRow}] /\ n \in Nat
    BY DEF TypeOK, Tables
  <2>4. /\ Len(tx.rows) = n + 1
        /\ \A i \in 1 .. n : tx.rows[i] = db.rows[i]
        /\ tx.rows[n + 1] = r
        /\ Keys(tx.rows) = Keys(db.rows) \cup {r.key}
    BY <2>1, <2>2, <2>3, AppendRow
  <2>5. \A i \in 1 .. n + 1 : i \in 1 .. n \/ i = n + 1
    BY <2>3
  <2>6. tx.processed = Keys(tx.rows)
    BY <2>1, <2>2, <2>4 DEF RecordedOnce
  <2>7. \A i \in 1 .. n : db.rows[i].key # r.key
    BY <2>1, <2>2 DEF RecordedOnce, Keys
  <2>8. \A i, j \in 1 .. Len(tx.rows) : tx.rows[i].key = tx.rows[j].key => i = j
    BY <2>3, <2>4, <2>5, <2>7 DEF RecordedOnce
  <2>9. ASSUME NEW s \in Series
        PROVE  \/ /\ tx.state[s] = NoRow
                  /\ \A i \in 1 .. Len(tx.rows) : tx.rows[i].series # s
               \/ \E i \in 1 .. Len(tx.rows) :
                     /\ tx.state[s] = tx.rows[i]
                     /\ tx.rows[i].series = s
                     /\ \A j \in i + 1 .. Len(tx.rows) : tx.rows[j].series # s
    <3>1. CASE s = r.series
      <4>1. tx.state[s] = tx.rows[n + 1] /\ tx.rows[n + 1].series = s
        BY <3>1, <2>1, <2>2, <2>3, <2>4
      <4>2. \A j \in (n + 1) + 1 .. Len(tx.rows) : tx.rows[j].series # s
        BY <2>3, <2>4
      <4>3. n + 1 \in 1 .. Len(tx.rows)
        BY <2>3, <2>4
      <4> QED
        BY <4>1, <4>2, <4>3
    <3>2. CASE s # r.series
      <4>1. tx.state[s] = db.state[s]
        BY <3>2, <2>1, <2>2, <2>3
      <4>2. CASE /\ db.state[s] = NoRow
                 /\ \A i \in 1 .. n : db.rows[i].series # s
        BY <4>1, <4>2, <3>2, <2>4, <2>5
      <4>3. ASSUME NEW i \in 1 .. n,
                   db.state[s] = db.rows[i], db.rows[i].series = s,
                   \A j \in i + 1 .. n : db.rows[j].series # s
            PROVE  \E k \in 1 .. Len(tx.rows) :
                      /\ tx.state[s] = tx.rows[k]
                      /\ tx.rows[k].series = s
                      /\ \A j \in k + 1 .. Len(tx.rows) : tx.rows[j].series # s
        <5>1. tx.state[s] = tx.rows[i] /\ tx.rows[i].series = s /\ i \in 1 .. Len(tx.rows)
          BY <4>1, <4>3, <2>3, <2>4
        <5>2. ASSUME NEW j \in i + 1 .. Len(tx.rows) PROVE tx.rows[j].series # s
          <6>1. j \in i + 1 .. n \/ j = n + 1
            BY <2>3, <2>4
          <6>2. j \in i + 1 .. n => j \in 1 .. n
            BY <2>3
          <6> QED
            BY <6>1, <6>2, <4>3, <3>2, <2>4
        <5> QED
          BY <5>1, <5>2
      <4> QED
        BY <4>2, <4>3 DEF StateIsLastRow
    <3> QED
      BY <3>1, <3>2
  <2> QED
    BY <2>1, <2>6, <2>8, <2>9
<1> QED
  BY <1>1, <1>2

-----------------------------------------------------------------------------
(* Types *)

\* A failure is counted, and the count stays within its bound.
LEMMA FaultType == faults \in 0 .. MaxFaults /\ Fault => faults' \in 0 .. MaxFaults
  BY ProjectorAssumption DEF Fault

\* Each statement turns tables into tables.
LEMMA StatementTypes ==
    ASSUME NEW t \in Tables, NEW k \in Key, NEW r \in Row, NEW s \in Series
    PROVE  /\ [t EXCEPT !.processed = @ \cup {k}] \in Tables
           /\ [t EXCEPT !.rows = Append(@, r)] \in Tables
           /\ [t EXCEPT !.state[s] = r] \in Tables
<1>1. [t EXCEPT !.processed = @ \cup {k}] \in Tables
  BY DEF Tables
<1>2. [t EXCEPT !.rows = Append(@, r)] \in Tables
  <2>1. t.rows \in Seq(Row)
    BY DEF Tables
  <2>2. Append(t.rows, r) \in Seq(Row)
    BY <2>1
  <2> QED
    BY <2>2 DEF Tables
<1>3. [t EXCEPT !.state[s] = r] \in Tables
  <2>1. t.state \in [Series -> Row \cup {NoRow}]
    BY DEF Tables
  <2>2. [t.state EXCEPT ![s] = r] \in [Series -> Row \cup {NoRow}]
    BY <2>1
  <2>3. [t EXCEPT !.state[s] = r] = [t EXCEPT !.state = [t.state EXCEPT ![s] = r]]
    BY DEF Tables
  <2> QED
    BY <2>2, <2>3 DEF Tables
<1> QED
  BY <1>1, <1>2, <1>3

\* The empty tables are tables.
LEMMA EmptyTablesType == EmptyTables \in Tables
  BY DEF EmptyTables, Tables

\* A step of the transaction touches nothing of the server or the process.
LEMMA TransactionStepType ==
    ASSUME TypeOK, UNCHANGED <<jsVars, proc, msg>>, UNCHANGED faults \/ Fault,
           pc' \in Pc, tx' \in Tables, db' \in Tables
    PROVE  TypeOK'
<1>1. JsTypeOK'
  BY JsUnchanged DEF TypeOK
<1>2. (msg \in 0 .. Len(stream))' /\ (proc \in Proc)'
  BY DEF TypeOK, jsVars
<1>3. faults' \in 0 .. MaxFaults
  BY FaultType DEF TypeOK
<1> QED
  BY <1>1, <1>2, <1>3 DEF TypeOK

\* The types hold at the start.
LEMMA InitTypeOK == Init => TypeOK
<1> SUFFICES ASSUME Init PROVE TypeOK
  OBVIOUS
<1>1. JsTypeOK
  BY JsInitType DEF Init
<1>2. 0 \in 0 .. Len(stream)
  BY <1>1 DEF JsTypeOK
<1> QED
  BY <1>1, <1>2, EmptyTablesType, ProjectorAssumption DEF Init, TypeOK, Proc, Pc

\* The steps of handleMessage keep the types.
LEMMA HandlerTypeOK == TypeOK /\ TransactionInv /\ HandlerStep => TypeOK'
<1> SUFFICES ASSUME TypeOK, TransactionInv, HandlerStep PROVE TypeOK'
  OBVIOUS
<1>1. ASSUME msg \in 1 .. Len(stream)
      PROVE  DedupKey(msg) \in Key /\ RowOf(msg) \in Row /\ stream[msg].series \in Series
  BY <1>1, RowOfType DEF TypeOK
<1>2. CASE HandleMessage
  <2>1. /\ Head(inbox) \in 1 .. Len(stream)
        /\ Tail(inbox) \in Seq(1 .. Len(stream))
        /\ Len(Tail(inbox)) <= MaxInbox
    BY <1>2, BoundsAssumption DEF HandleMessage, TypeOK, JsTypeOK
  <2>2. JsTypeOK'
    BY <1>2, <2>1 DEF HandleMessage, TypeOK, JsTypeOK
  <2> QED
    BY <1>2, <2>1, <2>2 DEF HandleMessage, TypeOK, Pc
<1>3. CASE BeginTx
  BY <1>3, TransactionStepType, EmptyTablesType DEF BeginTx, FailTransaction, TypeOK, Pc
<1>4. CASE TryMarkProcessed
  <2>1. DedupKey(msg) \in Key /\ RowOf(msg) \in Row /\ stream[msg].series \in Series
    BY <1>1, <1>4 DEF TryMarkProcessed, TransactionInv
  <2>2. [tx EXCEPT !.processed = @ \cup {DedupKey(msg)}] \in Tables
    BY <2>1, StatementTypes DEF TypeOK
  <2> QED
    BY <1>4, <2>2, TransactionStepType, EmptyTablesType
    DEF TryMarkProcessed, FailTransaction, TypeOK, Pc
<1>5. CASE InsertAnomalyEvent
  <2>1. DedupKey(msg) \in Key /\ RowOf(msg) \in Row /\ stream[msg].series \in Series
    BY <1>1, <1>5 DEF InsertAnomalyEvent, TransactionInv
  <2>2. [tx EXCEPT !.rows = Append(@, RowOf(msg))] \in Tables
    BY <2>1, StatementTypes DEF TypeOK
  <2> QED
    BY <1>5, <2>2, TransactionStepType, EmptyTablesType
    DEF InsertAnomalyEvent, FailTransaction, TypeOK, Pc
<1>6. CASE UpsertSeriesState
  <2>1. DedupKey(msg) \in Key /\ RowOf(msg) \in Row /\ stream[msg].series \in Series
    BY <1>1, <1>6 DEF UpsertSeriesState, TransactionInv
  <2>2. [tx EXCEPT !.state[stream[msg].series] = RowOf(msg)] \in Tables
    BY <2>1, StatementTypes DEF TypeOK
  <2> QED
    BY <1>6, <2>2, TransactionStepType, EmptyTablesType
    DEF UpsertSeriesState, FailTransaction, TypeOK, Pc
<1>7. CASE Commit
  BY <1>7, TransactionStepType, EmptyTablesType DEF Commit, FailTransaction, TypeOK, Pc
<1>8. CASE AckOrTerm
  <2>1. JsTypeOK'
    BY <1>8 DEF AckOrTerm, Settle, TypeOK, JsTypeOK
  <2>2. faults' \in 0 .. MaxFaults
    BY <1>8, FaultType DEF AckOrTerm, TypeOK
  <2> QED
    BY <1>8, <2>1, <2>2 DEF AckOrTerm, TypeOK, JsTypeOK, Pc
<1>9. CASE Nak
  BY <1>9, JsUnchanged DEF Nak, TypeOK, JsTypeOK, jsVars, Pc
<1> QED
  BY <1>2, <1>3, <1>4, <1>5, <1>6, <1>7, <1>8, <1>9 DEF HandlerStep

ProcessStep ==
    \/ Start \/ Stop \/ DrainDeletesDurable \/ CloseConnection \/ Exit \/ Crash

ServerStep ==
    ServerPublish \/ ServerPush \/ \E n \in Sequence : ServerPushAgain(n)

\* Starting, stopping and dying keep the types.
LEMMA ProcessTypeOK == TypeOK /\ ProcessStep => TypeOK'
<1> SUFFICES ASSUME TypeOK, ProcessStep PROVE TypeOK'
  OBVIOUS
<1>1. <<>> \in Seq(1 .. Len(stream)) /\ Len(<<>>) <= MaxInbox
  BY BoundsAssumption
<1>2. CASE Start
  BY <1>1, <1>2 DEF Start, Subscribe, TypeOK, JsTypeOK, Proc
<1>3. CASE Stop
  BY <1>3, JsUnchanged, FaultType DEF Stop, TypeOK, JsTypeOK, jsVars, Proc
<1>4. CASE DrainDeletesDurable
  <2>1. Len(stream) \in Nat
    BY DEF TypeOK, JsTypeOK
  <2>2. JsTypeOK'
    <3>1. 0 \in 0 .. Len(stream) /\ {} \subseteq 1 .. 0
      BY <2>1
    <3> QED
      BY <1>4, <3>1 DEF DrainDeletesDurable, DeleteDurable, TypeOK, JsTypeOK
  <2> QED
    BY <1>4, <2>2 DEF DrainDeletesDurable, DeleteDurable, TypeOK
<1>5. CASE CloseConnection
  BY <1>1, <1>5 DEF CloseConnection, LoseInbox, TypeOK, JsTypeOK, Proc
<1>6. ASSUME ProcessGone, UNCHANGED faults \/ Fault, db' \in Tables PROVE TypeOK'
  <2>1. JsTypeOK'
    BY <1>1, <1>6 DEF ProcessGone, LoseInbox, TypeOK, JsTypeOK
  <2>2. faults' \in 0 .. MaxFaults
    BY <1>6, FaultType DEF TypeOK
  <2>3. 0 \in 0 .. Len(stream')
    BY <1>6 DEF ProcessGone, TypeOK, JsTypeOK
  <2> QED
    BY <1>6, <2>1, <2>2, <2>3, EmptyTablesType DEF ProcessGone, TypeOK, Proc, Pc
<1>7. CASE Exit
  BY <1>6, <1>7 DEF Exit, TypeOK
<1>8. CASE Crash
  BY <1>6, <1>8 DEF Crash, TypeOK
<1> QED
  BY <1>2, <1>3, <1>4, <1>5, <1>7, <1>8 DEF ProcessStep

\* Publishing and pushing keep the types.
LEMMA ServerTypeOK == TypeOK /\ ServerStep => TypeOK'
<1> SUFFICES ASSUME TypeOK, ServerStep PROVE TypeOK'
  OBVIOUS
<1>1. JsTypeOK
  BY DEF TypeOK
<1>2. CASE ServerPublish
  <2>1. PICK p \in Payload : Publish(p)
    BY <1>2 DEF ServerPublish
  <2>2. JsTypeOK' /\ Len(stream') = Len(stream) + 1
    BY <1>1, <2>1, JsPublish
  <2> QED
    BY <1>1, <1>2, <2>2 DEF ServerPublish, TypeOK, JsTypeOK
<1>3. CASE ServerPush
  BY <1>1, <1>3, JsPush DEF ServerPush, Push, TypeOK
<1>4. ASSUME NEW n \in Sequence, ServerPushAgain(n) PROVE TypeOK'
  BY <1>1, <1>4, JsPushAgain DEF ServerPushAgain, PushAgain, TypeOK
<1> QED
  BY <1>2, <1>3, <1>4 DEF ServerStep

\* Every step of the service, the process and the server keeps the types.
LEMMA StepTypeOK == TypeOK /\ TransactionInv /\ [Next]_vars => TypeOK'
<1> SUFFICES ASSUME TypeOK, TransactionInv, [Next]_vars PROVE TypeOK'
  OBVIOUS
<1>1. CASE UNCHANGED vars
  BY <1>1, JsUnchanged DEF vars, jsVars, TypeOK, JsTypeOK
<1>2. CASE HandlerStep \/ ProcessStep \/ ServerStep
  BY <1>2, HandlerTypeOK, ProcessTypeOK, ServerTypeOK
<1> QED
  BY <1>1, <1>2 DEF Next, HandlerStep, ProcessStep, ServerStep

-----------------------------------------------------------------------------
(* The invariant *)

\* The invariant holds at the start: nothing is published or recorded.
LEMMA InitIInv == Init => IInv
<1> SUFFICES ASSUME Init PROVE IInv
  OBVIOUS
<1>1. TypeOK
  BY InitTypeOK
<1>2. /\ db.processed = {} /\ db.rows = <<>> /\ Len(db.rows) = 0
      /\ \A s \in Series : db.state[s] = NoRow
      /\ Len(stream) = 0 /\ pc = "idle"
  BY DEF Init, JsInit, EmptyTables
<1>3. RecordedOnce
  BY <1>2 DEF RecordedOnce, Keys
<1>4. StateIsLastRow
  BY <1>2 DEF StateIsLastRow
<1>5. SettledIsProcessed
  BY <1>2 DEF SettledIsProcessed
<1>6. TransactionInv
  BY <1>2 DEF TransactionInv
<1>7. RowsOfStream
  BY <1>2 DEF RowsOfStream
<1> QED
  BY <1>1, <1>3, <1>4, <1>5, <1>6, <1>7 DEF IInv

\* The stream keeps its messages, so a message keeps its key, its row and its
\* being malformed.
LEMMA StreamStable ==
    ASSUME TypeOK, [Next]_vars, NEW n \in 1 .. Len(stream)
    PROVE  /\ n \in 1 .. Len(stream')
           /\ stream'[n] = stream[n]
           /\ DedupKey(n)' = DedupKey(n)
           /\ RowOf(n)' = RowOf(n)
           /\ Malformed(stream[n])' = Malformed(stream[n])
<1>1. n \in 1 .. Len(stream') /\ stream'[n] = stream[n]
  <2>1. CASE ServerPublish
    BY <2>1 DEF ServerPublish, Publish, TypeOK, JsTypeOK
  <2>2. CASE ~ServerPublish
    BY <2>2 DEF Next, vars, jsVars, HandleMessage, BeginTx, TryMarkProcessed,
       InsertAnomalyEvent, UpsertSeriesState, Commit, AckOrTerm, Nak, Start,
       Subscribe, Stop, DrainDeletesDurable, DeleteDurable, CloseConnection,
       Exit, Crash, ProcessGone, ServerPush, Push, ServerPushAgain, PushAgain
  <2> QED
    BY <2>1, <2>2
<1> QED
  BY <1>1 DEF DedupKey, EventID, RowOf, Malformed

\* The tables change only when a transaction that went through commits.
LEMMA TablesChange ==
    ASSUME [Next]_vars
    PROVE  UNCHANGED db \/ (db' = tx /\ pc \in {"commit", "skip"})
BY DEF Next, vars, jsVars, HandleMessage, BeginTx, TryMarkProcessed,
   InsertAnomalyEvent, UpsertSeriesState, Commit, AckOrTerm, Nak, Start,
   Stop, DrainDeletesDurable, CloseConnection, Exit, Crash,
   ServerPublish, ServerPush, ServerPushAgain

\* No processed key is ever forgotten.
LEMMA ProcessedGrows ==
    ASSUME IInv, [Next]_vars
    PROVE  db.processed \subseteq db'.processed
  BY TablesChange, CommittedTables DEF IInv

\* Of all steps, only the reply of handleMessage settles a message.
LEMMA OnlyReplySettles ==
    ASSUME TypeOK, [Next]_vars, NEW n \in Nat \ {0}, ~Settled(n), Settled(n)'
    PROVE  AckOrTerm /\ n = msg
<1>1. CASE AckOrTerm
  BY <1>1 DEF AckOrTerm, Settle, Settled
<1>2. CASE ServerPush
  BY <1>2 DEF ServerPush, Push, Settled, TypeOK, JsTypeOK
<1>3. CASE ~AckOrTerm /\ ~ServerPush
  <2>1. UNCHANGED <<cursor, pending>> \/ (cursor' = 0 /\ pending' = {})
    BY <1>3 DEF Next, vars, jsVars, HandleMessage, BeginTx, TryMarkProcessed,
       InsertAnomalyEvent, UpsertSeriesState, Commit, Nak, Start, Subscribe,
       Stop, DrainDeletesDurable, DeleteDurable, CloseConnection, Exit, Crash,
       ProcessGone, ServerPublish, Publish, ServerPushAgain, PushAgain
  <2> QED
    BY <2>1 DEF Settled
<1> QED
  BY <1>1, <1>2, <1>3

\* Only an Ack or a Term settles a message, and both come after its row or its
\* malformation is known; a commit never takes a dedup key away.
LEMMA StepSettledIsProcessed ==
    ASSUME IInv, [Next]_vars
    PROVE  SettledIsProcessed'
<1> SUFFICES ASSUME NEW n \in 1 .. Len(stream'), Settled(n)'
             PROVE  Malformed(stream[n])' \/ DedupKey(n)' \in db'.processed
  BY DEF SettledIsProcessed
<1>1. Len(stream) \in Nat /\ Len(stream') \in Nat /\ TypeOK
  BY StepTypeOK DEF IInv, TypeOK, JsTypeOK
<1>2. CASE Settled(n)
  <2>1. n \in 1 .. Len(stream)
    BY <1>1, <1>2 DEF Settled, TypeOK, JsTypeOK
  <2>2. Malformed(stream[n]) \/ DedupKey(n) \in db.processed
    BY <1>2, <2>1 DEF IInv, SettledIsProcessed
  <2> QED
    BY <1>1, <2>1, <2>2, StreamStable, ProcessedGrows
<1>3. CASE ~Settled(n)
  <2>1. AckOrTerm /\ n = msg
    BY <1>1, <1>3, OnlyReplySettles
  <2>2. n \in 1 .. Len(stream) /\ (Malformed(stream[n]) \/ DedupKey(n) \in db.processed)
    BY <2>1 DEF AckOrTerm, IInv, TransactionInv
  <2> QED
    BY <1>1, <2>2, StreamStable, ProcessedGrows
<1> QED
  BY <1>2, <1>3

\* What the server, a signal or the end of the connection do leaves the
\* transaction as it is.
LEMMA TransactionUndisturbed ==
    ASSUME IInv, [Next]_vars, UNCHANGED <<pc, msg, tx, db>>
    PROVE  TransactionInv'
<1>1. pc # "idle" => msg \in 1 .. Len(stream)
  BY DEF IInv, TransactionInv
<1>2. pc # "idle" => /\ msg \in 1 .. Len(stream')
                     /\ stream'[msg] = stream[msg]
                     /\ DedupKey(msg)' = DedupKey(msg)
                     /\ RowOf(msg)' = RowOf(msg)
                     /\ Malformed(stream[msg])' = Malformed(stream[msg])
  BY <1>1, StreamStable DEF IInv, DedupKey, RowOf, EventID, Malformed
<1> QED
  BY <1>2 DEF IInv, TransactionInv

\* The statements of Project extend the transaction one after the other.
LEMMA StepTransactionInv ==
    ASSUME IInv, Next
    PROVE  TransactionInv'
<1> DEFINE Same == UNCHANGED <<stream, msg, db>>
<1>1. ASSUME Same
      PROVE  /\ DedupKey(msg)' = DedupKey(msg)
             /\ RowOf(msg)' = RowOf(msg)
  BY <1>1 DEF DedupKey, EventID, RowOf
<1>2. CASE HandleMessage
  <2>1. Head(inbox) \in 1 .. Len(stream)
    BY <1>2 DEF HandleMessage, IInv, TypeOK, JsTypeOK
  <2> QED
    BY <1>2, <2>1 DEF HandleMessage, TransactionInv, Malformed
<1>3. CASE BeginTx
  BY <1>1, <1>3 DEF BeginTx, FailTransaction, IInv, TransactionInv, jsVars
<1>4. CASE TryMarkProcessed
  <2>1. tx = db /\ Same /\ msg \in 1 .. Len(stream)
    BY <1>4 DEF TryMarkProcessed, IInv, TransactionInv, jsVars
  <2>2. db \in Tables
    BY DEF IInv, TypeOK
  <2> QED
    BY <1>1, <1>4, <2>1, <2>2 DEF TryMarkProcessed, FailTransaction, TransactionInv, Tables
<1>5. CASE InsertAnomalyEvent
  BY <1>1, <1>5
  DEF InsertAnomalyEvent, FailTransaction, IInv, TypeOK, Tables, TransactionInv, jsVars
<1>6. CASE UpsertSeriesState
  BY <1>1, <1>6
  DEF UpsertSeriesState, FailTransaction, IInv, TypeOK, Tables, TransactionInv, jsVars
<1>7. CASE Commit
  <2>1. DedupKey(msg) \in tx.processed /\ msg \in 1 .. Len(stream)
    BY <1>7, CommittedTables DEF Commit, IInv, TransactionInv
  <2>2. stream' = stream /\ msg' = msg /\ DedupKey(msg)' = DedupKey(msg)
    BY <1>7 DEF Commit, jsVars, DedupKey, EventID
  <2> QED
    BY <1>7, <2>1, <2>2 DEF Commit, FailTransaction, TransactionInv
<1>8. CASE AckOrTerm \/ Nak
  BY <1>8 DEF AckOrTerm, Nak, TransactionInv
<1>9. CASE Exit \/ Crash
  BY <1>9 DEF Exit, Crash, ProcessGone, TransactionInv
<1>10. CASE \/ Start \/ Stop \/ DrainDeletesDurable \/ CloseConnection
            \/ ServerPublish \/ ServerPush \/ \E n \in Sequence : ServerPushAgain(n)
  BY <1>10, TransactionUndisturbed
  DEF Start, Stop, DrainDeletesDurable, CloseConnection, ServerPublish, ServerPush,
      ServerPushAgain
<1> QED
  BY <1>2, <1>3, <1>4, <1>5, <1>6, <1>7, <1>8, <1>9, <1>10 DEF Next

\* A row is of the message whose transaction is committed.
LEMMA StepRowsOfStream ==
    ASSUME IInv, [Next]_vars
    PROVE  RowsOfStream'
<1> SUFFICES ASSUME NEW i \in 1 .. Len(db'.rows)
             PROVE  \E n \in 1 .. Len(stream') : db'.rows[i] = RowOf(n)'
  BY DEF RowsOfStream
<1>1. \E n \in 1 .. Len(stream) : db'.rows[i] = RowOf(n)
  <2>1. UNCHANGED db \/ (db' = tx /\ pc \in {"commit", "skip"})
    BY TablesChange
  <2>2. CASE UNCHANGED db \/ (db' = tx /\ pc = "skip")
    BY <2>2 DEF IInv, TransactionInv, RowsOfStream
  <2>3. CASE db' = tx /\ pc = "commit"
    <3>1. msg \in 1 .. Len(stream) /\ db'.rows = Append(db.rows, RowOf(msg))
      BY <2>3 DEF IInv, TransactionInv
    <3>2. db.rows \in Seq(Row) /\ RowOf(msg) \in Row
      BY <3>1, RowOfType DEF IInv, TypeOK, Tables
    <3>3. /\ Len(db'.rows) = Len(db.rows) + 1
          /\ \A k \in 1 .. Len(db.rows) : db'.rows[k] = db.rows[k]
          /\ db'.rows[Len(db.rows) + 1] = RowOf(msg)
      BY <3>1, <3>2, AppendRow
    <3>4. i \in 1 .. Len(db.rows) \/ i = Len(db.rows) + 1
      BY <3>2, <3>3
    <3> QED
      BY <3>1, <3>3, <3>4 DEF IInv, RowsOfStream
  <2> QED
    BY <2>1, <2>2, <2>3
<1> QED
  BY <1>1, StreamStable DEF IInv

\* Every step keeps the whole invariant.
LEMMA StepIInv == IInv /\ [Next]_vars => IInv'
<1> SUFFICES ASSUME IInv, [Next]_vars PROVE IInv'
  OBVIOUS
<1>1. TypeOK'
  BY StepTypeOK DEF IInv
<1>2. UNCHANGED db \/ (db' = tx /\ pc \in {"commit", "skip"})
  BY TablesChange
<1>3. RecordedOnce'
  BY <1>2, CommittedTables DEF IInv, RecordedOnce
<1>4. StateIsLastRow'
  BY <1>2, CommittedTables DEF IInv, StateIsLastRow
<1>5. SettledIsProcessed'
  BY StepSettledIsProcessed
<1>6. TransactionInv'
  BY StepTransactionInv, TransactionUndisturbed DEF vars
<1>7. RowsOfStream'
  BY StepRowsOfStream
<1> QED
  BY <1>1, <1>3, <1>4, <1>5, <1>6, <1>7 DEF IInv

\* So does whatever goes on around read-service: others publish to the stream,
\* and failures of theirs may count towards the same bound.
LEMMA SurroundingsIInv ==
    ASSUME IInv, UNCHANGED <<proc, pc, msg, tx, db>>, faults' \in 0 .. MaxFaults,
           UNCHANGED jsVars \/ \E p \in Payload : Publish(p)
    PROVE  IInv'
<1>1. JsTypeOK /\ TypeOK
  BY DEF IInv, TypeOK
<1>2. /\ JsTypeOK'
      /\ UNCHANGED <<cursor, pending>>
      /\ \A n \in 1 .. Len(stream) : n \in 1 .. Len(stream') /\ stream'[n] = stream[n]
  <2>1. CASE UNCHANGED jsVars
    BY <1>1, <2>1, JsUnchanged DEF jsVars
  <2>2. ASSUME NEW p \in Payload, Publish(p)
        PROVE  /\ JsTypeOK'
               /\ UNCHANGED <<cursor, pending>>
               /\ \A n \in 1 .. Len(stream) : /\ n \in 1 .. Len(stream')
                                              /\ stream'[n] = stream[n]
    BY <1>1, <2>2, JsPublish DEF Publish, JsTypeOK
  <2> QED
    BY <2>1, <2>2
<1>3. ASSUME NEW n \in 1 .. Len(stream)
      PROVE  /\ n \in 1 .. Len(stream') /\ stream'[n] = stream[n]
             /\ DedupKey(n)' = DedupKey(n) /\ RowOf(n)' = RowOf(n)
             /\ Malformed(stream[n])' = Malformed(stream[n])
  BY <1>2 DEF DedupKey, EventID, RowOf, Malformed
<1>4. TypeOK'
  <2>1. Len(stream) \in Nat /\ Len(stream') \in Nat /\ msg \in 0 .. Len(stream)
    BY <1>1, <1>2 DEF TypeOK, JsTypeOK
  <2>2. msg \in 0 .. Len(stream')
    BY <1>2, <2>1
  <2> QED
    BY <1>1, <1>2, <2>2 DEF TypeOK
<1>5. RecordedOnce' /\ StateIsLastRow'
  BY DEF IInv, RecordedOnce, StateIsLastRow
<1>6. SettledIsProcessed'
  <2> SUFFICES ASSUME NEW n \in 1 .. Len(stream'), Settled(n)'
               PROVE  Malformed(stream[n])' \/ DedupKey(n)' \in db'.processed
    BY DEF SettledIsProcessed
  <2>1. Settled(n) /\ n \in 1 .. Len(stream)
    BY <1>1, <1>2, SettledOfStream DEF Settled, JsTypeOK
  <2> QED
    BY <1>3, <2>1 DEF IInv, SettledIsProcessed
<1>7. TransactionInv'
  BY <1>3 DEF IInv, TransactionInv, Malformed
<1>8. RowsOfStream'
  BY <1>3 DEF IInv, RowsOfStream
<1> QED
  BY <1>4, <1>5, <1>6, <1>7, <1>8 DEF IInv

\* The invariant holds in every reachable state.
LEMMA Invariance == Spec => []IInv
  BY InitIInv, StepIInv, PTL DEF Spec

-----------------------------------------------------------------------------
(* Theorems *)

\* Every variable keeps its type: in particular the server never holds a
\* sequence for unacknowledged that it did not push.
THEOREM TypeCorrectness == Spec => []TypeOK
<1>1. IInv => TypeOK
  BY DEF IInv
<1> QED
  BY <1>1, Invariance, PTL

\* However often a message is delivered, and wherever a call fails or the
\* process dies, its dedup key has one row, and exactly the marked keys have.
THEOREM EffectivelyOnce == Spec => []RecordedOnce
<1>1. IInv => RecordedOnce
  BY DEF IInv
<1> QED
  BY <1>1, Invariance, PTL

\* series_state never drifts from anomaly_events.
THEOREM StateConsistent == Spec => []StateIsLastRow
<1>1. IInv => StateIsLastRow
  BY DEF IInv
<1> QED
  BY <1>1, Invariance, PTL

\* Two messages with one dedup key are one event: the key of a message without
\* an id is its place in the stream, which no other message has.
LEMMA KeyIdentifiesEvent ==
    ASSUME NEW m \in 1 .. Len(stream), NEW n \in 1 .. Len(stream),
           DedupKey(m) = DedupKey(n)
    PROVE  SameEvent(m, n)
<1>1. /\ DedupKey(m).id = EventID(stream[m])
      /\ DedupKey(n).id = EventID(stream[n])
      /\ EventID(stream[m]) = NoId => DedupKey(m).seq = m
      /\ EventID(stream[n]) = NoId => DedupKey(n).seq = n
  BY DEF DedupKey
<1> QED
  BY <1>1 DEF SameEvent

\* A marked key has a row, and the row is of an event with that key.
LEMMA SettledHasRow == IInv => SettledIsRecorded
<1> SUFFICES ASSUME IInv,
                    NEW n \in 1 .. Len(stream), Settled(n), ~Malformed(stream[n])
             PROVE  \E i \in 1 .. Len(db.rows) : SameEvent(db.rows[i].seq, n)
  BY DEF SettledIsRecorded
<1>1. DedupKey(n) \in Keys(db.rows)
  BY DEF IInv, SettledIsProcessed, RecordedOnce
<1>2. PICK i \in 1 .. Len(db.rows) : db.rows[i].key = DedupKey(n)
  BY <1>1 DEF Keys
<1>3. PICK m \in 1 .. Len(stream) : db.rows[i] = RowOf(m)
  BY DEF IInv, RowsOfStream
<1>4. db.rows[i].seq = m /\ DedupKey(m) = DedupKey(n)
  BY <1>2, <1>3 DEF RowOf
<1> QED
  BY <1>4, KeyIdentifiesEvent

\* An event that the server considers dealt with is in the tables: Ack and
\* Term never run ahead of the commit, and no event takes another's dedup key.
THEOREM NothingLost == Spec => []SettledIsRecorded
  BY SettledHasRow, Invariance, PTL

\* A change of the tables is one atomic recording of one new event.
LEMMA StepReadModel ==
    ASSUME IInv, [Next]_vars
    PROVE  [RM!Next]_<<db.rows, db.state>>
<1>1. CASE UNCHANGED db \/ (db' = tx /\ pc = "skip")
  BY <1>1 DEF IInv, TransactionInv
<1>2. CASE db' = tx /\ pc = "commit"
  <2> DEFINE r == RowOf(msg)
  <2>1. /\ msg \in 1 .. Len(stream)
        /\ DedupKey(msg) \notin db.processed
        /\ db'.rows = Append(db.rows, r)
        /\ db'.state = [db.state EXCEPT ![stream[msg].series] = r]
    BY <1>2 DEF IInv, TransactionInv
  <2>2. r \in Row /\ r.key = DedupKey(msg) /\ r.series = stream[msg].series
    BY <2>1, RowOfType DEF IInv, TypeOK
  <2>3. ~RM!Recorded(r.key)
    BY <2>1, <2>2 DEF IInv, RecordedOnce, Keys, RM!Recorded
  <2>4. RM!Record(r)
    BY <2>1, <2>2, <2>3 DEF RM!Record
  <2> QED
    BY <2>2, <2>4 DEF RM!Next
<1> QED
  BY <1>1, <1>2, TablesChange

\* read-service's projection implements the atomic, exactly-once ReadModel:
\* every step of the handler is one recording or invisible to a reader.
THEOREM Refinement == Spec => ImplementsReadModel
<1>1. Init => RM!Init
  BY DEF Init, EmptyTables, RM!Init
<1>2. IInv /\ [Next]_vars => [RM!Next]_<<db.rows, db.state>>
  BY StepReadModel
<1> QED
  BY <1>1, <1>2, Invariance, PTL DEF Spec, ImplementsReadModel, RM!Spec
=============================================================================
