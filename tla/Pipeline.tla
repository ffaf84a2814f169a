------------------------------ MODULE Pipeline ------------------------------
(***************************************************************************)
(* From a metric in METRICS_RECORDED to a row of the read model:           *)
(* PatternService and Projector side by side, with the stream ANOMALIES    *)
(* between them.                                                           *)
(*                                                                         *)
(* What PatternService publishes is what Projector consumes: the i-th      *)
(* event of `anomalies` is a V2 envelope with an event id of its own, the  *)
(* series of its metric and the time of its metric.  Each service has its  *)
(* own durable and its own failures, out of one budget.                    *)
(***************************************************************************)
EXTENDS PatternService

CONSTANTS
    Workloads,      \* the sequences of metrics that metrics-service may record
    NoId, NoRow,
    MaxEvents       \* bound: events in ANOMALIES, the repeated ones included

VARIABLES
    \* The durable of read-service on ANOMALIES, and its process.
    aExists, aOwned, aCursor, aPending, aInbox, rProc, rPc, rMsg, tx, db

patternVars == <<jsVars, proc, pc, msg, windows, anomalies, breaches, again, cleared, calm>>
readVars == <<aExists, aOwned, aCursor, aPending, aInbox, rProc, rPc, rMsg, tx, db>>
pipelineVars == <<patternVars, readVars, faults>>

\* Mutant: the event carries the time of its publication.
EventOfLateTime(i, n) ==
    [shape |-> "envelope", id |-> i, series |-> stream[n].series, ts |-> i]

\* Mutant: the event id is made from the series.
EventOfSeriesId(i, n) ==
    [shape |-> "envelope", id |-> IF stream[n].series = stream[1].series THEN 1 ELSE 2,
     series |-> stream[n].series, ts |-> n]

\* newAnomalyDetectedEventV2: the i-th event in ANOMALIES, about metric n.
EventOf(i, n) ==
    [shape |-> "envelope", id |-> i, series |-> stream[n].series, ts |-> n]

Events == [i \in 1 .. Len(anomalies) |-> EventOf(i, anomalies[i])]

Read == INSTANCE Projector WITH
    Payload <- [shape : {"envelope"}, id : 1 .. MaxEvents, series : Series, ts : Sequence],
    EventId <- 1 .. MaxEvents, Timestamp <- Sequence, MaxStream <- MaxEvents,
    stream <- Events, exists <- aExists, owned <- aOwned, cursor <- aCursor,
    pending <- aPending, inbox <- aInbox, proc <- rProc, pc <- rPc, msg <- rMsg

ASSUME PipelineAssumption ==
    /\ Workloads \subseteq Seq(Payload)
    /\ MaxEvents \in Nat
    /\ NoId \notin 1 .. MaxEvents
    /\ NoRow \notin Read!Row

PipelineInit == Init /\ Read!Init

\* The bound on ANOMALIES, for the steps that may store an event.
WithinBound == Len(anomalies') <= MaxEvents

-----------------------------------------------------------------------------

\* The metrics so far, and p next, are the beginning of a workload.
Planned(p) ==
    \E w \in Workloads : LET n == Len(stream) + 1
                         IN  n <= Len(w) /\ SubSeq(w, 1, n) = Append(stream, p)

\* metrics-service has a metric stored.
RecordMetric ==
    /\ \E p \in Payload : Planned(p) /\ Publish(p)
    /\ UNCHANGED <<proc, pc, msg, windows, anomalies, faults, breaches, again, cleared, calm,
                   readVars>>

PatternHandler == UNCHANGED readVars /\ HandlerStep /\ WithinBound

PatternPush == UNCHANGED readVars /\ ServerPush

PatternPushAgain == UNCHANGED readVars /\ \E n \in Sequence : ServerPushAgain(n)

\* pattern-service starts, stops, crashes, or evicts a window.
PatternProcess ==
    /\ UNCHANGED readVars
    /\ \/ Start \/ Stop \/ DrainDeletesDurable \/ CloseConnection \/ Exit \/ Crash
       \/ \E s \in Series : Cleanup(s)
    /\ WithinBound

ReadHandler == UNCHANGED patternVars /\ Read!HandlerStep

ReadPush == UNCHANGED patternVars /\ Read!ServerPush

ReadPushAgain ==
    UNCHANGED patternVars /\ \E i \in 1 .. MaxEvents : Read!ServerPushAgain(i)

\* read-service starts, stops or crashes.
ReadProcess ==
    /\ UNCHANGED patternVars
    /\ \/ Read!Start \/ Read!Stop \/ Read!DrainDeletesDurable
       \/ Read!CloseConnection \/ Read!Exit \/ Read!Crash

PipelineNext ==
    \/ RecordMetric
    \/ PatternHandler \/ PatternPush \/ PatternPushAgain \/ PatternProcess
    \/ ReadHandler \/ ReadPush \/ ReadPushAgain \/ ReadProcess

\* Handlers run on, and each durable pushes what it owes.  No message is given
\* back for ever, so it need not be fair to each of them.
PipelineFairness ==
    /\ WF_pipelineVars(PatternHandler)
    /\ WF_pipelineVars(PatternPush)
    /\ WF_pipelineVars(PatternPushAgain)
    /\ WF_pipelineVars(ReadHandler)
    /\ WF_pipelineVars(ReadPush)
    /\ WF_pipelineVars(ReadPushAgain)

PipelineSpec == PipelineInit /\ [][PipelineNext]_pipelineVars /\ PipelineFairness

-----------------------------------------------------------------------------
(* Properties *)

\* The rows about the n-th metric, known by its time.
RowsAbout(n) == {i \in 1 .. Len(db.rows) : db.rows[i].ts = n}

\* The events about the n-th metric that read-service has not dealt with.
InTransit(n) ==
    {i \in 1 .. Len(anomalies) : anomalies[i] = n /\ ~Read!Settled(i)}

\* No row of the history stands for a value that was within its threshold, and
\* each is filed under the series of its metric, across both services and all
\* that can fail between them.
RowsAreBreaches ==
    \A n \in Sequence : RowsAbout(n) # {} =>
        /\ n \in breaches
        /\ \A i \in RowsAbout(n) : db.rows[i].series = stream[n].series

\* A metric that left METRICS_RECORDED, and whose events left ANOMALIES, was
\* called normal or is in the history, unless its payload is malformed.
NothingLostOnTheWay ==
    \A n \in 1 .. Len(stream) :
        Settled(n) /\ InTransit(n) = {} =>
            Malformed(stream[n]) \/ n \in cleared \/ RowsAbout(n) # {}

\* As long as nothing disturbs pattern-service, the history is what an observer
\* of the metrics expects, each anomaly once, whatever read-service goes through.
CalmHistoryIsExact ==
    calm => \A n \in 1 .. Len(stream) :
        /\ Cardinality(RowsAbout(n)) <= 1
        /\ Settled(n) /\ InTransit(n) = {} => (RowsAbout(n) # {} <=> Expected(n))

\* Once both services stay up, every metric is judged, also one that cannot be
\* turned into an event, and every event about it reaches the history.
EveryEventArrives ==
    <>[](proc = "running" /\ rProc = "running") =>
        \A n \in Sequence :
            [](n <= Len(stream) =>
                  <>(Settled(n) /\ (Reported(n) => RowsAbout(n) # {})))
=============================================================================
