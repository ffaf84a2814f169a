--------------------------- MODULE PatternService ---------------------------
(***************************************************************************)
(* pattern-service: the JetStream consumer of METRICS_RECORDED, the MAD    *)
(* detector, and the publication of anomaly.detected.                      *)
(*                                                                         *)
(*   natsjs/consumer.go                 Start, handleMessage               *)
(*   processor/.., process_metric_..go  Process, Handle                    *)
(*   mad_detector.go                    Observe (see MADRule), Cleanup     *)
(*   natsjs/publisher.go                PublishAnomalyDetected             *)
(*   cmd/pattern-service/run.go         start, cleanup worker, signal, exit *)
(*                                                                         *)
(* The windows are in memory only.  handleMessage is split where it waits  *)
(* for NATS: at the publication and at the reply.                          *)
(***************************************************************************)
EXTENDS DurableConsumer, MADRule

CONSTANTS
    Series,       \* the SeriesKeys: source, metric name, env, region
    Value,        \* metric values
    Environment,  \* the variables that config.Load reads
    MaxFaults     \* bound: failed or lost calls, crashes, shutdowns, evictions

Config == NewMADDetector(Load(Environment))

Shape == {"metric", "unnamed", "malformed"}

ASSUME PatternAssumption ==
    /\ Payload \subseteq [shape : Shape, series : Series, value : Value]
    /\ Value \subseteq Int
    /\ \A name \in DOMAIN Environment \cap DOMAIN Defaults :
          name # "mode" => Environment[name] \in Int
    /\ MaxFaults \in Nat

VARIABLES
    proc,       \* the process: down, running, draining or closed (connection)
    pc,         \* where handleMessage is
    msg,        \* the stream sequence it works on, 0 when idle
    windows,    \* windowsBySeries: the values, <<>> for a missing window
    anomalies,  \* the stream ANOMALIES: the metric that each event is about
    faults,     \* failures so far
    breaches,   \* history: metrics that Observe called an anomaly
    again,      \* history: metrics that Observe called an anomaly more than once
    cleared,    \* history: metrics that Observe called normal
    calm        \* history: no failure, second copy, restart or eviction so far

vars == <<stream, exists, owned, cursor, pending, inbox,
          proc, pc, msg, windows, anomalies, faults, breaches, again, cleared, calm>>

-----------------------------------------------------------------------------

\* The payload is not JSON.
Malformed(p) == p.shape = "malformed"

\* NewDetectedAnomaly refuses an empty source or metric name.
Invalid(p) == p.shape = "unnamed"

\* No window outgrows its size, however often a value is observed again.
SlidingWindow == {held \in Seq(Value) : Len(held) <= Config.windowSize}

Pc == {"idle", "publish", "ack", "nak", "term"}
Proc == {"down", "running", "draining", "closed"}

TypeOK ==
    /\ JsTypeOK
    /\ proc \in Proc
    /\ pc \in Pc
    /\ msg \in 0 .. Len(stream)
    /\ windows \in [Series -> SlidingWindow]
    /\ anomalies \in Seq(1 .. Len(stream))
    /\ faults \in 0 .. MaxFaults
    /\ breaches \subseteq 1 .. Len(stream)
    /\ again \subseteq 1 .. Len(stream)
    /\ cleared \subseteq 1 .. Len(stream)
    /\ calm \in BOOLEAN

NoWindows == [s \in Series |-> <<>>]

Init ==
    /\ JsInit
    /\ proc = "down"
    /\ pc = "idle"
    /\ msg = 0
    /\ windows = NoWindows
    /\ anomalies = <<>>
    /\ faults = 0
    /\ breaches = {}
    /\ again = {}
    /\ cleared = {}
    /\ calm = TRUE

Fault == faults < MaxFaults /\ faults' = faults + 1 /\ calm' = FALSE

-----------------------------------------------------------------------------
(* handleMessage *)

\* The window of the series once Observe has appended the value of p.
WindowWith(p) == WindowAppend(Config, windows[p.series], p.value)

\* The reply, or the call to the publisher, that follows the verdict.
AfterVerdict(p, isAnomaly) ==
    IF ~isAnomaly THEN "ack" ELSE IF Invalid(p) THEN "nak" ELSE "publish"

\* Observe's verdict, for every window that can be.
Window == UNION {[1 .. size -> Value] : size \in 1 .. Config.windowSize}
Verdict == {<<window, Observed(Config, window).isAnomaly>> : window \in Window}
IsAnomaly(window) == <<window, TRUE>> \in Verdict

Judge(n, window, isAnomaly) ==
    /\ windows' = [windows EXCEPT ![stream[n].series] = window]
    /\ pc' = AfterVerdict(stream[n], isAnomaly)
    /\ breaches' = breaches \cup {m \in {n} : isAnomaly}
    /\ again' = again \cup {m \in {n} \cap breaches : isAnomaly}
    /\ cleared' = cleared \cup {m \in {n} : ~isAnomaly}

\* nats.go hands the next copy to the callback.  No retry for a malformed
\* payload; otherwise Observe appends the value, of a redelivery once more.
HandleMessage ==
    LET n == Head(inbox)
        p == stream[n]
    IN  /\ proc # "down"
        /\ pc = "idle"
        /\ inbox # <<>>
        /\ msg' = n
        /\ inbox' = Tail(inbox)
        /\ \/ /\ Malformed(p)
              /\ pc' = "term"
              /\ UNCHANGED <<windows, breaches, again, cleared>>
           \/ /\ ~Malformed(p)
              /\ \E window \in {WindowWith(p)} : Judge(n, window, IsAnomaly(window))
        /\ UNCHANGED <<stream, exists, owned, cursor, pending, proc, anomalies, faults,
                       calm>>

\* Mutant: the error of the publication is swallowed.
PublishIgnoringErrors ==
    /\ pc = "publish"
    /\ \/ /\ anomalies' = Append(anomalies, msg)
          /\ UNCHANGED <<faults, calm>>
       \/ /\ Fault
          /\ anomalies' \in {anomalies, Append(anomalies, msg)}
    /\ pc' = "ack"
    /\ UNCHANGED <<jsVars, proc, msg, windows, breaches, again, cleared>>

\* Mutant: a failed publication is tried again at once.
PublishRetrying ==
    /\ pc = "publish"
    /\ \/ /\ anomalies' = Append(anomalies, msg)
          /\ pc' = "ack"
          /\ UNCHANGED <<faults, calm>>
       \/ /\ Fault
          /\ anomalies' \in {anomalies, Append(anomalies, msg)}
          /\ UNCHANGED pc
    /\ UNCHANGED <<jsVars, proc, msg, windows, breaches, again, cleared>>

\* Publish waits for the stream to acknowledge.  It fails when the event was
\* not stored, and also when it was and the acknowledgement was lost or late.
\* Each event has a new event id, so JetStream and read-service take the event
\* of a retry for another one.
PublishAnomalyDetected ==
    /\ pc = "publish"
    /\ \/ /\ anomalies' = Append(anomalies, msg)
          /\ pc' = "ack"
          /\ UNCHANGED <<faults, calm>>
       \/ /\ Fault
          /\ anomalies' \in {anomalies, Append(anomalies, msg)}
          /\ pc' = "nak"
    /\ UNCHANGED <<jsVars, proc, msg, windows, breaches, again, cleared>>

\* Mutant: the Ack is forgotten.
AckForgotten ==
    /\ pc \in {"ack", "term"}
    /\ pc' = "idle"
    /\ msg' = 0
    /\ UNCHANGED <<jsVars, proc, windows, anomalies, faults, breaches, again, cleared, calm>>

\* message.Ack, message.Term: the reply may be lost, and is once the consumer's
\* connection is closed.  Errors of the reply are ignored.
AckOrTerm ==
    /\ pc \in {"ack", "term"}
    /\ \/ proc # "closed" /\ Settle(msg) /\ UNCHANGED <<faults, calm>>
       \/ proc # "closed" /\ Fault /\ UNCHANGED pending
       \/ proc = "closed" /\ UNCHANGED <<pending, faults, calm>>
    /\ pc' = "idle"
    /\ msg' = 0
    /\ UNCHANGED <<stream, exists, owned, cursor, inbox, proc, windows, anomalies,
                   breaches, again, cleared>>

\* message.Nak: at most an earlier PushAgain.
Nak ==
    /\ pc = "nak"
    /\ pc' = "idle"
    /\ msg' = 0
    /\ UNCHANGED <<jsVars, proc, windows, anomalies, faults, breaches, again, cleared, calm>>

HandlerStep == HandleMessage \/ PublishAnomalyDetected \/ AckOrTerm \/ Nak

\* The cleanup worker: no value of s for an hour, so its messages are not in
\* work.  A disconnected client can see such an hour at any other time.
Cleanup(s) ==
    /\ proc = "running"
    /\ windows[s] # <<>>
    /\ pc # "idle" => stream[msg].series # s
    /\ Fault
    /\ windows' = [windows EXCEPT ![s] = <<>>]
    /\ UNCHANGED <<jsVars, proc, pc, msg, anomalies, breaches, again, cleared>>

-----------------------------------------------------------------------------
(* The process *)

\* run connects to NATS twice, ensures ANOMALIES, and starts the consumer.
Start ==
    /\ proc = "down"
    /\ proc' = "running"
    /\ Subscribe
    /\ UNCHANGED <<pc, msg, windows, anomalies, faults, breaches, again, cleared, calm>>

\* The signal context is done; Start goes on with sub.Drain().
Stop ==
    /\ proc = "running"
    /\ Fault
    /\ proc' = "draining"
    /\ UNCHANGED <<jsVars, pc, msg, windows, anomalies, breaches, again, cleared>>

\* The drained subscription deletes the durable it created.
DrainDeletesDurable ==
    /\ proc = "draining"
    /\ DeleteDurable
    /\ UNCHANGED <<proc, pc, msg, windows, anomalies, faults, breaches, again, cleared, calm>>

\* conn.Drain and conn.Close, after wg.Wait or after shutdownWaitTimeout.  The
\* publisher has a connection of its own.
CloseConnection ==
    /\ proc = "draining"
    /\ proc' = "closed"
    /\ LoseInbox
    /\ UNCHANGED <<stream, exists, owned, cursor, pending, pc, msg, windows, anomalies,
                   faults, breaches, again, cleared, calm>>

\* A publication under way may still be stored.
ProcessGone ==
    /\ proc' = "down"
    /\ pc' = "idle"
    /\ msg' = 0
    /\ windows' = NoWindows
    /\ anomalies' \in IF pc = "publish" THEN {anomalies, Append(anomalies, msg)}
                      ELSE {anomalies}
    /\ owned' = FALSE
    /\ LoseInbox
    /\ UNCHANGED <<stream, exists, cursor, pending, breaches, again, cleared>>

\* run returns after httpServer.Shutdown and waits for no handler.
Exit ==
    /\ proc \in {"draining", "closed"}
    /\ ProcessGone
    /\ UNCHANGED <<faults, calm>>

\* Killed at any point.
Crash ==
    /\ proc # "down"
    /\ Fault
    /\ ProcessGone

-----------------------------------------------------------------------------
(* The server, and the whole *)

ServerPublish ==
    /\ \E p \in Payload : Publish(p)
    /\ UNCHANGED <<proc, pc, msg, windows, anomalies, faults, breaches, again, cleared, calm>>

ServerPush ==
    /\ proc = "running"
    /\ Push
    /\ UNCHANGED <<proc, pc, msg, windows, anomalies, faults, breaches, again, cleared, calm>>

ServerPushAgain(n) ==
    /\ proc = "running"
    /\ PushAgain(n)
    /\ calm' = FALSE
    /\ UNCHANGED <<proc, pc, msg, windows, anomalies, faults, breaches, again, cleared>>

Next ==
    \/ HandleMessage \/ PublishAnomalyDetected \/ AckOrTerm \/ Nak
    \/ \E s \in Series : Cleanup(s)
    \/ Start \/ Stop \/ DrainDeletesDurable \/ CloseConnection \/ Exit \/ Crash
    \/ ServerPublish \/ ServerPush
    \/ \E n \in Sequence : ServerPushAgain(n)

Spec == Init /\ [][Next]_vars

-----------------------------------------------------------------------------
(* Properties *)

Reported(n) == \E i \in 1 .. Len(anomalies) : anomalies[i] = n

\* No metric leaves the stream unjudged: the server pushes it no more only if
\* its payload is malformed, some verdict on it was normal, or an event about
\* it is in ANOMALIES, whatever publication, reply or process failed.
SettledIsJudged ==
    \A n \in 1 .. Len(stream) :
        Settled(n) => Malformed(stream[n]) \/ n \in cleared \/ Reported(n)

\* No false event: an event is about a metric that Observe called an anomaly
\* and that has a source and a name, and one verdict never has two events: a
\* metric is reported again only if it was judged again, and found an anomaly
\* again, after its redelivery.
OnlyBreachesReported ==
    /\ \A n \in 1 .. Len(stream) :
          Reported(n) => n \in breaches /\ ~Invalid(stream[n]) /\ ~Malformed(stream[n])
    /\ \A i, j \in 1 .. Len(anomalies) :
          anomalies[i] = anomalies[j] => i = j \/ anomalies[i] \in again

(* What an observer of the stream expects of the n-th metric: the verdict   *)
(* on the newest WindowSize values of its series.                           *)

\* The readable metrics of series s among the first n.
Places(s, n) == {m \in 1 .. n : stream[m].series = s /\ ~Malformed(stream[m])}

\* The value of the one of them that k others follow.
ValueAt(s, n, k) ==
    LET places == Places(s, n)
        place  == {m \in places : Cardinality({q \in places : q > m}) = k}
    IN  CHOOSE v \in {stream[m].value : m \in place} : TRUE

WindowOf(s, n) ==
    LET count == Cardinality(Places(s, n))
        size  == IF count > Config.windowSize THEN Config.windowSize ELSE count
    IN  [i \in 1 .. size |-> ValueAt(s, n, size - i)]

Expected(n) == /\ ~Malformed(stream[n])
               /\ ~Invalid(stream[n])
               /\ IsAnomaly(WindowOf(stream[n].series, n))

\* While nothing fails, is pushed twice or is evicted, exactly the metrics that
\* breach their series' threshold are reported, once and in stream order.
CalmRunIsExact ==
    calm => /\ \A n \in 1 .. Len(stream) : Settled(n) => (Reported(n) <=> Expected(n))
            /\ \A i, j \in 1 .. Len(anomalies) : i < j => anomalies[i] < anomalies[j]

\* "For temporary errors (publish timeout etc.) we want retries"
\* (consumer.go:200): a metric that was found to be an anomaly, and can be
\* turned into an event, is reported before it leaves the stream.
BreachIsReported ==
    \A n \in breaches : Settled(n) /\ ~Invalid(stream[n]) => Reported(n)

\* "exactly-once processing even in the face of network retries, service
\* restarts, and broker redeliveries" (docs/architecture-code-guide.md:1107).
ReportedOnce ==
    \A i, j \in 1 .. Len(anomalies) : anomalies[i] = anomalies[j] => i = j
=============================================================================
