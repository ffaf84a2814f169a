# A TLA+ model of the anomaly detection platform

The platform takes metrics in over gRPC, looks for anomalies in every series
with a robust statistic, and shows the anomalies it found over HTTP. Its
services share nothing but the streams of NATS JetStream.

    metrics-feeder --gRPC--> metrics-service --METRICS_RECORDED--> pattern-service
                                                      |                  |
                                                      |              ANOMALIES
                                                      v                  v
                                          ml-predict-service       read-service <--HTTP-- readers
                                                                         |
                                                                      Postgres

This directory holds the specifications of those parts, the TLC configurations
that check small instances of them, and proofs that TLAPS checks for every value
of the constants. All paths below are relative to `src/`.

## 1. Inventory

| Part | State | Operations | What makes it hard |
|---|---|---|---|
| metrics-feeder (`metrics-feeder/cmd/feeder/main.go`) | a counter, one call under way | a `RecordMetric` call per tick, 2 s deadline, errors logged | the call's outcome is unknown after a timeout |
| metrics-service (`metrics-service/...`) | none but its connection | validate, publish with a 5 s timeout, answer, over gRPC and over an HTTP debug endpoint; start, `GracefulStop`, `Shutdown` | a goroutine per call; lost acknowledgements; two servers that stop one after the other, the first without a deadline |
| pattern-service, windows (`.../domain/detector/mad_detector.go`) | `windowsBySeries` under an RWMutex, each window under a mutex | `Observe`, `Cleanup` | two levels of locks; a window can be evicted between them |
| pattern-service, statistic (the same file) | the values of a window | median, MAD, thresholds, modes, deadband | even windows, flat series, missing configuration, level shifts |
| pattern-service, consumer (`.../infra/natsjs`, `.../app`) | the durable's position, windows in memory only | `handleMessage`, `Handle`, publication, Ack/Nak/Term, eviction, start, drain, exit | redelivery runs `Observe` again; failure between verdict and publication; restart with empty windows |
| read-service, projection (`.../messaging/natsjs`, `.../projections`) | tables `processed_events`, `anomaly_events`, `series_state`; the durable's position | `handleMessage`, `Handle`, `Project` in one transaction, Ack/Nak/Term, start, drain, exit | redelivery, duplicated publication, failing statements, commits whose answer is lost, out-of-order events, exit under a handler |
| read-service, queries (`.../modules/anomalies`, `.../modules/series`) | none | list anomalies, list series, state of a series | limits that the conversion to int32 changes, pages over a table that grows |
| ml-predict-service (`ml-predict-service/src`) | the durable's position | subscribe, predict, publish `degradation.predicted`, ack/nak, cancellation | a subject that no service makes a stream for; messages that are given back for ever |
| start-up (`docker-compose.yml`, both `natsjs` packages) | the streams NATS has | make a stream, wait for a stream with attempts and delays, give up | services that wait for each other's streams; NATS late, away, or back without its data |
| configuration, logging, generated code (`api/gen`, sqlc, swagger) | none | none | none |

How they interact: metrics-service answers a call after JetStream acknowledged
the message; pattern-service acknowledges a metric after the event it caused is
acknowledged, or after a normal verdict; read-service acknowledges an event after
its transaction is committed. Each of those three is "do it, then say so", with a
failure possible in between, and everything worth checking comes from there and
from the sharing of the windows.

What makes each part correct:

* *Ingress*: what was accepted is stored, once and in the order of the client;
  a graceful stop ends.
* *Windows*: a verdict is on the value that was observed, goroutines that race for
  a new series share one window, a value is lost only to a sweep of that very moment, a sweep spares
  what was touched lately, no window outgrows its size, nobody waits for ever.
* *Statistic*: the baseline is robust, a lasting shift is absorbed, a spike stands out,
  rises and falls are treated alike, the stored threshold is the one that was crossed.
* *Consumer of metrics*: no metric leaves the stream unjudged, no event without a
  verdict of its own behind it, and the exact events while nothing fails.
* *Queries*: a reader who pages through the anomalies misses none, and a listing of the
  series leaves out only what changed earlier.
* *Predictions*: a metric the models object to leaves the stream with its prediction
  stored; messages that cannot be settled do not keep the others waiting.
* *Start-up*: a service serves or ends within the time its attempts add up to, gives up
  no earlier, and read-service does not depend on metrics-service.
* *End to end*: every row of the history is a breach under its own series, and every breach
  is in the history or on its way, once while pattern-service is undisturbed.
* *Projection*: every event is recorded exactly once, the state of a series agrees
  with its history, nothing acknowledged is missing.

`PROJECT.json` has the hazards one by one with the lines where they bite and the properties
that stand against them.

## 2. Modules

| Module | Models | Notes |
|---|---|---|
| `DurableConsumer` | JetStream and nats.go as the services use them | external: a stream, a durable push consumer, the client's inbox; extended by the two consumers |
| `ReadModel` | what the projection promises | the abstract specification: events are recorded atomically, each key once |
| `Projector` | read-service's consumer and projection | one action per statement of the transaction; implements `ReadModel` |
| `Detector` | the windows and locks of `MADDetector` | one action per stretch of code between two lock operations |
| `MADRule` | the statistic of `MADDetector` | operators only, over scaled integers |
| `MADSeries` | one series, any configuration | drives `MADRule`; its names differ from those of `Detector`, so that one module can prove about both |
| `PatternService` | pattern-service's consumer and publisher | composes `DurableConsumer` and `MADRule` |
| `MLPredict` | ml-predict-service | extends `DurableConsumer` |
| `Pipeline` | pattern-service and read-service with ANOMALIES between them | composes `PatternService` and `Projector` |
| `Ingress` | feeder, `RecordMetric` over gRPC and HTTP, publication | clients and server goroutines over one connection |
| `QueryApi` | the queries and their readers | the tables as the projection fills them |
| `Lifecycle` | how the services come up | streams, attempts, delays, NATS coming and going |
| `DurableConsumerProofs` | | lemmas about the stream and the durable |
| `ProjectorProofs`, `MADDetectorProofs`, `PipelineProofs`, `MLPredictProofs`, `IngressProofs`, `QueryApiProofs`, `LifecycleProofs` | | theorems and proofs; `MADDetectorProofs` is about `Detector` and `MADSeries`, and the first part of `PipelineProofs` about `PatternService` |
| `MC...` | | instances for TLC |

### State and code

**DurableConsumer.** `stream` is the stream, `cursor` and `pending` are the
durable's position and its unacknowledged sequences, `inbox` is what the client
holds in memory. `PushAgain` covers an expired `AckWait`, a `Nak`, and a copy that
is pushed while an earlier one is still in work: the code cannot tell these
apart, so the model gives all of them one action. The server pushes a new message only while
fewer than `MaxAckPending` are unacknowledged. `owned` is nats.go's
memory of having created the durable itself: its `Drain` then deletes the durable.

**Projector.** `pc` and `msg` are the position of the one handler goroutine
in `consumer.handleMessage -> handler.Handle -> projector.Project`. `db` holds the
committed tables, `tx` those that the open transaction sees. A statement
can fail (then the transaction is rolled back and the handler answers `Nak`), and so
can `Commit`, before or after it took effect. `DedupKey` is the event id, or
for events of the first version, which have none, the stream sequence. A key thus stands for one event, which
`SettledIsRecorded` relies on: it asks for the row of the message itself or of a copy with the same id
(`SameEvent`), not for a row under the same key. `proc`
goes running, draining, closed, down; `Exit` may happen under a handler since
`main` waits for the HTTP server only.

**Detector.** `writer`/`readers` are `detector.mu`, `holder[w]` is the
mutex of window `w`, `heap` keeps also the windows that the map no longer refers to. A value is
known by the call that observed it. `now` and `seen` are the locals of `Cleanup`.
`evicted` is a history: the windows that went while a goroutine was in its call.
A waiting writer keeps new readers out, as Go's RWMutex does.

**MADRule.** `Load` is `config.Load` (an environment is a function on the variables that are set and
can be parsed), `NewMADDetector` repairs what it gets. Every number is scaled until it is an integer: `Median2` is twice the median,
the MAD is four times itself, and 1.4826 is 14826/10000. Rounding of
float64 is the only thing this leaves out.

**PatternService.** As Projector, with the windows in memory (`windows`), emptied by a
restart, and the events as the sequence `anomalies` of the metrics they
are about. `breaches`, `cleared`, `again` (found an anomaly more than once) and `calm` are histories that only properties read.

**MLPredict.** `pc` is the await that the loop over the messages is at. A payload is one of four shapes, for the
four ways through the `try` block: judged, acknowledged as unusable, acknowledged as no JSON, given back.
`hasStream` says whether an operator made a stream with the subject `degradation.predicted`, for no
service does; it is chosen at the start and both cases are checked. A cancelled task answers nothing and
closes its connection; nats-py leaves the durable in place.

**Pipeline.** The events that `PatternService` appends to `anomalies` are the stream that
`Projector`, instantiated as `Read`, consumes: `EventOf` is the envelope, with an event id of its own and
series and time of the metric. Each service has its durable and its process; they share the
budget of faults.

**Ingress.** A request moves `underway -> received -> publishing -> answers`; its
message moves `wire -> stream -> acked` independently. A client that gives up leaves
its server goroutine at work. The HTTP server of the debug endpoint goes on while
`GracefulStop` waits for the gRPC calls (`stopping`), and stops after it (`closing`).

**QueryApi.** `rows` is `anomaly_events`, `state` is `series_state`; `Limit`, `Offset` and `ListingSize` are what the
handlers and repositories make of the parameters, `Ordered` the orders that `ORDER BY ts DESC` allows. The
reader is not part of the repository: it asks for the offset behind what it received
until a page is empty, or lists the series. `GetSeriesState` is the third query; no action needs it, as it changes nothing:
a series has no key when one of its parts has a bar (a fifth part, 400) or a slash (the route's `:key` is one segment
of the path, 404).

**Lifecycle.** `state` is where the start-up of a service is: in a call to NATS (`ensure`, `create`, `look`,
`subscribe`), in the sleep between two attempts, running, or ended. `Tick` is a second: it passes only when no call
can return and no sleep is over. A call is answered at once while NATS is up, and fails after
`Patience`. `there` counts how long a stream has been reachable.

`PROJECT.json` maps each definition to its lines.

## 3. Runs

| Run | Question | Bounds |
|---|---|---|
| `projector_recorded` | Is every event recorded exactly once, does the projection implement `ReadModel` under every failure, and is every message dealt with while the service stays up? | 2 messages of 4 kinds, inbox of 2, 2 faults |
| `projector_latest` | Is the state of a series its latest event? **No** | 2 messages, 1 fault |
| `detector_locks` | Do locks and windows hold in every interleaving, without deadlock, and does everyone who waits for a lock get it? | 2 observers, 1 series, windows of 1, 1 call each, `Cleanup`, clock 0..2 |
| `detector_fresh` | Does `Cleanup` remove stale windows only? **No** | 2 observers, 1 series, 2 calls each |
| `mad_series` | Are the verdicts right for all windows, and do they take no side? | windows of 3 to 5, five values, 14 environments |
| `pattern_safety` | Is every metric judged, every event founded, and no verdict reported twice; and is everything exact in calm weather? | 4 messages of 5 kinds, 2 series, 1 fault |
| `pattern_lost` | Is a breach reported before its metric leaves the stream? **No** | 3 messages, 1 fault |
| `pipeline_history` | Is the history of the read model that of the metrics, across both services, and does every breach arrive? | 3 sequences of up to 4 metrics, 4 events, 1 fault |
| `ml_predict` | Does a metric leave the stream only with its prediction, and do stuck messages spare the others? | 3 messages of 5 kinds, 2 unacknowledged, 1 fault, with and without a stream for the predictions |
| `ingress_accepted` | Does Accepted mean stored, once, in order; does a stop end? | a gRPC and an HTTP client, 3 requests, 2 faults |
| `query_paging` | Does a reader of pages get every row, once if nothing is inserted, and does a listing have what changed last? | 3 rows of 4 times, 2 series, limits that wrap, an int32 of 4 bits, maximum 2 |
| `lifecycle` | Who comes up, who gives up, and when? | 4 services, 2 to 3 attempts with delays of 1 and 2, 2 faults |

*Why the bounds suffice.* `Projector` handles one message at a time against tables
that are told apart by dedup key and series: two messages give an event and a
copy of it (published twice or pushed twice), or an event of the
same series that overtakes or is overtaken; the theorems cover streams of any length. Two faults give a failure during the
retry after a failure, and a crash after an ambiguous commit. Pushing again
is not a fault, so redelivery is unbounded. `PatternService` needs three values to
warm up and a fourth that slides the window; its one fault may be any
failure, with unbounded redelivery after it. For `Detector` two observers
are the least that race, and `Cleanup` may come between any two of their steps; the second value of a window of size 1 is one too many, so the limit is met.
With one call each, that an eviction during an earlier call does no harm is left to `OneWindow`; the theorems cover any number of observers, series and calls.
In `MADSeries` windows of 3 and 4 are the odd
and the even case, 5 is the least size with room for a far value and a copy of it in a minority, and the five values give flat windows, near values and far ones on both
sides; the environments leave variables out and set them to what has to be repaired. `Pipeline` has three sequences of metrics: two breaches in a row, a value of another
series in between, and a breach that cannot become an event; its fault may strike either service.
`MLPredict` needs two messages that stay unacknowledged to fill `MaxAckPending` and a third that waits behind them.
`Ingress` needs two requests of one client for the order and a third from
another one in between. `QueryApi` needs rows before, in and behind a page; its limits stand for
"in range", "zero after the conversion" and "above the maximum". In `Lifecycle` the attempts and delays of the code
(20 of 1 s in pattern-service, 30 of 2 s in read-service) are scaled down to 2 of 1 and 3 of 2, so that
the two consumers still differ; its bounds are formulas in `MaxAttempts`, `Delay` and `Patience`. Two faults let
NATS lose its streams and a service that ended come back.

*Deadlock* is checked for `Detector`, `MADSeries`, `QueryApi` and `Lifecycle`. The other configurations say
`CHECK_DEADLOCK FALSE`: their streams and faults are bounded, and a process that is down
with nothing left to do is a proper end. No configuration uses symmetry.

*Fairness.* Handler goroutines and the loop of ml-predict-service run on (weak fairness of the handler's steps); the
server pushes what it owes (weak fairness of a first push and of each repetition); a
process that was told to stop exits, because `main` has no step it waits in
without a timeout. Nothing forces a process to start: `docker-compose.yml`
has no restart policy, so liveness is conditional on `<>[](proc = "running")`, in `Pipeline` of both services.
In `MLPredict` the pushes are strongly fair: the server never waits for room in the client,
which only the bound of the inbox makes it do, and it pushes new messages between
redeliveries. In `Detector` the lock operations are strongly fair: Go's mutexes hand over to a
waiter that starved for a millisecond, and `Lock` of an RWMutex holds new readers
back. In `Ingress` client deadlines and the 5 s of the publication are the weak
fairness of `GiveUp` and of the handler. `Lifecycle` needs none: its bounds are invariants over counted time. No fault is ever required to happen.

*Mutants.* Beside a definition, some modules have a changed form of it that
starts with "Mutant:" (a missing check, a
wrong order, an off-by-one). Each property of a passing run is violated
when one of them takes the place of the original; `PROJECT.json` has the pairs.

## 4. Where code and documents disagree

* **`projector_latest`**: the upsert of `series_state` takes whatever commits last. An older
  event that is redelivered after a newer one was recorded puts the state back
  ("Update the latest known state", `projector.go:111`). `StateIsLastRow` is what does hold.
* **`detector_fresh`**: `Cleanup` releases the window's mutex before it
  decides, so an `Observe` in between is overlooked and its window goes.
  `SweepSparesRecent`, proved, says how far this goes: only an update after the sweep took its
  time is overlooked. It takes a series that was silent for an hour and
  speaks up in that instant.
* **`pattern_lost`**: each retry of a failed publication observes the value again. Once copies of
  the spike are the majority of the window, the verdict is normal, and the metric is
  acknowledged without an event. With a window of three one retry is enough; with
  the defaults (window 50, warm-up 20) it takes between ten and thirty, which is a
  broker outage of a few minutes.

Seven more statements that the code does not satisfy are defined in the modules, without a run of their own:
`NoMetricDropped` (metrics-service answers with an error when it cannot publish, and the feeder
logs it and goes on: `README.MD:20` says "Zero Data Loss"), `ReportedOnce` (a redelivered metric is reported
under a new event id when its second verdict is an anomaly, too; `OnlyBreachesReported` says that one verdict is not enough for it), `ValueReachesSeries` (a window evicted between lookup and
append takes the value along), `ExitWaitsForHandler` (read-service exits under a
handler at work), `PositionIsKept` (the durable that `Drain` deletes takes its position
with it), `RunningHasStream` (NATS replaced by a container without its data, while the makers of
the streams run on and do not make them again), `ListedCanBeAsked` (the state of a series is
to be had "by its key", `get_series_state/http_gin.go:24`, but not that of a series with a bar or a slash in one of its parts). TLC refutes each within seconds in a configuration of its module.
And `README.MD:41` has ml-predict-service publish `degradation.predicted`, to which read-service listens
(`README.MD:46`; its code does not), but no service makes a stream with that subject: unless an operator does, each such publication fails, the
metric is given back for ever, and as many of them as `MaxAckPending` allows stop the
service (`OthersAreSettled` says that fewer do not).
What protects the data nonetheless (`RecordedOnce`, `SettledIsRecorded`) is checked
and proved with all of those behaviours allowed.

## 5. Proofs

The modules with theorems follow one argument: `Init => IInv`, `IInv /\ [Next]_vars => IInv'`,
`IInv => P` and temporal logic. The three consumers share the lemmas of
`DurableConsumerProofs`: what each operation of the stream and its durable does to the
types, and that no operation but `Settle` settles a message (`NothingElseSettles`, `OneIsSettled`).

**ProjectorProofs.** `IInv` is `TypeOK`, `RecordedOnce`, `StateIsLastRow`,
`SettledIsProcessed` (the dedup key of a settled message is marked) and `TransactionInv`. The last is why the others are inductive: it says
how far `tx` is ahead of `db` at each `pc`, so that `Commit`, which replaces `db`
by `tx`, is known to add exactly one row with its key and its state, and
that an acknowledgement to come is about a recorded message. Since only a
commit changes the tables (`TablesChange`), the three statements about the tables are each
proved once for "`db` gets the row of `msg`" (`CommittedTables`).
`NothingLost` then goes from keys to events: a marked key has a row, and a key tells events apart, as those without an
id have the sequence in theirs (`KeyIdentifiesEvent`).
`Refinement` shows in the same way that each step is `ReadModel`'s `Record` or a stutter.
Theorems: `TypeCorrectness`, `EffectivelyOnce`, `StateConsistent`, `NothingLost`, `Refinement`.

**MADDetectorProofs, first part** (`Detector`). `IInv` is `TypeOK`, `LockInv` (who holds which lock at
which step, and that no two do),
`VerdictSeesOwnValue`, `OneWindowPerSeries` and `SweepInv` (how `Cleanup`'s `now` and
`seen` relate to the clock and to the window being visited). `LockInv` is
inductive with `TypeOK` alone; the others rest on it, since they hold
because a goroutine has a window or the map to itself.
Theorems: `TypeCorrectness`, `LockDiscipline`, `VerdictIsolation`, `OneWindow`, `SweepSafety`.

**PipelineProofs, first part** (pattern-service on its own). `IInv` is `TypeOK`, `SettledIsJudged`, `OnlyBreachesReported` and `ReplyInv`:
what is known of the message in work at each `pc`, so that the reply to come keeps the first two (a message about to be
acknowledged was judged normal or has its event, one about to be published breached and can be an event).
Nothing is used of the statistic but that it gives a verdict. Theorems: `TypeCorrectness`, `NothingUnjudged`, `NoFalseEvent`.
For `CalmRunExact` a second invariant, `CalmInv`, follows the run as long as nothing disturbs it. `Taken` counts the messages that left the
inbox; the inbox holds the sequences behind it, and none of those is settled. Each window is
`WindowOf` its series, the newest values among the metrics taken, and up to the message in work the events are the expected ones. What carries the
induction is `WindowNext`: appending a value, and dropping the oldest when the window is full, gives
the newest values again. It is proved by counting how many metrics of the series follow each
(`ValueAtNewest`, `ValueAtOlder`), for every window size that an environment can give.

**PipelineProofs, second part** (both services). The invariant is `IInv` of the first part and that of
`Projector` about the events between them. A step of
one service is for the other a publication or nothing: an event that pattern-service stores is the next
message of `Projector`'s stream, and the events before it stay what they are, since metrics keep their sequences
and events their ids. So the two theorems about the whole come from those about the parts: a row is about an
event (`RecordedOnce`), an event is about a breach (`OnlyBreachesReported`); a metric that left its stream was called
normal or has an event (`SettledIsJudged`), an event that left its stream has a marked key (`SettledIsProcessed`), and a marked key a row.
In a calm run an event is about a metric of its own, so its row is, too (`CalmHistory`, from `CalmRunExact`).
Theorems: `HistoryIsTrue`, `HistoryIsComplete`, `CalmHistory`, and `HistoryIsReadModel`: the tables still implement
`ReadModel` when the events are those of pattern-service.

**MLPredictProofs.** The same, with what the shape of the payload allows at each place of the loop, for a
stream that takes predictions and for none. Theorems: `TypeCorrectness`, `NothingUnjudged`.

**IngressProofs.** The stream and the connection are taken as one line (`Line`, the one after the other): a
publication joins it at the end, and `Store` only moves the border. `IInv` adds to `TypeOK` and `AcceptedIsStored`: `LineInv`
(a request is in the line once, and after its handler published it), `AckInv` (what is acknowledged is
stored), `ClientInv` (a client waits for its newest request) and `OrderInv` (what a client sent after an accepted
request is behind it). Theorems: `TypeCorrectness`, `AcceptedMeansStored`, `AtMostOnce`, `ClientOrder`.

**MADDetectorProofs, second part** (`MADSeries`). What the detector computes, for every environment and all integer values. Nothing is
assumed of sorting: the n-th value of a window is characterised by how many are below it and
how many are not above it, and `RankedBetween` says that it cannot leave an interval that holds n values and all
but n - 1 of the others. From that the median lies where most of the window lies (`RobustBaseline`), is
the level that filled half of it (`AbsorbedLevelShift`, with the streak of equal values as the invariant), and
no minority moves it or the MAD beyond what the others allow (`NoMasking`: whatever less than half of the window is, copies of
the value that is judged included). So the copies that retries make of a spike that is far enough out (`pattern_lost`) hide it
no sooner than they are half of the window, and once they came in a row for more than half of it, `AbsorbedLevelShift` says that they do. `CrossedThreshold` is the arithmetic of the two
thresholds, for any multiplier and floor. `NoSideTaken` counts once more: the n-th value from below is the n-th from above of the
mirror image (`RankedMirrored`), so the median of the image is the mirrored median, and the deviations from it are the same. Theorems: these five.

**QueryApiProofs.** A row that the reader has not received has at least as many newer rows in the table as the reader
received: insertions can only add to them, and so the next page starts no later than that row. In a quiet
table the i-th row received has exactly i - 1 newer ones, so it is the i-th of the listing. The conversion of
limits to int32 is covered for every limit, as the clamp of the repository puts each into 1..maximum.
A listing is the beginning of the order by the last change, so whatever is behind its end changed earlier (`FirstPage`).
Theorems: `TypeCorrectness`, `NoRowIsMissed`, `QuietPages`, `NewestAreListed`.

**LifecycleProofs.** The time that a service has waited is accounted for by what is behind it. `Timing` bounds `waited` from both
sides by the calls of its publisher, the completed attempts (`Least`: their sleeps; `Most`: a call and a sleep each) and the
present call or sleep; `Stage` says where a service may be with what attempt. A step that ends an attempt moves one
call and one sleep from the present to the past (`SpentNext`), and a `Tick` comes only while every call and
sleep has time left. `NoServiceHangs` and half of `NoHastyEnd` are these sums at their ends. The other half is `Missed`: a stream
is counted from when it is reachable, and a sleep begins without it. `ReadComesUp` needs `CalmState`: no time passes before pattern-service
made ANOMALIES, so that read-service misses the stream in its first attempt at most and finds it after one sleep.
Theorems: `TypeCorrectness`, `NoServiceHangs`, `ReadComesUp`, `NoHastyEnd`.

Assumptions are those that the modules state of their constants: `BoundsAssumption`,
`ProjectorAssumption`, `PatternAssumption`, `MLAssumption`, `IngressAssumption` (bounds are naturals, the inbox holds at least one message,
payloads have their shape, numeric settings are integers, the null values are no ids or rows), `PipelineAssumption` (workloads are of payloads), `MADAssumption` (values
and numeric settings are integers), `QueryAssumption` (the table is smaller than the offsets a reader can ask for, 2^31),
`LifecycleAssumption` (delays and patience are naturals, each loop makes an attempt), `ReadTriesAgain` (read-service makes more than one attempt and sleeps in between, 30 and 2 s
in its code; without it read-service could end in a calm run, in the instant before pattern-service makes ANOMALIES),
`DetectorAssumption` (the cleaner is no observer, no goroutine is called nobody, the window
holds at least one value). The bounds themselves are
arbitrary: the theorems hold for streams, faults, goroutines and calls of any number.

Every invariant, every property of steps and the refinement that the passing runs check is a theorem. `TypeOK` of `Ingress` is proved and
checked by no run: what it says of the code, the other properties of the run say better. Only model-checked are the
five liveness properties (`EveryMessageSettled`, `EveryCallReturns`, `EveryEventArrives`, `OthersAreSettled`, `GracefulStopEnds`), since temporal reasoning about fairness and `ENABLED` is out of the prover's reach.

## 6. Not modelled

* The order of rows of the same second (times are Unix seconds): the properties of `QueryApi` exclude ties, for which
  paging can miss rows.
* What the two models of ml-predict-service compute: a Boolean of the metric.
* Configuration of the services other than pattern-service, log wrappers, DTOs, generated gRPC and
  swagger code: no behaviour of their own.
* Rounding of float64, and values that JSON cannot carry (NaN and the infinities): `json.Marshal` fails on them, which
  is one of the ways in which a publication fails. Message size, retention and deduplication limits of JetStream streams.
* Postgres: unavailable is a failing statement or commit; its own restart-up order (migration before
  read-service) is docker compose's.

## 7. Plan

Done, in this order, most important first: the projection with its abstract
specification and proofs; the detector's locks with proofs; the statistic; pattern-service's consumer;
the ingress; the listing of anomalies; ml-predict-service with proofs; the start-up; the series; the
composition of pattern-service and read-service; the safety of pattern-service proved;
then the proofs of the ingress, of the statistic, of the queries, of the pipeline and of its calm runs, and of the start-up.

Left: the order of rows of the same second, once the code promises one; a restart of NATS without its streams in the composition,
once the makers of the streams make them again; rounding of float64 in the statistic.
