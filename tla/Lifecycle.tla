------------------------------ MODULE Lifecycle ------------------------------
(***************************************************************************)
(* How the services come up, and what they wait for while they do.         *)
(*                                                                         *)
(*   metrics-service  natsjs/publisher.go  makes METRICS_RECORDED          *)
(*   pattern-service  natsjs/publisher.go  makes ANOMALIES, and then       *)
(*                    natsjs/consumer.go   waits for METRICS_RECORDED      *)
(*   read-service     natsjs/consumer.go   waits for ANOMALIES             *)
(*   ml-predict       main.py              needs METRICS_RECORDED          *)
(*   docker-compose.yml                    who starts after whom           *)
(*                                                                         *)
(* Every call to NATS is answered at once while NATS is up, and fails when *)
(* NATS stays away for longer than the client's patience.  Time passes in  *)
(* ticks, and not while a call can return or a sleep is over.  NATS has no *)
(* volume: a container that is replaced has lost its streams.              *)
(***************************************************************************)
EXTENDS Naturals

CONSTANTS
    Patience,     \* per service, how long a call waits for NATS
    MaxAttempts,  \* per consumer: waitStreamMaxAttempts
    Delay,        \* per consumer: waitStreamDelay
    MaxFaults     \* bound: outages of NATS, services that end or come back

Service == {"metrics", "pattern", "read", "ml"}
Consumer == {"pattern", "read", "ml"}
Stream == {"METRICS_RECORDED", "ANOMALIES"}

Makes(s) == CASE s = "metrics" -> {"METRICS_RECORDED"}
              [] s = "pattern" -> {"ANOMALIES"}
              [] OTHER -> {}
Awaits(c) == IF c = "read" THEN "ANOMALIES" ELSE "METRICS_RECORDED"

ASSUME LifecycleAssumption ==
    /\ Patience \in [Service -> Nat]
    /\ MaxAttempts \in [Consumer -> Nat \ {0}]
    /\ Delay \in [Consumer -> Nat]
    /\ MaxFaults \in Nat

\* read-service tries more than once, and sleeps in between: 30 times, 2 seconds.
ASSUME ReadTriesAgain == MaxAttempts["read"] > 1 /\ Delay["read"] > 0

VARIABLES
    nats,     \* NATS is up
    streams,  \* the streams it has
    there,    \* per stream, ticks for which it has been reachable, up to a bound
    state,    \* per service, where its start-up is
    timer,    \* per service, ticks in the present call or sleep
    waited,   \* per service, ticks since it started, until its start-up ends
    attempt,  \* per consumer, the attempt of its loop
    calm,     \* history: NATS was up before the services, and nothing failed
    faults    \* failures so far

vars == <<nats, streams, there, state, timer, waited, attempt, calm, faults>>

\* In a call to NATS, asleep, or neither.
Calling == {"ensure", "create", "look", "subscribe"}
Starting == Calling \cup {"sleep"}
State == Starting \cup {"down", "running", "ended"}

\* The longest start-up that the loops and their timeouts allow.
LongestLoop(c) == MaxAttempts[c] * (Patience[c] + Delay[c]) + Patience[c]
LongestStart(s) ==
    (IF Makes(s) # {} THEN 2 * Patience[s] ELSE 0)
        + (IF s \in Consumer THEN LongestLoop(s) ELSE 0)

MaxThere == 1 + Delay["pattern"] + Delay["read"] + Delay["ml"]

TypeOK ==
    /\ nats \in BOOLEAN
    /\ streams \subseteq Stream
    /\ there \in [Stream -> 0 .. MaxThere]
    /\ state \in [Service -> State]
    /\ timer \in [Service -> Nat]
    /\ waited \in [Service -> Nat]
    /\ attempt \in [Consumer -> Nat]
    /\ \A c \in Consumer : attempt[c] <= MaxAttempts[c]
    /\ calm \in BOOLEAN
    /\ faults \in 0 .. MaxFaults

Init ==
    /\ nats = FALSE
    /\ streams = {}
    /\ there = [st \in Stream |-> 0]
    /\ state = [s \in Service |-> "down"]
    /\ timer = [s \in Service |-> 0]
    /\ waited = [s \in Service |-> 0]
    /\ attempt = [c \in Consumer |-> 0]
    /\ calm = TRUE
    /\ faults = 0

Fault == faults < MaxFaults /\ faults' = faults + 1

Enter(s, st) == state' = [state EXCEPT ![s] = st] /\ timer' = [timer EXCEPT ![s] = 0]

\* Running or ended: the start-up is over.
Finish(s, st) == Enter(s, st) /\ waited' = [waited EXCEPT ![s] = 0]

-----------------------------------------------------------------------------
(* A service starts: it ensures the stream that it makes *)

\* docker compose starts metrics and pattern after the container of NATS, which
\* need not be ready, and read after that of pattern.  ml is started by hand.
MayStart(s) == s = "read" => state["pattern"] # "down"

Start(s) ==
    /\ \/ state[s] = "down" /\ UNCHANGED faults
       \/ state[s] = "ended" /\ Fault
    /\ MayStart(s)
    /\ Enter(s, IF Makes(s) # {} THEN "ensure" ELSE "look")
    /\ attempt' = [c \in Consumer |-> IF c = s THEN 1 ELSE attempt[c]]
    /\ calm' = (calm /\ nats)
    /\ UNCHANGED <<nats, streams, there, waited>>

\* The publisher is ready: a producer serves, a consumer looks for its stream.
PublisherReady(s) ==
    IF s \in Consumer THEN Enter(s, "look") /\ UNCHANGED waited
                      ELSE Finish(s, "running")

\* StreamInfo of the stream that s makes.
Ensure(s) ==
    /\ state[s] = "ensure"
    /\ nats
    /\ \/ Makes(s) \subseteq streams /\ PublisherReady(s)
       \/ ~(Makes(s) \subseteq streams) /\ Enter(s, "create") /\ UNCHANGED waited
    /\ UNCHANGED <<nats, streams, there, attempt, calm, faults>>

\* Mutant: the stream is made after the wait for the other one.
CreateNot(s) ==
    /\ state[s] = "create"
    /\ nats
    /\ PublisherReady(s)
    /\ UNCHANGED <<nats, streams, there, attempt, calm, faults>>

\* AddStream after ErrStreamNotFound.
Create(s) ==
    /\ state[s] = "create"
    /\ nats
    /\ streams' = streams \cup Makes(s)
    /\ PublisherReady(s)
    /\ UNCHANGED <<nats, there, attempt, calm, faults>>

\* Without NATS the publisher cannot be made, although its connection would go
\* on trying (RetryOnFailedConnect), and run returns the error.
EnsureFails(s) ==
    /\ state[s] \in {"ensure", "create"}
    /\ ~nats
    /\ timer[s] = Patience[s]
    /\ Finish(s, "ended")
    /\ UNCHANGED <<nats, streams, there, attempt, calm, faults>>

-----------------------------------------------------------------------------
(* A consumer waits for its stream *)

Found(c) ==
    /\ state[c] = "look"
    /\ nats
    /\ Awaits(c) \in streams
    /\ Enter(c, "subscribe")
    /\ UNCHANGED <<nats, streams, there, waited, attempt, calm, faults>>

\* Mutant: the attempts follow each other without a delay.
NotFoundHurrying(c) ==
    /\ state[c] = "look"
    /\ IF nats THEN Awaits(c) \notin streams ELSE timer[c] = Patience[c]
    /\ state' = [state EXCEPT ![c] = "sleep"]
    /\ timer' = [timer EXCEPT ![c] = Delay[c]]
    /\ UNCHANGED <<nats, streams, there, waited, attempt, calm, faults>>

\* StreamInfo says that there is no such stream, or nothing in time.
NotFound(c) ==
    /\ state[c] = "look"
    /\ IF nats THEN Awaits(c) \notin streams ELSE timer[c] = Patience[c]
    /\ Enter(c, "sleep")
    /\ UNCHANGED <<nats, streams, there, waited, attempt, calm, faults>>

\* Mutant: the attempts are not counted.
WakeUncounted(c) ==
    /\ state[c] = "sleep"
    /\ timer[c] = Delay[c]
    /\ attempt[c] < MaxAttempts[c]
    /\ Enter(c, "look")
    /\ UNCHANGED <<nats, streams, there, waited, attempt, calm, faults>>

\* Mutant: one attempt more.
WakeOnceMore(c) ==
    /\ state[c] = "sleep"
    /\ timer[c] = Delay[c]
    /\ attempt[c] <= MaxAttempts[c]
    /\ attempt' = [attempt EXCEPT ![c] = @ + 1]
    /\ Enter(c, "look")
    /\ UNCHANGED <<nats, streams, there, waited, calm, faults>>

\* time.Sleep is over, and another attempt is left.
Wake(c) ==
    /\ state[c] = "sleep"
    /\ timer[c] = Delay[c]
    /\ attempt[c] < MaxAttempts[c]
    /\ attempt' = [attempt EXCEPT ![c] = @ + 1]
    /\ Enter(c, "look")
    /\ UNCHANGED <<nats, streams, there, waited, calm, faults>>

\* The loop sleeps after its last attempt, too, and then Start returns an error
\* that makes main stop the process.
GiveUp(c) ==
    /\ state[c] = "sleep"
    /\ timer[c] = Delay[c]
    /\ attempt[c] = MaxAttempts[c]
    /\ Finish(c, "ended")
    /\ UNCHANGED <<nats, streams, there, attempt, calm, faults>>

\* js.Subscribe binds to the stream; an error of it stops the process.
Subscribe(c) ==
    /\ state[c] = "subscribe"
    /\ \/ nats /\ Awaits(c) \in streams /\ Finish(c, "running")
       \/ nats /\ Awaits(c) \notin streams /\ Finish(c, "ended")
       \/ ~nats /\ timer[c] = Patience[c] /\ Finish(c, "ended")
    /\ UNCHANGED <<nats, streams, there, attempt, calm, faults>>

-----------------------------------------------------------------------------
(* What happens to them, and time *)

\* A signal, a crash, a port or a database that is not there.
Ends(s) ==
    /\ state[s] \notin {"down", "ended"}
    /\ Fault
    /\ Finish(s, "ended")
    /\ calm' = FALSE
    /\ UNCHANGED <<nats, streams, there, attempt>>

NatsStarts ==
    /\ ~nats
    /\ nats' = TRUE
    /\ UNCHANGED <<streams, there, state, timer, waited, attempt, calm, faults>>

\* NATS stops, and comes back with its streams or, in a new container, without.
NatsStops ==
    /\ nats
    /\ Fault
    /\ nats' = FALSE
    /\ streams' \in {streams, {}}
    /\ there' = [st \in Stream |-> 0]
    /\ calm' = FALSE
    /\ UNCHANGED <<state, timer, waited, attempt>>

\* Something has to happen before time goes on.
Due(s) ==
    \/ state[s] \in Calling /\ (nats \/ timer[s] = Patience[s])
    \/ state[s] = "sleep" /\ timer[s] = Delay[s]

Reachable(st) == nats /\ st \in streams

Tick ==
    /\ \A s \in Service : ~Due(s)
    /\ timer' = [s \in Service |-> IF state[s] \in Starting THEN timer[s] + 1 ELSE 0]
    /\ waited' = [s \in Service |-> IF state[s] \in Starting THEN waited[s] + 1 ELSE 0]
    /\ there' = [st \in Stream |->
                    IF Reachable(st) /\ there[st] < MaxThere THEN there[st] + 1
                                                             ELSE there[st]]
    /\ UNCHANGED <<nats, streams, state, attempt, calm, faults>>

Next ==
    \/ \E s \in Service : Start(s) \/ Ensure(s) \/ Create(s) \/ EnsureFails(s) \/ Ends(s)
    \/ \E c \in Consumer : \/ Found(c) \/ NotFound(c) \/ Wake(c) \/ GiveUp(c)
                           \/ Subscribe(c)
    \/ NatsStarts \/ NatsStops \/ Tick

Spec == Init /\ [][Next]_vars

-----------------------------------------------------------------------------
(* Properties *)

\* A consumer gives up no earlier than the loop promises, and never on a stream
\* that was reachable for longer than the sleep after its last attempt.
GivesUpInTime ==
    [][\A c \in Consumer : GiveUp(c) =>
           /\ waited[c] >= MaxAttempts[c] * Delay[c]
           /\ there[Awaits(c)] <= Delay[c]]_vars

\* No service hangs in its start-up: it serves, or its process has ended, after
\* the time that the attempts, delays and timeouts add up to, with NATS coming
\* and going as it likes.
StartUpIsBounded == \A s \in Service : waited[s] <= LongestStart(s)

\* The order of docker-compose.yml is enough for read-service: with NATS up and
\* nothing failing it comes up whatever metrics-service does, for pattern-service
\* makes ANOMALIES before it waits for METRICS_RECORDED.
ReadNeedsNoMetrics == calm => state["read"] # "ended"

\* What does not hold: that a consumer that runs has a stream to consume.  NATS
\* comes back without streams, and their makers make them at their start only.
RunningHasStream ==
    \A c \in Consumer : nats /\ state[c] = "running" => Awaits(c) \in streams
=============================================================================
