--------------------------- MODULE LifecycleProofs ---------------------------
(***************************************************************************)
(* Starting up is bounded, giving up is not hasty, and read-service comes  *)
(* up in a calm run, for any patience, delays and numbers of attempts.     *)
(*                                                                         *)
(* The inductive invariant accounts for the time that a service has waited *)
(* by what is behind it: the calls of its publisher, the completed         *)
(* attempts of its loop, and the present call or sleep.                    *)
(***************************************************************************)
EXTENDS Lifecycle, Integers, TLAPS

Publishing == {"ensure", "create"}
Attempting == {"look", "sleep", "subscribe"}

\* The ticks that the calls of a publisher may take.
PublisherTime(s) == IF Makes(s) # {} THEN 2 * Patience[s] ELSE 0

\* What the completed attempts of c took: no less than their sleeps, and no more
\* than a call and a sleep for each, after the calls of the publisher.
Least(c) == (attempt[c] - 1) * Delay[c]
Most(c) == PublisherTime(c) + (attempt[c] - 1) * (Patience[c] + Delay[c])

\* Where a service may be.
Stage(s) ==
    /\ state[s] \in Publishing => Makes(s) # {} /\ (s \in Consumer => attempt[s] = 1)
    /\ state[s] \in Attempting => s \in Consumer /\ attempt[s] >= 1

\* What it has waited, in the present call or sleep and before.
Timing(s) ==
    /\ state[s] \in Calling => timer[s] <= Patience[s]
    /\ state[s] = "sleep" => timer[s] <= Delay[s]
    /\ state[s] \notin Starting => waited[s] = 0
    /\ state[s] = "ensure" => waited[s] <= timer[s]
    /\ state[s] = "create" => waited[s] <= Patience[s] + timer[s]
    /\ state[s] \in Attempting => Least(s) + timer[s] <= waited[s]
    /\ state[s] = "look" => waited[s] <= Most(s) + timer[s]
    /\ state[s] \in {"sleep", "subscribe"} => waited[s] <= Most(s) + Patience[s] + timer[s]

\* A stream is counted from when it is reachable, and a sleep begins without it.
Missed ==
    /\ \A st \in Stream : Reachable(st) \/ there[st] = 0
    /\ \A c \in Consumer : state[c] = "sleep" => there[Awaits(c)] <= timer[c]

\* In a calm run NATS answers every call at once: no time passes before pattern
\* has its stream, which read misses in its first attempt at most.
CalmState ==
    /\ \A s \in Service : state[s] # "down" => nats
    /\ state["read"] # "down" => state["pattern"] # "down"
    /\ state["pattern"] \in Publishing \cup {"down"} \/ "ANOMALIES" \in streams
    /\ state["read"] = "look" => attempt["read"] = 1 \/ "ANOMALIES" \in streams
    /\ state["read"] = "sleep" =>
          attempt["read"] = 1 /\ (timer["read"] = 0 \/ "ANOMALIES" \in streams)
    /\ state["read"] = "subscribe" => "ANOMALIES" \in streams
    /\ state["read"] # "ended"

IInv ==
    /\ TypeOK
    /\ \A s \in Service : Stage(s) /\ Timing(s)
    /\ Missed
    /\ calm => CalmState

-----------------------------------------------------------------------------
(* Constants and products *)

\* Who makes and awaits what.
LEMMA Names ==
    /\ Consumer \subseteq Service
    /\ \A c \in Consumer : Awaits(c) \in Stream
    /\ \A s \in Service : Makes(s) \subseteq Stream
    /\ \A s \in Service : Makes(s) = {} => s \in Consumer
    /\ Makes("read") = {} /\ Makes("pattern") = {"ANOMALIES"}
    /\ Awaits("read") = "ANOMALIES"
<1>1. Makes("read") = {} /\ Makes("ml") = {}
  BY DEF Makes
<1>2. Makes("pattern") = {"ANOMALIES"} /\ Makes("metrics") = {"METRICS_RECORDED"}
  BY DEF Makes
<1>3. \A c \in Consumer : Awaits(c) \in Stream
  BY DEF Awaits, Stream
<1>4. Awaits("read") = "ANOMALIES"
  BY DEF Awaits
<1>5. \A s \in Service : Makes(s) \subseteq Stream
  BY <1>1, <1>2 DEF Service, Stream
<1>6. \A s \in Service : Makes(s) = {} => s \in Consumer
  BY <1>1, <1>2 DEF Service, Consumer
<1> QED
  BY <1>1, <1>2, <1>3, <1>4, <1>5, <1>6 DEF Service, Consumer

\* The constants of a service.
LEMMA Constants ==
    ASSUME NEW s \in Service
    PROVE  /\ Patience[s] \in Nat /\ PublisherTime(s) \in Nat
           /\ s \in Consumer => Delay[s] \in Nat /\ MaxAttempts[s] \in Nat \ {0}
           /\ Makes(s) = {} => PublisherTime(s) = 0
           /\ Makes(s) # {} => PublisherTime(s) = 2 * Patience[s]
<1>1. Patience[s] \in Nat /\ (s \in Consumer => Delay[s] \in Nat /\ MaxAttempts[s] \in Nat \ {0})
  BY LifecycleAssumption
<1> QED
  BY <1>1 DEF PublisherTime

\* A product of naturals grows with its first factor.
LEMMA Product ==
    ASSUME NEW a \in Nat, NEW b \in Nat, NEW x \in Nat, a <= b
    PROVE  /\ a * x \in Nat
           /\ a * x <= b * x
           /\ (a + 1) * x = a * x + x
<1>1. b - a \in Nat /\ (b - a) * x \in Nat /\ b * x = a * x + (b - a) * x
  OBVIOUS
<1> QED
  BY <1>1

\* What a - 1 attempts take is a number, and nothing when there are none.
LEMMA SpentBefore ==
    ASSUME NEW c \in Consumer, NEW a \in Nat, a >= 1
    PROVE  /\ (a - 1) * Delay[c] \in Nat
           /\ (a - 1) * (Patience[c] + Delay[c]) \in Nat
           /\ a = 1 => (a - 1) * Delay[c] = 0 /\ (a - 1) * (Patience[c] + Delay[c]) = 0
           /\ PublisherTime(c) \in Nat
<1>1. c \in Service
  BY Names
<1>2. /\ Delay[c] \in Nat /\ Patience[c] + Delay[c] \in Nat /\ a - 1 \in Nat
      /\ PublisherTime(c) \in Nat
  BY <1>1, Constants
<1>3. (a - 1) * Delay[c] \in Nat /\ (a - 1) * (Patience[c] + Delay[c]) \in Nat
  BY <1>2, Product
<1>4. a = 1 => (a - 1) * Delay[c] = 0 /\ (a - 1) * (Patience[c] + Delay[c]) = 0
  BY <1>2
<1> QED
  BY <1>2, <1>3, <1>4

\* The same of the attempts of c before the present one.
LEMMA Spent ==
    ASSUME NEW c \in Consumer, attempt[c] \in Nat, attempt[c] >= 1
    PROVE  /\ Least(c) \in Nat /\ Most(c) \in Nat
           /\ attempt[c] = 1 => Least(c) = 0 /\ Most(c) = PublisherTime(c)
  BY SpentBefore DEF Least, Most

\* And after a step.
LEMMA SpentThen ==
    ASSUME NEW c \in Consumer, attempt'[c] \in Nat, attempt'[c] >= 1
    PROVE  /\ Least(c)' \in Nat /\ Most(c)' \in Nat
           /\ attempt'[c] = 1 => Least(c)' = 0 /\ Most(c)' = PublisherTime(c)
  BY SpentBefore DEF Least, Most

\* The next attempt has a call and a sleep more behind it.
LEMMA SpentNext ==
    ASSUME NEW c \in Consumer, attempt[c] \in Nat, attempt[c] >= 1,
           attempt'[c] = attempt[c] + 1
    PROVE  /\ Least(c)' = Least(c) + Delay[c]
           /\ Most(c)' = Most(c) + Patience[c] + Delay[c]
<1>1. c \in Service
  BY Names
<1>2. /\ Delay[c] \in Nat /\ Patience[c] + Delay[c] \in Nat /\ attempt[c] - 1 \in Nat
      /\ PublisherTime(c) \in Nat /\ Patience[c] \in Nat
  BY <1>1, Constants
<1>3. attempt'[c] - 1 = (attempt[c] - 1) + 1
  OBVIOUS
<1>4. /\ ((attempt[c] - 1) + 1) * Delay[c] = (attempt[c] - 1) * Delay[c] + Delay[c]
      /\ ((attempt[c] - 1) + 1) * (Patience[c] + Delay[c])
            = (attempt[c] - 1) * (Patience[c] + Delay[c]) + (Patience[c] + Delay[c])
  <2>1. ((attempt[c] - 1) + 1) * Delay[c] = (attempt[c] - 1) * Delay[c] + Delay[c]
    BY <1>2, Product
  <2>2. ((attempt[c] - 1) + 1) * (Patience[c] + Delay[c])
            = (attempt[c] - 1) * (Patience[c] + Delay[c]) + (Patience[c] + Delay[c])
    BY <1>2, Product
  <2> QED
    BY <2>1, <2>2
<1>5. (attempt[c] - 1) * (Patience[c] + Delay[c]) \in Nat
  BY <1>2, Product
<1>6. Least(c)' = Least(c) + Delay[c]
  BY <1>3, <1>4 DEF Least
<1>7. Most(c)' = PublisherTime(c) + ((attempt[c] - 1) * (Patience[c] + Delay[c])
                                        + (Patience[c] + Delay[c]))
  BY <1>3, <1>4 DEF Most, PublisherTime
<1>8. Most(c) = PublisherTime(c) + (attempt[c] - 1) * (Patience[c] + Delay[c])
  BY DEF Most
<1> HIDE DEF PublisherTime
<1> QED
  BY <1>2, <1>5, <1>6, <1>7, <1>8

\* With the present attempt the loop takes no longer than it may.
LEMMA SpentAtMost ==
    ASSUME NEW c \in Consumer, attempt[c] \in Nat, attempt[c] >= 1,
           attempt[c] <= MaxAttempts[c]
    PROVE  Most(c) + Patience[c] + Delay[c] + Patience[c] <= LongestStart(c)
<1>1. c \in Service
  BY Names
<1>2. /\ Delay[c] \in Nat /\ Patience[c] + Delay[c] \in Nat /\ attempt[c] - 1 \in Nat
      /\ PublisherTime(c) \in Nat /\ Patience[c] \in Nat /\ MaxAttempts[c] \in Nat
  BY <1>1, Constants
<1>3. /\ ((attempt[c] - 1) + 1) * (Patience[c] + Delay[c])
            = (attempt[c] - 1) * (Patience[c] + Delay[c]) + (Patience[c] + Delay[c])
      /\ (attempt[c] - 1) * (Patience[c] + Delay[c]) \in Nat
  BY <1>2, Product
<1>4. attempt[c] * (Patience[c] + Delay[c]) <= MaxAttempts[c] * (Patience[c] + Delay[c])
  BY <1>2, Product
<1>5. (attempt[c] - 1) + 1 = attempt[c]
  OBVIOUS
<1>6. LongestStart(c) = PublisherTime(c) + MaxAttempts[c] * (Patience[c] + Delay[c]) + Patience[c]
  <2>1. MaxAttempts[c] * (Patience[c] + Delay[c]) \in Int
    BY <1>2
  <2>2. LongestLoop(c) = MaxAttempts[c] * (Patience[c] + Delay[c]) + Patience[c]
    BY DEF LongestLoop
  <2>3. LongestStart(c) = PublisherTime(c) + LongestLoop(c)
    BY DEF LongestStart, PublisherTime
  <2> QED
    BY <1>2, <2>1, <2>2, <2>3
<1>7. Most(c) = PublisherTime(c) + (attempt[c] - 1) * (Patience[c] + Delay[c])
  BY DEF Most
<1>8. MaxAttempts[c] * (Patience[c] + Delay[c]) \in Int
  BY <1>2
<1> QED
  BY <1>2, <1>3, <1>4, <1>5, <1>6, <1>7, <1>8

-----------------------------------------------------------------------------
(* The steps of one service *)

\* The disjuncts of Next that are the steps of one service.
ConsumerStep(c) == Found(c) \/ NotFound(c) \/ Wake(c) \/ GiveUp(c) \/ Subscribe(c)
ServiceStep(s) ==
    \/ Start(s) \/ Ensure(s) \/ Create(s) \/ EnsureFails(s) \/ Ends(s)
    \/ s \in Consumer /\ ConsumerStep(s)

LEMMA NextSteps ==
    Next => (\E s \in Service : ServiceStep(s)) \/ NatsStarts \/ NatsStops \/ Tick
  BY Names DEF Next, ServiceStep, ConsumerStep

\* s is in st from now on, and just so.
Entered(s, st) == state'[s] = st /\ timer'[s] = 0

\* Nothing of a service changes.
Idle(s) ==
    /\ state'[s] = state[s] /\ timer'[s] = timer[s] /\ waited'[s] = waited[s]
    /\ s \in Consumer => attempt'[s] = attempt[s]

\* Whoever enters a state leaves the others where they are.
LEMMA EnterOne ==
    ASSUME TypeOK, NEW s \in Service, NEW st \in State, Enter(s, st)
    PROVE  /\ Entered(s, st)
           /\ state' \in [Service -> State] /\ timer' \in [Service -> Nat]
           /\ \A t \in Service \ {s} : state'[t] = state[t] /\ timer'[t] = timer[t]
  BY DEF Enter, Entered, TypeOK

\* The same of the end of a start-up.
LEMMA FinishOne ==
    ASSUME TypeOK, NEW s \in Service, NEW st \in State, Finish(s, st)
    PROVE  /\ Entered(s, st) /\ waited'[s] = 0
           /\ state' \in [Service -> State] /\ timer' \in [Service -> Nat]
           /\ waited' \in [Service -> Nat]
           /\ \A t \in Service \ {s} : /\ state'[t] = state[t] /\ timer'[t] = timer[t]
                                       /\ waited'[t] = waited[t]
<1>1. Enter(s, st) /\ waited' = [waited EXCEPT ![s] = 0]
  BY DEF Finish
<1>2. /\ waited'[s] = 0 /\ waited' \in [Service -> Nat]
      /\ \A t \in Service \ {s} : waited'[t] = waited[t]
  BY <1>1 DEF TypeOK
<1> QED
  BY <1>1, <1>2, EnterOne

\* Nothing but the state and the timer changes when s enters st, its waiting
\* included.
Goes(s, st) ==
    /\ Entered(s, st) /\ waited'[s] = waited[s]
    /\ s \in Consumer => attempt'[s] = attempt[s]

\* The ways of a service.
Moved(s) ==
    \/ /\ state[s] \in {"down", "ended"}
       /\ Entered(s, IF Makes(s) # {} THEN "ensure" ELSE "look")
       /\ waited'[s] = waited[s]
       /\ s \in Consumer => attempt'[s] = 1
    \/ state[s] = "ensure" /\ Goes(s, "create")
    \/ state[s] \in Publishing /\ s \in Consumer /\ Goes(s, "look")
    \/ state[s] = "look" /\ (Goes(s, "subscribe") \/ Goes(s, "sleep"))
    \/ /\ state[s] = "sleep" /\ s \in Consumer
       /\ timer[s] = Delay[s]
       /\ attempt[s] < MaxAttempts[s] /\ attempt'[s] = attempt[s] + 1
       /\ Entered(s, "look") /\ waited'[s] = waited[s]
    \/ (Entered(s, "running") \/ Entered(s, "ended")) /\ waited'[s] = 0

\* A service whose publisher is ready looks for its stream or serves.
LEMMA PublisherMoves ==
    ASSUME TypeOK, NEW s \in Service, state[s] \in Publishing, PublisherReady(s),
           UNCHANGED attempt
    PROVE  /\ Moved(s)
           /\ state' \in [Service -> State] /\ timer' \in [Service -> Nat]
           /\ waited' \in [Service -> Nat]
           /\ \A t \in Service \ {s} : Idle(t)
<1>1. CASE s \in Consumer
  <2>1. Enter(s, "look") /\ waited' = waited
    BY <1>1 DEF PublisherReady
  <2>2. "look" \in State
    BY DEF State, Starting, Calling
  <2> QED
    BY <1>1, <2>1, <2>2, EnterOne DEF Moved, Goes, Idle, TypeOK
<1>2. CASE s \notin Consumer
  <2>1. Finish(s, "running")
    BY <1>2 DEF PublisherReady
  <2>2. "running" \in State
    BY DEF State
  <2> QED
    BY <2>1, <2>2, FinishOne DEF Moved, Idle
<1> QED
  BY <1>1, <1>2

\* A step of a service is one of its ways, and leaves the others alone.
LEMMA ServiceMoves ==
    ASSUME TypeOK, NEW s \in Service, ServiceStep(s)
    PROVE  TypeOK' /\ Moved(s) /\ \A t \in Service \ {s} : Idle(t)
<1> USE DEF Publishing
<1>0. /\ {"ensure", "create", "look", "sleep", "subscribe", "running", "ended"} \subseteq State
      /\ s \in Consumer => MaxAttempts[s] \in Nat \ {0}
  BY Constants DEF State, Starting, Calling
<1>1. ASSUME Fault PROVE faults' \in 0 .. MaxFaults
  BY <1>1, LifecycleAssumption DEF Fault, TypeOK
<1>2. CASE Start(s)
  <2> DEFINE st == IF Makes(s) # {} THEN "ensure" ELSE "look"
  <2>1. Enter(s, st) /\ st \in State
    BY <1>0, <1>2 DEF Start
  <2>2. attempt' = [c \in Consumer |-> IF c = s THEN 1 ELSE attempt[c]]
    BY <1>2 DEF Start
  <2>3. /\ attempt' \in [Consumer -> Nat]
        /\ \A c \in Consumer : attempt'[c] <= MaxAttempts[c]
        /\ s \in Consumer => attempt'[s] = 1
        /\ \A c \in Consumer \ {s} : attempt'[c] = attempt[c]
    BY <1>0, <2>2 DEF TypeOK
  <2>4. faults' \in 0 .. MaxFaults
    BY <1>1, <1>2 DEF Start, TypeOK
  <2>5. /\ state[s] \in {"down", "ended"} /\ UNCHANGED <<nats, streams, there, waited>>
        /\ calm' \in BOOLEAN
    BY <1>2 DEF Start, TypeOK
  <2>6. Moved(s) /\ \A t \in Service \ {s} : Idle(t)
    <3>1. Entered(s, IF Makes(s) # {} THEN "ensure" ELSE "look")
      BY <2>1, EnterOne
    <3> QED
      BY <2>1, <2>3, <2>5, <3>1, EnterOne DEF Moved, Idle
  <2> QED
    BY <2>1, <2>3, <2>4, <2>5, <2>6, EnterOne DEF TypeOK
<1>3. CASE Ensure(s)
  <2>1. state[s] = "ensure" /\ UNCHANGED <<nats, streams, there, attempt, calm, faults>>
    BY <1>3 DEF Ensure
  <2>2. CASE PublisherReady(s)
    BY <2>1, <2>2, PublisherMoves DEF TypeOK
  <2>3. CASE Enter(s, "create") /\ UNCHANGED waited
    BY <1>0, <2>1, <2>3, EnterOne DEF TypeOK, Moved, Goes, Idle
  <2> QED
    BY <1>3, <2>2, <2>3 DEF Ensure
<1>4. CASE Create(s)
  <2>1. /\ state[s] = "create" /\ PublisherReady(s)
        /\ UNCHANGED <<nats, there, attempt, calm, faults>>
        /\ streams' \subseteq Stream
    BY <1>4, Names DEF Create, TypeOK
  <2> QED
    BY <2>1, PublisherMoves DEF TypeOK
<1>5. CASE EnsureFails(s)
  <2>1. Finish(s, "ended") /\ UNCHANGED <<nats, streams, there, attempt, calm, faults>>
    BY <1>5 DEF EnsureFails
  <2> QED
    BY <1>0, <2>1, FinishOne DEF TypeOK, Moved, Idle
<1>6. CASE Ends(s)
  <2>1. /\ Finish(s, "ended") /\ UNCHANGED <<nats, streams, there, attempt>>
        /\ calm' = FALSE /\ faults' \in 0 .. MaxFaults
    BY <1>1, <1>6 DEF Ends
  <2> QED
    BY <1>0, <2>1, FinishOne DEF TypeOK, Moved, Idle
<1>7. ASSUME s \in Consumer, Found(s) \/ NotFound(s)
      PROVE  TypeOK' /\ Moved(s) /\ \A t \in Service \ {s} : Idle(t)
  <2>1. /\ state[s] = "look" /\ (Enter(s, "subscribe") \/ Enter(s, "sleep"))
        /\ UNCHANGED <<nats, streams, there, waited, attempt, calm, faults>>
    BY <1>7 DEF Found, NotFound
  <2> QED
    BY <1>0, <2>1, EnterOne DEF TypeOK, Moved, Goes, Idle
<1>8. ASSUME s \in Consumer, Wake(s)
      PROVE  TypeOK' /\ Moved(s) /\ \A t \in Service \ {s} : Idle(t)
  <2>1. /\ state[s] = "sleep" /\ timer[s] = Delay[s] /\ attempt[s] < MaxAttempts[s]
        /\ attempt' = [attempt EXCEPT ![s] = @ + 1] /\ Enter(s, "look")
        /\ UNCHANGED <<nats, streams, there, waited, calm, faults>>
    BY <1>8 DEF Wake
  <2>2. /\ attempt' \in [Consumer -> Nat]
        /\ \A c \in Consumer : attempt'[c] <= MaxAttempts[c]
        /\ attempt'[s] = attempt[s] + 1
        /\ \A c \in Consumer \ {s} : attempt'[c] = attempt[c]
    BY <1>0, <1>8, <2>1 DEF TypeOK
  <2> QED
    BY <1>0, <1>8, <2>1, <2>2, EnterOne DEF TypeOK, Moved, Idle
<1>9. ASSUME s \in Consumer, GiveUp(s) \/ Subscribe(s)
      PROVE  TypeOK' /\ Moved(s) /\ \A t \in Service \ {s} : Idle(t)
  <2>1. /\ Finish(s, "running") \/ Finish(s, "ended")
        /\ UNCHANGED <<nats, streams, there, attempt, calm, faults>>
    BY <1>9 DEF GiveUp, Subscribe
  <2> QED
    BY <1>0, <2>1, FinishOne DEF TypeOK, Moved, Idle
<1> QED
  BY <1>2, <1>3, <1>4, <1>5, <1>6, <1>7, <1>8, <1>9 DEF ServiceStep, ConsumerStep

-----------------------------------------------------------------------------
(* Stages and times *)

\* A service that idles is where it was, and has waited what it had.
LEMMA IdleTiming ==
    ASSUME NEW s \in Service, Stage(s), Timing(s), Idle(s)
    PROVE  Stage(s)' /\ Timing(s)'
<1>1. /\ state'[s] = state[s] /\ timer'[s] = timer[s] /\ waited'[s] = waited[s]
      /\ s \in Consumer => attempt'[s] = attempt[s]
  BY DEF Idle
<1>2. Stage(s)'
  BY <1>1 DEF Stage
<1>3. state[s] \in Attempting => Least(s)' = Least(s) /\ Most(s)' = Most(s)
  BY <1>1 DEF Least, Most, PublisherTime, Stage
<1>4. state[s] \in {"look", "sleep", "subscribe"} => state[s] \in Attempting
  BY DEF Attempting
<1> QED
  BY <1>1, <1>2, <1>3, <1>4 DEF Timing

\* Each way of a service keeps its accounts.
LEMMA MovedTiming ==
    ASSUME TypeOK, TypeOK', NEW s \in Service, Stage(s), Timing(s), Moved(s)
    PROVE  Stage(s)' /\ Timing(s)'
<1> USE DEF Calling, Starting, Publishing, Attempting, Entered
<1>1. /\ timer[s] \in Nat /\ waited[s] \in Nat /\ Patience[s] \in Nat
      /\ timer'[s] \in Nat /\ waited'[s] \in Nat
      /\ s \in Consumer => /\ Delay[s] \in Nat
                           /\ attempt[s] \in Nat /\ attempt'[s] \in Nat
  BY Constants DEF TypeOK
<1>2. ASSUME s \in Consumer, attempt'[s] >= 1
      PROVE  /\ Least(s)' \in Nat /\ Most(s)' \in Nat
             /\ attempt'[s] = 1 => Least(s)' = 0 /\ Most(s)' = PublisherTime(s)
  <2>1. attempt'[s] \in Nat
    BY <1>1, <1>2
  <2> QED
    BY <1>2, <2>1, SpentThen
<1>3. ASSUME s \in Consumer, attempt[s] >= 1, attempt'[s] = attempt[s]
      PROVE  /\ Least(s) \in Nat /\ Most(s) \in Nat
             /\ Least(s)' = Least(s) /\ Most(s)' = Most(s)
  BY <1>1, <1>3, Spent DEF Least, Most, PublisherTime
<1>4. CASE /\ state[s] \in {"down", "ended"}
           /\ Entered(s, IF Makes(s) # {} THEN "ensure" ELSE "look")
           /\ waited'[s] = waited[s]
           /\ s \in Consumer => attempt'[s] = 1
  <2>1. waited'[s] = 0
    BY <1>4 DEF Timing
  <2>2. CASE Makes(s) # {}
    BY <1>1, <1>4, <2>1, <2>2 DEF Stage, Timing
  <2>3. CASE Makes(s) = {}
    <3>1. s \in Consumer /\ state'[s] = "look" /\ timer'[s] = 0 /\ attempt'[s] = 1
      BY <1>4, <2>3, Names
    <3>2. Least(s)' = 0 /\ Most(s)' \in Nat
      BY <1>2, <3>1
    <3> QED
      BY <1>1, <2>1, <3>1, <3>2 DEF Stage, Timing
  <2> QED
    BY <2>2, <2>3
<1>5. CASE state[s] = "ensure" /\ Goes(s, "create")
  BY <1>1, <1>5 DEF Goes, Stage, Timing
<1>6. CASE state[s] \in Publishing /\ s \in Consumer /\ Goes(s, "look")
  <2>1. /\ state'[s] = "look" /\ timer'[s] = 0 /\ waited'[s] = waited[s]
        /\ attempt'[s] = 1 /\ Makes(s) # {}
    BY <1>6 DEF Goes, Stage
  <2>2. Least(s)' = 0 /\ Most(s)' = 2 * Patience[s]
    BY <1>2, <1>6, <2>1, Constants
  <2>3. waited[s] <= 2 * Patience[s]
    BY <1>1, <1>6 DEF Timing
  <2> QED
    BY <1>1, <1>6, <2>1, <2>2, <2>3 DEF Stage, Timing
<1>7. CASE state[s] = "look" /\ (Goes(s, "subscribe") \/ Goes(s, "sleep"))
  <2>1. /\ state'[s] \in {"subscribe", "sleep"} /\ timer'[s] = 0
        /\ waited'[s] = waited[s]
        /\ s \in Consumer /\ attempt[s] >= 1 /\ attempt'[s] = attempt[s]
    BY <1>7 DEF Goes, Stage
  <2>2. /\ Least(s) \in Nat /\ Most(s) \in Nat
        /\ Least(s)' = Least(s) /\ Most(s)' = Most(s)
    BY <1>3, <2>1
  <2>3. /\ timer[s] <= Patience[s] /\ Least(s) + timer[s] <= waited[s]
        /\ waited[s] <= Most(s) + timer[s]
    BY <1>7 DEF Timing
  <2> QED
    BY <1>1, <2>1, <2>2, <2>3 DEF Stage, Timing
<1>8. CASE /\ state[s] = "sleep" /\ s \in Consumer
           /\ timer[s] = Delay[s]
           /\ attempt[s] < MaxAttempts[s] /\ attempt'[s] = attempt[s] + 1
           /\ Entered(s, "look") /\ waited'[s] = waited[s]
  <2>1. attempt[s] >= 1
    BY <1>8 DEF Stage
  <2>2. Least(s) \in Nat /\ Most(s) \in Nat
    BY <1>1, <1>8, <2>1, Spent
  <2>3. /\ Least(s)' = Least(s) + Delay[s]
        /\ Most(s)' = Most(s) + Patience[s] + Delay[s]
    BY <1>1, <1>8, <2>1, SpentNext
  <2>4. /\ Least(s) + timer[s] <= waited[s]
        /\ waited[s] <= Most(s) + Patience[s] + timer[s]
    BY <1>8 DEF Timing
  <2> QED
    BY <1>1, <1>8, <2>1, <2>2, <2>3, <2>4 DEF Stage, Timing
<1>9. CASE (Entered(s, "running") \/ Entered(s, "ended")) /\ waited'[s] = 0
  BY <1>9 DEF Stage, Timing
<1> QED
  BY <1>4, <1>5, <1>6, <1>7, <1>8, <1>9 DEF Moved

\* Time passes for one who is not due, and for whom it is up to the bound.
LEMMA TickTiming ==
    ASSUME TypeOK, NEW s \in Service, Stage(s), Timing(s), Tick
    PROVE  Stage(s)' /\ Timing(s)'
<1>1. /\ state'[s] = state[s]
      /\ s \in Consumer => attempt'[s] = attempt[s]
      /\ timer'[s] = IF state[s] \in Starting THEN timer[s] + 1 ELSE 0
      /\ waited'[s] = IF state[s] \in Starting THEN waited[s] + 1 ELSE 0
  BY DEF Tick
<1>2. /\ state[s] \in Calling => timer[s] # Patience[s]
      /\ state[s] = "sleep" => timer[s] # Delay[s]
  BY DEF Tick, Due
<1>3. /\ timer[s] \in Nat /\ waited[s] \in Nat /\ Patience[s] \in Nat
      /\ s \in Consumer => Delay[s] \in Nat /\ attempt[s] \in Nat
  BY Constants DEF TypeOK
<1>4. Stage(s)'
  BY <1>1 DEF Stage
<1>5. state[s] \in Attempting => /\ Least(s) \in Nat /\ Most(s) \in Nat
                                 /\ Least(s)' = Least(s) /\ Most(s)' = Most(s)
                                 /\ s \in Consumer
  BY <1>1, <1>3, Spent DEF Least, Most, PublisherTime, Stage
<1>6. ASSUME state[s] \notin Starting PROVE Timing(s)'
  BY <1>1, <1>6 DEF Timing, Starting, Calling, Attempting
<1>7. ASSUME state[s] \in Publishing PROVE Timing(s)'
  BY <1>1, <1>2, <1>3, <1>7 DEF Timing, Starting, Calling, Attempting, Publishing
<1>8. ASSUME state[s] \in Attempting PROVE Timing(s)'
  <2>1. state[s] \in {"look", "subscribe"} => timer[s] + 1 <= Patience[s]
    BY <1>2, <1>3 DEF Timing, Calling
  <2>2. state[s] = "sleep" => timer[s] + 1 <= Delay[s]
    BY <1>2, <1>3, <1>5, <1>8 DEF Timing
  <2>3. timer'[s] = timer[s] + 1 /\ waited'[s] = waited[s] + 1
    BY <1>1, <1>8 DEF Starting, Calling, Attempting
  <2>4. /\ Least(s) + timer[s] <= waited[s]
        /\ state[s] = "look" => waited[s] <= Most(s) + timer[s]
        /\ state[s] \in {"sleep", "subscribe"} =>
              waited[s] <= Most(s) + Patience[s] + timer[s]
    BY <1>8 DEF Timing
  <2> QED
    BY <1>1, <1>3, <1>5, <1>8, <2>1, <2>2, <2>3, <2>4
       DEF Timing, Starting, Calling, Attempting
<1> QED
  BY <1>4, <1>6, <1>7, <1>8 DEF Starting, Calling, Publishing, Attempting

-----------------------------------------------------------------------------
(* Streams, and what read-service misses *)

\* A service leaves NATS up or down, and its streams there; it falls asleep when
\* it did not find its own, and it is never down again.
LEMMA ServiceKeeps ==
    ASSUME TypeOK, NEW s \in Service, ServiceStep(s)
    PROVE  /\ nats' = nats /\ there' = there /\ streams \subseteq streams'
           /\ state'[s] = "sleep" => s \in Consumer /\ NotFound(s)
           /\ state'[s] # "down"
           /\ calm' => calm
<1>1. nats' = nats /\ there' = there /\ streams \subseteq streams' /\ (calm' => calm)
  <2>1. CASE Start(s) \/ Ends(s)
    BY <2>1 DEF Start, Ends
  <2>2. CASE Ensure(s) \/ EnsureFails(s)
    BY <2>2 DEF Ensure, EnsureFails
  <2>3. CASE Create(s)
    BY <2>3 DEF Create
  <2>4. CASE ConsumerStep(s)
    BY <2>4 DEF ConsumerStep, Found, NotFound, Wake, GiveUp, Subscribe
  <2> QED
    BY <2>1, <2>2, <2>3, <2>4 DEF ServiceStep
<1>2. state'[s] # "down"
  BY ServiceMoves DEF Moved, Goes, Entered
<1>3. ASSUME state'[s] = "sleep" PROVE s \in Consumer /\ NotFound(s)
  <2>1. state[s] = "look"
    BY <1>3, ServiceMoves DEF Moved, Goes, Entered
  <2>2. {"ended", "subscribe"} \subseteq State
    BY DEF State, Starting, Calling
  <2>3. ~Ends(s) /\ ~(s \in Consumer /\ Found(s))
    BY <1>3, <2>2, EnterOne, FinishOne DEF Ends, Found, Entered
  <2>4. /\ ~Start(s) /\ ~Ensure(s) /\ ~Create(s) /\ ~EnsureFails(s)
        /\ ~Wake(s) /\ ~GiveUp(s) /\ ~Subscribe(s)
    BY <2>1 DEF Start, Ensure, Create, EnsureFails, Wake, GiveUp, Subscribe
  <2> QED
    BY <2>3, <2>4 DEF ServiceStep, ConsumerStep
<1> QED
  BY <1>1, <1>2, <1>3

\* Sleepers began without their stream, whoever steps.
LEMMA ServiceMissed ==
    ASSUME TypeOK, Missed, NEW s \in Service, ServiceStep(s)
    PROVE  Missed'
<1>1. /\ nats' = nats /\ there' = there /\ streams \subseteq streams'
      /\ state'[s] = "sleep" => s \in Consumer /\ NotFound(s)
  BY ServiceKeeps
<1>2. \A st \in Stream : Reachable(st)' \/ there'[st] = 0
  BY <1>1 DEF Missed, Reachable
<1>3. ASSUME NEW c \in Consumer, state'[c] = "sleep"
      PROVE  there'[Awaits(c)] <= timer'[c]
  <2>1. CASE c = s
    <3>1. NotFound(s)
      BY <1>1, <1>3, <2>1
    <3>2. timer'[s] = 0
      BY <3>1 DEF NotFound, Enter, TypeOK
    <3>3. there[Awaits(c)] = 0
      <4>1. ~Reachable(Awaits(c)) /\ Awaits(c) \in Stream
        BY <2>1, <3>1, Names DEF NotFound, Reachable
      <4> QED
        BY <4>1 DEF Missed
    <3> QED
      BY <1>1, <2>1, <3>2, <3>3
  <2>2. CASE c # s
    <3>1. state[c] = "sleep" /\ timer'[c] = timer[c]
      BY <1>3, <2>2, Names, ServiceMoves DEF Idle
    <3> QED
      BY <1>1, <3>1 DEF Missed
  <2> QED
    BY <2>1, <2>2
<1> QED
  BY <1>2, <1>3 DEF Missed

\* With a tick a stream has been there for no longer than a sleep that missed it.
LEMMA TickMissed == TypeOK /\ Missed /\ Tick => Missed'
<1> SUFFICES ASSUME TypeOK, Missed, Tick PROVE Missed'
  OBVIOUS
<1>1. /\ state' = state /\ nats' = nats /\ streams' = streams
      /\ \A st \in Stream : /\ there'[st] \in {there[st], there[st] + 1}
                            /\ ~Reachable(st) => there'[st] = there[st]
  BY DEF Tick
<1>2. \A st \in Stream : there[st] \in Nat
  BY LifecycleAssumption DEF TypeOK, MaxThere, Consumer
<1>3. \A st \in Stream : Reachable(st)' \/ there'[st] = 0
  BY <1>1 DEF Missed, Reachable
<1>4. ASSUME NEW c \in Consumer, state'[c] = "sleep"
      PROVE  there'[Awaits(c)] <= timer'[c]
  <2>1. c \in Service /\ Awaits(c) \in Stream /\ state[c] = "sleep"
    BY <1>1, <1>4, Names
  <2>2. timer'[c] = timer[c] + 1 /\ timer[c] \in Nat
    BY <2>1 DEF Tick, Starting, TypeOK
  <2>3. there[Awaits(c)] <= timer[c]
    BY <2>1 DEF Missed
  <2> QED
    BY <1>1, <1>2, <2>1, <2>2, <2>3
<1> QED
  BY <1>3, <1>4 DEF Missed

\* What a step of pattern does to its stream in a calm run.
LEMMA PatternCalm ==
    ASSUME TypeOK, Stage("pattern"), calm, CalmState, ServiceStep("pattern"), calm'
    PROVE  state'["pattern"] \in Publishing \/ "ANOMALIES" \in streams'
<1> DEFINE s == "pattern"
<1>1. s \in Service /\ Makes(s) = {"ANOMALIES"}
  BY Names DEF Service
<1>2. streams \subseteq streams' /\ {"ensure", "create"} \subseteq State
  BY <1>1, ServiceKeeps DEF State, Starting, Calling
<1>3. ~Ends(s)
  BY DEF Ends
<1>4. CASE Start(s)
  <2>1. Enter(s, "ensure")
    BY <1>1, <1>4 DEF Start
  <2> QED
    BY <1>1, <1>2, <2>1, EnterOne DEF Entered, Publishing
<1>5. CASE Ensure(s)
  <2>1. "ANOMALIES" \in streams \/ Enter(s, "create")
    BY <1>1, <1>5 DEF Ensure
  <2> QED
    BY <1>1, <1>2, <2>1, EnterOne DEF Entered, Publishing
<1>6. CASE Create(s)
  BY <1>1, <1>6 DEF Create
<1>7. CASE EnsureFails(s)
  <2>1. state[s] # "down" /\ ~nats
    BY <1>7 DEF EnsureFails
  <2> QED
    BY <1>1, <2>1 DEF CalmState
<1>8. CASE ConsumerStep(s)
  <2>1. state[s] \in Attempting
    BY <1>8 DEF ConsumerStep, Found, NotFound, Wake, GiveUp, Subscribe, Attempting
  <2>2. "ANOMALIES" \in streams
    BY <2>1 DEF CalmState, Publishing, Attempting
  <2> QED
    BY <1>2, <2>2
<1> QED
  BY <1>3, <1>4, <1>5, <1>6, <1>7, <1>8 DEF ServiceStep

\* What a step of read does in a calm run.
LEMMA ReadCalm ==
    ASSUME TypeOK, Stage("read"), calm, CalmState, ServiceStep("read"), calm'
    PROVE  /\ state'["read"] = "look" => attempt'["read"] = 1 \/ "ANOMALIES" \in streams'
           /\ state'["read"] = "sleep" => attempt'["read"] = 1 /\ timer'["read"] = 0
           /\ state'["read"] = "subscribe" => "ANOMALIES" \in streams'
           /\ state'["read"] # "ended"
<1> DEFINE s == "read"
<1>1. /\ s \in Service /\ s \in Consumer /\ Makes(s) = {} /\ Awaits(s) = "ANOMALIES"
      /\ {"look", "sleep", "subscribe", "running"} \subseteq State
  BY Names DEF Service, Consumer, State, Starting, Calling
<1>2. streams \subseteq streams'
  BY <1>1, ServiceKeeps
<1>3. state[s] \notin Publishing
  BY <1>1 DEF Stage
<1>4. ~Ends(s) /\ ~Ensure(s) /\ ~Create(s) /\ ~EnsureFails(s)
  BY <1>3 DEF Ends, Ensure, Create, EnsureFails, Publishing
<1>5. CASE Start(s)
  <2>1. Enter(s, "look") /\ attempt'[s] = 1
    BY <1>1, <1>5 DEF Start
  <2> QED
    BY <1>1, <2>1, EnterOne DEF Entered
<1>6. CASE Found(s)
  <2>1. Enter(s, "subscribe") /\ "ANOMALIES" \in streams
    BY <1>1, <1>6 DEF Found
  <2> QED
    BY <1>1, <1>2, <2>1, EnterOne DEF Entered
<1>7. CASE NotFound(s)
  <2>1. state[s] = "look" /\ Enter(s, "sleep") /\ attempt' = attempt
    BY <1>7 DEF NotFound
  <2>2. nats
    BY <1>1, <2>1 DEF CalmState
  <2>3. "ANOMALIES" \notin streams
    BY <1>1, <1>7, <2>2 DEF NotFound
  <2>4. attempt[s] = 1
    BY <2>1, <2>3 DEF CalmState
  <2> QED
    BY <1>1, <2>1, <2>4, EnterOne DEF Entered
<1>8. CASE Wake(s)
  <2>1. state[s] = "sleep" /\ timer[s] = Delay[s] /\ Enter(s, "look")
    BY <1>8 DEF Wake
  <2>2. timer[s] # 0
    BY <1>1, <2>1, ReadTriesAgain, LifecycleAssumption
  <2>3. "ANOMALIES" \in streams
    BY <2>1, <2>2 DEF CalmState
  <2> QED
    BY <1>1, <1>2, <2>1, <2>3, EnterOne DEF Entered
<1>9. ~GiveUp(s)
  <2>1. SUFFICES ASSUME GiveUp(s) PROVE FALSE
    OBVIOUS
  <2>2. state[s] = "sleep" /\ attempt[s] = MaxAttempts[s]
    BY <2>1 DEF GiveUp
  <2>3. attempt[s] = 1
    BY <2>2 DEF CalmState
  <2> QED
    BY <1>1, <2>2, <2>3, ReadTriesAgain, LifecycleAssumption
<1>10. CASE Subscribe(s)
  <2>1. state[s] = "subscribe"
    BY <1>10 DEF Subscribe
  <2>2. nats /\ "ANOMALIES" \in streams
    BY <1>1, <2>1 DEF CalmState
  <2>3. Finish(s, "running")
    BY <1>1, <1>10, <2>2 DEF Subscribe
  <2> QED
    BY <1>1, <2>3, FinishOne DEF Entered
<1> QED
  BY <1>4, <1>5, <1>6, <1>7, <1>8, <1>9, <1>10 DEF ServiceStep, ConsumerStep

\* A service that leaves a calm run calm keeps what holds in it.
LEMMA ServiceCalm ==
    ASSUME TypeOK, Stage("pattern"), Stage("read"), calm => CalmState,
           NEW s \in Service, ServiceStep(s), calm'
    PROVE  CalmState'
<1>1. /\ calm /\ CalmState /\ nats' = nats /\ streams \subseteq streams'
      /\ state'[s] # "down"
  BY ServiceKeeps
<1>2. \A t \in Service \ {s} : Idle(t)
  BY ServiceMoves
<1>3. "read" \in Service /\ "read" \in Consumer /\ "pattern" \in Service
  BY DEF Service, Consumer
<1>4. nats /\ (s = "read" => state["pattern"] # "down")
  <2>1. CASE Start(s)
    BY <1>1, <2>1 DEF Start, MayStart
  <2>2. CASE ~Start(s)
    <3>1. state[s] # "down"
      BY <2>2 DEF ServiceStep, ConsumerStep, Ensure, Create, EnsureFails, Ends, Found,
                  NotFound, Wake, GiveUp, Subscribe
    <3> QED
      BY <1>1, <3>1 DEF CalmState
  <2> QED
    BY <2>1, <2>2
<1>5. \A t \in Service : state'[t] # "down" => nats'
  BY <1>1, <1>4
<1>6. state'["read"] # "down" => state'["pattern"] # "down"
  <2>1. CASE s = "pattern"
    BY <1>1, <2>1
  <2>2. CASE s # "pattern"
    <3>1. state'["pattern"] = state["pattern"]
      BY <1>2, <1>3, <2>2 DEF Idle
    <3>2. s # "read" => state'["read"] = state["read"]
      BY <1>2, <1>3 DEF Idle
    <3> QED
      BY <1>1, <1>4, <3>1, <3>2 DEF CalmState
  <2> QED
    BY <2>1, <2>2
<1>7. state'["pattern"] \in Publishing \cup {"down"} \/ "ANOMALIES" \in streams'
  <2>1. CASE s = "pattern"
    BY <1>1, <2>1, PatternCalm
  <2>2. CASE s # "pattern"
    <3>1. state'["pattern"] = state["pattern"]
      BY <1>2, <1>3, <2>2 DEF Idle
    <3> QED
      BY <1>1, <3>1 DEF CalmState
  <2> QED
    BY <2>1, <2>2
<1>8. /\ state'["read"] = "look" => attempt'["read"] = 1 \/ "ANOMALIES" \in streams'
      /\ state'["read"] = "sleep" =>
            attempt'["read"] = 1 /\ (timer'["read"] = 0 \/ "ANOMALIES" \in streams')
      /\ state'["read"] = "subscribe" => "ANOMALIES" \in streams'
      /\ state'["read"] # "ended"
  <2>1. CASE s = "read"
    BY <1>1, <2>1, ReadCalm
  <2>2. CASE s # "read"
    <3>1. /\ state'["read"] = state["read"] /\ timer'["read"] = timer["read"]
          /\ attempt'["read"] = attempt["read"]
      BY <1>2, <1>3, <2>2 DEF Idle
    <3> QED
      BY <1>1, <3>1 DEF CalmState
  <2> QED
    BY <2>1, <2>2
<1> QED
  BY <1>5, <1>6, <1>7, <1>8 DEF CalmState, Publishing

\* No time passes between the start of read and the stream of pattern.
LEMMA TickCalm ==
    ASSUME TypeOK, CalmState, Tick
    PROVE  CalmState'
<1>1. UNCHANGED <<nats, streams, state, attempt>>
  BY DEF Tick
<1>2. state["read"] = "sleep" => "ANOMALIES" \in streams
  <2>1. SUFFICES ASSUME state["read"] = "sleep" PROVE "ANOMALIES" \in streams
    OBVIOUS
  <2>2. "read" \in Service /\ "pattern" \in Service
    BY DEF Service
  <2>3. nats /\ state["pattern"] # "down"
    BY <2>1, <2>2 DEF CalmState
  <2>4. state["pattern"] \notin Calling
    BY <2>2, <2>3 DEF Tick, Due
  <2> QED
    BY <2>3, <2>4 DEF CalmState, Calling, Publishing
<1> QED
  BY <1>1, <1>2 DEF CalmState, Publishing

-----------------------------------------------------------------------------
(* The invariant *)

\* It holds before anything has started.
LEMMA InitIInv == Init => IInv
<1> SUFFICES ASSUME Init PROVE IInv
  OBVIOUS
<1>1. TypeOK
  <2>1. MaxThere \in Nat /\ 0 \in 0 .. MaxThere
    BY LifecycleAssumption DEF MaxThere, Consumer
  <2>2. "down" \in State /\ 0 \in 0 .. MaxFaults
    BY LifecycleAssumption DEF State
  <2>3. \A c \in Consumer : 0 <= MaxAttempts[c]
    BY LifecycleAssumption
  <2> QED
    BY <2>1, <2>2, <2>3 DEF Init, TypeOK
<1>2. \A s \in Service : Stage(s) /\ Timing(s)
  BY DEF Init, Stage, Timing, Publishing, Attempting, Calling, Starting
<1>3. Missed
  BY Names DEF Init, Missed
<1>4. CalmState
  BY DEF Init, CalmState, Publishing, Service
<1> QED
  BY <1>1, <1>2, <1>3, <1>4 DEF IInv

\* NATS, coming or going, moves no service.
LEMMA NatsIInv == IInv /\ (NatsStarts \/ NatsStops) => IInv'
<1> SUFFICES ASSUME IInv, NatsStarts \/ NatsStops PROVE IInv'
  OBVIOUS
<1>0. TypeOK /\ Missed /\ (calm => CalmState) /\ \A s \in Service : Stage(s) /\ Timing(s)
  BY DEF IInv
<1>1. UNCHANGED <<state, timer, waited, attempt>>
  BY DEF NatsStarts, NatsStops
<1>2. \A s \in Service : Stage(s)' /\ Timing(s)'
  BY <1>0, <1>1, IdleTiming DEF Idle
<1>3. TypeOK'
  <2>1. 0 \in 0 .. MaxThere
    BY LifecycleAssumption DEF MaxThere, Consumer
  <2>2. ASSUME Fault PROVE faults' \in 0 .. MaxFaults
    BY <1>0, <2>2, LifecycleAssumption DEF Fault, TypeOK
  <2> QED
    BY <1>0, <2>1, <2>2 DEF NatsStarts, NatsStops, TypeOK
<1>4. CASE NatsStarts
  <2>1. Missed'
    BY <1>0, <1>4 DEF NatsStarts, Missed, Reachable
  <2>2. calm' => CalmState'
    BY <1>0, <1>4 DEF NatsStarts, CalmState, Publishing
  <2> QED
    BY <1>2, <1>3, <2>1, <2>2 DEF IInv
<1>5. CASE NatsStops
  <2>1. Missed'
    <3>1. there' = [st \in Stream |-> 0] /\ UNCHANGED <<state, timer>>
      BY <1>5 DEF NatsStops
    <3>2. \A c \in Consumer : Awaits(c) \in Stream /\ timer[c] \in Nat
      BY <1>0, Names DEF TypeOK
    <3> QED
      BY <3>1, <3>2 DEF Missed
  <2>2. ~calm'
    BY <1>5 DEF NatsStops
  <2> QED
    BY <1>2, <1>3, <2>1, <2>2 DEF IInv
<1> QED
  BY <1>4, <1>5

\* Nor does time.
LEMMA TickIInv == IInv /\ Tick => IInv'
<1> SUFFICES ASSUME IInv, Tick PROVE IInv'
  OBVIOUS
<1>0. TypeOK /\ Missed /\ (calm => CalmState) /\ \A s \in Service : Stage(s) /\ Timing(s)
  BY DEF IInv
<1>1. \A s \in Service : Stage(s)' /\ Timing(s)'
  BY <1>0, TickTiming
<1>2. TypeOK'
  <2>1. MaxThere \in Nat
    BY LifecycleAssumption DEF MaxThere, Consumer
  <2>2. there' \in [Stream -> 0 .. MaxThere]
    BY <1>0, <2>1 DEF Tick, TypeOK
  <2>3. timer' \in [Service -> Nat] /\ waited' \in [Service -> Nat]
    BY <1>0 DEF Tick, TypeOK
  <2> QED
    BY <1>0, <2>2, <2>3 DEF Tick, TypeOK
<1>3. Missed'
  BY <1>0, TickMissed
<1>4. calm' => CalmState'
  BY <1>0, TickCalm DEF Tick
<1> QED
  BY <1>1, <1>2, <1>3, <1>4 DEF IInv

\* Every step keeps it.
LEMMA StepIInv == IInv /\ [Next]_vars => IInv'
<1> SUFFICES ASSUME IInv, [Next]_vars PROVE IInv'
  OBVIOUS
<1>0. TypeOK /\ Missed /\ (calm => CalmState) /\ \A s \in Service : Stage(s) /\ Timing(s)
  BY DEF IInv
<1>1. ASSUME NEW s \in Service, ServiceStep(s) PROVE IInv'
  <2>1. TypeOK' /\ Moved(s) /\ \A t \in Service \ {s} : Idle(t)
    BY <1>0, <1>1, ServiceMoves
  <2>2. \A t \in Service \ {s} : Stage(t)' /\ Timing(t)'
    BY <1>0, <2>1, IdleTiming
  <2>3. Stage(s)' /\ Timing(s)'
    BY <1>0, <2>1, MovedTiming
  <2>4. \A t \in Service : Stage(t)' /\ Timing(t)'
    BY <2>2, <2>3
  <2>5. Missed'
    BY <1>0, <1>1, ServiceMissed
  <2>6. "pattern" \in Service /\ "read" \in Service
    BY DEF Service
  <2>7. calm' => CalmState'
    BY <1>0, <1>1, <2>6, ServiceCalm
  <2> QED
    BY <2>1, <2>4, <2>5, <2>7 DEF IInv
<1>2. CASE UNCHANGED vars
  <2>1. UNCHANGED <<state, timer, waited, attempt>>
    BY <1>2 DEF vars
  <2>2. \A s \in Service : Stage(s)' /\ Timing(s)'
    BY <1>0, <2>1, IdleTiming DEF Idle
  <2>3. TypeOK' /\ Missed'
    BY <1>0, <1>2 DEF vars, TypeOK, Missed, Reachable
  <2>4. calm' => CalmState'
    BY <1>0, <1>2 DEF vars, CalmState, Publishing
  <2> QED
    BY <2>2, <2>3, <2>4 DEF IInv
<1> QED
  BY <1>1, <1>2, NextSteps, NatsIInv, TickIInv

\* So it is an invariant.
LEMMA Invariance == Spec => []IInv
  BY InitIInv, StepIInv, PTL DEF Spec

\* Every variable keeps its type, and no loop makes an attempt too many.
THEOREM TypeCorrectness == Spec => []TypeOK
<1>1. IInv => TypeOK
  BY DEF IInv
<1> QED
  BY <1>1, Invariance, PTL

\* A service that waits for NATS or for its stream serves or has ended after
\* the sum of its attempts, delays and timeouts, whatever NATS does meanwhile.
THEOREM NoServiceHangs == Spec => []StartUpIsBounded
<1>1. IInv => StartUpIsBounded
  <2> SUFFICES ASSUME IInv, NEW s \in Service PROVE waited[s] <= LongestStart(s)
    BY DEF StartUpIsBounded
  <2> USE DEF Calling, Starting, Attempting
  <2>1. TypeOK /\ Stage(s) /\ Timing(s)
    BY DEF IInv
  <2>2. /\ timer[s] \in Nat /\ waited[s] \in Nat /\ Patience[s] \in Nat
        /\ s \in Consumer => /\ Delay[s] \in Nat /\ MaxAttempts[s] \in Nat
                             /\ attempt[s] \in Nat /\ attempt[s] <= MaxAttempts[s]
    BY <2>1, Constants DEF TypeOK
  <2>3. LongestStart(s) \in Nat /\ LongestStart(s) >= PublisherTime(s)
    <3>1. s \in Consumer => LongestLoop(s) \in Nat
      <4>1. SUFFICES ASSUME s \in Consumer PROVE LongestLoop(s) \in Nat
        OBVIOUS
      <4>2. MaxAttempts[s] * (Patience[s] + Delay[s]) \in Nat
        BY <2>2, <4>1, Product
      <4> QED
        BY <2>2, <4>2 DEF LongestLoop
    <3> QED
      BY <3>1, Constants DEF LongestStart, PublisherTime
  <2>4. CASE state[s] \notin Starting
    BY <2>1, <2>2, <2>3, <2>4 DEF Timing
  <2>5. CASE state[s] \in Publishing
    <3>1. waited[s] <= 2 * Patience[s]
      BY <2>1, <2>2, <2>5 DEF Timing, Publishing
    <3>2. PublisherTime(s) = 2 * Patience[s]
      BY <2>1, <2>5, Constants DEF Stage
    <3> QED
      BY <2>2, <2>3, <3>1, <3>2
  <2>6. CASE state[s] \in Attempting
    <3>1. s \in Consumer /\ attempt[s] >= 1
      BY <2>1, <2>6 DEF Stage
    <3>2. Most(s) \in Nat
      BY <2>2, <3>1, Spent
    <3>3. Most(s) + Patience[s] + Delay[s] + Patience[s] <= LongestStart(s)
      BY <2>2, <3>1, SpentAtMost
    <3>4. waited[s] <= Most(s) + Patience[s] + timer[s]
      BY <2>1, <2>2, <2>6, <3>2 DEF Timing
    <3>5. timer[s] <= Patience[s] + Delay[s]
      BY <2>1, <2>2, <2>6, <3>1 DEF Timing
    <3> QED
      BY <2>2, <2>3, <3>1, <3>2, <3>3, <3>4, <3>5
  <2> QED
    BY <2>4, <2>5, <2>6 DEF Publishing
<1> QED
  BY <1>1, Invariance, PTL

\* While NATS is up and nothing fails, read-service comes up: its wait for
\* ANOMALIES cannot end before pattern-service has made the stream.
THEOREM ReadComesUp == Spec => []ReadNeedsNoMetrics
<1>1. IInv => ReadNeedsNoMetrics
  BY DEF IInv, CalmState, ReadNeedsNoMetrics
<1> QED
  BY <1>1, Invariance, PTL

\* A consumer that gives up has slept after each of its attempts, and its stream
\* was not to be reached before the last of these sleeps.
THEOREM NoHastyEnd == Spec => GivesUpInTime
<1> DEFINE InTime(c) == /\ waited[c] >= MaxAttempts[c] * Delay[c]
                        /\ there[Awaits(c)] <= Delay[c]
<1>1. ASSUME IInv, NEW c \in Consumer, GiveUp(c) PROVE InTime(c)
  <2>1. state[c] = "sleep" /\ timer[c] = Delay[c] /\ attempt[c] = MaxAttempts[c]
    BY <1>1 DEF GiveUp
  <2>2. c \in Service /\ TypeOK /\ Timing(c) /\ Missed
    BY <1>1, Names DEF IInv
  <2>3. MaxAttempts[c] - 1 \in Nat /\ Delay[c] \in Nat
    BY <2>2, Constants
  <2>4. waited[c] >= (MaxAttempts[c] - 1) * Delay[c] + Delay[c]
    <3>1. Least(c) + timer[c] <= waited[c] /\ waited[c] \in Nat
      BY <2>1, <2>2 DEF Timing, Attempting, TypeOK
    <3>2. Least(c) = (MaxAttempts[c] - 1) * Delay[c]
      BY <2>1 DEF Least
    <3>3. (MaxAttempts[c] - 1) * Delay[c] \in Nat
      BY <2>3, Product
    <3> QED
      BY <2>1, <2>3, <3>1, <3>2, <3>3
  <2>5. ((MaxAttempts[c] - 1) + 1) * Delay[c] = (MaxAttempts[c] - 1) * Delay[c] + Delay[c]
    BY <2>3, Product
  <2>6. (MaxAttempts[c] - 1) + 1 = MaxAttempts[c]
    BY <2>2, Constants
  <2>7. there[Awaits(c)] <= Delay[c]
    BY <2>1, <2>2 DEF Missed
  <2> QED
    BY <2>4, <2>5, <2>6, <2>7
<1>2. IInv /\ [Next]_vars => [\A c \in Consumer : GiveUp(c) => InTime(c)]_vars
  <2> SUFFICES ASSUME IInv PROVE \A c \in Consumer : GiveUp(c) => InTime(c)
    OBVIOUS
  <2> TAKE c \in Consumer
  <2> HAVE GiveUp(c)
  <2> QED
    BY <1>1
<1> QED
  BY <1>2, Invariance, PTL DEF Spec, GivesUpInTime
=============================================================================
