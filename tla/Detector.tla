------------------------------ MODULE Detector ------------------------------
(***************************************************************************)
(* pattern-service: the sliding windows of MADDetector under concurrency.  *)
(*                                                                         *)
(* Goroutines call Observe, which looks the window of its series up under  *)
(* the detector's RWMutex, creates it if need be, releases the RWMutex and *)
(* then works under the window's own mutex.  The cleanup worker of run.go  *)
(* calls Cleanup, which holds the RWMutex and takes one window's mutex at  *)
(* a time.  The steps here are those of mad_detector.go between two lock   *)
(* operations.  What the verdict computes is in MADRule; here a value is known *)
(* by the call that observed it.                                           *)
(***************************************************************************)
EXTENDS Naturals, Sequences, FiniteSets

CONSTANTS
    Observer,    \* goroutines that call Observe
    cleaner,     \* the goroutine that calls Cleanup
    NoOne,       \* a mutex that is free
    Series,      \* the SeriesKeys
    WindowSize,  \* config.WindowSize, after the defaults
    MaxAge,      \* the argument of Cleanup
    MaxCalls,    \* bound: Observe calls of each goroutine
    MaxClock     \* bound: the clock

Goroutine == Observer \cup {cleaner}

ASSUME DetectorAssumption ==
    /\ cleaner \notin Observer
    /\ NoOne \notin Goroutine
    /\ WindowSize \in Nat \ {0}
    /\ MaxAge \in Nat
    /\ MaxCalls \in Nat
    /\ MaxClock \in Nat

VARIABLES
    writer,   \* who holds detector.mu for writing, or NoOne
    readers,  \* who holds it for reading
    holder,   \* who holds the mutex of each window, or NoOne
    windows,  \* windowsBySeries: the window of a series, 0 if it has none
    heap,     \* the slidingWindows created so far: their values and lastSeen
    pc,       \* where each goroutine is
    key,      \* the series it works on
    ref,      \* seriesWindow: the window that getOrCreateWindow gave it, or 0
    calls,    \* Observe calls it started
    todo,     \* series that the running Cleanup has still to visit
    now,      \* its now
    seen,     \* its lastSeen, of the window it visits
    clock,    \* time.Now()
    evicted   \* history: windows that a Cleanup removed since the goroutine
              \* called Observe

vars == <<writer, readers, holder, windows, heap, pc, key, ref, calls,
          todo, now, seen, clock, evicted>>

locals == <<todo, now, seen>>

\* A value is known by the call that observed it.
Sample == [by : Observer, call : 1 .. MaxCalls]
SampleOf(g) == [by |-> g, call |-> calls[g]]

\* No window outgrows WindowSize.
SlidingWindow == [values : {held \in Seq(Sample) : Len(held) <= WindowSize},
                  lastSeen : 0 .. MaxClock]
Allocated == 1 .. Len(heap)

ObserverPc == {"idle", "rlock", "lookup", "want", "lock", "create", "lockWindow",
               "append", "verdict"}
CleanerPc == {"idle", "want", "lock", "scan", "lockWindow", "lastSeen", "delete"}

TypeOK ==
    /\ writer \in Goroutine \cup {NoOne}
    /\ readers \subseteq Observer
    /\ heap \in Seq(SlidingWindow)
    /\ holder \in Seq(Goroutine \cup {NoOne})
    /\ Len(holder) = Len(heap)
    /\ windows \in [Series -> Allocated \cup {0}]
    /\ pc \in [Goroutine -> ObserverPc \cup CleanerPc]
    /\ key \in [Goroutine -> Series]
    /\ ref \in [Goroutine -> Allocated \cup {0}]
    /\ calls \in [Observer -> 0 .. MaxCalls]
    /\ todo \subseteq Series
    /\ now \in 0 .. MaxClock
    /\ seen \in 0 .. MaxClock
    /\ clock \in 0 .. MaxClock
    /\ evicted \in [Observer -> SUBSET Allocated]

Init ==
    /\ writer = NoOne
    /\ readers = {}
    /\ holder = <<>>
    /\ windows = [s \in Series |-> 0]
    /\ heap = <<>>
    /\ pc = [g \in Goroutine |-> "idle"]
    /\ key \in {[g \in Goroutine |-> s] : s \in Series}
    /\ ref = [g \in Goroutine |-> 0]
    /\ calls = [g \in Observer |-> 0]
    /\ todo = {}
    /\ now = 0
    /\ seen = 0
    /\ clock = 0
    /\ evicted = [g \in Observer |-> {}]

-----------------------------------------------------------------------------
(* sync.RWMutex and sync.Mutex.  A Lock that was announced keeps new       *)
(* readers out, so that a stream of readers cannot starve it.              *)

LockAnnounced == \E h \in Goroutine : pc[h] = "lock"

AcquireRead(g) ==
    /\ writer = NoOne
    /\ ~LockAnnounced
    /\ readers' = readers \cup {g}
    /\ UNCHANGED <<writer, holder>>

ReleaseRead(g) == readers' = readers \ {g} /\ UNCHANGED <<writer, holder>>

AcquireWrite(g) ==
    /\ writer = NoOne
    /\ readers = {}
    /\ writer' = g
    /\ UNCHANGED <<readers, holder>>

AcquireWindow(g, w) ==
    /\ holder[w] = NoOne
    /\ holder' = [holder EXCEPT ![w] = g]
    /\ UNCHANGED <<writer, readers>>

ReleaseWindow(w) ==
    /\ holder' = [holder EXCEPT ![w] = NoOne]
    /\ UNCHANGED <<writer, readers>>

Goto(g, from, to) == pc[g] = from /\ pc' = [pc EXCEPT ![g] = to]

-----------------------------------------------------------------------------
(* Observe and getOrCreateWindow *)

CallObserve(g) ==
    /\ Goto(g, "idle", "rlock")
    /\ calls[g] < MaxCalls
    /\ calls' = [calls EXCEPT ![g] = @ + 1]
    /\ \E s \in Series : key' = [key EXCEPT ![g] = s]
    /\ evicted' = [evicted EXCEPT ![g] = {}]
    /\ UNCHANGED <<writer, readers, holder, windows, heap, ref, locals, clock>>

RLock(g) ==
    /\ Goto(g, "rlock", "lookup")
    /\ AcquireRead(g)
    /\ UNCHANGED <<windows, heap, key, ref, calls, locals, clock, evicted>>

\* Mutant: no RUnlock before the early return.
LookUpKeepingRLock(g) ==
    /\ Goto(g, "lookup", IF windows[key[g]] = 0 THEN "want" ELSE "lockWindow")
    /\ ref' = [ref EXCEPT ![g] = windows[key[g]]]
    /\ readers' = IF windows[key[g]] = 0 THEN readers \ {g} ELSE readers
    /\ UNCHANGED <<writer, holder, windows, heap, key, calls, locals, clock, evicted>>

\* The optimistic lookup, and RUnlock.
LookUp(g) ==
    /\ Goto(g, "lookup", IF windows[key[g]] = 0 THEN "want" ELSE "lockWindow")
    /\ ref' = [ref EXCEPT ![g] = windows[key[g]]]
    /\ ReleaseRead(g)
    /\ UNCHANGED <<windows, heap, key, calls, locals, clock, evicted>>

\* Lock(), of getOrCreateWindow and of Cleanup: the announcement.
WantLock(g) ==
    /\ Goto(g, "want", "lock")
    /\ UNCHANGED <<writer, readers, holder, windows, heap, key, ref, calls, locals,
                   clock, evicted>>

Lock(g) ==
    /\ Goto(g, "lock", "create")
    /\ AcquireWrite(g)
    /\ UNCHANGED <<windows, heap, key, ref, calls, locals, clock, evicted>>

\* Mutant: no double check.
CreateWindowUnchecked(g) ==
    /\ Goto(g, "create", "lockWindow")
    /\ writer' = NoOne
    /\ heap' = Append(heap, [values |-> <<>>, lastSeen |-> clock])
    /\ holder' = Append(holder, NoOne)
    /\ windows' = [windows EXCEPT ![key[g]] = Len(heap) + 1]
    /\ ref' = [ref EXCEPT ![g] = Len(heap) + 1]
    /\ UNCHANGED <<readers, key, calls, locals, clock, evicted>>

\* The double check: somebody may have created the window since LookUp.
CreateWindow(g) ==
    /\ Goto(g, "create", "lockWindow")
    /\ writer' = NoOne
    /\ \/ /\ windows[key[g]] # 0
          /\ ref' = [ref EXCEPT ![g] = windows[key[g]]]
          /\ UNCHANGED <<windows, heap, holder>>
       \/ /\ windows[key[g]] = 0
          /\ heap' = Append(heap, [values |-> <<>>, lastSeen |-> clock])
          /\ holder' = Append(holder, NoOne)
          /\ windows' = [windows EXCEPT ![key[g]] = Len(heap) + 1]
          /\ ref' = [ref EXCEPT ![g] = Len(heap) + 1]
    /\ UNCHANGED <<readers, key, calls, locals, clock, evicted>>

\* Mutant: Observe works on the window without its mutex.
LockWindowNot(g) ==
    /\ Goto(g, "lockWindow", "append")
    /\ UNCHANGED <<writer, readers, holder, windows, heap, key, ref, calls, locals,
                   clock, evicted>>

\* The detector's lock is not held any more: a Cleanup can come in between.
LockWindow(g) ==
    /\ Goto(g, "lockWindow", "append")
    /\ AcquireWindow(g, ref[g])
    /\ UNCHANGED <<windows, heap, key, ref, calls, locals, clock, evicted>>

\* Mutant: the value is appended before the window is found full.
AppendedTooLate(values, v) ==
    IF Len(values) <= WindowSize THEN Append(values, v) ELSE Append(Tail(values), v)

\* slidingWindow.append drops the oldest value of a full window.
Appended(values, v) ==
    IF Len(values) < WindowSize THEN Append(values, v) ELSE Append(Tail(values), v)

AppendValue(g) ==
    /\ Goto(g, "append", "verdict")
    /\ heap' = [heap EXCEPT ![ref[g]] =
                  [values |-> Appended(@.values, SampleOf(g)), lastSeen |-> clock]]
    /\ UNCHANGED <<writer, readers, holder, windows, key, ref, calls, locals, clock,
                   evicted>>

\* Median, MAD and verdict are computed from the values; the deferred Unlock.
Verdict(g) ==
    /\ Goto(g, "verdict", "idle")
    /\ ReleaseWindow(ref[g])
    /\ ref' = [ref EXCEPT ![g] = 0]
    /\ UNCHANGED <<windows, heap, key, calls, locals, clock, evicted>>

-----------------------------------------------------------------------------
(* Cleanup *)

CallCleanup ==
    /\ Goto(cleaner, "idle", "want")
    /\ UNCHANGED <<writer, readers, holder, windows, heap, key, ref, calls, locals,
                   clock, evicted>>

LockForCleanup ==
    /\ Goto(cleaner, "lock", "scan")
    /\ AcquireWrite(cleaner)
    /\ now' = clock
    /\ todo' = {s \in Series : windows[s] # 0}
    /\ UNCHANGED <<windows, heap, key, ref, calls, seen, clock, evicted>>

\* The range over the map, in any order.
VisitSeries ==
    /\ Goto(cleaner, "scan", "lockWindow")
    /\ \E s \in todo :
          /\ todo' = todo \ {s}
          /\ key' = [key EXCEPT ![cleaner] = s]
          /\ ref' = [ref EXCEPT ![cleaner] = windows[s]]
    /\ UNCHANGED <<writer, readers, holder, windows, heap, calls, now, seen, clock,
                   evicted>>

LockVisited ==
    /\ Goto(cleaner, "lockWindow", "lastSeen")
    /\ AcquireWindow(cleaner, ref[cleaner])
    /\ UNCHANGED <<windows, heap, key, ref, calls, locals, clock, evicted>>

ReadLastSeen ==
    /\ Goto(cleaner, "lastSeen", "delete")
    /\ seen' = heap[ref[cleaner]].lastSeen
    /\ ReleaseWindow(ref[cleaner])
    /\ UNCHANGED <<windows, heap, key, ref, calls, todo, now, clock, evicted>>

\* Mutant: the age of a window does not matter.
StaleAtOnce == now > seen

\* The window's mutex is not held any more.
Stale == now > seen + MaxAge

\* Mutant: Cleanup stays with a window until it is stale.
DeleteWhenStale ==
    /\ Goto(cleaner, "delete", "scan")
    /\ IF Stale
       THEN /\ windows' = [windows EXCEPT ![key[cleaner]] = 0]
            /\ evicted' = [g \in Observer |-> evicted[g] \cup {ref[cleaner]}]
            /\ UNCHANGED todo
       ELSE /\ todo' = todo \cup {key[cleaner]}
            /\ UNCHANGED <<windows, evicted>>
    /\ ref' = [ref EXCEPT ![cleaner] = 0]
    /\ UNCHANGED <<writer, readers, holder, heap, key, calls, now, seen, clock>>

DeleteIfStale ==
    /\ Goto(cleaner, "delete", "scan")
    /\ IF Stale
       THEN /\ windows' = [windows EXCEPT ![key[cleaner]] = 0]
            /\ evicted' = [g \in Observer |-> evicted[g] \cup {ref[cleaner]}]
       ELSE UNCHANGED <<windows, evicted>>
    /\ ref' = [ref EXCEPT ![cleaner] = 0]
    /\ UNCHANGED <<writer, readers, holder, heap, key, calls, locals, clock>>

FinishCleanup ==
    /\ Goto(cleaner, "scan", "idle")
    /\ todo = {}
    /\ writer' = NoOne
    /\ UNCHANGED <<readers, holder, windows, heap, key, ref, calls, locals, clock,
                   evicted>>

Tick ==
    /\ clock < MaxClock
    /\ clock' = clock + 1
    /\ UNCHANGED <<writer, readers, holder, windows, heap, pc, key, ref, calls, locals,
                   evicted>>

-----------------------------------------------------------------------------

Observe(g) ==
    \/ RLock(g) \/ LookUp(g) \/ WantLock(g) \/ Lock(g) \/ CreateWindow(g)
    \/ LockWindow(g) \/ AppendValue(g) \/ Verdict(g)

Cleanup ==
    \/ WantLock(cleaner) \/ LockForCleanup \/ VisitSeries \/ LockVisited
    \/ ReadLastSeen \/ DeleteIfStale \/ FinishCleanup

Next ==
    \/ \E g \in Observer : CallObserve(g)
    \/ \E g \in Observer : \/ RLock(g) \/ LookUp(g) \/ WantLock(g) \/ Lock(g)
                           \/ CreateWindow(g) \/ LockWindow(g) \/ AppendValue(g)
                           \/ Verdict(g)
    \/ CallCleanup \/ WantLock(cleaner) \/ LockForCleanup \/ VisitSeries
    \/ LockVisited \/ ReadLastSeen \/ DeleteIfStale \/ FinishCleanup
    \/ Tick

Spec == Init /\ [][Next]_vars

\* A goroutine that runs goes on, and a sync.Mutex or RWMutex serves everyone
\* who waits for it (starvation mode), also when others keep taking it.
Fairness ==
    /\ \A g \in Observer :
          WF_vars(Observe(g)) /\ SF_vars(RLock(g)) /\ SF_vars(Lock(g))
          /\ SF_vars(LockWindow(g))
    /\ WF_vars(Cleanup) /\ SF_vars(LockForCleanup) /\ SF_vars(LockVisited)

FairSpec == Spec /\ Fairness

-----------------------------------------------------------------------------
(* Properties *)

InObserve(g) == pc[g] \in {"lockWindow", "append", "verdict"}
Visiting == pc[cleaner] \in {"lockWindow", "lastSeen", "delete"}
Sweeping == Visiting \/ pc[cleaner] = "scan"

\* The verdict on a value is computed from a window whose newest value it is:
\* no other goroutine appends between append and verdict.
VerdictSeesOwnValue ==
    \A g \in Observer :
        pc[g] = "verdict" =>
            LET values == heap[ref[g]].values
            IN  /\ Len(values) \in 1 .. WindowSize
                /\ values[Len(values)] = SampleOf(g)

\* getOrCreateWindow gives all goroutines the same window of a series; without
\* the double check two racing goroutines would fill different windows.  A
\* value can miss the window of its series only through a Cleanup that removed
\* the window during that very call of Observe, never by an earlier one.
OneWindowPerSeries ==
    \A g \in Observer :
        InObserve(g) => ref[g] = windows[key[g]] \/ ref[g] \in evicted[g]

\* A Cleanup never removes a window that was updated less than MaxAge before
\* the Cleanup took its time; only an update since then can be overlooked.
SweepSparesRecent ==
    [][\A s \in Series :
          windows[s] # 0 /\ windows'[s] = 0 =>
              LET lastSeen == heap[windows[s]].lastSeen
              IN  lastSeen >= now \/ now > lastSeen + MaxAge]_vars

\* Lock order: everyone who waits for a lock gets it, and every Observe and
\* Cleanup returns, however often other goroutines take the locks.
EveryCallReturns == \A g \in Goroutine : pc[g] # "idle" ~> pc[g] = "idle"

\* detector.mu is held by those, and only those, who are at a step that needs
\* it, and readers and a writer exclude each other.
RWMutexInv ==
    /\ \A g \in Observer : g \in readers <=> pc[g] = "lookup"
    /\ \A g \in Observer : writer = g <=> pc[g] = "create"
    /\ writer = cleaner <=> Sweeping
    /\ writer # NoOne => readers = {}

\* The mutex of a window is held by the one goroutine that reads or changes it.
MutexInv ==
    \A w \in Allocated, g \in Goroutine :
        holder[w] = g <=> ref[g] = w /\ pc[g] \in {"append", "verdict", "lastSeen"}

\* A window in use exists; while a Cleanup runs, the windows that it visits
\* and has still to visit stay in the map.
UseInv ==
    /\ \A g \in Observer :
          /\ pc[g] \in ObserverPc
          /\ InObserve(g) => ref[g] \in Allocated
          /\ pc[g] # "idle" => calls[g] \in 1 .. MaxCalls
    /\ pc[cleaner] \in CleanerPc
    /\ Sweeping => \A s \in todo : windows[s] # 0
    /\ Visiting => /\ ref[cleaner] \in Allocated
                   /\ ref[cleaner] = windows[key[cleaner]]
                   /\ key[cleaner] \notin todo

LockInv == RWMutexInv /\ MutexInv /\ UseInv

\* "Observe adds a value to the series window" (mad_detector.go:87): the
\* window that gets the value is the one of its series.
ValueReachesSeries ==
    [][\A g \in Observer : AppendValue(g) => ref[g] = windows[key[g]]]_vars

\* "Cleanup removes windows that haven't been updated since maxAge"
\* (mad_detector.go:195): no window is removed that was updated since.
RemovesOnlyStale ==
    [][\A s \in Series :
          windows[s] # 0 /\ windows'[s] = 0 =>
              clock > heap[windows[s]].lastSeen + MaxAge]_vars
=============================================================================
