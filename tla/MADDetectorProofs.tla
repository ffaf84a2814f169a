-------------------------- MODULE MADDetectorProofs --------------------------
(***************************************************************************)
(* The two halves of MADDetector.                                          *)
(*                                                                         *)
(* Detector: its locking is right for any number of goroutines, series and *)
(* calls: the types, the lock discipline, one window per series, and       *)
(* verdicts that see their own value.                                      *)
(*                                                                         *)
(* MADSeries: what it guarantees for every environment it is started in    *)
(* and every sequence of integer values of a series.  A median is          *)
(* characterised by counting: RankedBetween says that the n-th of the      *)
(* values cannot leave an interval that holds n of them and all but n - 1. *)
(* The inductive invariant adds to the types that the last answer is the   *)
(* verdict on the window, and that the newest values, as many as the       *)
(* streak counts, are equal.                                               *)
(***************************************************************************)
EXTENDS Detector, MADSeries, FiniteSetTheorems, SequenceTheorems, TLAPS

-----------------------------------------------------------------------------
(* Detector: the invariant *)

\* The lastSeen that Cleanup read is current, or overtaken by an update that
\* came after Cleanup took its time.
SweepInv ==
    Sweeping => /\ now <= clock
                /\ pc[cleaner] = "delete" =>
                      LET lastSeen == heap[ref[cleaner]].lastSeen
                      IN  lastSeen = seen \/ lastSeen >= now

IInv ==
    /\ TypeOK /\ LockInv
    /\ VerdictSeesOwnValue /\ OneWindowPerSeries /\ SweepInv

ObserverStep(g) ==
    \/ CallObserve(g) \/ RLock(g) \/ LookUp(g) \/ WantLock(g) \/ Lock(g)
    \/ CreateWindow(g) \/ LockWindow(g) \/ AppendValue(g) \/ Verdict(g)

CleanerStep ==
    \/ CallCleanup \/ WantLock(cleaner) \/ LockForCleanup \/ VisitSeries
    \/ LockVisited \/ ReadLastSeen \/ DeleteIfStale \/ FinishCleanup

\* Every step is one of a goroutine in Observe, of Cleanup, or of the clock.
LEMMA NextSteps ==
    Next <=> (\E g \in Observer : ObserverStep(g)) \/ CleanerStep \/ Tick
  BY DEF Next, ObserverStep, CleanerStep

-----------------------------------------------------------------------------
(* Lemmas about windows *)

\* Appending a value makes it the newest, and keeps the window within its size.
LEMMA AppendedWindow ==
    ASSUME NEW held \in Seq(Sample), Len(held) <= WindowSize, NEW v \in Sample
    PROVE  LET result == Appended(held, v)
           IN  /\ result \in Seq(Sample)
               /\ Len(result) \in 1 .. WindowSize
               /\ result[Len(result)] = v
<1>1. CASE Len(held) < WindowSize
  <2>1. Appended(held, v) = Append(held, v)
    BY <1>1 DEF Appended
  <2> QED
    BY <1>1, <2>1, AppendProperties, DetectorAssumption
<1>2. CASE ~(Len(held) < WindowSize)
  <2>1. held # <<>> /\ Len(held) = WindowSize
    BY <1>2, DetectorAssumption
  <2>2. Tail(held) \in Seq(Sample) /\ Len(Tail(held)) = WindowSize - 1
    BY <2>1, HeadTailProperties
  <2>3. Appended(held, v) = Append(Tail(held), v)
    BY <1>2 DEF Appended
  <2> QED
    BY <2>2, <2>3, AppendProperties, DetectorAssumption
<1> QED
  BY <1>1, <1>2

\* What the heap holds for a window that was created.
LEMMA HeapWindow ==
    ASSUME TypeOK, NEW w \in Allocated
    PROVE  /\ heap[w].values \in Seq(Sample) /\ Len(heap[w].values) <= WindowSize
           /\ heap[w].lastSeen \in 0 .. MaxClock
<1>1. heap[w] \in SlidingWindow
  BY DEF TypeOK, Allocated
<1> QED
  BY <1>1 DEF SlidingWindow

\* What creating a window changes.
LEMMA NewWindow ==
    ASSUME TypeOK, NEW g \in Observer, CreateWindow(g), windows[key[g]] = 0
    PROVE  LET w == Len(heap) + 1
           IN  /\ heap' = Append(heap, [values |-> <<>>, lastSeen |-> clock])
               /\ holder' = Append(holder, NoOne)
               /\ windows' = [windows EXCEPT ![key[g]] = w]
               /\ ref' = [ref EXCEPT ![g] = w]
               /\ heap' \in Seq(SlidingWindow)
               /\ holder' \in Seq(Goroutine \cup {NoOne})
               /\ Len(heap) \in Nat /\ Len(heap') = w /\ Len(holder') = w
               /\ w \in Allocated' /\ Allocated' = Allocated \cup {w}
               /\ w \notin Allocated
               /\ \A v \in Allocated : heap'[v] = heap[v] /\ holder'[v] = holder[v]
               /\ heap'[w].values = <<>> /\ holder'[w] = NoOne
<1>1. /\ heap' = Append(heap, [values |-> <<>>, lastSeen |-> clock])
      /\ holder' = Append(holder, NoOne)
      /\ windows' = [windows EXCEPT ![key[g]] = Len(heap) + 1]
      /\ ref' = [ref EXCEPT ![g] = Len(heap) + 1]
  BY DEF CreateWindow
<1>2. [values |-> <<>>, lastSeen |-> clock] \in SlidingWindow
  <2>1. <<>> \in Seq(Sample) /\ Len(<<>>) <= WindowSize
    BY DetectorAssumption
  <2> QED
    BY <2>1 DEF SlidingWindow, TypeOK
<1>3. /\ heap \in Seq(SlidingWindow) /\ holder \in Seq(Goroutine \cup {NoOne})
      /\ Len(holder) = Len(heap) /\ Len(heap) \in Nat
  BY DEF TypeOK
<1>4. /\ heap' \in Seq(SlidingWindow) /\ Len(heap') = Len(heap) + 1
      /\ \A v \in 1 .. Len(heap) : heap'[v] = heap[v]
      /\ heap'[Len(heap) + 1] = [values |-> <<>>, lastSeen |-> clock]
  BY <1>1, <1>2, <1>3, AppendProperties
<1>5. /\ holder' \in Seq(Goroutine \cup {NoOne}) /\ Len(holder') = Len(heap) + 1
      /\ \A v \in 1 .. Len(heap) : holder'[v] = holder[v]
      /\ holder'[Len(heap) + 1] = NoOne
  <2>1. NoOne \in Goroutine \cup {NoOne}
    OBVIOUS
  <2> QED
    BY <1>1, <1>3, <2>1, AppendProperties
<1>6. Allocated' = 1 .. Len(heap) + 1
  BY <1>4 DEF Allocated
<1> QED
  BY <1>1, <1>3, <1>4, <1>5, <1>6 DEF Allocated

-----------------------------------------------------------------------------
(* Types *)

\* The types hold at the start.
LEMMA InitTypeOK == Init => TypeOK
<1> SUFFICES ASSUME Init PROVE TypeOK
  OBVIOUS
<1>1. heap \in Seq(SlidingWindow) /\ holder \in Seq(Goroutine \cup {NoOne})
      /\ Len(holder) = Len(heap)
  BY DEF Init
<1>2. key \in [Goroutine -> Series] /\ writer \in Goroutine \cup {NoOne}
  BY DEF Init
<1> QED
  BY <1>1, <1>2, DetectorAssumption DEF Init, TypeOK, ObserverPc, CleanerPc

\* Every step of Observe keeps the types.
LEMMA ObserverTypeOK ==
    ASSUME TypeOK, LockInv, NEW g \in Observer, ObserverStep(g)
    PROVE  TypeOK'
<1>0. g \in Goroutine
  BY DEF Goroutine
<1>1. CASE CallObserve(g)
  BY <1>0, <1>1, DetectorAssumption
  DEF CallObserve, Goto, TypeOK, Allocated, locals, ObserverPc
<1>2. CASE RLock(g)
  BY <1>0, <1>2 DEF RLock, Goto, AcquireRead, TypeOK, Allocated, locals, ObserverPc
<1>3. CASE LookUp(g)
  BY <1>0, <1>3 DEF LookUp, Goto, ReleaseRead, TypeOK, Allocated, locals, ObserverPc
<1>4. CASE WantLock(g)
  BY <1>0, <1>4 DEF WantLock, Goto, TypeOK, Allocated, locals, ObserverPc
<1>5. CASE Lock(g)
  BY <1>0, <1>5 DEF Lock, Goto, AcquireWrite, TypeOK, Allocated, locals, ObserverPc
<1>6. CASE CreateWindow(g)
  <2>1. CASE windows[key[g]] # 0
    BY <1>0, <1>6, <2>1 DEF CreateWindow, Goto, TypeOK, Allocated, locals, ObserverPc
  <2>2. CASE windows[key[g]] = 0
    <3>1. windows' \in [Series -> Allocated' \cup {0}]
          /\ ref' \in [Goroutine -> Allocated' \cup {0}]
      BY <1>6, <2>2, NewWindow DEF TypeOK
    <3>2. evicted' \in [Observer -> SUBSET Allocated']
      BY <1>6, <2>2, NewWindow DEF TypeOK, CreateWindow
    <3> QED
      BY <1>0, <1>6, <2>2, <3>1, <3>2, NewWindow DEF CreateWindow, Goto, TypeOK, locals, ObserverPc
  <2> QED
    BY <2>1, <2>2
<1>7. CASE LockWindow(g)
  <2>1. ref[g] \in Allocated
    BY <1>7 DEF LockWindow, Goto, LockInv, UseInv, InObserve
  <2>2. holder' \in Seq(Goroutine \cup {NoOne}) /\ Len(holder') = Len(holder)
    BY <1>0, <1>7, <2>1, ExceptSeq DEF LockWindow, AcquireWindow, TypeOK, Allocated
  <2> QED
    BY <1>0, <1>7, <2>2 DEF LockWindow, Goto, AcquireWindow, TypeOK, Allocated, locals, ObserverPc
<1>8. CASE AppendValue(g)
  <2>1. ref[g] \in Allocated /\ SampleOf(g) \in Sample
    BY <1>8 DEF AppendValue, Goto, LockInv, UseInv, InObserve, SampleOf, Sample
  <2>2. heap[ref[g]].values \in Seq(Sample) /\ Len(heap[ref[g]].values) <= WindowSize
    BY <2>1, HeapWindow
  <2>3. /\ Appended(heap[ref[g]].values, SampleOf(g)) \in Seq(Sample)
        /\ Len(Appended(heap[ref[g]].values, SampleOf(g))) <= WindowSize
    <3>1. Len(Appended(heap[ref[g]].values, SampleOf(g))) \in 1 .. WindowSize
      BY <2>1, <2>2, AppendedWindow
    <3>2. Appended(heap[ref[g]].values, SampleOf(g)) \in Seq(Sample)
      BY <2>1, <2>2, AppendedWindow
    <3> QED
      BY <3>1, <3>2, DetectorAssumption
  <2>4. [values |-> Appended(heap[ref[g]].values, SampleOf(g)), lastSeen |-> clock] \in SlidingWindow
    BY <2>3 DEF SlidingWindow, TypeOK
  <2>5. heap' \in Seq(SlidingWindow) /\ Len(heap') = Len(heap)
    BY <1>8, <2>1, <2>4, ExceptSeq DEF AppendValue, TypeOK, Allocated
  <2> QED
    BY <1>0, <1>8, <2>5 DEF AppendValue, Goto, TypeOK, Allocated, locals, ObserverPc
<1>9. CASE Verdict(g)
  <2>1. ref[g] \in Allocated
    BY <1>9 DEF Verdict, Goto, LockInv, UseInv, InObserve
  <2>2. holder' \in Seq(Goroutine \cup {NoOne}) /\ Len(holder') = Len(holder)
    BY <1>9, <2>1, ExceptSeq DEF Verdict, ReleaseWindow, TypeOK, Allocated
  <2> QED
    BY <1>0, <1>9, <2>2 DEF Verdict, Goto, ReleaseWindow, TypeOK, Allocated, locals, ObserverPc
<1> QED
  BY <1>1, <1>2, <1>3, <1>4, <1>5, <1>6, <1>7, <1>8, <1>9 DEF ObserverStep

\* Every step of Cleanup keeps the types.
LEMMA CleanerTypeOK ==
    ASSUME TypeOK, LockInv, CleanerStep
    PROVE  TypeOK'
<1>0. cleaner \in Goroutine
  BY DEF Goroutine
<1>1. CASE CallCleanup
  BY <1>0, <1>1 DEF CallCleanup, Goto, TypeOK, Allocated, locals, CleanerPc
<1>2. CASE WantLock(cleaner)
  BY <1>0, <1>2 DEF WantLock, Goto, TypeOK, Allocated, locals, CleanerPc
<1>3. CASE LockForCleanup
  BY <1>0, <1>3 DEF LockForCleanup, Goto, AcquireWrite, TypeOK, Allocated, CleanerPc
<1>4. CASE VisitSeries
  BY <1>0, <1>4 DEF VisitSeries, Goto, TypeOK, Allocated, CleanerPc
<1>5. CASE LockVisited
  <2>1. ref[cleaner] \in Allocated
    BY <1>5 DEF LockVisited, Goto, LockInv, UseInv, Visiting
  <2>2. holder' \in Seq(Goroutine \cup {NoOne}) /\ Len(holder') = Len(holder)
    BY <1>0, <1>5, <2>1, ExceptSeq DEF LockVisited, AcquireWindow, TypeOK, Allocated
  <2> QED
    BY <1>0, <1>5, <2>2 DEF LockVisited, Goto, AcquireWindow, TypeOK, Allocated, locals, CleanerPc
<1>6. CASE ReadLastSeen
  <2>1. ref[cleaner] \in Allocated
    BY <1>6 DEF ReadLastSeen, Goto, LockInv, UseInv, Visiting
  <2>2. holder' \in Seq(Goroutine \cup {NoOne}) /\ Len(holder') = Len(holder)
    BY <1>6, <2>1, ExceptSeq DEF ReadLastSeen, ReleaseWindow, TypeOK, Allocated
  <2>3. seen' \in 0 .. MaxClock
    BY <1>6, <2>1, HeapWindow DEF ReadLastSeen
  <2> QED
    BY <1>0, <1>6, <2>2, <2>3 DEF ReadLastSeen, Goto, ReleaseWindow, TypeOK, Allocated, CleanerPc
<1>7. CASE DeleteIfStale
  <2>1. ref[cleaner] \in Allocated
    BY <1>7 DEF DeleteIfStale, Goto, LockInv, UseInv, Visiting
  <2>2. evicted' \in [Observer -> SUBSET Allocated]
    BY <1>7, <2>1 DEF DeleteIfStale, TypeOK
  <2>3. windows' \in [Series -> Allocated \cup {0}]
    BY <1>7 DEF DeleteIfStale, TypeOK
  <2> QED
    BY <1>0, <1>7, <2>2, <2>3 DEF DeleteIfStale, Goto, TypeOK, Allocated, locals, CleanerPc
<1>8. CASE FinishCleanup
  BY <1>0, <1>8 DEF FinishCleanup, Goto, TypeOK, Allocated, locals, CleanerPc
<1> QED
  BY <1>1, <1>2, <1>3, <1>4, <1>5, <1>6, <1>7, <1>8 DEF CleanerStep

\* Every step keeps the types.
LEMMA StepTypeOK == TypeOK /\ LockInv /\ [Next]_vars => TypeOK'
<1> SUFFICES ASSUME TypeOK, LockInv, [Next]_vars PROVE TypeOK'
  OBVIOUS
<1>1. CASE Tick
  BY <1>1, DetectorAssumption DEF Tick, TypeOK, Allocated, locals
<1>2. CASE UNCHANGED vars
  BY <1>2 DEF vars, TypeOK, Allocated, locals
<1> QED
  BY <1>1, <1>2, NextSteps, ObserverTypeOK, CleanerTypeOK

-----------------------------------------------------------------------------
(* The lock discipline *)

\* At the start nobody holds a lock.
LEMMA InitLockInv == Init => LockInv
<1> SUFFICES ASSUME Init PROVE LockInv
  OBVIOUS
<1>1. \A g \in Goroutine : pc[g] = "idle"
  BY DEF Init
<1> QED
  BY <1>1, DetectorAssumption
  DEF Init, LockInv, RWMutexInv, MutexInv, UseInv, Goroutine, ObserverPc, CleanerPc,
      InObserve, Visiting, Sweeping, Allocated

\* The cleaner, the observers and nobody are different.
LEMMA Goroutines ==
    /\ cleaner \in Goroutine /\ Observer \subseteq Goroutine
    /\ cleaner \notin Observer /\ cleaner # NoOne /\ NoOne \notin Observer
    /\ NoOne \notin Goroutine
    /\ \A g \in Goroutine : g \in Observer \/ g = cleaner
  BY DetectorAssumption DEF Goroutine

\* Only goroutines at their own steps change the state of detector.mu.
LEMMA ObserverRWMutex ==
    ASSUME TypeOK, LockInv, NEW g \in Observer, ObserverStep(g)
    PROVE  RWMutexInv'
<1> USE DEF Goto, RWMutexInv, Visiting, Sweeping
<1>1. CASE CallObserve(g)
  BY <1>1, Goroutines DEF CallObserve, locals, TypeOK, LockInv
<1>2. CASE RLock(g)
  BY <1>2, Goroutines DEF RLock, AcquireRead, locals, TypeOK, LockInv
<1>3. CASE LookUp(g)
  BY <1>3, Goroutines DEF LookUp, ReleaseRead, locals, TypeOK, LockInv
<1>4. CASE WantLock(g)
  BY <1>4, Goroutines DEF WantLock, locals, TypeOK, LockInv
<1>5. CASE Lock(g)
  BY <1>5, Goroutines DEF Lock, AcquireWrite, locals, TypeOK, LockInv
<1>6. CASE CreateWindow(g)
  BY <1>6, Goroutines DEF CreateWindow, locals, TypeOK, LockInv
<1>7. CASE LockWindow(g)
  BY <1>7, Goroutines DEF LockWindow, AcquireWindow, locals, TypeOK, LockInv
<1>8. CASE AppendValue(g)
  BY <1>8, Goroutines DEF AppendValue, locals, TypeOK, LockInv
<1>9. CASE Verdict(g)
  BY <1>9, Goroutines DEF Verdict, ReleaseWindow, locals, TypeOK, LockInv
<1> QED
  BY <1>1, <1>2, <1>3, <1>4, <1>5, <1>6, <1>7, <1>8, <1>9 DEF ObserverStep

\* The same for Cleanup, which holds detector.mu as a writer.
LEMMA CleanerRWMutex ==
    ASSUME TypeOK, LockInv, CleanerStep
    PROVE  RWMutexInv'
<1> USE DEF Goto, RWMutexInv, Visiting, Sweeping
<1>1. CASE CallCleanup
  BY <1>1, Goroutines DEF CallCleanup, locals, TypeOK, LockInv
<1>2. CASE WantLock(cleaner)
  BY <1>2, Goroutines DEF WantLock, locals, TypeOK, LockInv
<1>3. CASE LockForCleanup
  BY <1>3, Goroutines DEF LockForCleanup, AcquireWrite, TypeOK, LockInv
<1>4. CASE VisitSeries
  BY <1>4, Goroutines DEF VisitSeries, TypeOK, LockInv
<1>5. CASE LockVisited
  BY <1>5, Goroutines DEF LockVisited, AcquireWindow, locals, TypeOK, LockInv
<1>6. CASE ReadLastSeen
  BY <1>6, Goroutines DEF ReadLastSeen, ReleaseWindow, TypeOK, LockInv
<1>7. CASE DeleteIfStale
  BY <1>7, Goroutines DEF DeleteIfStale, locals, TypeOK, LockInv
<1>8. CASE FinishCleanup
  BY <1>8, Goroutines DEF FinishCleanup, locals, TypeOK, LockInv
<1> QED
  BY <1>1, <1>2, <1>3, <1>4, <1>5, <1>6, <1>7, <1>8 DEF CleanerStep

\* A step that leaves holder alone, and takes nobody to or from a step that
\* needs the mutex of a window, keeps MutexInv.
LEMMA MutexUntouched ==
    ASSUME TypeOK, MutexInv, NEW g \in Goroutine, NEW from, NEW to,
           Goto(g, from, to), UNCHANGED <<heap, holder>>,
           from \notin {"append", "verdict", "lastSeen"},
           to \notin {"append", "verdict", "lastSeen"},
           \A h \in Goroutine \ {g} : ref'[h] = ref[h]
    PROVE  MutexInv'
  BY DEF Goto, TypeOK, MutexInv, Allocated

\* Locking a free window makes the goroutine its only holder.
LEMMA MutexAcquired ==
    ASSUME TypeOK, MutexInv, NEW g \in Goroutine, NEW to \in {"append", "lastSeen"},
           UNCHANGED <<heap, ref>>, ref[g] \in Allocated,
           Goto(g, "lockWindow", to), AcquireWindow(g, ref[g])
    PROVE  MutexInv'
<1>1. \A w \in Allocated : holder'[w] = IF w = ref[g] THEN g ELSE holder[w]
  BY ExceptSeq DEF AcquireWindow, TypeOK, Allocated
<1>2. Allocated' = Allocated
  BY DEF Allocated
<1> QED
  BY <1>1, <1>2, Goroutines DEF TypeOK, MutexInv, Goto, AcquireWindow

\* Unlocking a window leaves it without a holder.
LEMMA MutexReleased ==
    ASSUME TypeOK, MutexInv, NEW g \in Goroutine,
           NEW from \in {"verdict", "lastSeen"}, NEW to \in {"idle", "delete"},
           UNCHANGED heap, ref[g] \in Allocated,
           \A h \in Goroutine \ {g} : ref'[h] = ref[h],
           Goto(g, from, to), ReleaseWindow(ref[g])
    PROVE  MutexInv'
<1>1. \A w \in Allocated : holder'[w] = IF w = ref[g] THEN NoOne ELSE holder[w]
  BY ExceptSeq DEF ReleaseWindow, TypeOK, Allocated
<1>2. Allocated' = Allocated
  BY DEF Allocated
<1> QED
  BY <1>1, <1>2, Goroutines DEF TypeOK, MutexInv, Goto

\* Every step of Observe keeps the discipline of the windows' mutexes.
LEMMA ObserverMutex ==
    ASSUME TypeOK, LockInv, NEW g \in Observer, ObserverStep(g)
    PROVE  MutexInv'
<1>0. g \in Goroutine /\ MutexInv
  BY Goroutines DEF LockInv
<1>1. CASE CallObserve(g)
  BY <1>0, <1>1, MutexUntouched DEF CallObserve
<1>2. CASE RLock(g)
  BY <1>0, <1>2, MutexUntouched DEF RLock, AcquireRead
<1>3. CASE LookUp(g)
  BY <1>0, <1>3, MutexUntouched DEF LookUp, ReleaseRead, TypeOK
<1>4. CASE WantLock(g)
  BY <1>0, <1>4, MutexUntouched DEF WantLock
<1>5. CASE Lock(g)
  BY <1>0, <1>5, MutexUntouched DEF Lock, AcquireWrite
<1>6. CASE CreateWindow(g)
  <2>1. CASE windows[key[g]] # 0
    BY <1>0, <1>6, <2>1, MutexUntouched DEF CreateWindow, TypeOK
  <2>2. CASE windows[key[g]] = 0
    <3>1. \A h \in Goroutine : h # g => ref'[h] = ref[h] /\ pc'[h] = pc[h]
      BY <1>0, <1>6, <2>2, NewWindow DEF CreateWindow, Goto, TypeOK
    <3>3. \A h \in Goroutine : ref[h] # Len(heap) + 1
      BY DEF TypeOK, Allocated
    <3>2. pc'[g] = "lockWindow" /\ pc[g] = "create"
      BY <1>0, <1>6 DEF CreateWindow, Goto, TypeOK
    <3> QED
      BY <1>0, <1>6, <2>2, <3>1, <3>2, <3>3, NewWindow, Goroutines DEF MutexInv
  <2> QED
    BY <2>1, <2>2
<1>7. CASE LockWindow(g)
  <2>1. ref[g] \in Allocated
    BY <1>7 DEF LockWindow, Goto, LockInv, UseInv, InObserve
  <2> QED
    BY <1>0, <1>7, <2>1, MutexAcquired DEF LockWindow
<1>8. CASE AppendValue(g)
  <2>1. Allocated' = Allocated
    <3>1. ref[g] \in Allocated
      BY <1>8 DEF AppendValue, Goto, LockInv, UseInv, InObserve
    <3> QED
      BY <1>8, <3>1 DEF AppendValue, TypeOK, Allocated
  <2> QED
    BY <1>0, <1>8, <2>1 DEF AppendValue, Goto, TypeOK, MutexInv
<1>9. CASE Verdict(g)
  <2>1. ref[g] \in Allocated
    BY <1>9 DEF Verdict, Goto, LockInv, UseInv, InObserve
  <2> QED
    BY <1>0, <1>9, <2>1, MutexReleased DEF Verdict, TypeOK
<1> QED
  BY <1>1, <1>2, <1>3, <1>4, <1>5, <1>6, <1>7, <1>8, <1>9 DEF ObserverStep

\* Every step of Cleanup keeps the discipline of the windows' mutexes.
LEMMA CleanerMutex ==
    ASSUME TypeOK, LockInv, CleanerStep
    PROVE  MutexInv'
<1>0. cleaner \in Goroutine /\ MutexInv
  BY Goroutines DEF LockInv
<1>1. CASE CallCleanup
  BY <1>0, <1>1, MutexUntouched DEF CallCleanup
<1>2. CASE WantLock(cleaner)
  BY <1>0, <1>2, MutexUntouched DEF WantLock
<1>3. CASE LockForCleanup
  BY <1>0, <1>3, MutexUntouched DEF LockForCleanup, AcquireWrite
<1>4. CASE VisitSeries
  BY <1>0, <1>4, MutexUntouched DEF VisitSeries, TypeOK
<1>5. CASE LockVisited
  <2>1. ref[cleaner] \in Allocated
    BY <1>5 DEF LockVisited, Goto, LockInv, UseInv, Visiting
  <2> QED
    BY <1>0, <1>5, <2>1, MutexAcquired DEF LockVisited
<1>6. CASE ReadLastSeen
  <2>1. ref[cleaner] \in Allocated
    BY <1>6 DEF ReadLastSeen, Goto, LockInv, UseInv, Visiting
  <2> QED
    BY <1>0, <1>6, <2>1, MutexReleased DEF ReadLastSeen
<1>7. CASE DeleteIfStale
  BY <1>0, <1>7, MutexUntouched DEF DeleteIfStale, TypeOK
<1>8. CASE FinishCleanup
  BY <1>0, <1>8, MutexUntouched DEF FinishCleanup
<1> QED
  BY <1>1, <1>2, <1>3, <1>4, <1>5, <1>6, <1>7, <1>8 DEF CleanerStep

\* Observe never takes a window out of the map that Cleanup visits.
LEMMA ObserverUse ==
    ASSUME TypeOK, LockInv, NEW g \in Observer, ObserverStep(g)
    PROVE  UseInv'
<1> USE DEF Goto, UseInv, InObserve, Visiting, Sweeping, ObserverPc
<1>0. g \in Goroutine /\ g # cleaner
  BY Goroutines
<1>1. CASE CallObserve(g)
  BY <1>0, <1>1, Goroutines, DetectorAssumption
  DEF CallObserve, locals, TypeOK, LockInv, Allocated
<1>2. CASE RLock(g)
  BY <1>0, <1>2, Goroutines DEF RLock, locals, TypeOK, LockInv, Allocated
<1>3. CASE LookUp(g)
  BY <1>0, <1>3, Goroutines DEF LookUp, locals, TypeOK, LockInv, Allocated
<1>4. CASE WantLock(g)
  BY <1>0, <1>4, Goroutines DEF WantLock, locals, TypeOK, LockInv, Allocated
<1>5. CASE Lock(g)
  BY <1>0, <1>5, Goroutines DEF Lock, locals, TypeOK, LockInv, Allocated
<1>6. CASE CreateWindow(g)
  <2>1. CASE windows[key[g]] # 0
    BY <1>0, <1>6, <2>1, Goroutines DEF CreateWindow, locals, TypeOK, LockInv, Allocated
  <2>2. CASE windows[key[g]] = 0
    <3>1. ~Sweeping
      BY <1>0, <1>6, Goroutines DEF CreateWindow, LockInv, RWMutexInv
    <3> QED
      BY <1>0, <1>6, <2>2, <3>1, NewWindow, Goroutines, ZenonT(30)
      DEF CreateWindow, locals, TypeOK, LockInv
  <2> QED
    BY <2>1, <2>2
<1>7. CASE LockWindow(g)
  BY <1>0, <1>7, Goroutines DEF LockWindow, locals, TypeOK, LockInv, Allocated
<1>8. CASE AppendValue(g)
  <2>1. Allocated' = Allocated
    BY <1>8 DEF AppendValue, TypeOK, Allocated, LockInv
  <2> QED
    BY <1>0, <1>8, <2>1, Goroutines DEF AppendValue, locals, TypeOK, LockInv
<1>9. CASE Verdict(g)
  BY <1>0, <1>9, Goroutines DEF Verdict, locals, TypeOK, LockInv, Allocated
<1> QED
  BY <1>1, <1>2, <1>3, <1>4, <1>5, <1>6, <1>7, <1>8, <1>9 DEF ObserverStep

\* Cleanup removes only the window it visits.
LEMMA CleanerUse ==
    ASSUME TypeOK, LockInv, CleanerStep
    PROVE  UseInv'
<1> USE DEF Goto, UseInv, InObserve, Visiting, Sweeping, CleanerPc
<1>1. CASE CallCleanup
  BY <1>1, Goroutines DEF CallCleanup, locals, TypeOK, LockInv, Allocated
<1>2. CASE WantLock(cleaner)
  BY <1>2, Goroutines DEF WantLock, locals, TypeOK, LockInv, Allocated
<1>3. CASE LockForCleanup
  BY <1>3, Goroutines DEF LockForCleanup, TypeOK, LockInv, Allocated
<1>4. CASE VisitSeries
  BY <1>4, Goroutines DEF VisitSeries, TypeOK, LockInv, Allocated
<1>5. CASE LockVisited
  BY <1>5, Goroutines DEF LockVisited, locals, TypeOK, LockInv, Allocated
<1>6. CASE ReadLastSeen
  BY <1>6, Goroutines DEF ReadLastSeen, TypeOK, LockInv, Allocated
<1>7. CASE DeleteIfStale
  BY <1>7, Goroutines DEF DeleteIfStale, locals, TypeOK, LockInv, Allocated
<1>8. CASE FinishCleanup
  BY <1>8, Goroutines DEF FinishCleanup, locals, TypeOK, LockInv, Allocated
<1> QED
  BY <1>1, <1>2, <1>3, <1>4, <1>5, <1>6, <1>7, <1>8 DEF CleanerStep

\* Every step keeps the lock discipline.
LEMMA StepLockInv == TypeOK /\ LockInv /\ [Next]_vars => LockInv'
<1> SUFFICES ASSUME TypeOK, LockInv, [Next]_vars PROVE LockInv'
  OBVIOUS
<1>1. CASE Tick \/ UNCHANGED vars
  BY <1>1
  DEF Tick, vars, locals, LockInv, RWMutexInv, MutexInv, UseInv, InObserve, Visiting,
      Sweeping, Allocated
<1>2. ASSUME NEW g \in Observer, ObserverStep(g) PROVE LockInv'
  BY <1>2, ObserverRWMutex, ObserverMutex, ObserverUse DEF LockInv
<1>3. CASE CleanerStep
  BY <1>3, CleanerRWMutex, CleanerMutex, CleanerUse DEF LockInv
<1> QED
  BY <1>1, <1>2, <1>3, NextSteps

-----------------------------------------------------------------------------
(* Windows and verdicts *)

\* The heap changes only when a window is created or gets a value.
LEMMA HeapChange ==
    ASSUME [Next]_vars
    PROVE  \/ UNCHANGED heap
           \/ \E g \in Observer : CreateWindow(g) /\ windows[key[g]] = 0
           \/ \E g \in Observer : AppendValue(g)
BY DEF Next, vars, locals, CallObserve, RLock, LookUp, WantLock, Lock, CreateWindow,
   LockWindow, AppendValue, Verdict, CallCleanup, LockForCleanup, VisitSeries,
   LockVisited, ReadLastSeen, DeleteIfStale, FinishCleanup, Tick

\* What appending a value changes.
LEMMA ValueAppended ==
    ASSUME TypeOK, LockInv, NEW g \in Observer, AppendValue(g)
    PROVE  /\ ref[g] \in Allocated /\ Allocated' = Allocated
           /\ \A w \in Allocated : w # ref[g] => heap'[w] = heap[w]
           /\ Len(heap'[ref[g]].values) \in 1 .. WindowSize
           /\ heap'[ref[g]].values[Len(heap'[ref[g]].values)] = SampleOf(g)
           /\ heap'[ref[g]].lastSeen = clock
<1>1. ref[g] \in Allocated /\ SampleOf(g) \in Sample
  BY DEF AppendValue, Goto, LockInv, UseInv, InObserve, SampleOf, Sample
<1>2. heap[ref[g]].values \in Seq(Sample) /\ Len(heap[ref[g]].values) <= WindowSize
  BY <1>1, HeapWindow
<1> DEFINE new == [values |-> Appended(heap[ref[g]].values, SampleOf(g)), lastSeen |-> clock]
<1>3. /\ new.values \in Seq(Sample)
      /\ Len(new.values) \in 1 .. WindowSize
      /\ new.values[Len(new.values)] = SampleOf(g)
  BY <1>1, <1>2, AppendedWindow
<1>4. heap' = [heap EXCEPT ![ref[g]] = new]
  BY DEF AppendValue
<1>5. heap'[ref[g]] = new /\ Allocated' = Allocated
      /\ \A w \in Allocated : w # ref[g] => heap'[w] = heap[w]
  BY <1>1, <1>4 DEF TypeOK, Allocated
<1> QED
  BY <1>1, <1>3, <1>5

\* A goroutine between append and verdict holds the window's mutex, so no
\* other goroutine can append to it.
LEMMA StepVerdict ==
    ASSUME IInv, [Next]_vars
    PROVE  VerdictSeesOwnValue'
<1> SUFFICES ASSUME NEW h \in Observer, pc'[h] = "verdict"
             PROVE  LET window == heap'[ref'[h]].values
                    IN  /\ Len(window) \in 1 .. WindowSize
                        /\ window[Len(window)] = SampleOf(h)'
  BY DEF VerdictSeesOwnValue
<1>0. TypeOK /\ LockInv /\ VerdictSeesOwnValue /\ h \in Goroutine /\ h # cleaner
  BY Goroutines DEF IInv
<1>1. CASE pc[h] = "verdict"
  <2>1. ref'[h] = ref[h] /\ SampleOf(h)' = SampleOf(h) /\ ref[h] \in Allocated
    BY <1>0, <1>1, Goroutines, ZenonT(60)
    DEF Next, vars, locals, Goto, CallObserve, RLock, LookUp, WantLock, Lock, CreateWindow,
        LockWindow, AppendValue, Verdict, CallCleanup, LockForCleanup, VisitSeries,
        LockVisited, ReadLastSeen, DeleteIfStale, FinishCleanup, Tick, TypeOK, SampleOf,
        LockInv, UseInv, InObserve
  <2>2. heap'[ref[h]] = heap[ref[h]]
    <3>1. CASE UNCHANGED heap
      BY <3>1
    <3>2. ASSUME NEW g \in Observer, CreateWindow(g), windows[key[g]] = 0
          PROVE  heap'[ref[h]] = heap[ref[h]]
      BY <1>0, <2>1, <3>2, NewWindow
    <3>3. ASSUME NEW g \in Observer, AppendValue(g)
          PROVE  heap'[ref[h]] = heap[ref[h]]
      <4>1. g \in Goroutine /\ pc[g] = "append" /\ g # h
        BY <1>1, <3>3, Goroutines DEF AppendValue, Goto
      <4>2. ref[g] # ref[h]
        BY <1>0, <1>1, <2>1, <4>1 DEF LockInv, MutexInv
      <4> QED
        BY <1>0, <2>1, <3>3, <4>2, ValueAppended
    <3> QED
      BY <3>1, <3>2, <3>3, HeapChange
  <2> QED
    BY <1>0, <1>1, <2>1, <2>2 DEF VerdictSeesOwnValue
<1>2. CASE pc[h] # "verdict"
  <2>1. AppendValue(h)
    BY <1>0, <1>2, Goroutines, ZenonT(60)
    DEF Next, vars, locals, Goto, CallObserve, RLock, LookUp, WantLock, Lock, CreateWindow,
        LockWindow, AppendValue, Verdict, CallCleanup, LockForCleanup, VisitSeries,
        LockVisited, ReadLastSeen, DeleteIfStale, FinishCleanup, Tick, TypeOK
  <2>2. ref'[h] = ref[h] /\ SampleOf(h)' = SampleOf(h)
    BY <2>1 DEF AppendValue, SampleOf
  <2> QED
    BY <1>0, <2>1, <2>2, ValueAppended
<1> QED
  BY <1>1, <1>2

\* The locals of a goroutine change only by its own steps.
LEMMA OwnSteps ==
    ASSUME TypeOK, [Next]_vars, NEW h \in Observer
    PROVE  ObserverStep(h) \/ (pc'[h] = pc[h] /\ ref'[h] = ref[h] /\ key'[h] = key[h])
<1>1. ASSUME NEW g \in Observer, ObserverStep(g), g # h
      PROVE  pc'[h] = pc[h] /\ ref'[h] = ref[h] /\ key'[h] = key[h]
  BY <1>1, Goroutines
  DEF ObserverStep, Goto, CallObserve, RLock, LookUp, WantLock, Lock, CreateWindow,
      LockWindow, AppendValue, Verdict, TypeOK
<1>2. CASE CleanerStep
  BY <1>2, Goroutines
  DEF CleanerStep, Goto, WantLock, CallCleanup, LockForCleanup, VisitSeries, LockVisited,
      ReadLastSeen, DeleteIfStale, FinishCleanup, TypeOK
<1>3. CASE Tick \/ UNCHANGED vars
  BY <1>3 DEF Tick, vars
<1> QED
  BY <1>1, <1>2, <1>3, NextSteps

\* The map changes only under the detector's lock: a new window where there
\* was none, or the deletion of the window that Cleanup visits.
LEMMA StepOneWindow ==
    ASSUME IInv, [Next]_vars
    PROVE  OneWindowPerSeries'
<1>0. TypeOK /\ LockInv /\ OneWindowPerSeries
  BY DEF IInv
<1> SUFFICES ASSUME NEW h \in Observer, InObserve(h)'
             PROVE  ref'[h] = windows'[key'[h]] \/ ref'[h] \in evicted'[h]
  BY DEF OneWindowPerSeries
<1>1. CASE LookUp(h) \/ CreateWindow(h)
  BY <1>0, <1>1, Goroutines DEF LookUp, CreateWindow, Goto, InObserve, TypeOK
<1>2. CASE ~LookUp(h) /\ ~CreateWindow(h)
  <2>1. InObserve(h) /\ ref'[h] = ref[h] /\ key'[h] = key[h]
    <3>1. CASE ObserverStep(h)
      BY <1>0, <1>2, <3>1, Goroutines
      DEF ObserverStep, Goto, CallObserve, RLock, WantLock, Lock, LockWindow, AppendValue,
          Verdict, TypeOK, InObserve
    <3> QED
      BY <1>0, <3>1, OwnSteps DEF InObserve
  <2>2. (ref[h] = windows[key[h]] \/ ref[h] \in evicted[h]) /\ ref[h] \in Allocated
    BY <1>0, <2>1 DEF OneWindowPerSeries, LockInv, UseInv
  <2>3. evicted[h] \subseteq evicted'[h] /\ key[h] \in Series
    <3>0. key[h] \in Series
      BY <1>0, Goroutines DEF TypeOK
    <3>1. ~CallObserve(h)
      BY <1>0, <2>1, Goroutines DEF CallObserve, Goto, InObserve, TypeOK
    <3>2. ASSUME NEW g \in Observer, CallObserve(g) PROVE evicted'[h] = evicted[h]
      BY <1>0, <3>1, <3>2 DEF CallObserve, TypeOK
    <3>3. CASE DeleteIfStale
      <4>1. UNCHANGED evicted \/ evicted'[h] = evicted[h] \cup {ref[cleaner]}
        BY <3>3 DEF DeleteIfStale
      <4> QED
        BY <3>0, <4>1
    <3>4. CASE UNCHANGED evicted
      BY <3>0, <3>4
    <3>5. \/ \E g \in Observer : CallObserve(g)
          \/ DeleteIfStale \/ UNCHANGED evicted
      BY DEF Next, vars, locals, RLock, LookUp, WantLock, Lock, CreateWindow,
         LockWindow, AppendValue, Verdict, CallCleanup, LockForCleanup, VisitSeries,
         LockVisited, ReadLastSeen, FinishCleanup, Tick
    <3> QED
      BY <3>0, <3>2, <3>3, <3>4, <3>5
  <2>4. CASE UNCHANGED windows
    BY <2>1, <2>2, <2>3, <2>4
  <2>5. ASSUME NEW g \in Observer, CreateWindow(g), windows[key[g]] = 0
        PROVE  ref[h] = windows'[key[h]] \/ ref[h] \in evicted[h]
    <3>1. CASE key[g] = key[h]
      BY <2>2, <2>5, <3>1 DEF Allocated
    <3>2. CASE key[g] # key[h]
      BY <1>0, <2>2, <2>3, <2>5, <3>2 DEF CreateWindow, TypeOK
    <3> QED
      BY <3>1, <3>2
  <2>6. CASE DeleteIfStale /\ ~UNCHANGED windows
    <3>1. /\ ref[cleaner] = windows[key[cleaner]]
          /\ windows' = [windows EXCEPT ![key[cleaner]] = 0]
          /\ evicted'[h] = evicted[h] \cup {ref[cleaner]}
      BY <1>0, <2>6 DEF DeleteIfStale, Goto, LockInv, UseInv, Visiting
    <3>2. CASE key[h] = key[cleaner]
      BY <2>1, <2>2, <3>1, <3>2
    <3>3. CASE key[h] # key[cleaner]
      BY <1>0, <2>1, <2>2, <2>3, <3>1, <3>3 DEF TypeOK
    <3> QED
      BY <3>2, <3>3
  <2>7. \/ UNCHANGED windows
        \/ \E g \in Observer : CreateWindow(g) /\ windows[key[g]] = 0
        \/ DeleteIfStale
    BY DEF Next, vars, locals, CallObserve, RLock, LookUp, WantLock, Lock, CreateWindow,
       LockWindow, AppendValue, Verdict, CallCleanup, LockForCleanup, VisitSeries,
       LockVisited, ReadLastSeen, FinishCleanup, Tick
  <2> QED
    BY <2>1, <2>3, <2>4, <2>5, <2>6, <2>7
<1> QED
  BY <1>1, <1>2
-----------------------------------------------------------------------------
(* Cleanup *)

\* A window's lastSeen only moves to the present, and only Observe moves it.
LEMMA LastSeenMoves ==
    ASSUME TypeOK, LockInv, [Next]_vars, NEW w \in Allocated
    PROVE  heap'[w].lastSeen = heap[w].lastSeen \/ heap'[w].lastSeen = clock
<1>1. CASE UNCHANGED heap
  BY <1>1
<1>2. ASSUME NEW g \in Observer, CreateWindow(g), windows[key[g]] = 0
      PROVE  heap'[w].lastSeen = heap[w].lastSeen
  BY <1>2, NewWindow
<1>3. ASSUME NEW g \in Observer, AppendValue(g)
      PROVE  heap'[w].lastSeen = heap[w].lastSeen \/ heap'[w].lastSeen = clock
  BY <1>3, ValueAppended
<1> QED
  BY <1>1, <1>2, <1>3, HeapChange

\* Between the read of lastSeen and the deletion, Observe can only set it to
\* the present, which is not before the time that Cleanup took.
LEMMA StepSweepInv ==
    ASSUME IInv, [Next]_vars
    PROVE  SweepInv'
<1>0. TypeOK /\ LockInv /\ SweepInv
  BY DEF IInv
<1>1. CASE CleanerStep
  BY <1>0, <1>1, Goroutines
  DEF CleanerStep, Goto, WantLock, CallCleanup, LockForCleanup, VisitSeries, LockVisited,
      ReadLastSeen, DeleteIfStale, FinishCleanup, TypeOK, SweepInv, Sweeping, Visiting,
      locals
<1>2. ASSUME ~CleanerStep, Sweeping' PROVE SweepInv'
  <2>1. /\ pc'[cleaner] = pc[cleaner] /\ ref'[cleaner] = ref[cleaner]
        /\ now' = now /\ seen' = seen /\ clock <= clock'
    <3>1. ASSUME NEW g \in Observer, ObserverStep(g)
          PROVE  /\ pc'[cleaner] = pc[cleaner] /\ ref'[cleaner] = ref[cleaner]
                 /\ now' = now /\ seen' = seen /\ clock' = clock
      BY <1>0, <3>1, Goroutines
      DEF ObserverStep, Goto, CallObserve, RLock, LookUp, WantLock, Lock, CreateWindow,
          LockWindow, AppendValue, Verdict, TypeOK, locals
    <3>2. CASE Tick \/ UNCHANGED vars
      BY <1>0, <3>2 DEF Tick, vars, locals, TypeOK
    <3>3. clock \in Nat
      BY <1>0, DetectorAssumption DEF TypeOK
    <3> QED
      BY <1>2, <3>1, <3>2, <3>3, NextSteps
  <2>2. Sweeping /\ now <= clock
    BY <1>0, <1>2, <2>1 DEF Sweeping, Visiting, SweepInv
  <2>3. now \in Nat /\ clock \in Nat /\ clock' \in Nat
    <3>1. TypeOK'
      BY <1>0, StepTypeOK
    <3> QED
      BY <1>0, <3>1, DetectorAssumption DEF TypeOK
  <2>4. ASSUME pc[cleaner] = "delete"
        PROVE  heap'[ref[cleaner]].lastSeen = seen \/ heap'[ref[cleaner]].lastSeen >= now
    <3>1. ref[cleaner] \in Allocated
      BY <1>0, <2>4 DEF LockInv, UseInv, Visiting
    <3>2. heap[ref[cleaner]].lastSeen = seen \/ heap[ref[cleaner]].lastSeen >= now
      BY <1>0, <2>2, <2>4 DEF SweepInv
    <3> QED
      BY <1>0, <2>2, <2>3, <3>1, <3>2, LastSeenMoves
  <2> QED
    BY <2>1, <2>2, <2>3, <2>4 DEF SweepInv
<1> QED
  BY <1>1, <1>2 DEF SweepInv

-----------------------------------------------------------------------------
(* Detector: the invariant is inductive *)

\* The invariant holds at the start: there are no windows.
LEMMA InitIInv == Init => IInv
<1> SUFFICES ASSUME Init PROVE IInv
  OBVIOUS
<1>1. TypeOK /\ LockInv
  BY InitTypeOK, InitLockInv
<1>2. VerdictSeesOwnValue /\ OneWindowPerSeries /\ SweepInv
  BY Goroutines
  DEF Init, VerdictSeesOwnValue, OneWindowPerSeries, SweepInv, InObserve, Sweeping, Visiting
<1> QED
  BY <1>1, <1>2 DEF IInv

\* Every step keeps the whole invariant.
LEMMA StepIInv == IInv /\ [Next]_vars => IInv'
<1> SUFFICES ASSUME IInv, [Next]_vars PROVE IInv'
  OBVIOUS
<1>1. TypeOK /\ LockInv
  BY DEF IInv
<1> QED
  BY <1>1, StepTypeOK, StepLockInv, StepVerdict, StepOneWindow, StepSweepInv
  DEF IInv

\* The invariant holds in every reachable state.
THEOREM Invariance == Spec => []IInv
  BY InitIInv, StepIInv, PTL DEF Spec

-----------------------------------------------------------------------------
(* Detector: theorems *)

\* The types: indices of windows exist, and windows hold observed values.
THEOREM TypeCorrectness == Spec => []TypeOK
<1>1. IInv => TypeOK
  BY DEF IInv
<1> QED
  BY <1>1, Invariance, PTL

\* detector.mu and the mutexes of the windows are held exactly where the code
\* needs them, and a running Cleanup has the map to itself.
THEOREM LockDiscipline == Spec => []LockInv
<1>1. IInv => LockInv
  BY DEF IInv
<1> QED
  BY <1>1, Invariance, PTL

\* No other goroutine appends to a window between Observe's append and the
\* verdict on its value.
THEOREM VerdictIsolation == Spec => []VerdictSeesOwnValue
<1>1. IInv => VerdictSeesOwnValue
  BY DEF IInv
<1> QED
  BY <1>1, Invariance, PTL

\* The double check of getOrCreateWindow: racing goroutines fill one window of
\* a series, and none fills another unless a Cleanup removed the one that it had
\* found during that very call.
THEOREM OneWindow == Spec => []OneWindowPerSeries
<1>1. IInv => OneWindowPerSeries
  BY DEF IInv
<1> QED
  BY <1>1, Invariance, PTL

\* Cleanup overlooks only the updates that come after it took its time.
THEOREM SweepSafety == Spec => SweepSparesRecent
<1> DEFINE Spares == \A s \in Series :
                         windows[s] # 0 /\ windows'[s] = 0 =>
                             LET lastSeen == heap[windows[s]].lastSeen
                             IN  lastSeen >= now \/ now > lastSeen + MaxAge
<1>1. IInv /\ [Next]_vars => [Spares]_vars
  <2> SUFFICES ASSUME IInv, [Next]_vars, NEW s \in Series, windows[s] # 0, windows'[s] = 0
               PROVE  LET lastSeen == heap[windows[s]].lastSeen
                      IN  lastSeen >= now \/ now > lastSeen + MaxAge
    OBVIOUS
  <2>1. TypeOK /\ LockInv /\ SweepInv
    BY DEF IInv
  <2>2. ASSUME NEW g \in Observer, CreateWindow(g), windows[key[g]] = 0 PROVE FALSE
    BY <2>1, <2>2, NewWindow DEF TypeOK, Allocated
  <2>3. DeleteIfStale
    BY <2>2
    DEF Next, vars, locals, CallObserve, RLock, LookUp, WantLock, Lock, CreateWindow,
        LockWindow, AppendValue, Verdict, CallCleanup, LockForCleanup, VisitSeries,
        LockVisited, ReadLastSeen, FinishCleanup, Tick
  <2>4. /\ Stale /\ windows' = [windows EXCEPT ![key[cleaner]] = 0]
        /\ pc[cleaner] = "delete" /\ ref[cleaner] = windows[key[cleaner]]
    BY <2>1, <2>3 DEF DeleteIfStale, Goto, LockInv, UseInv, Visiting
  <2>5. s = key[cleaner]
    BY <2>1, <2>4 DEF TypeOK
  <2> QED
    BY <2>1, <2>4, <2>5 DEF SweepInv, Stale, Sweeping, Visiting
<1> QED
  BY <1>1, Invariance, PTL DEF Spec, SweepSparesRecent

-----------------------------------------------------------------------------
(* MADSeries: counting *)

\* Among the members of a set some have the least measure.
LEMMA LeastMeasure ==
    ASSUME NEW T, T # {}, NEW f \in [T -> Nat]
    PROVE  \E x \in T : \A y \in T : f[x] <= f[y]
<1> DEFINE U == {f[x] : x \in T}
<1>1. U \subseteq Nat /\ U # {}
  OBVIOUS
<1>2. PICK m \in U : \A k \in U : ~ (<<k, m>> \in OpToRel(<, Nat))
  <2> HIDE DEF U
  <2> QED
    BY <1>1, NatLessThanWellFounded, WFMin
<1>3. \A k \in U : m <= k
  <2> SUFFICES ASSUME NEW k \in U, k < m PROVE FALSE
    BY <1>1
  <2>1. <<k, m>> \in OpToRel(<, Nat)
    BY <1>1 DEF OpToRel
  <2> QED
    BY <1>2, <2>1
<1> QED
  BY <1>2, <1>3

\* The places of the values below v, of those up to v, and of those between.
Below(values_, v) == {i \in DOMAIN values_ : values_[i] < v}
UpTo(values_, v) == {i \in DOMAIN values_ : values_[i] <= v}
Within(values_, lo, hi) == {i \in DOMAIN values_ : values_[i] \in lo .. hi}

\* There are at most as many as there are values.
LEMMA Places ==
    ASSUME NEW S, NEW w \in Seq(S), NEW P \in SUBSET (DOMAIN w)
    PROVE  /\ IsFiniteSet(P) /\ Cardinality(P) \in Nat
           /\ Cardinality(P) <= Len(w)
           /\ Cardinality(P) = Len(w) => P = DOMAIN w
           /\ Cardinality(DOMAIN w) = Len(w) /\ IsFiniteSet(DOMAIN w)
<1>1. Len(w) \in Nat /\ DOMAIN w = 1 .. Len(w)
  OBVIOUS
<1>2. IsFiniteSet(DOMAIN w) /\ Cardinality(DOMAIN w) = Len(w)
  <2>1. ASSUME NEW n \in Nat PROVE IsFiniteSet(1 .. n) /\ Cardinality(1 .. n) = n
    <3>1. 1 \in Int /\ n \in Int /\ (1 > n => n = 0) /\ n - 1 + 1 = n
      BY <2>1
    <3> QED
      BY <3>1, FS_Interval
  <2> QED
    BY <1>1, <2>1
<1>3. /\ IsFiniteSet(P) /\ Cardinality(P) <= Cardinality(DOMAIN w)
      /\ Cardinality(DOMAIN w) = Cardinality(P) => DOMAIN w = P
  BY <1>2, FS_Subset
<1>4. Cardinality(P) \in Nat
  BY <1>3, FS_CardinalityType
<1> QED
  BY <1>2, <1>3, <1>4

\* Fewer places, if they are strictly included.
LEMMA FewerPlaces ==
    ASSUME NEW S, NEW w \in Seq(S), NEW Q \in SUBSET (DOMAIN w), NEW P \in SUBSET Q, P # Q
    PROVE  Cardinality(P) < Cardinality(Q)
<1>1. /\ IsFiniteSet(Q) /\ Cardinality(Q) \in Nat
      /\ Cardinality(P) \in Nat
  BY Places
<1>2. Cardinality(P) <= Cardinality(Q) /\ (Cardinality(Q) = Cardinality(P) => Q = P)
  BY <1>1, FS_Subset
<1> QED
  BY <1>1, <1>2

-----------------------------------------------------------------------------
(* The greatest and the least value *)

\* Of some places, one has the greatest value and one the least.
LEMMA Extremes ==
    ASSUME NEW w \in Seq(Int), NEW P \in SUBSET (DOMAIN w), P # {}
    PROVE  /\ \E i \in P : \A j \in P : w[j] <= w[i]
           /\ \E i \in P : \A j \in P : w[i] <= w[j]
<1> DEFINE C(i) == Cardinality(UpTo(w, w[i]))
           up == [i \in P |-> C(i)]
           down == [i \in P |-> Len(w) - C(i)]
<1>1. ASSUME NEW i \in DOMAIN w
      PROVE  w[i] \in Int /\ C(i) \in Nat /\ C(i) <= Len(w) /\ Len(w) - C(i) \in Nat
  <2>1. UpTo(w, w[i]) \in SUBSET DOMAIN w
    BY DEF UpTo
  <2>2. w[i] \in Int /\ C(i) \in Nat /\ C(i) <= Len(w) /\ Len(w) \in Nat
    BY <2>1, Places
  <2> QED
    BY <2>2
<1>2. ASSUME NEW i \in DOMAIN w, NEW j \in DOMAIN w, w[i] < w[j] PROVE C(i) < C(j)
  <2>1. UpTo(w, w[j]) \in SUBSET DOMAIN w /\ UpTo(w, w[i]) \in SUBSET UpTo(w, w[j])
    BY <1>1, <1>2 DEF UpTo
  <2>2. j \in UpTo(w, w[j]) /\ j \notin UpTo(w, w[i])
    BY <1>1, <1>2 DEF UpTo
  <2> QED
    BY <2>1, <2>2, FewerPlaces
<1>3. \E i \in P : \A j \in P : w[j] <= w[i]
  <2>1. down \in [P -> Nat]
    BY <1>1
  <2>2. PICK i \in P : \A j \in P : down[i] <= down[j]
    <3> HIDE DEF down
    <3> QED
      BY <2>1, LeastMeasure
  <2>3. ASSUME NEW j \in P PROVE w[j] <= w[i]
    <3>1. Len(w) - C(i) <= Len(w) - C(j)
      BY <2>2
    <3>2. /\ C(i) \in Nat /\ C(j) \in Nat /\ Len(w) \in Nat
          /\ w[i] \in Int /\ w[j] \in Int
          /\ w[i] < w[j] => C(i) < C(j)
      BY <1>1, <1>2, SMTT(60)
    <3> HIDE DEF C
    <3> QED
      BY <3>1, <3>2, SMTT(60)
  <2> QED
    BY <2>3
<1>4. \E i \in P : \A j \in P : w[i] <= w[j]
  <2>1. up \in [P -> Nat]
    BY <1>1
  <2>2. PICK i \in P : \A j \in P : up[i] <= up[j]
    <3> HIDE DEF up
    <3> QED
      BY <2>1, LeastMeasure
  <2>3. ASSUME NEW j \in P PROVE w[i] <= w[j]
    <3>1. C(i) <= C(j)
      BY <2>2
    <3>2. /\ C(i) \in Nat /\ C(j) \in Nat
          /\ w[i] \in Int /\ w[j] \in Int
          /\ w[j] < w[i] => C(j) < C(i)
      BY <1>1, <1>2
    <3> HIDE DEF C
    <3> QED
      BY <3>1, <3>2, SMTT(60)
  <2> QED
    BY <2>3
<1> QED
  BY <1>3, <1>4

-----------------------------------------------------------------------------
(* Ranks and medians *)

\* Among finitely many integers there is one of each rank.
LEMMA RankExists ==
    ASSUME NEW w \in Seq(Int), NEW n \in 1 .. Len(w)
    PROVE  \E v \in {w[i] : i \in DOMAIN w} :
              Cardinality(Below(w, v)) < n /\ Cardinality(UpTo(w, v)) >= n
<1> DEFINE S == {i \in DOMAIN w : Cardinality(UpTo(w, w[i])) >= n}
<1>1. Len(w) \in Nat /\ DOMAIN w = 1 .. Len(w) /\ n \in DOMAIN w /\ n \in Nat
  OBVIOUS
\* The greatest value has all places up to it.
<1>2. S # {}
  <2>1. PICK i \in DOMAIN w : \A j \in DOMAIN w : w[j] <= w[i]
    BY <1>1, Extremes
  <2>2. UpTo(w, w[i]) = DOMAIN w
    BY <2>1 DEF UpTo
  <2>3. Cardinality(DOMAIN w) = Len(w) /\ n <= Len(w)
    BY <1>1, Places
  <2> QED
    BY <2>2, <2>3
\* The least value with n places up to it is the one.
<1>3. PICK i \in S : \A j \in S : w[i] <= w[j]
  <2>1. S \in SUBSET DOMAIN w
    OBVIOUS
  <2> HIDE DEF S
  <2> QED
    BY <1>2, <2>1, Extremes
<1>4. ASSUME Cardinality(Below(w, w[i])) >= n PROVE FALSE
  <2>1. Below(w, w[i]) \in SUBSET DOMAIN w /\ Below(w, w[i]) # {}
    <3>1. Below(w, w[i]) # {}
      <4>1. Cardinality({}) = 0 /\ ~ (0 >= n)
        BY <1>1, FS_EmptySet
      <4> QED
        BY <1>4, <4>1
    <3> QED
      BY <3>1 DEF Below
  <2>2. PICK j \in Below(w, w[i]) : \A k \in Below(w, w[i]) : w[k] <= w[j]
    BY <2>1, Extremes
  <2>3. j \in DOMAIN w /\ w[j] < w[i] /\ \A k \in DOMAIN w : w[k] \in Int
    BY <2>2 DEF Below
  <2>4. Below(w, w[i]) = UpTo(w, w[j])
    BY <2>2, <2>3 DEF Below, UpTo
  <2>5. j \in S
    BY <1>4, <2>3, <2>4
  <2> QED
    BY <1>3, <2>3, <2>5
<1>5. Cardinality(Below(w, w[i])) \in Nat
  <2>1. Below(w, w[i]) \in SUBSET DOMAIN w
    BY DEF Below
  <2> QED
    BY <2>1, Places
<1> QED
  BY <1>1, <1>3, <1>4, <1>5

\* So Ranked is such a value.
LEMMA RankedIs ==
    ASSUME NEW w \in Seq(Int), NEW n \in 1 .. Len(w)
    PROVE  /\ Ranked(w, n) \in Int
           /\ Cardinality(Below(w, Ranked(w, n))) < n
           /\ Cardinality(UpTo(w, Ranked(w, n))) >= n
<1> DEFINE V == {w[i] : i \in DOMAIN w}
<1>1. \E v \in V : /\ Cardinality({i \in DOMAIN w : w[i] < v}) < n
                   /\ Cardinality({i \in DOMAIN w : w[i] <= v}) >= n
  BY RankExists DEF Below, UpTo
<1>2. V \subseteq Int
  OBVIOUS
<1>3. /\ Ranked(w, n) \in V
      /\ Cardinality({i \in DOMAIN w : w[i] < Ranked(w, n)}) < n
      /\ Cardinality({i \in DOMAIN w : w[i] <= Ranked(w, n)}) >= n
  BY <1>1 DEF Ranked
<1> QED
  BY <1>2, <1>3 DEF Below, UpTo

\* The n-th of the values cannot leave an interval that holds n of them, and
\* all but fewer than n.
LEMMA RankedBetween ==
    ASSUME NEW w \in Seq(Int), NEW lo \in Int, NEW hi \in Int, NEW n \in 1 .. Len(w),
           n <= Cardinality(Within(w, lo, hi)),
           Len(w) - Cardinality(Within(w, lo, hi)) < n
    PROVE  Ranked(w, n) \in lo .. hi
<1> DEFINE v == Ranked(w, n)
           B == Within(w, lo, hi)
<1>1. /\ v \in Int /\ n \in Nat /\ Len(w) \in Nat
      /\ Cardinality(Below(w, v)) < n
      /\ Cardinality(UpTo(w, v)) >= n
      /\ \A i \in DOMAIN w : w[i] \in Int
  BY RankedIs
<1>2. /\ B \in SUBSET DOMAIN w /\ IsFiniteSet(DOMAIN w)
      /\ Cardinality(DOMAIN w) = Len(w) /\ Cardinality(B) \in Nat
  <2>1. B \in SUBSET DOMAIN w
    BY DEF Within
  <2> QED
    BY <2>1, Places
<1> HIDE DEF v, B
<1>3. ASSUME v < lo PROVE FALSE
  <2>1. UpTo(w, v) \in SUBSET (DOMAIN w \ B)
    BY <1>1, <1>3 DEF UpTo, Within, B
  <2>2. /\ IsFiniteSet(DOMAIN w \ B)
        /\ Cardinality(DOMAIN w \ B) = Len(w) - Cardinality(B)
    <3>1. DOMAIN w \cap B = B
      BY <1>2
    <3>2. IsFiniteSet(DOMAIN w)
      BY <1>2
    <3>3. /\ IsFiniteSet(DOMAIN w \ B)
          /\ Cardinality(DOMAIN w \ B) = Cardinality(DOMAIN w) - Cardinality(DOMAIN w \cap B)
      BY <3>2, FS_Difference
    <3> QED
      BY <1>2, <3>1, <3>3
  <2>3. Cardinality(UpTo(w, v)) <= Cardinality(DOMAIN w \ B)
    BY <2>1, <2>2, FS_Subset
  <2>4. Cardinality(UpTo(w, v)) \in Nat
    <3>1. UpTo(w, v) \in SUBSET DOMAIN w
      BY DEF UpTo
    <3> QED
      BY <3>1, Places
  <2>5. Len(w) - Cardinality(B) < n
    BY DEF B
  <2> QED
    BY <1>1, <1>2, <2>2, <2>3, <2>4, <2>5
<1>4. ASSUME hi < v PROVE FALSE
  <2>1. B \in SUBSET Below(w, v) /\ Below(w, v) \in SUBSET DOMAIN w
    BY <1>1, <1>4 DEF Below, Within, B
  <2>2. IsFiniteSet(Below(w, v)) /\ Cardinality(Below(w, v)) \in Nat
    BY <2>1, Places
  <2>3. Cardinality(B) <= Cardinality(Below(w, v))
    BY <2>1, <2>2, FS_Subset
  <2>4. n <= Cardinality(B)
    BY DEF B
  <2> QED
    BY <1>1, <1>2, <2>2, <2>3, <2>4
<1> QED
  BY <1>1, <1>3, <1>4 DEF v

\* A median of integers is one, doubled; and an interval with more than half
\* of the values holds their median.
LEMMA MedianType == ASSUME NEW w \in Seq(Int) PROVE Median2(w) \in Int
<1> DEFINE n == Len(w)
           m == n \div 2 + 1
<1>1. n \in Nat
  OBVIOUS
<1>2. CASE n = 0
  BY <1>2 DEF Median2
<1>3. CASE n # 0 /\ n % 2 = 1
  <2>1. m \in 1 .. n
    BY <1>1, <1>3
  <2>2. Ranked(w, m) \in Int
    BY <2>1, RankedIs
  <2> QED
    BY <1>3, <2>2 DEF Median2
<1>4. CASE n # 0 /\ n % 2 # 1
  <2>1. m \in 1 .. n + 1 /\ m - 1 \in 1 .. n /\ (m \in 1 .. n)
    BY <1>1, <1>4
  <2>2. Ranked(w, m) \in Int /\ Ranked(w, m - 1) \in Int
    BY <2>1, RankedIs
  <2> QED
    BY <1>4, <2>2 DEF Median2
<1> QED
  BY <1>2, <1>3, <1>4

\* A median lies where more than half of the values lie.
LEMMA MedianBetween ==
    ASSUME NEW w \in Seq(Int), NEW lo \in Int, NEW hi \in Int,
           2 * Cardinality(Within(w, lo, hi)) > Len(w)
    PROVE  Median2(w) \in 2 * lo .. 2 * hi
<1> DEFINE n == Len(w)
           m == n \div 2 + 1
           b == Cardinality(Within(w, lo, hi))
<1>1. n \in Nat /\ b \in Nat /\ b <= n /\ 2 * b > n
  <2>1. Within(w, lo, hi) \in SUBSET DOMAIN w
    BY DEF Within
  <2> QED
    BY <2>1, Places
<1>2. CASE n % 2 = 1
  <2>1. m \in 1 .. n /\ m <= b /\ n - b < m
    BY <1>1, <1>2, SMTT(60)
  <2>2. Ranked(w, m) \in lo .. hi
    BY <2>1, RankedBetween
  <2> QED
    BY <1>1, <1>2, <2>2, SMTT(60) DEF Median2
<1>3. CASE n % 2 # 1
  <2>1. m \in 1 .. n /\ m <= b /\ n - b < m
    BY <1>1, <1>3, SMTT(60)
  <2>2. m - 1 \in 1 .. n /\ m - 1 <= b /\ n - b < m - 1
    BY <1>1, <1>3, SMTT(60)
  <2>3. Ranked(w, m) \in lo .. hi /\ Ranked(w, m - 1) \in lo .. hi
    BY <2>1, <2>2, RankedBetween
  <2> QED
    BY <1>1, <1>3, <2>3, SMTT(60) DEF Median2
<1> QED
  BY <1>2, <1>3

-----------------------------------------------------------------------------
(* MADSeries: the invariant *)

\* What Load and NewMADDetector leave of any environment.
ConfigOK ==
    /\ DOMAIN config = DOMAIN Defaults
    /\ config.windowSize \in Nat \ {0}
    /\ config.warmup \in 1 .. config.windowSize
    /\ config.thresholdK \in Nat \ {0}
    /\ config.mode \in DetectionMode
    /\ config.minMad \in Nat \ {0}
    /\ config.minDelta \in Nat

\* The newest values, as many as streak counts, are equal.
StreakInv ==
    /\ streak \in 0 .. Len(values)
    /\ \A i \in 1 .. Len(values) : i > Len(values) - streak => values[i] = Newest

SeriesIInv ==
    /\ ConfigOK
    /\ values \in Seq(Value)
    /\ Len(values) <= config.windowSize
    /\ observed = Observed(config, values)
    /\ StreakInv

\* NewMADDetector brings numbers into range.
LEMMA DetectorRange ==
    ASSUME NEW c, c.windowSize \in Int, c.warmup \in Int, c.thresholdK \in Int,
           c.minMad \in Int, c.minDelta \in Int, c.mode \in DetectionMode
    PROVE  LET d == NewMADDetector(c)
           IN  /\ d.windowSize \in Nat \ {0}
               /\ d.warmup \in 1 .. d.windowSize
               /\ d.thresholdK \in Nat \ {0}
               /\ d.mode \in DetectionMode
               /\ d.minMad \in Nat \ {0}
               /\ d.minDelta \in Nat
<1> DEFINE d == NewMADDetector(c)
           size == IF c.windowSize <= 0 THEN 50 ELSE c.windowSize
           warmup == IF c.warmup <= 0 THEN 20 ELSE c.warmup
<1>1. d.windowSize = size /\ d.warmup = IF warmup > size THEN size ELSE warmup
  BY DEF NewMADDetector
<1>2. size \in Nat \ {0} /\ warmup \in Nat \ {0}
  OBVIOUS
<1>3. d.warmup \in 1 .. d.windowSize
  <2> HIDE DEF size, warmup, d
  <2> QED
    BY <1>1, <1>2
<1>4. d.thresholdK \in Nat \ {0} /\ d.minMad \in Nat \ {0} /\ d.minDelta \in Nat
  BY DEF NewMADDetector
<1>5. d.mode \in DetectionMode
  BY DEF NewMADDetector, DetectionMode
<1> QED
  BY <1>1, <1>2, <1>3, <1>4, <1>5

\* Whatever is set, or not set, the configuration is in range.
LEMMA ConfigRange ==
    ASSUME NEW e \in Environment, config = NewMADDetector(Load(e))
    PROVE  ConfigOK
<1> DEFINE c == Load(e)
<1>1. DOMAIN Defaults = {"windowSize", "warmup", "thresholdK", "mode", "minMad", "minDelta"}
  BY DEF Defaults
<1>2. ASSUME NEW name \in DOMAIN Defaults, name # "mode" PROVE c[name] \in Int
  <2>1. Defaults[name] \in Int
    BY <1>1, <1>2 DEF Defaults
  <2>2. name \in DOMAIN e => e[name] \in Int
    BY <1>2, MADAssumption
  <2> QED
    BY <1>2, <2>1, <2>2 DEF Load
<1>3. c["mode"] \in DetectionMode
  <2>1. "mode" \in DOMAIN Defaults /\ Defaults["mode"] \in DetectionMode
    BY <1>1 DEF Defaults, DetectionMode
  <2> QED
    BY <2>1 DEF Load
<1>4. /\ c.windowSize \in Int /\ c.warmup \in Int /\ c.thresholdK \in Int
      /\ c.minMad \in Int /\ c.minDelta \in Int /\ c.mode \in DetectionMode
  BY <1>1, <1>2, <1>3
<1>5. DOMAIN config = DOMAIN Defaults
  <2>1. DOMAIN NewMADDetector(c)
          = {"windowSize", "warmup", "thresholdK", "mode", "minMad", "minDelta"}
    <3> HIDE DEF c
    <3> QED
      BY DEF NewMADDetector
  <2> QED
    BY <1>1, <2>1
<1> QED
  BY <1>4, <1>5, DetectorRange DEF ConfigOK

\* new is the window w with v as its newest value, without the oldest if w was full.
IsAppended(new, w, v, size) ==
    /\ Len(new) = IF Len(w) < size THEN Len(w) + 1 ELSE Len(w)
    /\ new[Len(new)] = v
    /\ \A i \in 1 .. Len(new) - 1 : new[i] = w[i + 1 + Len(w) - Len(new)]

\* A window takes a value as its newest, and drops the oldest when it is full.
LEMMA WindowAppendIs ==
    ASSUME NEW S, NEW w \in Seq(S), NEW v \in S, NEW c,
           c.windowSize \in Nat \ {0}, Len(w) <= c.windowSize
    PROVE  /\ WindowAppend(c, w, v) \in Seq(S)
           /\ IsAppended(WindowAppend(c, w, v), w, v, c.windowSize)
<1> USE DEF IsAppended
<1> DEFINE longer == Append(w, v)
           new == WindowAppend(c, w, v)
<1>1. /\ longer \in Seq(S) /\ Len(longer) = Len(w) + 1 /\ Len(w) \in Nat
      /\ longer[Len(w) + 1] = v
      /\ \A i \in 1 .. Len(w) : longer[i] = w[i]
  OBVIOUS
<1>2. CASE Len(w) < c.windowSize
  <2>1. new = longer
    BY <1>1, <1>2 DEF WindowAppend
  <2>2. \A i \in 1 .. Len(w) : i + 1 + Len(w) - (Len(w) + 1) = i
    BY <1>1
  <2> QED
    BY <1>1, <1>2, <2>1, <2>2
<1>3. CASE ~ (Len(w) < c.windowSize)
  <2>1. new = Tail(longer)
    BY <1>1, <1>3 DEF WindowAppend
  <2>2. /\ new \in Seq(S) /\ Len(new) = Len(w)
        /\ \A i \in 1 .. Len(w) : new[i] = longer[i + 1]
    <3> HIDE DEF longer
    <3> QED
      BY <1>1, <2>1
  <2>3. \A i \in 1 .. Len(w) - 1 : /\ i \in 1 .. Len(w) /\ i + 1 \in 1 .. Len(w)
                                   /\ i + 1 + Len(w) - Len(w) = i + 1
    BY <1>1
  <2>4. Len(w) \in 1 .. Len(w)
    BY <1>1, <1>3
  <2> QED
    BY <1>1, <1>3, <2>2, <2>3, <2>4
<1> QED
  BY <1>2, <1>3

\* It holds before the first value.
LEMMA InitSeriesIInv == SeriesInit => SeriesIInv
<1> SUFFICES ASSUME SeriesInit PROVE SeriesIInv
  OBVIOUS
<1>1. ConfigOK
  BY ConfigRange DEF SeriesInit
<1>2. values = <<>> /\ Len(values) = 0 /\ streak = 0
  BY DEF SeriesInit
<1>3. observed = Observed(config, values)
  BY <1>1, <1>2 DEF SeriesInit, Observed, ConfigOK
<1> QED
  BY <1>1, <1>2, <1>3 DEF SeriesIInv, StreakInv, ConfigOK

\* Every value keeps it.
LEMMA StepSeriesIInv == SeriesIInv /\ [SeriesNext]_seriesVars => SeriesIInv'
<1> SUFFICES ASSUME SeriesIInv, [SeriesNext]_seriesVars PROVE SeriesIInv'
  OBVIOUS
<1>1. CASE UNCHANGED seriesVars
  BY <1>1 DEF seriesVars, SeriesIInv, ConfigOK, StreakInv, Newest
<1>2. ASSUME NEW v \in Value, ObserveValue(v) PROVE SeriesIInv'
  <2> DEFINE n == Len(values)
             k == Len(values')
  <2>1. /\ config' = config /\ ConfigOK /\ values \in Seq(Value) /\ n \in Nat
        /\ config.windowSize \in Nat \ {0} /\ n <= config.windowSize
        /\ values' = WindowAppend(config, values, v)
        /\ streak \in 0 .. n
    BY <1>2 DEF SeriesIInv, ConfigOK, StreakInv, ObserveValue
  <2>2. /\ values' \in Seq(Value)
        /\ k = IF n < config.windowSize THEN n + 1 ELSE n
        /\ values'[k] = v
        /\ \A i \in 1 .. k - 1 : values'[i] = values[i + 1 + n - k]
    <3>1. values' \in Seq(Value) /\ IsAppended(values', values, v, config.windowSize)
      BY <2>1, WindowAppendIs
    <3> QED
      BY <3>1 DEF IsAppended
  <2>3. k \in Nat /\ k >= 1 /\ k <= config.windowSize
    BY <2>1, <2>2
  <2>4. ConfigOK' /\ observed' = Observed(config', values')
    BY <1>2, <2>1 DEF ConfigOK, ObserveValue
  <2>5. streak' = IF ~Continues(v) THEN 1
                  ELSE IF streak < config.windowSize THEN streak + 1 ELSE streak
    BY <1>2 DEF ObserveValue
  <2>6. ASSUME Continues(v) PROVE n >= 1 /\ values[n] = v
    BY <2>1, <2>6 DEF Continues
  <2>7. streak' \in 0 .. k
    BY <2>1, <2>2, <2>3, <2>5
  <2>8. ASSUME NEW i \in 1 .. k, i > k - streak' PROVE values'[i] = values'[k]
    <3>1. CASE i = k
      BY <3>1
    <3>2. CASE i # k
      <4>1. i \in 1 .. k - 1 /\ streak' # 1
        BY <2>3, <2>8, <3>2
      <4>2. Continues(v) /\ streak' <= streak + 1
        BY <2>1, <2>5, <4>1
      <4>3. i + 1 + n - k \in 1 .. n /\ i + 1 + n - k > n - streak
        <5>1. /\ i \in 1 .. k - 1 /\ i > k - streak' /\ k \in Nat /\ n \in Nat
              /\ k = n + 1 \/ (k = n /\ n = config.windowSize)
              /\ streak \in 0 .. n
              /\ streak' = streak + 1 \/ (streak' = streak /\ streak = n)
          <6>1. /\ n \in Nat /\ streak \in 0 .. n
                /\ config.windowSize \in Nat /\ n <= config.windowSize
                /\ streak' = IF streak < config.windowSize THEN streak + 1 ELSE streak
            BY <2>1, <2>5, <4>2
          <6>2. streak' = streak + 1 \/ (streak' = streak /\ streak = n)
            BY <6>1
          <6>3. k = n + 1 \/ (k = n /\ n = config.windowSize)
            BY <2>1, <2>2
          <6> QED
            BY <2>3, <2>8, <4>1, <6>1, <6>2, <6>3
        <5> HIDE DEF n, k
        <5> QED
          BY <5>1
      <4>4. values[i + 1 + n - k] = values[n]
        BY <4>3 DEF SeriesIInv, StreakInv, Newest
      <4> QED
        BY <2>2, <2>6, <4>1, <4>2, <4>4
    <3> QED
      BY <3>1, <3>2
  <2> QED
    BY <2>1, <2>2, <2>3, <2>4, <2>7, <2>8 DEF SeriesIInv, StreakInv, Newest
<1> QED
  BY <1>1, <1>2 DEF SeriesNext

\* It holds after every sequence of values.
LEMMA SeriesInvariance == SeriesSpec => []SeriesIInv
  BY InitSeriesIInv, StepSeriesIInv, PTL DEF SeriesSpec

-----------------------------------------------------------------------------
(* The verdict *)

\* The window's median, its spread with the floor of MinMad, and the distance
\* of the thresholds from the median.
Baseline2 == Median2(values)
Spread4 == MedianAbsoluteDeviation4(values, Baseline2)
Mad4 == IF Spread4 < 4 * config.minMad THEN 4 * config.minMad ELSE Spread4
Delta == config.thresholdK * 14826 * Mad4

\* The deviations are as many as the values, and integers.
LEMMA Deviations ==
    ASSUME NEW w \in Seq(Int), NEW m \in Int
    PROVE  LET d == [i \in DOMAIN w |-> Abs(2 * w[i] - m)]
           IN  /\ d \in Seq(Int)
               /\ Len(d) = Len(w)
               /\ \A i \in 1 .. Len(w) : d[i] = Abs(2 * w[i] - m)
<1>1. DOMAIN w = 1 .. Len(w) /\ Len(w) \in Nat
  OBVIOUS
<1>2. \A i \in 1 .. Len(w) : Abs(2 * w[i] - m) \in Int
  BY DEF Abs
<1> QED
  BY <1>1, <1>2

\* These are integers, and the thresholds are apart from the median.
LEMMA VerdictTypes ==
    ASSUME SeriesIInv
    PROVE  /\ values \in Seq(Int) /\ Len(values) \in Nat
           /\ Baseline2 \in Int /\ Spread4 \in Int /\ Mad4 \in Int /\ Delta \in Int
           /\ Mad4 >= 4 * config.minMad /\ Mad4 > 0 /\ Delta > 0
<1>1. values \in Seq(Int) /\ Len(values) \in Nat
  <2>1. values \in Seq(Value) /\ Value \subseteq Int
    BY MADAssumption DEF SeriesIInv
  <2>2. values \in Seq(Int)
    BY <2>1, SeqMonotonic, Zenon
  <2> QED
    BY <2>2
<1>2. Baseline2 \in Int
  BY <1>1, MedianType DEF Baseline2
<1>3. Spread4 \in Int
  BY <1>1, <1>2, Deviations, MedianType DEF Spread4, MedianAbsoluteDeviation4
<1>4. /\ Mad4 \in Nat \ {0} /\ Mad4 >= 4 * config.minMad
      /\ config.thresholdK \in Nat \ {0}
  BY <1>3 DEF Mad4, SeriesIInv, ConfigOK
<1>5. Delta \in Nat \ {0}
  <2>1. ASSUME NEW a \in Nat \ {0}, NEW b \in Nat \ {0} PROVE a * 14826 * b \in Nat \ {0}
    BY <2>1
  <2> QED
    BY <1>4, <2>1 DEF Delta
<1> QED
  BY <1>1, <1>2, <1>3, <1>4, <1>5

\* What Observe answered, once the window is warm.
LEMMA WarmVerdict ==
    ASSUME SeriesIInv, Warm
    PROVE  /\ observed.baseline2 = Baseline2
           /\ observed.lower = 20000 * Baseline2 - Delta
           /\ observed.upper = 20000 * Baseline2 + Delta
           /\ observed.isAnomaly <=>
                /\ ~ (Abs(2 * Newest - Baseline2) < 2 * config.minDelta)
                /\ \/ Upward /\ 40000 * Newest > 20000 * Baseline2 + Delta
                   \/ Downward /\ 40000 * Newest < 20000 * Baseline2 - Delta
<1>1. ~ (Len(values) < config.warmup) /\ observed = Observed(config, values)
  BY VerdictTypes DEF SeriesIInv, Warm, ConfigOK
<1>2. observed.baseline2 = Baseline2
  BY <1>1 DEF Observed, Baseline2
<1>3. observed.lower = 20000 * Baseline2 - Delta
  BY <1>1 DEF Observed, Baseline2, Spread4, Mad4, Delta
<1>4. observed.upper = 20000 * Baseline2 + Delta
  BY <1>1 DEF Observed, Baseline2, Spread4, Mad4, Delta
<1> DEFINE quiet == Abs(2 * Newest - Baseline2) < 2 * config.minDelta
           above == 40000 * Newest > 20000 * Baseline2 + Delta
           below == 40000 * Newest < 20000 * Baseline2 - Delta
<1>5. config.mode = "MODE_DOWN" => observed.isAnomaly = (~quiet /\ below)
  BY <1>1 DEF Observed, Baseline2, Spread4, Mad4, Delta, Newest, Breaches
<1>6. config.mode = "MODE_BOTH" => observed.isAnomaly = (~quiet /\ (above \/ below))
  BY <1>1 DEF Observed, Baseline2, Spread4, Mad4, Delta, Newest, Breaches
<1>7. config.mode = "MODE_UP" => observed.isAnomaly = (~quiet /\ above)
  BY <1>1 DEF Observed, Baseline2, Spread4, Mad4, Delta, Newest, Breaches
<1>8. observed.isAnomaly <=> ~quiet /\ ((Upward /\ above) \/ (Downward /\ below))
  <2>1. config.mode \in {"MODE_DOWN", "MODE_BOTH", "MODE_UP"}
    BY DEF SeriesIInv, ConfigOK, DetectionMode
  <2> HIDE DEF quiet, above, below
  <2> QED
    BY <1>5, <1>6, <1>7, <2>1, Zenon DEF Upward, Downward
<1> QED
  BY <1>2, <1>3, <1>4, <1>8

\* Until then it answered that there is no anomaly.
LEMMA ColdVerdict == ASSUME SeriesIInv, ~Warm PROVE ~observed.isAnomaly
<1>1. Len(values) < config.warmup /\ observed = Observed(config, values)
  BY VerdictTypes DEF SeriesIInv, Warm, ConfigOK
<1> QED
  BY <1>1 DEF Observed, NotWarm

-----------------------------------------------------------------------------
(* MADSeries: the newest value *)

\* A warm window has a newest value.
LEMMA NewestType == ASSUME SeriesIInv, Warm PROVE Newest \in Int /\ Len(values) >= 1
<1>1. Len(values) >= 1 /\ values \in Seq(Int)
  BY VerdictTypes DEF SeriesIInv, Warm, ConfigOK
<1> QED
  BY <1>1 DEF Newest

\* An interval that holds the values at the places a to b holds as many.
LEMMA WithinInterval ==
    ASSUME NEW w \in Seq(Int), NEW lo \in Int, NEW hi \in Int,
           NEW a \in 1 .. Len(w), NEW b \in 1 .. Len(w), a <= b,
           \A i \in a .. b : w[i] \in lo .. hi
    PROVE  Cardinality(Within(w, lo, hi)) >= b - a + 1
<1>1. /\ Within(w, lo, hi) \in SUBSET DOMAIN w
      /\ a .. b \in SUBSET Within(w, lo, hi)
  BY DEF Within
<1>2. /\ IsFiniteSet(Within(w, lo, hi))
      /\ Cardinality(Within(w, lo, hi)) \in Nat
  BY <1>1, Places
<1>3. Cardinality(a .. b) <= Cardinality(Within(w, lo, hi))
  BY <1>1, <1>2, FS_Subset
<1>4. Cardinality(a .. b) = b - a + 1
  <2>1. a \in Int /\ b \in Int /\ ~ (a > b)
    OBVIOUS
  <2> QED
    BY <2>1, FS_Interval
<1> QED
  BY <1>2, <1>3, <1>4

-----------------------------------------------------------------------------
(* The mirror image of a window *)

\* The n-th value is the only one that fewer than n are below, and n up to.
LEMMA RankedOnly ==
    ASSUME NEW w \in Seq(Int), NEW n \in 1 .. Len(w), NEW v \in Int,
           Cardinality(Below(w, v)) < n, Cardinality(UpTo(w, v)) >= n
    PROVE  Ranked(w, n) = v
<1> DEFINE u == Ranked(w, n)
<1>1. /\ u \in Int /\ n \in Nat
      /\ Cardinality(Below(w, u)) < n /\ Cardinality(UpTo(w, u)) >= n
      /\ \A i \in DOMAIN w : w[i] \in Int
  BY RankedIs
<1> HIDE DEF u
<1>2. ASSUME NEW x \in Int, NEW y \in Int, x < y
      PROVE  /\ Cardinality(UpTo(w, x)) \in Nat /\ Cardinality(Below(w, y)) \in Nat
             /\ Cardinality(UpTo(w, x)) <= Cardinality(Below(w, y))
  <2>1. /\ UpTo(w, x) \in SUBSET Below(w, y)
        /\ Below(w, y) \in SUBSET DOMAIN w /\ UpTo(w, x) \in SUBSET DOMAIN w
    BY <1>1, <1>2 DEF UpTo, Below
  <2>2. /\ Cardinality(UpTo(w, x)) \in Nat /\ Cardinality(Below(w, y)) \in Nat
        /\ IsFiniteSet(Below(w, y))
    BY <2>1, Places
  <2> QED
    BY <2>1, <2>2, FS_Subset
<1>3. ~ (u < v)
  <2> SUFFICES ASSUME u < v PROVE FALSE
    OBVIOUS
  <2>1. /\ Cardinality(UpTo(w, u)) \in Nat /\ Cardinality(Below(w, v)) \in Nat
        /\ Cardinality(UpTo(w, u)) <= Cardinality(Below(w, v))
    BY <1>1, <1>2
  <2> QED
    BY <1>1, <2>1
<1>4. ~ (v < u)
  <2> SUFFICES ASSUME v < u PROVE FALSE
    OBVIOUS
  <2>1. /\ Cardinality(UpTo(w, v)) \in Nat /\ Cardinality(Below(w, u)) \in Nat
        /\ Cardinality(UpTo(w, v)) <= Cardinality(Below(w, u))
    BY <1>1, <1>2
  <2> QED
    BY <1>1, <2>1
<1> QED
  BY <1>1, <1>3, <1>4 DEF u

\* A mirror image is as long, and of integers, too.
LEMMA MirroredIs ==
    ASSUME NEW w \in Seq(Int)
    PROVE  /\ Mirrored(w) \in Seq(Int) /\ Len(Mirrored(w)) = Len(w)
           /\ DOMAIN Mirrored(w) = DOMAIN w /\ DOMAIN w = 1 .. Len(w)
           /\ \A i \in DOMAIN w : w[i] \in Int /\ Mirrored(w)[i] = -w[i]
<1>1. DOMAIN w = 1 .. Len(w) /\ Len(w) \in Nat /\ \A i \in DOMAIN w : w[i] \in Int
  OBVIOUS
<1> QED
  BY <1>1 DEF Mirrored

\* The places that a set of places leaves.
LEMMA OtherPlaces ==
    ASSUME NEW w \in Seq(Int), NEW P \in SUBSET DOMAIN w
    PROVE  Cardinality(DOMAIN w \ P) = Len(w) - Cardinality(P)
<1>1. /\ IsFiniteSet(DOMAIN w) /\ Cardinality(DOMAIN w) = Len(w)
      /\ DOMAIN w \cap P = P
  BY Places
<1>2. Cardinality(DOMAIN w \ P) = Cardinality(DOMAIN w) - Cardinality(DOMAIN w \cap P)
  BY <1>1, FS_Difference
<1> QED
  BY <1>1, <1>2

\* The n-th value from below is the n-th from above of the image.
LEMMA RankedMirrored ==
    ASSUME NEW w \in Seq(Int), NEW n \in 1 .. Len(w)
    PROVE  Ranked(Mirrored(w), n) = -Ranked(w, Len(w) + 1 - n)
<1> DEFINE k == Len(w) + 1 - n
           v == Ranked(w, k)
           m == Mirrored(w)
<1>1. k \in 1 .. Len(w) /\ Len(w) \in Nat /\ n \in Nat
  OBVIOUS
<1>2. /\ m \in Seq(Int) /\ Len(m) = Len(w) /\ DOMAIN m = DOMAIN w
      /\ \A i \in DOMAIN w : w[i] \in Int /\ m[i] = -w[i]
  BY MirroredIs
<1> HIDE DEF k, m
<1>3. /\ v \in Int /\ -v \in Int
      /\ Cardinality(Below(w, v)) < k /\ Cardinality(UpTo(w, v)) >= k
  BY <1>1, RankedIs
<1> HIDE DEF v
<1>4. Below(m, -v) = DOMAIN w \ UpTo(w, v) /\ UpTo(m, -v) = DOMAIN w \ Below(w, v)
  <2>1. ASSUME NEW i \in DOMAIN w
        PROVE  (m[i] < -v <=> ~ (w[i] <= v)) /\ (m[i] <= -v <=> ~ (w[i] < v))
    BY <1>2, <1>3
  <2> QED
    BY <1>2, <2>1 DEF Below, UpTo
<1>5. UpTo(w, v) \in SUBSET DOMAIN w /\ Below(w, v) \in SUBSET DOMAIN w
  BY DEF Below, UpTo
<1>6. /\ Cardinality(Below(m, -v)) = Len(w) - Cardinality(UpTo(w, v))
      /\ Cardinality(UpTo(m, -v)) = Len(w) - Cardinality(Below(w, v))
      /\ Cardinality(UpTo(w, v)) \in Nat /\ Cardinality(Below(w, v)) \in Nat
  BY <1>4, <1>5, OtherPlaces, Places
<1>7. Len(w) - k = n - 1
  BY <1>1 DEF k
<1>8. k \in Nat
  BY <1>1
<1>9. Cardinality(Below(m, -v)) < n /\ Cardinality(UpTo(m, -v)) >= n
  BY <1>1, <1>3, <1>6, <1>7, <1>8
<1>10. n \in 1 .. Len(m)
  BY <1>2
<1>11. Ranked(m, n) = -v
  BY <1>2, <1>3, <1>9, <1>10, RankedOnly
<1> QED
  BY <1>11 DEF k, v, m

\* Nothing is left of nothing.
LEMMA MinusNothing == ASSUME NEW z \in Int, z <= 0, z >= 0 PROVE -z = 0
<1>1. -z \in Int /\ -z >= 0 /\ -z <= 0
  OBVIOUS
<1> QED
  BY <1>1

\* A median takes no side.
LEMMA MedianMirrored ==
    ASSUME NEW w \in Seq(Int)
    PROVE  Median2(Mirrored(w)) = -Median2(w)
<1> DEFINE n == Len(w)
           m == n \div 2 + 1
<1>1. n \in Nat /\ Len(Mirrored(w)) = n
  BY MirroredIs
<1>2. CASE n = 0
  <2>1. Median2(w) = 0 /\ Median2(Mirrored(w)) = 0
    BY <1>1, <1>2 DEF Median2
  <2> DEFINE z == Median2(w)
  <2>2. z \in Int /\ z <= 0 /\ z >= 0
    BY <2>1
  <2> HIDE DEF z
  <2>3. -z = 0
    BY <2>2, MinusNothing
  <2> QED
    BY <2>1, <2>3, Zenon DEF z
<1>3. CASE n # 0 /\ n % 2 = 1
  <2>1. m \in 1 .. n /\ n + 1 - m = m
    BY <1>1, <1>3, SMTT(60)
  <2>2. Ranked(Mirrored(w), m) = -Ranked(w, m) /\ Ranked(w, m) \in Int
    BY <2>1, RankedMirrored, RankedIs
  <2>3. Median2(w) = 2 * Ranked(w, m) /\ Median2(Mirrored(w)) = 2 * Ranked(Mirrored(w), m)
    BY <1>1, <1>3 DEF Median2
  <2> QED
    BY <2>2, <2>3
<1>4. CASE n # 0 /\ n % 2 # 1
  <2>1. m \in 1 .. n /\ m - 1 \in 1 .. n /\ n + 1 - m = m - 1 /\ n + 1 - (m - 1) = m
    BY <1>1, <1>4, SMTT(60)
  <2>2. /\ Ranked(Mirrored(w), m) = -Ranked(w, m - 1)
        /\ Ranked(Mirrored(w), m - 1) = -Ranked(w, m)
        /\ Ranked(w, m) \in Int /\ Ranked(w, m - 1) \in Int
    BY <2>1, RankedMirrored, RankedIs
  <2>3. /\ Median2(w) = Ranked(w, m - 1) + Ranked(w, m)
        /\ Median2(Mirrored(w)) = Ranked(Mirrored(w), m - 1) + Ranked(Mirrored(w), m)
    BY <1>1, <1>4 DEF Median2
  <2> QED
    BY <2>2, <2>3
<1> QED
  BY <1>2, <1>3, <1>4

\* The deviations of the image are those of the window, and so is their median.
LEMMA SpreadMirrored ==
    ASSUME NEW w \in Seq(Int), NEW m \in Int
    PROVE  MedianAbsoluteDeviation4(Mirrored(w), -m) = MedianAbsoluteDeviation4(w, m)
<1>1. /\ DOMAIN Mirrored(w) = DOMAIN w
      /\ \A i \in DOMAIN w : w[i] \in Int /\ Mirrored(w)[i] = -w[i]
  BY MirroredIs
<1>2. \A i \in DOMAIN w : Abs(2 * Mirrored(w)[i] - (-m)) = Abs(2 * w[i] - m)
  BY <1>1 DEF Abs
<1>3. [i \in DOMAIN Mirrored(w) |-> Abs(2 * Mirrored(w)[i] - (-m))]
        = [i \in DOMAIN w |-> Abs(2 * w[i] - m)]
  BY <1>1, <1>2
<1> QED
  BY <1>3 DEF MedianAbsoluteDeviation4

\* So the verdict does not depend on which way is up.
THEOREM NoSideTaken == SeriesSpec => []RisesLikeFalls
<1>1. SeriesIInv => RisesLikeFalls
  <2> SUFFICES ASSUME SeriesIInv PROVE RisesLikeFalls
    OBVIOUS
  <2> DEFINE c == [config EXCEPT !.mode = Opposite[@]]
             w == Mirrored(values)
  <2>1. /\ c.warmup = config.warmup /\ c.minMad = config.minMad
        /\ c.thresholdK = config.thresholdK /\ c.minDelta = config.minDelta
        /\ c.mode = Opposite[config.mode] /\ config.mode \in DetectionMode
    BY DEF SeriesIInv, ConfigOK, Defaults
  <2>2. /\ values \in Seq(Int) /\ Len(values) \in Nat /\ Baseline2 \in Int
        /\ Delta \in Int /\ Mad4 \in Int /\ config.minDelta \in Int
        /\ observed = Observed(config, values)
    BY VerdictTypes DEF SeriesIInv, ConfigOK
  <2>3. /\ w \in Seq(Int) /\ Len(w) = Len(values)
        /\ Median2(w) = -Baseline2 /\ MedianAbsoluteDeviation4(w, -Baseline2) = Spread4
    BY <2>2, MirroredIs, MedianMirrored, SpreadMirrored DEF Baseline2, Spread4
  <2> HIDE DEF c, w
  <2>4. CASE ~Warm
    <3>1. Len(values) < config.warmup /\ Len(w) < c.warmup
      BY <2>1, <2>2, <2>3, <2>4 DEF Warm, SeriesIInv, ConfigOK
    <3>2. observed = NotWarm(values) /\ Observed(c, w) = NotWarm(w)
      BY <2>2, <3>1 DEF Observed
    <3>3. /\ observed.baseline2 = 0 /\ observed.lower = 0 /\ observed.upper = 0
          /\ observed.mad4 = 0 /\ observed.size = Len(values) /\ observed.isAnomaly = FALSE
      BY <3>2 DEF NotWarm
    <3>4. -observed.baseline2 = 0 /\ -observed.lower = 0 /\ -observed.upper = 0
      <4>1. /\ observed.baseline2 \in Int /\ observed.lower \in Int /\ observed.upper \in Int
            /\ observed.baseline2 <= 0 /\ observed.lower <= 0 /\ observed.upper <= 0
            /\ observed.baseline2 >= 0 /\ observed.lower >= 0 /\ observed.upper >= 0
        BY <3>3
      <4> QED
        BY <4>1, MinusNothing
    <3>5. NotWarm(w) = [baseline2 |-> 0, mad4 |-> 0, lower |-> 0, upper |-> 0,
                        size |-> Len(values), isAnomaly |-> FALSE]
      BY <2>3 DEF NotWarm
    <3> QED
      BY <3>2, <3>3, <3>4, <3>5 DEF RisesLikeFalls, c, w
  <2>5. CASE Warm
    <3> DEFINE lower == 20000 * Baseline2 - Delta
               upper == 20000 * Baseline2 + Delta
               quiet == Abs(2 * Newest - Baseline2) < 2 * config.minDelta
               breaches == Breaches(config, Newest, lower, upper)
    <3>1. /\ ~ (Len(values) < config.warmup) /\ ~ (Len(w) < c.warmup)
          /\ Newest \in Int /\ w[Len(w)] = -Newest
      <4>1. Newest \in Int /\ Len(values) >= 1 /\ ~ (Len(values) < config.warmup)
        BY <2>2, <2>5, NewestType DEF Warm, SeriesIInv, ConfigOK
      <4>2. w[Len(values)] = -values[Len(values)]
        BY <2>2, <4>1, MirroredIs DEF w
      <4> QED
        BY <2>1, <2>3, <4>1, <4>2 DEF Newest
    <3>2. observed = [baseline2 |-> Baseline2, mad4 |-> Mad4, lower |-> lower, upper |-> upper,
                      size |-> Len(values), isAnomaly |-> ~quiet /\ breaches]
      BY <2>2, <3>1 DEF Observed, Baseline2, Spread4, Mad4, Delta, Newest
    <3> DEFINE lowerM == 20000 * (-Baseline2) - Delta
               upperM == 20000 * (-Baseline2) + Delta
               quietM == Abs(2 * (-Newest) - (-Baseline2)) < 2 * config.minDelta
               breachesM == Breaches(c, -Newest, lowerM, upperM)
    <3>3. Observed(c, w)
            = [baseline2 |-> -Baseline2, mad4 |-> Mad4, lower |-> lowerM, upper |-> upperM,
               size |-> Len(values), isAnomaly |-> ~quietM /\ breachesM]
      BY <2>1, <2>3, <3>1 DEF Observed, Spread4, Mad4, Delta
    <3>4. lowerM = -upper /\ upperM = -lower
      BY <2>2
    <3>5. quietM <=> quiet
      BY <2>2, <3>1 DEF Abs
    <3>6. breachesM <=> breaches
      <4>1. /\ (40000 * (-Newest) > upperM) <=> (40000 * Newest < lower)
            /\ (40000 * (-Newest) < lowerM) <=> (40000 * Newest > upper)
        BY <2>2, <3>1
      <4> HIDE DEF lower, upper, lowerM, upperM
      <4>2. CASE config.mode = "MODE_UP"
        BY <2>1, <4>1, <4>2 DEF Opposite, Breaches
      <4>3. CASE config.mode = "MODE_DOWN"
        BY <2>1, <4>1, <4>3 DEF Opposite, Breaches
      <4>4. CASE config.mode = "MODE_BOTH"
        BY <2>1, <4>1, <4>4 DEF Opposite, Breaches
      <4> QED
        BY <2>1, <4>2, <4>3, <4>4 DEF DetectionMode
    <3>7. (~quietM /\ breachesM) = (~quiet /\ breaches)
      <4> HIDE DEF quiet, quietM, breaches, breachesM
      <4> QED
        BY <3>5, <3>6, Zenon
    <3> HIDE DEF lower, upper, lowerM, upperM, quiet, quietM, breaches, breachesM
    <3>8. /\ observed.baseline2 = Baseline2 /\ observed.mad4 = Mad4
          /\ observed.lower = lower /\ observed.upper = upper
          /\ observed.size = Len(values) /\ observed.isAnomaly = (~quiet /\ breaches)
      BY <3>2
    <3> QED
      BY <3>3, <3>4, <3>7, <3>8 DEF RisesLikeFalls, c, w
  <2> QED
    BY <2>4, <2>5
<1> QED
  BY <1>1, SeriesInvariance, PTL

-----------------------------------------------------------------------------
(* MADSeries: the other theorems *)

\* The baseline cannot leave an interval that most of the window lies in.
THEOREM RobustBaseline == SeriesSpec => []BaselineIsRobust
<1>1. SeriesIInv => BaselineIsRobust
  <2> SUFFICES ASSUME SeriesIInv, Warm, NEW lo \in Value, NEW hi \in Value,
                      2 * Cardinality(Within(values, lo, hi)) > Len(values)
               PROVE  observed.baseline2 \in 2 * lo .. 2 * hi
    BY DEF BaselineIsRobust, Within
  <2>1. values \in Seq(Int) /\ lo \in Int /\ hi \in Int
    BY VerdictTypes, MADAssumption
  <2>2. Median2(values) \in 2 * lo .. 2 * hi
    BY <2>1, MedianBetween
  <2> QED
    BY <2>2, WarmVerdict DEF Baseline2
<1> QED
  BY <1>1, SeriesInvariance, PTL

\* A value that came for more than half a window in a row is the baseline.
THEOREM AbsorbedLevelShift == SeriesSpec => []LevelShiftAbsorbed
<1>1. SeriesIInv => LevelShiftAbsorbed
  <2> SUFFICES ASSUME SeriesIInv, 2 * streak > config.windowSize, Warm
               PROVE  ~observed.isAnomaly
    BY ColdVerdict DEF LevelShiftAbsorbed
  <2> DEFINE n == Len(values)
  <2>1. /\ values \in Seq(Int) /\ Newest \in Int /\ n \in Nat /\ n >= 1
        /\ Baseline2 \in Int /\ Delta \in Int /\ Delta > 0
    BY VerdictTypes, NewestType
  <2>2. /\ streak \in 1 .. n /\ 2 * streak > n
        /\ \A i \in n - streak + 1 .. n : values[i] \in Newest .. Newest
    <3>1. /\ streak \in 0 .. n /\ config.windowSize \in Nat /\ n <= config.windowSize
          /\ \A i \in 1 .. n : i > n - streak => values[i] = Newest
      BY DEF SeriesIInv, StreakInv, ConfigOK
    <3>2. streak \in 1 .. n /\ 2 * streak > n
      BY <2>1, <3>1
    <3> QED
      BY <2>1, <3>1, <3>2
  <2>3. 2 * Cardinality(Within(values, Newest, Newest)) > n
    <3>1. n - streak + 1 \in 1 .. n /\ n \in 1 .. n /\ n - streak + 1 <= n
      BY <2>1, <2>2
    <3>2. Cardinality(Within(values, Newest, Newest)) >= n - (n - streak + 1) + 1
      BY <2>1, <2>2, <3>1, WithinInterval
    <3>3. Cardinality(Within(values, Newest, Newest)) \in Nat
      <4>1. Within(values, Newest, Newest) \in SUBSET DOMAIN values
        BY DEF Within
      <4> QED
        BY <2>1, <4>1, Places
    <3> QED
      BY <2>1, <2>2, <3>2, <3>3
  <2>4. Baseline2 = 2 * Newest
    <3>1. Median2(values) \in 2 * Newest .. 2 * Newest
      BY <2>1, <2>3, MedianBetween
    <3> QED
      BY <2>1, <3>1 DEF Baseline2
  <2> QED
    BY <2>1, <2>4, WarmVerdict
<1> QED
  BY <1>1, SeriesInvariance, PTL

\* The threshold in the event of an anomaly is the one the value crossed.
THEOREM CrossedThreshold == SeriesSpec => []StoredThresholdIsCrossed
<1>1. SeriesIInv => StoredThresholdIsCrossed
  <2> SUFFICES ASSUME SeriesIInv, observed.isAnomaly
               PROVE  LET threshold == ThresholdToStore(Newest, observed)
                          baseline  == 20000 * observed.baseline2
                          value     == 40000 * Newest
                      IN  \/ baseline < threshold /\ threshold < value
                          \/ value < threshold /\ threshold < baseline
    BY DEF StoredThresholdIsCrossed
  <2>1. Warm
    BY ColdVerdict
  <2>2. /\ Newest \in Int /\ Baseline2 \in Int /\ Delta \in Int /\ Delta > 0
        /\ observed.baseline2 = Baseline2
        /\ observed.lower = 20000 * Baseline2 - Delta
        /\ observed.upper = 20000 * Baseline2 + Delta
        /\ \/ 40000 * Newest > 20000 * Baseline2 + Delta
           \/ 40000 * Newest < 20000 * Baseline2 - Delta
    BY <2>1, NewestType, VerdictTypes, WarmVerdict
  <2> QED
    BY <2>2 DEF ThresholdToStore
<1> QED
  BY <1>1, SeriesInvariance, PTL

\* The spread as it enters the thresholds.
Scaled(k, spread) == k * 14826 * spread

\* Most values of the window lie between lo and hi.
MostBetween(lo, hi) == 2 * Cardinality(Within(values, lo, hi)) > Len(values)

\* The baseline lies between lo and hi too, the spread is at most their distance.
BaselineBetween(lo, hi) ==
    /\ lo <= hi
    /\ Baseline2 \in 2 * lo .. 2 * hi
    /\ Spread4 \in 0 .. 4 * (hi - lo)

\* The wider the spread, the wider the thresholds.
LEMMA WiderSpread ==
    ASSUME NEW k \in Nat, NEW x \in Nat, NEW y \in Nat, x <= 4 * y
    PROVE  Scaled(k, x) <= 4 * Scaled(k, y)
<1>1. /\ k * x \in Nat /\ k * y \in Nat
      /\ k * (4 * y - x) \in Nat /\ k * (4 * y - x) = 4 * (k * y) - k * x
  <2>1. 4 * y - x \in Nat
    OBVIOUS
  <2> QED
    BY <2>1
<1>2. k * 14826 * x = 14826 * (k * x) /\ k * 14826 * y = 14826 * (k * y)
  OBVIOUS
<1> QED
  BY <1>1, <1>2 DEF Scaled

\* When most values lie between lo and hi, so does the baseline, and the spread
\* is at most their distance.
LEMMA SpreadOfMost ==
    ASSUME SeriesIInv, Warm, NEW lo \in Int, NEW hi \in Int, MostBetween(lo, hi)
    PROVE  BaselineBetween(lo, hi)
<1> DEFINE n == Len(values)
           d == [i \in DOMAIN values |-> Abs(2 * values[i] - Baseline2)]
           top == 2 * (hi - lo)
<1>1. /\ values \in Seq(Int) /\ n \in Nat /\ Baseline2 \in Int
      /\ 2 * Cardinality(Within(values, lo, hi)) > n
  BY VerdictTypes DEF MostBetween
<1>2. Cardinality(Within(values, lo, hi)) \in Nat /\ IsFiniteSet(Within(values, lo, hi))
  <2>1. Within(values, lo, hi) \in SUBSET DOMAIN values
    BY DEF Within
  <2> QED
    BY <1>1, <2>1, Places
<1>3. lo <= hi
  <2>1. Within(values, lo, hi) # {}
    BY <1>1, <1>2, FS_EmptySet
  <2>2. PICK i \in DOMAIN values : values[i] \in lo .. hi
    BY <2>1 DEF Within
  <2>3. values[i] \in Int
    BY <1>1, <2>2
  <2> QED
    BY <2>2, <2>3
<1>4. Baseline2 \in 2 * lo .. 2 * hi
  <2>1. Median2(values) \in 2 * lo .. 2 * hi
    BY <1>1, MedianBetween
  <2> QED
    BY <2>1 DEF Baseline2
<1>5. /\ d \in Seq(Int) /\ Len(d) = n
      /\ \A i \in 1 .. n : d[i] = Abs(2 * values[i] - Baseline2)
  BY <1>1, Deviations
<1>6. Within(values, lo, hi) \subseteq Within(d, 0, top)
  <2> SUFFICES ASSUME NEW i \in Within(values, lo, hi) PROVE i \in Within(d, 0, top)
    OBVIOUS
  <2>1. i \in 1 .. n /\ values[i] \in lo .. hi /\ values[i] \in Int
    BY <1>1 DEF Within
  <2>2. d[i] = Abs(2 * values[i] - Baseline2) /\ i \in DOMAIN d
    BY <1>5, <2>1
  <2> HIDE DEF d
  <2>3. d[i] \in 0 .. 2 * (hi - lo)
    BY <1>3, <1>4, <2>1, <2>2 DEF Abs
  <2> QED
    BY <2>2, <2>3 DEF Within
<1> HIDE DEF d, top
<1>7. Median2(d) \in 2 * 0 .. 2 * top
  <2>1. Within(d, 0, top) \in SUBSET DOMAIN d
    BY DEF Within
  <2>2. IsFiniteSet(Within(d, 0, top)) /\ Cardinality(Within(d, 0, top)) \in Nat
    BY <1>5, <2>1, Places
  <2>3. Cardinality(Within(values, lo, hi)) <= Cardinality(Within(d, 0, top))
    BY <1>6, <2>2, FS_Subset
  <2>4. 2 * Cardinality(Within(d, 0, top)) > Len(d)
    BY <1>1, <1>2, <1>5, <2>2, <2>3
  <2>5. 0 \in Int /\ top \in Int
    BY DEF top
  <2> QED
    BY <1>5, <2>4, <2>5, MedianBetween
<1>8. Spread4 = Median2(d)
  BY DEF Spread4, MedianAbsoluteDeviation4, d
<1>9. 2 * 0 = 0 /\ 2 * top = 4 * (hi - lo)
  BY DEF top
<1>10. Spread4 \in 0 .. 4 * (hi - lo)
  BY <1>7, <1>8, <1>9
<1> QED
  BY <1>3, <1>4, <1>10 DEF BaselineBetween

\* A value far outside of where most values lie cannot hide itself, nor be hidden
\* by other such values: a minority moves neither the baseline nor the spread
\* beyond what the majority allows.
THEOREM NoMasking == SeriesSpec => []SpikeStandsOut
<1>1. ASSUME SeriesIInv, Warm, NEW lo \in Value, NEW hi \in Value
      PROVE  LET spread == IF hi - lo < config.minMad THEN config.minMad ELSE hi - lo
                 far == config.thresholdK * 14826 * spread
                 Beyond(distance) == 10000 * distance > far /\ distance >= config.minDelta
                 BeyondMost == \/ Upward /\ Beyond(Newest - hi)
                               \/ Downward /\ Beyond(lo - Newest)
                 Most == {i \in DOMAIN values : values[i] \in lo .. hi}
             IN  2 * Cardinality(Most) > Len(values) /\ BeyondMost => observed.isAnomaly
  <2> DEFINE spread == IF hi - lo < config.minMad THEN config.minMad ELSE hi - lo
             far == config.thresholdK * 14826 * spread
  <2> SUFFICES ASSUME MostBetween(lo, hi),
                      \/ /\ Upward /\ 10000 * (Newest - hi) > far
                         /\ Newest - hi >= config.minDelta
                      \/ /\ Downward /\ 10000 * (lo - Newest) > far
                         /\ lo - Newest >= config.minDelta
               PROVE  observed.isAnomaly
    BY DEF MostBetween, Within
  <2>1. /\ lo \in Int /\ hi \in Int /\ Baseline2 \in Int /\ Spread4 \in Int
        /\ Newest \in Int /\ Delta \in Int /\ Delta > 0
    BY <1>1, MADAssumption, VerdictTypes, NewestType
  <2>2. lo <= hi /\ Baseline2 \in 2 * lo .. 2 * hi /\ Spread4 \in 0 .. 4 * (hi - lo)
    <3>1. lo \in Int /\ hi \in Int
      BY <2>1
    <3>2. BaselineBetween(lo, hi)
      BY <1>1, <3>1, SpreadOfMost
    <3> QED
      BY <3>2 DEF BaselineBetween
  <2>3. /\ config.minMad \in Nat /\ config.minDelta \in Nat
        /\ config.thresholdK \in Nat
    BY <1>1 DEF SeriesIInv, ConfigOK
  <2>4. spread \in Nat /\ Mad4 \in Nat /\ Mad4 <= 4 * spread
    BY <2>1, <2>2, <2>3, SMTT(60) DEF Mad4
  <2> HIDE DEF spread
  <2>5. Delta <= 4 * far /\ far \in Int
    <3>1. config.thresholdK * 14826 * Mad4 <= 4 * (config.thresholdK * 14826 * spread)
      <4>1. Scaled(config.thresholdK, Mad4) <= 4 * Scaled(config.thresholdK, spread)
        <5>1. spread \in Nat /\ Mad4 \in Nat /\ Mad4 <= 4 * spread
          BY <2>4
        <5>2. config.thresholdK \in Nat
          BY <2>3
        <5> QED
          BY <5>1, <5>2, WiderSpread
      <4> QED
        BY <4>1 DEF Scaled
    <3>2. config.thresholdK * 14826 * spread \in Int
      BY <2>3, <2>4
    <3> QED
      BY <3>1, <3>2 DEF Delta
  <2> HIDE DEF far
  <2>6. ASSUME Upward, 10000 * (Newest - hi) > far, Newest - hi >= config.minDelta
        PROVE  observed.isAnomaly
    <3>1. 40000 * Newest > 20000 * Baseline2 + Delta
      BY <2>1, <2>2, <2>5, <2>6
    <3>2. ~ (Abs(2 * Newest - Baseline2) < 2 * config.minDelta)
      BY <2>1, <2>2, <2>3, <2>6 DEF Abs
    <3> QED
      BY <1>1, <2>6, <3>1, <3>2, WarmVerdict
  <2>7. ASSUME Downward, 10000 * (lo - Newest) > far, lo - Newest >= config.minDelta
        PROVE  observed.isAnomaly
    <3>1. 40000 * Newest < 20000 * Baseline2 - Delta
      BY <2>1, <2>2, <2>5, <2>7
    <3>2. ~ (Abs(2 * Newest - Baseline2) < 2 * config.minDelta)
      BY <2>1, <2>2, <2>3, <2>7 DEF Abs
    <3> QED
      BY <1>1, <2>7, <3>1, <3>2, WarmVerdict
  <2> QED
    BY <2>6, <2>7
<1>2. SeriesIInv => SpikeStandsOut
  BY <1>1 DEF SpikeStandsOut
<1> QED
  BY <1>2, SeriesInvariance, PTL
=============================================================================
