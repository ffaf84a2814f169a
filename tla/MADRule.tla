------------------------------- MODULE MADRule -------------------------------
(***************************************************************************)
(* pattern-service: what MADDetector computes from the window of a series  *)
(* (mad_detector.go).  Metric values are integers, in a unit small enough. *)
(* To stay in the integers, a median is given times 2, a median absolute   *)
(* deviation times 4, and a threshold times 40000, since the constant      *)
(* 1.4826 has four decimals.  float64 rounding is left out.                *)
(***************************************************************************)
EXTENDS Integers, Sequences, FiniteSets

Abs(n) == IF n < 0 THEN -n ELSE n

-----------------------------------------------------------------------------
(* Config and its defaults *)

DetectionMode == {"MODE_UP", "MODE_DOWN", "MODE_BOTH"}

Defaults ==
    [windowSize |-> 50, warmup |-> 20, thresholdK |-> 3, mode |-> "MODE_BOTH",
     minMad |-> 1, minDelta |-> 10]

\* config.Load: an environment has the variables that are set and can be parsed.
Load(environment) ==
    [name \in DOMAIN Defaults |->
        IF /\ name \in DOMAIN environment
           /\ name = "mode" => environment[name] \in DetectionMode
        THEN environment[name] ELSE Defaults[name]]

\* NewMADDetector replaces what is out of range; warmup fits into a window.
NewMADDetector(config) ==
    LET size   == IF config.windowSize <= 0 THEN 50 ELSE config.windowSize
        warmup == IF config.warmup <= 0 THEN 20 ELSE config.warmup
    IN  [windowSize |-> size,
         warmup     |-> IF warmup > size THEN size ELSE warmup,
         thresholdK |-> IF config.thresholdK <= 0 THEN 6 ELSE config.thresholdK,
         mode       |-> IF config.mode = "" THEN "MODE_UP" ELSE config.mode,
         minMad     |-> IF config.minMad <= 0 THEN 1 ELSE config.minMad,
         minDelta   |-> IF config.minDelta < 0 THEN 0 ELSE config.minDelta]

-----------------------------------------------------------------------------
(* Windows and medians *)

\* Mutant: a full window drops its newest value.
WindowAppendDroppingNewest(config, values, v) ==
    IF Len(values) < config.windowSize THEN Append(values, v) ELSE values

\* Mutant: the window is trimmed one value too early.
WindowAppendTrimmedEarly(config, values, v) ==
    LET longer == Append(values, v)
    IN  IF Len(longer) < config.windowSize THEN longer ELSE Tail(longer)

\* Mutant: the window is trimmed one value too late.
WindowAppendTrimmedLate(config, values, v) ==
    LET longer == Append(values, v)
    IN  IF Len(longer) <= config.windowSize + 1 THEN longer ELSE Tail(longer)

\* slidingWindow.append: a full window drops its oldest value.
WindowAppend(config, values, v) ==
    LET longer == Append(values, v)
    IN  IF Len(longer) <= config.windowSize THEN longer ELSE Tail(longer)

\* The n-th of the values in ascending order.
Ranked(values, n) ==
    CHOOSE v \in {values[i] : i \in DOMAIN values} :
        /\ Cardinality({i \in DOMAIN values : values[i] < v}) < n
        /\ Cardinality({i \in DOMAIN values : values[i] <= v}) >= n

\* Mutant: the median of an even window is the lower of its middle values.
Median2Lower(values) ==
    LET count == Len(values)
    IN  IF count = 0 THEN 0 ELSE 2 * Ranked(values, (count + 1) \div 2)

\* Mutant: the middle of the window, which nobody sorted.
Median2Unsorted(values) ==
    LET count  == Len(values)
        middle == count \div 2 + 1
    IN  IF count = 0 THEN 0
        ELSE IF count % 2 = 1 THEN 2 * values[middle]
        ELSE values[middle - 1] + values[middle]

Median2(values) ==
    LET count  == Len(values)
        middle == count \div 2 + 1
    IN  IF count = 0 THEN 0
        ELSE IF count % 2 = 1 THEN 2 * Ranked(values, middle)
        ELSE Ranked(values, middle - 1) + Ranked(values, middle)

MedianAbsoluteDeviation4(values, median2) ==
    Median2([i \in DOMAIN values |-> Abs(2 * values[i] - median2)])

-----------------------------------------------------------------------------
(* The verdict on the newest value of a window *)

\* Mutant: MODE_BOTH falls into the default case.
BreachesUpward(config, value, lower, upper) ==
    IF config.mode = "MODE_DOWN" THEN 40000 * value < lower ELSE 40000 * value > upper

Breaches(config, value, lower, upper) ==
    LET above == 40000 * value > upper
        below == 40000 * value < lower
    IN  CASE config.mode = "MODE_DOWN" -> below
          [] config.mode = "MODE_BOTH" -> above \/ below
          [] OTHER                     -> above

\* What Observe returns once the value is appended.
NotWarm(values) ==
    [baseline2 |-> 0, mad4 |-> 0, lower |-> 0, upper |-> 0,
     size |-> Len(values), isAnomaly |-> FALSE]

Observed(config, values) ==
    LET value    == values[Len(values)]
        median2  == Median2(values)
        spread4  == MedianAbsoluteDeviation4(values, median2)
        mad4     == IF spread4 < 4 * config.minMad THEN 4 * config.minMad ELSE spread4
        delta    == config.thresholdK * 14826 * mad4
        lower    == 20000 * median2 - delta
        upper    == 20000 * median2 + delta
        deadband == Abs(2 * value - median2) < 2 * config.minDelta
    IN  IF Len(values) < config.warmup THEN NotWarm(values)
        ELSE [baseline2 |-> median2, mad4 |-> mad4, lower |-> lower, upper |-> upper,
              size |-> Len(values),
              isAnomaly |-> ~deadband /\ Breaches(config, value, lower, upper)]

\* Mutant: the comparison with the lower threshold is reversed.
ThresholdToStoreReversed(value, observed) ==
    IF 40000 * value > observed.lower THEN observed.lower ELSE observed.upper

\* Handle: the threshold that goes into the anomaly event.
ThresholdToStore(value, observed) ==
    IF 40000 * value < observed.lower THEN observed.lower ELSE observed.upper
=============================================================================
