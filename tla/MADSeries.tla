------------------------------ MODULE MADSeries ------------------------------
(***************************************************************************)
(* One series of pattern-service's MADDetector: a detector made in any     *)
(* environment, and the values that Observe is called with, one after    *)
(* the other.  How several goroutines share the windows is in Detector.    *)
(***************************************************************************)
EXTENDS MADRule

CONSTANTS
    Environment,  \* the environments that pattern-service may be started in
    Value         \* metric values

\* What is parsed of a variable is a number, except for the mode.
ASSUME MADAssumption ==
    /\ Value \subseteq Int
    /\ \A e \in Environment :
          \A name \in DOMAIN e \cap DOMAIN Defaults : name # "mode" => e[name] \in Int

VARIABLES
    config,    \* detector.config
    values,    \* the window of the series
    observed,  \* what the last Observe returned
    streak     \* history: how often in a row the newest value came, up to the
               \* size of the window

seriesVars == <<config, values, observed, streak>>

SeriesInit ==
    /\ config \in {NewMADDetector(Load(e)) : e \in Environment}
    /\ values = <<>>
    /\ observed = NotWarm(<<>>)
    /\ streak = 0

Continues(v) == values # <<>> /\ values[Len(values)] = v

ObserveValue(v) ==
    /\ values' = WindowAppend(config, values, v)
    /\ observed' = Observed(config, values')
    /\ streak' = IF ~Continues(v) THEN 1
                 ELSE IF streak < config.windowSize THEN streak + 1 ELSE streak
    /\ UNCHANGED config

SeriesNext == \E v \in Value : ObserveValue(v)

SeriesSpec == SeriesInit /\ [][SeriesNext]_seriesVars

-----------------------------------------------------------------------------
(* Properties *)

Warm == Len(values) >= config.warmup
Newest == values[Len(values)]
Upward == config.mode # "MODE_DOWN"
Downward == config.mode \in {"MODE_DOWN", "MODE_BOTH"}

\* "Baseline is robust median" (mad_detector.go:118): values that more than
\* half of the window lies between cannot be left by the baseline, however
\* far out the others are.
BaselineIsRobust ==
    Warm => \A lo, hi \in Value :
        2 * Cardinality({i \in DOMAIN values : values[i] \in lo .. hi}) > Len(values)
            => observed.baseline2 \in 2 * lo .. 2 * hi

Mirrored(window) == [i \in DOMAIN window |-> -window[i]]

Opposite == [MODE_UP |-> "MODE_DOWN", MODE_DOWN |-> "MODE_UP", MODE_BOTH |-> "MODE_BOTH"]

\* Falls are judged like rises, by a median that takes no side: the mirror image
\* of a window, by a detector of the opposite mode, has the mirrored baseline and
\* thresholds, the same spread, and the same verdict.
RisesLikeFalls ==
    Observed([config EXCEPT !.mode = Opposite[@]], Mirrored(values))
        = [baseline2 |-> -observed.baseline2, mad4 |-> observed.mad4,
           lower |-> -observed.upper, upper |-> -observed.lower,
           size |-> observed.size, isAnomaly |-> observed.isAnomaly]

\* A lasting change of level is taken for the new baseline: a value that came
\* for more than half a window in a row is no anomaly any more.
LevelShiftAbsorbed == 2 * streak > config.windowSize => ~observed.isAnomaly

\* No masking: when most values of the window lie between lo and hi, a newest
\* value further out than K sigmas of the widest spread they allow, and than
\* MinDelta, is an anomaly in the directions of the mode, whatever the others
\* are: copies of itself, say, of a metric that was delivered again.
SpikeStandsOut ==
    Warm =>
        \A lo, hi \in Value :
            LET spread == IF hi - lo < config.minMad THEN config.minMad ELSE hi - lo
                far == config.thresholdK * 14826 * spread
                Beyond(distance) == 10000 * distance > far /\ distance >= config.minDelta
                BeyondMost == \/ Upward /\ Beyond(Newest - hi)
                              \/ Downward /\ Beyond(lo - Newest)
                Most == {i \in DOMAIN values : values[i] \in lo .. hi}
            IN  2 * Cardinality(Most) > Len(values) /\ BeyondMost => observed.isAnomaly

\* The event of an anomaly carries the threshold that was crossed: it lies
\* strictly between the baseline and the value.
StoredThresholdIsCrossed ==
    observed.isAnomaly =>
        LET threshold == ThresholdToStore(Newest, observed)
            baseline  == 20000 * observed.baseline2
            value     == 40000 * Newest
        IN  \/ baseline < threshold /\ threshold < value
            \/ value < threshold /\ threshold < baseline
=============================================================================
