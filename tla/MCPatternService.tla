-------------------------- MODULE MCPatternService --------------------------
(* Small instances of PatternService.                                       *)
EXTENDS PatternService

CONSTANTS s1, s2

MCSeries == {s1, s2}
MCValue == {0, 9}

\* A window of three values, and three to be warm: <<0, 0, 9>> is a breach,
\* <<0, 9, 9>> is not.
MCEnvironment ==
    [windowSize |-> 3, warmup |-> 3, thresholdK |-> 1, mode |-> "MODE_BOTH",
     minMad |-> 1, minDelta |-> 0]

MetricOf(s, v) == [shape |-> "metric", series |-> s, value |-> v]
MalformedOf(s) == [shape |-> "malformed", series |-> s, value |-> 0]
UnnamedOf(s, v) == [shape |-> "unnamed", series |-> s, value |-> v]

\* One series that breaches; its spike comes also without a name.
OneSeriesPayload ==
    {MetricOf(s1, 0), MetricOf(s1, 9), UnnamedOf(s1, 9), MalformedOf(s1)}

\* The same, with values of another series in between.
TwoSeriesPayload == OneSeriesPayload \cup {MetricOf(s2, 0)}
=============================================================================
