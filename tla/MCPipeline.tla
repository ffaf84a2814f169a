----------------------------- MODULE MCPipeline -----------------------------
(* A small instance of Pipeline.                                            *)
EXTENDS Pipeline

CONSTANTS s1, s2

MCSeries == {s1, s2}
MCValue == {0, 9, 30}

\* A window of three values, and three to be warm.
MCEnvironment ==
    [windowSize |-> 3, warmup |-> 3, thresholdK |-> 1, mode |-> "MODE_BOTH",
     minMad |-> 1, minDelta |-> 0]

Metric(s, v) == [shape |-> "metric", series |-> s, value |-> v]
Unnamed(s, v) == [shape |-> "unnamed", series |-> s, value |-> v]
Garbled(s, v) == [shape |-> "malformed", series |-> s, value |-> v]

\* Two breaches in a row; a breach that the value of another series would hide
\* if it came into the window; and a breach that cannot be reported, after
\* a metric that cannot be read.
MCWorkloads ==
    {<<Metric(s1, 0), Metric(s1, 0), Metric(s1, 9), Metric(s1, 30)>>,
     <<Metric(s1, 0), Metric(s2, 9), Metric(s1, 0), Metric(s1, 9)>>,
     <<Metric(s1, 0), Metric(s1, 0), Garbled(s1, 9), Unnamed(s1, 9)>>}

MCPayload == UNION {{w[n] : n \in 1 .. Len(w)} : w \in MCWorkloads}
=============================================================================
