----------------------------- MODULE MCMADSeries -----------------------------
(* Windows of odd and even sizes, all modes, and environments that          *)
(* Load and NewMADDetector have to complete or repair.                      *)
EXTENDS MADSeries

Usual(size, mode, k) ==
    [windowSize |-> size, warmup |-> 3, thresholdK |-> k, mode |-> mode,
     minMad |-> 1, minDelta |-> 0]

MCEnvironment ==
    {Usual(size, mode, 1) : size \in 3 .. 5, mode \in DetectionMode}
    \cup {[Usual(4, mode, 1) EXCEPT !.minMad = 2, !.minDelta = 4] : mode \in DetectionMode}
    \cup { [windowSize |-> 4],
           [windowSize |-> 4, warmup |-> 0, thresholdK |-> 0, mode |-> "mode_down",
            minMad |-> 0, minDelta |-> -1] }

MCValue == {-12, 0, 1, 3, 12}
=============================================================================
