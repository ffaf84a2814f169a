----------------------------- MODULE MCDetector -----------------------------
(* Two callers of Observe and the cleanup worker, on one series.            *)
EXTENDS Detector

CONSTANTS g1, g2, s1

TwoObservers == {g1, g2}
OneSeries == {s1}
=============================================================================
