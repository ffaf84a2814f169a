----------------------------- MODULE MCMLPredict -----------------------------
(* A small instance of MLPredict.                                           *)
EXTENDS MLPredict

\* A metric of each verdict, and one of each other shape.
MCPayload ==
    {[shape |-> "metric", degraded |-> TRUE]}
        \cup [shape : Shape, degraded : {FALSE}]
=============================================================================
