----------------------------- MODULE MCProjector -----------------------------
(* Small instances of Projector.                                           *)
EXTENDS Projector

CONSTANTS s1, s2, e1, e2

MCSeries == {s1, s2}
MCEventId == {e1, e2}

(* Two series; the event e1 can be published twice, as a retried publish   *)
(* stores it; e2 is older than e1 and of its series; one V1 event; one     *)
(* malformed payload.                                                      *)
MCPayload ==
    { [shape |-> "envelope",  id |-> e1,   series |-> s1, ts |-> 2],
      [shape |-> "envelope",  id |-> e2,   series |-> s1, ts |-> 1],
      [shape |-> "flat",      id |-> NoId, series |-> s2, ts |-> 1],
      [shape |-> "malformed", id |-> NoId, series |-> s2, ts |-> 1] }
=============================================================================
