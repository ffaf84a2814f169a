------------------------------ MODULE ReadModel ------------------------------
(***************************************************************************)
(* What the projection of read-service promises to those who query it, as  *)
(* said in the comment above Project (projector.go): an event is recorded  *)
(* at most once, its record is immutable, and the state of its series      *)
(* changes in the same step.                                               *)
(***************************************************************************)
EXTENDS Naturals, Sequences

CONSTANTS
    Series,  \* source, metric name, environment and region of an event
    Event,   \* records with at least the fields key and series
    NoEvent  \* the state of a series that had no event

VARIABLES
    log,     \* the recorded events (anomaly_events), in commit order
    current  \* the state of each series (series_state)

Recorded(key) == \E i \in 1 .. Len(log) : log[i].key = key

Init ==
    /\ log = <<>>
    /\ current = [s \in Series |-> NoEvent]

Record(e) ==
    /\ ~Recorded(e.key)
    /\ log' = Append(log, e)
    /\ current' = [current EXCEPT ![e.series] = e]

Next == \E e \in Event : Record(e)

Spec == Init /\ [][Next]_<<log, current>>
=============================================================================
