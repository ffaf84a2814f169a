----------------------------- MODULE MCQueryApi -----------------------------
(* Small instances of QueryApi.                                             *)
EXTENDS QueryApi

CONSTANTS s1, s2

MCSeries == {s1, s2}
MCBarred == {}
MCSlashed == {s2}

\* Everything; and one series from a time on, so that some rows do not match.
MCFilter ==
    { [from |-> Null, to |-> Null, series |-> Null],
      [from |-> 2, to |-> 4, series |-> s1] }

\* Integers of four bits, -8 .. 7: the conversion makes 0 of 16, and leaves 7,
\* which is too many.
MCRawLimit == {7, 16}
=============================================================================
