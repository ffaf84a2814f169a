----------------------------- MODULE MCLifecycle -----------------------------
(* A small instance of Lifecycle.  In the code, with ticks of a second: 5 for *)
(* a call of nats.go; 20 attempts of 1 for pattern-service, 30 of 2 for read- *)
(* service; one attempt for ml, whose connection waits for NATS much longer.  *)
EXTENDS Lifecycle

MCPatience == [metrics |-> 1, pattern |-> 1, read |-> 1, ml |-> 2]
MCMaxAttempts == [pattern |-> 2, read |-> 3, ml |-> 1]
MCDelay == [pattern |-> 1, read |-> 2, ml |-> 0]
=============================================================================
