------------------------------ MODULE MCIngress ------------------------------
(* Small instances of Ingress.                                              *)
EXTENDS Ingress

CONSTANTS feeder, debug

TwoClients == {feeder, debug}
MCDebugClient == {debug}
=============================================================================
