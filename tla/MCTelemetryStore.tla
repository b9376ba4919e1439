-------------------------- MODULE MCTelemetryStore --------------------------
(***************************************************************************)
(* A small instance of TelemetryStore: two replicas and two connectors,    *)
(* which are interchangeable.                                              *)
(***************************************************************************)
EXTENDS TelemetryStore

Symmetric == Permutations(Connectors) \cup Permutations(Replicas)
=============================================================================
