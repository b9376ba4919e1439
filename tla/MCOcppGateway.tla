---------------------------- MODULE MCOcppGateway ---------------------------
(***************************************************************************)
(* Small instances of OcppGateway: two transactions on one connector, the  *)
(* second of which may start before the stop of the first is accepted.     *)
(***************************************************************************)
EXTENDS OcppGateway

MCConnectorOf == [t \in Transactions |-> 1]
MCSessions == 1..MaxId
=============================================================================
