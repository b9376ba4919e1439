------------------------------ MODULE MCIngest ------------------------------
(***************************************************************************)
(* Small instances of Ingest: two replicas, three or four messages, one of *)
(* them invalid.                                                           *)
(***************************************************************************)
EXTENDS Ingest
=============================================================================
