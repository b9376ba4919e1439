---------------------------- MODULE MCSiteAdvice ----------------------------
(* A small instance of SiteAdvice.  The replicas share only the stream,    *)
(* which they write and never read, so whatever is published at a site     *)
(* with several replicas one replica can publish while the others wait.    *)
EXTENDS SiteAdvice
=============================================================================
