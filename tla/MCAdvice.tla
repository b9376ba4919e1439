------------------------------ MODULE MCAdvice ------------------------------
(* Three connectors at one site, with power in units of 100 W that round   *)
(* keeps to multiples of 200 W.                                            *)
EXTENDS Advice

MCConnectors == 1..3
MCRequests == {-4, 0, 8, 17, 30, 61}
MCLoads == {0, 20, 55, 74, 90, 140}
MCAges == {-1, 3, 4}
=============================================================================
