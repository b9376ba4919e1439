-------------------------- MODULE StoreAndForward --------------------------
(***************************************************************************)
(* What the edge agent promises of a reading it has spooled (spool.rs,     *)
(* "Redelivery is cheaper than loss"; pipeline.rs, drain): it stays        *)
(* pending until the event bus has it or until it is the oldest one and    *)
(* space runs out; it may be sent again, it is not forgotten.              *)
(***************************************************************************)
EXTENDS Naturals

VARIABLES
    accepted,   \* how many records have been spooled, ever
    pending,    \* the records still to be sent
    stream,     \* the records the event bus has stored
    discarded   \* the records given up for space

vars == <<accepted, pending, stream, discarded>>

(* S is a part of pending that holds everything older than its members. *)
OldestPart(S) ==
    /\ S \subseteq pending
    /\ \A r \in S : \A q \in pending : q < r => q \in S

Init ==
    /\ accepted = 0
    /\ pending = {} /\ stream = {} /\ discarded = {}

Accept ==
    /\ accepted' = accepted + 1
    /\ pending' = pending \cup {accepted'}
    /\ UNCHANGED <<stream, discarded>>

(* An attempt to send reaches the bus in part or in full; it settles       *)
(* either nothing or the oldest part of what is pending, all of it stored. *)
Send ==
    /\ stream \subseteq stream'
    /\ stream' \subseteq stream \cup pending
    /\ OldestPart(pending \ pending')
    /\ pending' \subseteq pending
    /\ pending \ pending' \subseteq stream'
    /\ UNCHANGED <<accepted, discarded>>

(* The oldest records are given up, never the newest one. *)
Discard ==
    /\ OldestPart(pending \ pending')
    /\ pending' \subseteq pending
    /\ discarded \subseteq discarded'
    /\ pending \ pending' \subseteq discarded'
    /\ discarded' \subseteq 1..(accepted - 1)
    /\ UNCHANGED <<accepted, stream>>

(* A restart forgets that some records were sent. *)
Replay ==
    /\ pending \subseteq pending'
    /\ pending' \ pending \subseteq stream
    /\ UNCHANGED <<accepted, stream, discarded>>

Next == Accept \/ Send \/ Discard \/ Replay

Spec == Init /\ [][Next]_vars
=============================================================================
