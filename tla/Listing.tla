------------------------------- MODULE Listing -------------------------------
(***************************************************************************)
(* Walking a listing of the API page by page (httpapi listStations and     *)
(* listSessions over store ListStations and ListSessions) while rows       *)
(* appear and sessions close between the pages.  A row is its key's place  *)
(* in the order of the keys.  Stations never close; the station filter of  *)
(* a session listing selects a table of its own and is left out.           *)
(***************************************************************************)
EXTENDS Integers, FiniteSets, SequencesExt

CONSTANTS
    Keys,              \* the keys of the rows that may come into being
    Requests,          \* the limits asked for, 0 when none is
    DefaultPageLimit, MaxPageLimit

ASSUME ListingAssumption ==
    /\ Keys \subseteq Nat \ {0} /\ Requests \subseteq Nat
    /\ DefaultPageLimit \in 1..MaxPageLimit

VARIABLES
    rows, open,     \* the rows of the table; those with stopped_at NULL
    limit,          \* the limit parameter of the walk
    openOnly,       \* its open parameter
    after,          \* the cursor of the next request; 0 is ''
    walk,           \* "ready", "walking" or "done"
    seen,           \* the keys received
    steady          \* the rows that have matched since the walk began

query == <<limit, openOnly>>
vars == <<rows, open, limit, openOnly, after, walk, seen, steady>>

Init ==
    /\ rows \in SUBSET Keys /\ open \in SUBSET rows
    /\ limit \in Requests /\ openOnly \in BOOLEAN
    /\ after = 0 /\ walk = "ready" /\ seen = << >> /\ steady = {}

Matching == IF openOnly THEN open ELSE rows

(* A new session or station; keys are not issued in order. *)
insert(k) ==
    /\ k \notin rows
    /\ rows' = rows \cup {k} /\ open' = open \cup {k}
    /\ UNCHANGED <<query, after, walk, seen, steady>>

close(k) ==
    /\ k \in open
    /\ open' = open \ {k}
    /\ steady' = IF openOnly THEN steady \ {k} ELSE steady
    /\ UNCHANGED <<rows, query, after, walk, seen>>

-----------------------------------------------------------------------------
(* Mutant: a large limit is clamped by the query alone. *)
pageFrom_unclamped == IF limit = 0 THEN DefaultPageLimit ELSE limit

Normalize(n) == IF n <= 0 THEN DefaultPageLimit
                ELSE IF n > MaxPageLimit THEN MaxPageLimit ELSE n

pageFrom == Normalize(limit)

(* Mutant: the cursor's own row is part of the next page. *)
Following_inclusive == {k \in Matching : k >= after}

Following == {k \in Matching : k > after}

(* ORDER BY the key LIMIT n *)
page == {k \in Following :
            Cardinality({j \in Following : j < k}) < Normalize(pageFrom)}

(* The response names a cursor when the page is full. *)
Next_token(n) == n = pageFrom

(* Mutant: a page without rows is an error. *)
request_of_some ==
    /\ walk # "done" /\ page # {}
    /\ LET received == SetToSortSeq(page, <)
       IN  /\ seen' = seen \o received
           /\ IF Next_token(Len(received))
              THEN walk' = "walking" /\ after' = Last(received)
              ELSE walk' = "done" /\ UNCHANGED after
    /\ steady' = IF walk = "ready" THEN Matching ELSE steady
    /\ UNCHANGED <<rows, open, query>>

request ==
    /\ walk # "done"
    /\ LET received == SetToSortSeq(page, <)
       IN  /\ seen' = seen \o received
           /\ IF Next_token(Len(received))
              THEN walk' = "walking" /\ after' = Last(received)
              ELSE walk' = "done" /\ UNCHANGED after
    /\ steady' = IF walk = "ready" THEN Matching ELSE steady
    /\ UNCHANGED <<rows, open, query>>

Next == request \/ \E k \in Keys : insert(k) \/ close(k)

Spec == Init /\ [][Next]_vars /\ WF_vars(request)

-----------------------------------------------------------------------------
(* A completed walk has shown every row that matched from beginning to     *)
(* end, whatever appeared or closed meanwhile and whatever limit was asked *)
(* for: the page is compared with the limit that was applied, not with the *)
(* one requested (pageFrom, Normalize).                                    *)
NothingSkipped == walk = "done" => steady \subseteq ToSet(seen)

(* No row is shown twice, and the order of the keys holds across pages. *)
SeenInOrder == \A i, j \in DOMAIN seen : i < j => seen[i] < seen[j]

(* A walk ends, although rows keep appearing. *)
WalkEnds == <>(walk = "done")
=============================================================================
