------------------------- MODULE SpoolPromiseProofs -------------------------
(***************************************************************************)
(* The spool keeps the promise of StoreAndForward, for every segment size, *)
(* size ceiling, batch size and number of records.  The argument: records  *)
(* lie in the segments in the order of their acceptance, so a cursor parts *)
(* them into older and newer ones, and what lies behind the cursor is on   *)
(* the event bus.                                                          *)
(***************************************************************************)
EXTENDS SpoolProofs, FiniteSetTheorems

USE DEF segments, remove_segment

(* A segment holds records append has written. *)
InRange == \A s \in segments : \A i \in 1..Len(files[s]) : files[s][i] \in 1..accepted

(* Records lie in the order of their acceptance. *)
Increasing ==
    \A s, t \in segments : \A i \in 1..Len(files[s]) : \A j \in 1..Len(files[t]) :
        (s < t \/ (s = t /\ i < j)) => files[s][i] < files[t][j]

(* What the drain has passed and is still on disk is on the event bus. *)
Behind ==
    \A s \in segments : \A i \in 1..Len(files[s]) :
        files[s][i] \in stream \/ Beyond(Position, s, i)

(* While capacity is enforced, the active segment holds the newest record. *)
NewestKept ==
    pc \in {"capacity", "evicted"} =>
        \E i \in 1..Len(files[active]) : files[active][i] = accepted

(* A drain publishes what is pending. *)
BatchPending == pc = "publish" => batch \subseteq Pending

(* Older records than the newest have been given up, oldest first. *)
GivenUp ==
    /\ discarded \subseteq 1..(accepted - 1)
    /\ \A r \in discarded : 1..r \subseteq Settled

Ordered == InRange /\ Increasing /\ Behind /\ NewestKept /\ BatchPending /\ GivenUp

Inv == TypeOK /\ Sound /\ Ordered

-----------------------------------------------------------------------------
(* Unread, as a set made from values, so that it can be used before and    *)
(* after a step.                                                           *)
Reads(F, n, c) ==
    {r \in 1..n : \E s \in DOMAIN F : \E i \in 1..Len(F[s]) :
                      F[s][i] = r /\ Beyond(c, s, i)}

(* Pending, before and after a step. *)
LEMMA PendingIs ==
    /\ Pending = Reads(files, accepted, Position)
    /\ Pending' = Reads(files', accepted', Position')
<1>1. Pending = Reads(files, accepted, Position)
  BY Zenon DEF Pending, Unread, Reads
<1>2. Pending' = Reads(files', accepted', Position')
  BY Zenon DEF Pending, Unread, Reads
<1> QED
  BY <1>1, <1>2

(* What is read stays so when it keeps its place beyond the cursor. *)
LEMMA ReadsKept ==
    ASSUME NEW F, NEW G, NEW n, NEW c, NEW d,
           \A s \in DOMAIN F : \A i \in 1..Len(F[s]) : Beyond(c, s, i) =>
                s \in DOMAIN G /\ G[s] = F[s] /\ Beyond(d, s, i)
    PROVE  Reads(F, n, c) \subseteq Reads(G, n, d)
BY Zenon DEF Reads

(* Positions are numbers. *)
LEMMA Numbers ==
    ASSUME TypeOK
    PROVE  /\ segments \subseteq Nat
           /\ \A s \in segments : Len(files[s]) \in Nat
           /\ Position \in Cursor
           /\ Position.segment \in Nat /\ Position.offset \in Nat
<1>1. Position \in Cursor
  BY LoadType DEF TypeOK, Position
<1>2. \A s \in segments : files[s] \in Seq(Nat)
  BY DEF TypeOK
<1> QED
  BY <1>1, <1>2 DEF TypeOK, Cursor

(* A step that writes no record keeps the order. *)
LEMMA OrderKept ==
    ASSUME InRange, Increasing, accepted' = accepted,
           \A s \in segments' : \A i \in 1..Len(files'[s]) :
                s \in segments /\ files'[s] = files[s]
    PROVE  InRange' /\ Increasing'
<1>1. InRange'
  BY DEF InRange
<1>2. Increasing'
  <2> SUFFICES ASSUME NEW s \in segments', NEW t \in segments',
                      NEW i \in 1..Len(files'[s]), NEW j \in 1..Len(files'[t]),
                      s < t \/ (s = t /\ i < j)
               PROVE  files'[s][i] < files'[t][j]
    BY DEF Increasing
  <2>1. s \in segments /\ files'[s] = files[s] /\ t \in segments /\ files'[t] = files[t]
    OBVIOUS
  <2> QED
    BY <2>1 DEF Increasing
<1> QED
  BY <1>1, <1>2

(* Nothing is pending on an empty directory. *)
LEMMA OrderedInit == Init => Ordered /\ Promise!Init
<1> SUFFICES ASSUME Init PROVE Ordered /\ Promise!Init
  OBVIOUS
<1>1. segments = {} /\ accepted = 0 /\ pc = "idle" /\ stream = {} /\ discarded = {}
  BY DEF Init
<1>2. Pending = {}
  BY <1>1 DEF Pending, Unread
<1>3. Ordered
  BY <1>1 DEF Ordered, InRange, Increasing, Behind, NewestKept, BatchPending, GivenUp
<1> QED
  BY <1>1, <1>2, <1>3 DEF Promise!Init

-----------------------------------------------------------------------------
(* Steps that touch neither records nor the drain's position. *)
LEMMA QuietStep ==
    ASSUME Inv,
           \/ capacity_ok \/ store_evicted_cursor \/ flush_tick \/ read_batch
           \/ drained \/ store_cursor \/ open \/ UNCHANGED vars
    PROVE  Ordered' /\ UNCHANGED <<accepted, Pending, stream, discarded>>
<1>1. /\ files' = files /\ accepted' = accepted
      /\ stream' = stream /\ discarded' = discarded
  BY DEF capacity_ok, store_evicted_cursor, flush_tick, read_batch, drained, store_cursor,
         open, vars, disk, history
<1>2. Position' = Position
  <2>1. CASE capacity_ok \/ store_evicted_cursor \/ flush_tick \/ read_batch
              \/ drained \/ store_cursor
    BY <2>1 DEF Position, capacity_ok, store_evicted_cursor, flush_tick, read_batch, drained,
                store_cursor, memory
  <2>2. CASE open
    BY <2>2 DEF open, Position
  <2>3. CASE UNCHANGED vars
    BY <2>3 DEF vars, Position, load_cursor
  <2> QED
    BY <2>1, <2>2, <2>3
<1>3. Pending' = Pending
  BY <1>1, <1>2, PendingIs
<1>4. InRange' /\ Increasing'
  BY <1>1, OrderKept DEF Inv, Ordered
<1>5. Behind' /\ GivenUp'
  BY <1>1, <1>2 DEF Inv, Ordered, Behind, GivenUp, Settled
<1>6. NewestKept'
  <2>1. CASE store_evicted_cursor \/ UNCHANGED vars
    BY <1>1, <2>1 DEF Inv, Ordered, NewestKept, store_evicted_cursor, vars, memory
  <2>2. CASE pc' \notin {"capacity", "evicted"}
    BY <2>2 DEF NewestKept
  <2> QED
    BY <2>1, <2>2 DEF capacity_ok, flush_tick, read_batch, drained, store_cursor, open
<1>7. BatchPending'
  <2>1. CASE read_batch
    <3>1. batch' \subseteq Unread(cursor) /\ pc = "drain"
      BY <2>1 DEF read_batch, Passed
    <3> QED
      BY <1>3, <3>1 DEF BatchPending, Pending, Position
  <2>2. CASE UNCHANGED vars
    BY <1>3, <2>2 DEF Inv, Ordered, BatchPending, vars
  <2>3. CASE pc' # "publish"
    BY <2>3 DEF BatchPending
  <2> QED
    BY <2>1, <2>2, <2>3 DEF capacity_ok, store_evicted_cursor, flush_tick, drained,
                            store_cursor, open
<1> QED
  BY <1>1, <1>3, <1>4, <1>5, <1>6, <1>7 DEF Ordered

(* Opening a segment moves no record. *)
LEMMA EnsureStep ==
    ASSUME Inv, ensure_active_segment
    PROVE  Ordered' /\ UNCHANGED <<accepted, Pending, stream, discarded>>
<1>1. /\ pc = "idle" /\ pc' = "write" /\ cursor' = cursor /\ accepted' = accepted
      /\ stream' = stream /\ discarded' = discarded
  BY DEF ensure_active_segment, history
<1>2. Position = cursor /\ Position' = cursor
  BY <1>1 DEF Position
<1>3. /\ segments \subseteq segments'
      /\ \A s \in segments : files'[s] = files[s]
      /\ \A s \in segments' : \A i \in 1..Len(files'[s]) : s \in segments /\ files'[s] = files[s]
  <2>1. CASE active = NoSegment \/ Len(files[active]) >= SegmentRecords
    BY <2>1, Rotate DEF Inv
  <2>2. CASE ~(active = NoSegment \/ Len(files[active]) >= SegmentRecords)
    BY <2>2 DEF ensure_active_segment
  <2> QED
    BY <2>1, <2>2
<1>4. Pending' = Pending
  <2>1. Reads(files, accepted, cursor) \subseteq Reads(files', accepted, cursor)
    BY <1>3, ReadsKept
  <2>2. Reads(files', accepted, cursor) \subseteq Reads(files, accepted, cursor)
    BY <1>3, ReadsKept
  <2> QED
    BY <1>1, <1>2, <2>1, <2>2, PendingIs
<1>5. InRange' /\ Increasing'
  BY <1>1, <1>3, OrderKept DEF Inv, Ordered
<1>6. Behind'
  BY <1>1, <1>2, <1>3 DEF Inv, Ordered, Behind
<1>7. NewestKept' /\ BatchPending' /\ GivenUp'
  BY <1>1 DEF Inv, Ordered, NewestKept, BatchPending, GivenUp, Settled
<1> QED
  BY <1>1, <1>4, <1>5, <1>6, <1>7 DEF Ordered

-----------------------------------------------------------------------------
(* The record being written lands beyond the drain's cursor. *)
LEMMA NewPlace ==
    ASSUME Inv, append
    PROVE  Beyond(cursor, active, Len(files[active]) + 1)
<1>1. pc = "write" /\ active \in segments
  BY Written DEF Inv, append
<1>2. /\ Within(cursor) /\ cursor.segment \in Nat /\ cursor.offset \in Nat
      /\ \A s \in segments : s <= active
  BY <1>1 DEF Inv, Sound, Running, TypeOK, Cursor
<1>3. active \in Nat /\ Len(files[active]) \in Nat /\ segments \subseteq Nat
  BY <1>1, Numbers DEF Inv
<1>4. cursor.segment <= active
  <2>1. PICK s \in segments : cursor.segment <= s
    BY <1>2 DEF Within
  <2>2. s \in Nat /\ s <= active
    BY <1>2, <1>3
  <2> QED
    BY <1>2, <1>3, <2>1, <2>2
<1>5. cursor.segment = active => cursor.offset <= Len(files[active])
  BY <1>1, <1>2 DEF Within
<1> QED
  BY <1>2, <1>3, <1>4, <1>5 DEF Beyond

(* Every other record keeps its place. *)
LEMMA Places ==
    ASSUME Inv, append, NEW s \in segments, NEW i \in 1..Len(files'[s])
    PROVE  \/ /\ i \in 1..Len(files[s]) /\ files'[s][i] = files[s][i]
              /\ files[s][i] \in 1..accepted
           \/ s = active /\ i = Len(files[active]) + 1 /\ files'[s][i] = accepted + 1
<1> DEFINE n == Len(files[active])
<1>1. /\ active \in segments /\ Len(files'[active]) = n + 1
      /\ \A k \in 1..n : files'[active][k] = files[active][k]
      /\ files'[active][n + 1] = accepted + 1
      /\ \A t \in segments : t # active => files'[t] = files[t]
  BY Written DEF Inv
<1>2. n \in Nat
  BY <1>1, Numbers DEF Inv
<1> HIDE DEF n
<1>3. CASE s # active
  BY <1>1, <1>3 DEF Inv, Ordered, InRange
<1>4. CASE s = active /\ i # n + 1
  <2>1. i \in 1..n /\ n = Len(files[s])
    BY <1>1, <1>2, <1>4 DEF n
  <2> QED
    BY <1>1, <1>4, <2>1 DEF Inv, Ordered, InRange
<1>5. CASE s = active /\ i = n + 1
  BY <1>1, <1>5 DEF n
<1> QED
  BY <1>3, <1>4, <1>5

(* The record being written goes beyond the cursor and after all others. *)
LEMMA AppendStep ==
    ASSUME Inv, append
    PROVE  Ordered' /\ Promise!Accept
<1> DEFINE a == active
           n == Len(files[active])
<1>1. /\ pc = "write" /\ pc' = "capacity" /\ cursor' = cursor /\ active' = active
      /\ stream' = stream /\ discarded' = discarded
  BY DEF append, memory
<1>2. /\ a \in segments /\ segments' = segments /\ accepted' = accepted + 1
      /\ Len(files'[a]) = n + 1
      /\ \A i \in 1..n : files'[a][i] = files[a][i]
      /\ files'[a][n + 1] = accepted + 1
      /\ \A s \in segments : s # a => files'[s] = files[s]
  BY Written DEF Inv
<1>3. n \in Nat /\ a \in Nat /\ segments \subseteq Nat /\ accepted \in Nat
  BY <1>2, Numbers DEF Inv, TypeOK
<1>4. \A s \in segments : s <= a
  BY <1>1, <1>2 DEF Inv, Sound, Running
<1> HIDE DEF a, n
<1>5. Position = cursor /\ Position' = cursor
  BY <1>1 DEF Position
<1>6. ASSUME NEW s \in segments, NEW i \in 1..Len(files'[s])
      PROVE  \/ i \in 1..Len(files[s]) /\ files'[s][i] = files[s][i] /\ files[s][i] \in 1..accepted
             \/ s = a /\ i = n + 1 /\ files'[s][i] = accepted + 1
  BY Places DEF a, n
<1>7. ASSUME NEW s \in segments, NEW i \in 1..Len(files[s])
      PROVE  i \in 1..Len(files'[s]) /\ files'[s][i] = files[s][i]
  <2>1. CASE s # a
    BY <1>2, <2>1
  <2>2. CASE s = a
    <3>1. n = Len(files[s])
      BY <2>2 DEF n, a
    <3> QED
      BY <1>2, <1>3, <2>2, <3>1
  <2> QED
    BY <2>1, <2>2
<1>8. InRange'
  <2> SUFFICES ASSUME NEW s \in segments', NEW i \in 1..Len(files'[s])
               PROVE  files'[s][i] \in 1..accepted'
    BY DEF InRange
  <2>1. files'[s][i] \in 1..accepted \/ files'[s][i] = accepted + 1
    BY <1>2, <1>6
  <2> QED
    BY <1>2, <1>3, <2>1
<1>9. Increasing'
  <2> SUFFICES ASSUME NEW s \in segments, NEW t \in segments,
                      NEW i \in 1..Len(files'[s]), NEW j \in 1..Len(files'[t]),
                      s < t \/ (s = t /\ i < j)
               PROVE  files'[s][i] < files'[t][j]
    BY <1>2 DEF Increasing
  <2>1. i \in Nat /\ j \in Nat /\ s \in Nat /\ t \in Nat /\ s <= a /\ t <= a
    BY <1>3, <1>4
  <2>2. CASE s = a /\ i = n + 1
    <3>1. t = a /\ j > n + 1
      BY <1>3, <2>1, <2>2
    <3>2. j <= n + 1
      BY <1>2, <3>1
    <3> QED
      BY <1>3, <2>1, <3>1, <3>2
  <2>3. CASE ~(s = a /\ i = n + 1)
    <3>1. i \in 1..Len(files[s]) /\ files'[s][i] = files[s][i] /\ files[s][i] \in 1..accepted
      BY <1>6, <2>3
    <3>2. CASE t = a /\ j = n + 1
      BY <1>2, <1>3, <3>1, <3>2
    <3>3. CASE ~(t = a /\ j = n + 1)
      <4>1. j \in 1..Len(files[t]) /\ files'[t][j] = files[t][j]
        BY <1>6, <3>3
      <4> QED
        BY <3>1, <4>1 DEF Inv, Ordered, Increasing
    <3> QED
      BY <3>2, <3>3
  <2> QED
    BY <2>2, <2>3
<1>10. Beyond(cursor, a, n + 1)
  BY NewPlace DEF a, n
<1>11. Behind'
  <2> SUFFICES ASSUME NEW s \in segments, NEW i \in 1..Len(files'[s])
               PROVE  files'[s][i] \in stream \/ Beyond(cursor, s, i)
    BY <1>1, <1>2, <1>5 DEF Behind
  <2>1. CASE s = a /\ i = n + 1
    BY <1>10, <2>1
  <2>2. CASE i \in 1..Len(files[s]) /\ files'[s][i] = files[s][i]
    BY <1>5, <2>2 DEF Inv, Ordered, Behind
  <2> QED
    BY <1>6, <2>1, <2>2
<1>12. NewestKept'
  <2>1. n + 1 \in 1..Len(files'[a])
    BY <1>2, <1>3
  <2> QED
    BY <1>1, <1>2, <2>1 DEF NewestKept, a
<1>13. BatchPending' /\ GivenUp'
  <2>1. 1..(accepted - 1) \subseteq 1..(accepted' - 1)
    BY <1>2, <1>3
  <2> QED
    BY <1>1, <2>1 DEF Inv, Ordered, BatchPending, GivenUp, Settled
<1>14. Pending' = Pending \cup {accepted'}
  <2>1. ASSUME NEW r \in Pending' PROVE r \in Pending \cup {accepted'}
    <3>1. PICK s \in segments : \E i \in 1..Len(files'[s]) :
                files'[s][i] = r /\ Beyond(cursor, s, i)
      BY <1>2, <1>5, <2>1, PendingIs DEF Reads
    <3>2. PICK i \in 1..Len(files'[s]) : files'[s][i] = r /\ Beyond(cursor, s, i)
      BY <3>1
    <3>3. CASE i \in 1..Len(files[s]) /\ files'[s][i] = files[s][i] /\ files[s][i] \in 1..accepted
      BY <1>5, <3>2, <3>3, PendingIs DEF Reads
    <3>4. CASE files'[s][i] = accepted + 1
      BY <1>2, <3>2, <3>4
    <3> QED
      BY <1>6, <3>3, <3>4
  <2>2. ASSUME NEW r \in Pending PROVE r \in Pending'
    <3>1. PICK s \in segments : \E i \in 1..Len(files[s]) :
                files[s][i] = r /\ Beyond(cursor, s, i)
      BY <1>5, <2>2, PendingIs DEF Reads
    <3>2. PICK i \in 1..Len(files[s]) : files[s][i] = r /\ Beyond(cursor, s, i)
      BY <3>1
    <3>3. r \in 1..accepted' /\ i \in 1..Len(files'[s]) /\ files'[s][i] = r
      BY <1>2, <1>3, <1>7, <2>2, <3>2, PendingIs, SMTT(30) DEF Reads
    <3> QED
      BY <1>2, <1>5, <3>2, <3>3, PendingIs DEF Reads
  <2>3. accepted' \in Pending'
    <3>1. accepted' \in 1..accepted' /\ n + 1 \in 1..Len(files'[a])
      BY <1>2, <1>3
    <3> QED
      BY <1>2, <1>5, <1>10, <3>1, PendingIs DEF Reads
  <2> QED
    BY <2>1, <2>2, <2>3
<1> QED
  BY <1>1, <1>2, <1>8, <1>9, <1>11, <1>12, <1>13, <1>14 DEF Ordered, Promise!Accept

-----------------------------------------------------------------------------
(* A cursor parts the records on disk into older and newer ones. *)
LEMMA Parted ==
    ASSUME TypeOK, Increasing, NEW c \in Cursor,
           NEW s \in segments, NEW i \in 1..Len(files[s]), ~Beyond(c, s, i),
           NEW t \in segments, NEW j \in 1..Len(files[t]), Beyond(c, t, j)
    PROVE  files[s][i] < files[t][j]
<1>1. s \in Nat /\ t \in Nat /\ i \in Nat /\ j \in Nat /\ c.segment \in Nat /\ c.offset \in Nat
  BY Numbers DEF Cursor
<1>2. s < t \/ (s = t /\ i < j)
  BY <1>1 DEF Beyond
<1> QED
  BY <1>2 DEF Increasing

(* A pending record has a place beyond the cursor. *)
LEMMA Placed ==
    ASSUME NEW r \in Pending
    PROVE  \E s \in segments : \E i \in 1..Len(files[s]) :
               files[s][i] = r /\ Beyond(Position, s, i)
BY PendingIs DEF Reads

(* A record on disk beyond the cursor is pending. *)
LEMMA PlacedIsPending ==
    ASSUME InRange, NEW s \in segments, NEW i \in 1..Len(files[s]), Beyond(Position, s, i)
    PROVE  files[s][i] \in Pending
BY PendingIs DEF Reads, InRange

(* The records of a segment, by their places. *)
LEMMA RecordsOf ==
    ASSUME TypeOK, NEW s \in segments
    PROVE  \A r : r \in Range(files[s]) <=> \E i \in 1..Len(files[s]) : files[s][i] = r
<1>1. files[s] \in Seq(Nat)
  BY DEF TypeOK
<1>2. DOMAIN files[s] = 1..Len(files[s])
  BY <1>1
<1> QED
  BY <1>2, Zenon DEF Range

(* The records enforce_capacity leaves are unread if they were before. *)
LEMMA EvictedReads ==
    ASSUME Inv, enforce_capacity, NEW s \in segments \ {Min(segments)},
           NEW i \in 1..Len(files[s])
    PROVE  Beyond(cursor', s, i) <=> Beyond(cursor, s, i)
<1> DEFINE oldest == Min(segments)
           first == Min(segments \ {oldest})
<1>1. IF cursor.segment <= oldest
      THEN cursor' = [segment |-> first, offset |-> 0] ELSE cursor' = cursor
  BY DEF enforce_capacity
<1>2. TypeOK /\ Sound
  BY DEF Inv
<1>3. oldest \in segments /\ oldest <= s
  BY <1>2, Ends
<1>4. first \in segments \ {oldest} /\ first <= s
  <2>1. segments \ {oldest} \in SUBSET Nat
    BY <1>2 DEF TypeOK
  <2> HIDE DEF oldest
  <2> QED
    BY <2>1, MinOfNat DEF oldest
<1>5. s # oldest
  OBVIOUS
<1> HIDE DEF oldest, first
<1>6. /\ s \in Nat /\ oldest \in Nat /\ first \in Nat /\ i \in Nat /\ i > 0
      /\ cursor.segment \in Nat
  <2>1. cursor \in Cursor /\ segments \subseteq Nat
    BY <1>2 DEF TypeOK
  <2>2. Len(files[s]) \in Nat
    BY <1>2, Numbers
  <2> QED
    BY <1>3, <1>4, <2>1, <2>2 DEF Cursor
<1>7. CASE cursor.segment <= oldest
  <2>1. cursor'.segment = first /\ cursor'.offset = 0
    BY <1>1, <1>7
  <2>2. cursor.segment < s
    BY <1>3, <1>5, <1>6, <1>7
  <2> QED
    BY <1>4, <1>6, <2>1, <2>2 DEF Beyond
<1>8. CASE ~(cursor.segment <= oldest)
  BY <1>1, <1>8
<1> QED
  BY <1>7, <1>8

(* Evicting the oldest segment gives up the oldest of the pending records. *)
LEMMA EnforceStep ==
    ASSUME Inv, enforce_capacity
    PROVE  Ordered' /\ Promise!Discard
<1> DEFINE oldest == Min(segments)
           left == segments \ {oldest}
           gone == Range(files[oldest])
<1>1. /\ pc = "capacity" /\ oldest # active /\ files' = Without(oldest) /\ active' = active
      /\ discarded' = discarded \cup gone
      /\ accepted' = accepted /\ stream' = stream /\ pc' \in {"capacity", "evicted"}
      /\ IF cursor.segment <= oldest
         THEN cursor' = [segment |-> Min(left), offset |-> 0] ELSE cursor' = cursor
  BY DEF enforce_capacity
<1>2. TypeOK /\ Sound /\ Running /\ segments # {}
  BY <1>1 DEF Inv, Sound, Busy
<1>3. /\ oldest \in segments /\ \A s \in segments : oldest <= s
      /\ segments \subseteq Nat /\ cursor \in Cursor /\ accepted \in Nat
  BY <1>2, Ends DEF TypeOK
<1>4. /\ segments' = left /\ \A s \in left : files'[s] = files[s]
      /\ \A s \in left : oldest < s
  <2>1. \A s \in left : s \in segments /\ s # oldest
    OBVIOUS
  <2> HIDE DEF oldest
  <2>2. \A s \in left : oldest < s
    BY <1>3, <2>1
  <2> QED
    BY <1>1, <1>2, <1>3, <2>2, Unlink, Zenon
<1>5. active \in left
  BY <1>1, <1>2 DEF Running
<1>6. Position = cursor /\ Position' = cursor'
  BY <1>1 DEF Position
<1>7. \A s \in left : \A i \in 1..Len(files[s]) : Beyond(cursor', s, i) <=> Beyond(cursor, s, i)
  BY EvictedReads
<1> HIDE DEF oldest, left, gone
<1>8. \A r \in gone : r \in 1..(accepted - 1)
  <2> SUFFICES ASSUME NEW i \in 1..Len(files[oldest]) PROVE files[oldest][i] \in 1..(accepted - 1)
    BY <1>2, <1>3, RecordsOf, Zenon DEF gone
  <2>1. PICK k \in 1..Len(files[active]) : files[active][k] = accepted
    BY <1>1 DEF Inv, Ordered, NewestKept
  <2>2. active \in segments /\ oldest < active
    BY <1>4, <1>5 DEF left
  <2>3. files[oldest][i] < accepted /\ files[oldest][i] \in 1..accepted
    BY <1>3, <2>1, <2>2 DEF Inv, Ordered, Increasing, InRange
  <2> QED
    BY <1>3, <2>3
<1>9. ASSUME NEW r \in gone, NEW t \in left, NEW j \in 1..Len(files[t]) PROVE r < files[t][j]
  <2>1. PICK i \in 1..Len(files[oldest]) : files[oldest][i] = r
    BY <1>2, <1>3, RecordsOf DEF gone
  <2>2. t \in segments /\ oldest < t
    BY <1>4 DEF left
  <2> QED
    BY <1>3, <2>1, <2>2 DEF Inv, Ordered, Increasing
<1>10. Pending' \subseteq Pending
  <2>1. \A s \in DOMAIN files' : \A i \in 1..Len(files'[s]) : Beyond(cursor', s, i) =>
            s \in DOMAIN files /\ files[s] = files'[s] /\ Beyond(cursor, s, i)
    BY <1>4, <1>7 DEF left
  <2>2. Reads(files', accepted, cursor') \subseteq Reads(files, accepted, cursor)
    BY <2>1, ReadsKept
  <2> QED
    BY <1>1, <1>6, <2>2, PendingIs
<1>11. ASSUME NEW r \in Pending PROVE r \in gone \/ r \in Pending'
  <2>1. PICK s \in segments : \E i \in 1..Len(files[s]) :
              files[s][i] = r /\ Beyond(cursor, s, i)
    BY <1>6, Placed
  <2>2. PICK i \in 1..Len(files[s]) : files[s][i] = r /\ Beyond(cursor, s, i)
    BY <2>1
  <2>3. CASE s = oldest
    BY <1>2, <2>2, <2>3, RecordsOf DEF gone
  <2>4. CASE s # oldest
    <3>1. s \in left /\ r \in 1..accepted
      BY <2>2, <2>4 DEF left, Inv, Ordered, InRange
    <3> QED
      BY <1>1, <1>4, <1>6, <1>7, <2>2, <3>1, PendingIs DEF Reads
  <2> QED
    BY <2>3, <2>4
<1>12. ASSUME NEW r \in gone, NEW q \in Pending' PROVE r < q
  <2>1. PICK t \in segments' : \E j \in 1..Len(files'[t]) : files'[t][j] = q
    BY PendingIs DEF Reads
  <2> QED
    BY <1>4, <1>9, <2>1
<1>13. Promise!OldestPart(Pending \ Pending')
  <2> SUFFICES ASSUME NEW r \in Pending \ Pending', NEW q \in Pending, q < r
               PROVE  q \notin Pending'
    BY DEF Promise!OldestPart
  <2>1. r \in gone
    BY <1>11
  <2>2. q \in Nat /\ r \in Nat
    BY PendingIs DEF Reads
  <2> QED
    BY <1>12, <2>1, <2>2
<1>14. Promise!Discard
  <2>1. discarded' \subseteq 1..(accepted - 1)
    BY <1>1, <1>8, Zenon DEF Inv, Ordered, GivenUp
  <2>2. Pending \ Pending' \subseteq discarded'
    BY <1>1, <1>11
  <2> QED
    BY <1>1, <1>10, <1>13, <2>1, <2>2 DEF Promise!Discard
<1>15. InRange' /\ Increasing'
  <2>1. \A s \in segments' : \A i \in 1..Len(files'[s]) : s \in segments /\ files'[s] = files[s]
    BY <1>4 DEF left
  <2> QED
    BY <1>1, <2>1, OrderKept DEF Inv, Ordered
<1>16. Behind'
  <2> SUFFICES ASSUME NEW s \in left, NEW i \in 1..Len(files[s])
               PROVE  files[s][i] \in stream \/ Beyond(cursor', s, i)
    BY <1>1, <1>4, <1>6 DEF Behind
  <2>1. s \in segments
    BY DEF left
  <2> QED
    BY <1>6, <1>7, <2>1 DEF Inv, Ordered, Behind
<1>17. NewestKept' /\ BatchPending'
  <2>1. files'[active] = files[active]
    BY <1>4, <1>5
  <2> QED
    BY <1>1, <2>1 DEF Inv, Ordered, NewestKept, BatchPending
<1>18. GivenUp'
  <2>1. discarded' \subseteq 1..(accepted' - 1)
    BY <1>1, <1>8, Zenon DEF Inv, Ordered, GivenUp
  <2>2. Settled \subseteq Settled' /\ gone \subseteq Settled'
    BY <1>1 DEF Settled
  <2>3. ASSUME NEW r \in discarded, NEW q \in 1..r PROVE q \in Settled'
    BY <2>2 DEF Inv, Ordered, GivenUp
  <2>4. ASSUME NEW r \in gone, NEW q \in 1..r PROVE q \in Settled'
    <3>1. r \in Nat /\ r < accepted /\ q \in Nat /\ q <= r /\ q \in 1..accepted
      BY <1>3, <1>8
    <3>2. q \in Settled \/ q \in Pending
      BY <1>2, <1>6, <3>1 DEF Running, Covered, Pending
    <3>3. CASE q \in Pending
      <4>1. q \notin Pending'
        BY <1>12, <3>1
      <4> QED
        BY <1>11, <2>2, <3>3, <4>1
    <3> QED
      BY <2>2, <3>2, <3>3
  <2> QED
    BY <1>1, <2>1, <2>3, <2>4 DEF GivenUp
<1> QED
  BY <1>14, <1>15, <1>16, <1>17, <1>18 DEF Ordered

-----------------------------------------------------------------------------
(* A later cursor leaves less to read. *)
LEMMA LaterReadsLess ==
    ASSUME TypeOK, NEW c \in Cursor, NEW d \in Cursor, AtOrBefore(c, d),
           NEW s \in segments, NEW i \in 1..Len(files[s]), Beyond(d, s, i)
    PROVE  Beyond(c, s, i)
<1>1. s \in Nat /\ i \in Nat /\ c.segment \in Nat /\ c.offset \in Nat
      /\ d.segment \in Nat /\ d.offset \in Nat
  BY Numbers DEF Cursor
<1> QED
  BY <1>1 DEF AtOrBefore, Beyond

(* Steps that give up nothing keep what is said of the discarded records. *)
LEMMA GivenUpKept ==
    ASSUME GivenUp, accepted' = accepted, discarded' = discarded, stream \subseteq stream'
    PROVE  GivenUp'
<1>1. Settled \subseteq Settled'
  BY DEF Settled
<1> QED
  BY <1>1 DEF GivenUp

(* A confirmed batch is the oldest part of what was pending. *)
LEMMA ConfirmedStep ==
    ASSUME Inv, publish_confirmed
    PROVE  Ordered' /\ Promise!Send
<1>1. /\ pc = "publish" /\ pc' = "commit" /\ files' = files /\ cursor' = next
      /\ stream' = stream \cup batch /\ accepted' = accepted /\ discarded' = discarded
  BY DEF publish_confirmed, disk
<1>2. TypeOK /\ cursor \in Cursor /\ next \in Cursor /\ AtOrBefore(cursor, next)
  BY <1>1, SMTT(30) DEF Inv, Sound, Busy, TypeOK
<1>3. Position = cursor /\ Position' = next
  BY <1>1 DEF Position
<1>4. Pending' = Unread(next)
  BY <1>1, <1>3, PendingIs, Zenon DEF Reads, Unread
<1>5. Pending \ Pending' \subseteq batch
  <2>1. Passed(cursor, next) \subseteq batch
    BY <1>1 DEF Inv, Sound, Busy
  <2> QED
    BY <1>3, <1>4, <2>1 DEF Passed, Pending
<1>6. Pending' \subseteq Pending
  <2>1. \A s \in DOMAIN files : \A i \in 1..Len(files[s]) :
            Beyond(next, s, i) => Beyond(cursor, s, i)
    BY <1>2, LaterReadsLess
  <2>2. Reads(files, accepted, next) \subseteq Reads(files, accepted, cursor)
    BY <2>1, ReadsKept
  <2> QED
    BY <1>1, <1>3, <2>2, PendingIs
<1>7. batch \subseteq Pending
  BY <1>1 DEF Inv, Ordered, BatchPending
<1>8. ASSUME NEW s \in segments, NEW i \in 1..Len(files[s]), files[s][i] \notin Pending'
      PROVE  ~Beyond(next, s, i)
  BY <1>1, <1>3, <1>8, PendingIs DEF Reads, Inv, Ordered, InRange
<1>9. Promise!OldestPart(Pending \ Pending')
  <2> SUFFICES ASSUME NEW r \in Pending \ Pending', NEW q \in Pending, q < r, q \in Pending'
               PROVE  FALSE
    BY DEF Promise!OldestPart
  <2>1. PICK s \in segments : \E i \in 1..Len(files[s]) : files[s][i] = r
    BY Placed
  <2>2. PICK i \in 1..Len(files[s]) : files[s][i] = r
    BY <2>1
  <2>3. PICK t \in segments : \E j \in 1..Len(files[t]) :
              files[t][j] = q /\ Beyond(next, t, j)
    BY <1>1, <1>3, PendingIs, SMTT(30) DEF Reads
  <2>4. PICK j \in 1..Len(files[t]) : files[t][j] = q /\ Beyond(next, t, j)
    BY <2>3
  <2>5. ~Beyond(next, s, i)
    BY <1>8, <2>2
  <2>6. r < q
    BY <1>2, <2>2, <2>4, <2>5, Parted DEF Inv, Ordered
  <2>7. r \in Nat /\ q \in Nat
    BY PendingIs, SMTT(30) DEF Reads
  <2> QED
    BY <2>6, <2>7
<1>10. Promise!Send
  BY <1>1, <1>5, <1>6, <1>7, <1>9 DEF Promise!Send
<1>11. InRange' /\ Increasing'
  BY <1>1, OrderKept DEF Inv, Ordered
<1>12. Behind'
  <2> SUFFICES ASSUME NEW s \in segments, NEW i \in 1..Len(files[s]), ~Beyond(next, s, i)
               PROVE  files[s][i] \in stream'
    BY <1>1, <1>3 DEF Behind
  <2>1. CASE ~Beyond(cursor, s, i)
    BY <1>1, <1>3, <2>1 DEF Inv, Ordered, Behind
  <2>2. CASE Beyond(cursor, s, i)
    <3>1. files[s][i] \in Pending
      BY <1>3, <2>2, PlacedIsPending DEF Inv, Ordered
    <3>2. files[s][i] \notin Pending'
      <4> SUFFICES ASSUME files[s][i] \in Pending' PROVE FALSE
        OBVIOUS
      <4>1. PICK t \in segments : \E j \in 1..Len(files[t]) :
                  files[t][j] = files[s][i] /\ Beyond(next, t, j)
        BY <1>1, <1>3, PendingIs DEF Reads
      <4>2. PICK j \in 1..Len(files[t]) : files[t][j] = files[s][i] /\ Beyond(next, t, j)
        BY <4>1
      <4>3. files[s][i] < files[t][j]
        BY <1>2, <4>2, Parted DEF Inv, Ordered
      <4>4. files[s][i] \in Nat
        BY <3>1, PendingIs DEF Reads
      <4> QED
        BY <4>2, <4>3, <4>4
    <3> QED
      BY <1>1, <1>5, <3>1, <3>2
  <2> QED
    BY <2>1, <2>2
<1>13. NewestKept' /\ BatchPending' /\ GivenUp'
  BY <1>1, GivenUpKept DEF Inv, Ordered, NewestKept, BatchPending
<1> QED
  BY <1>10, <1>11, <1>12, <1>13 DEF Ordered

(* A refused batch is stored in part and stays pending. *)
LEMMA RefusedStep ==
    ASSUME Inv, publish_refused
    PROVE  Ordered' /\ Promise!Send
<1>1. /\ pc = "publish" /\ pc' = "idle" /\ files' = files /\ cursor' = cursor
      /\ accepted' = accepted /\ discarded' = discarded
      /\ stream \subseteq stream' /\ stream' \subseteq stream \cup batch
  BY DEF publish_refused, disk
<1>2. Position' = Position
  BY <1>1 DEF Position
<1>3. Pending' = Pending
  BY <1>1, <1>2, PendingIs
<1>4. Promise!Send
  <2>1. batch \subseteq Pending
    BY <1>1 DEF Inv, Ordered, BatchPending
  <2> QED
    BY <1>1, <1>3, <2>1 DEF Promise!Send, Promise!OldestPart
<1>5. InRange' /\ Increasing'
  BY <1>1, OrderKept DEF Inv, Ordered
<1>6. Behind'
  BY <1>1, <1>2 DEF Inv, Ordered, Behind
<1>7. NewestKept' /\ BatchPending' /\ GivenUp'
  BY <1>1, GivenUpKept DEF Inv, Ordered, NewestKept, BatchPending
<1> QED
  BY <1>4, <1>5, <1>6, <1>7 DEF Ordered

(* commit unlinks a segment the drain has passed. *)
LEMMA CommitStep ==
    ASSUME Inv, commit
    PROVE  /\ Ordered' /\ UNCHANGED <<accepted, Pending, stream, discarded>>
           /\ OnDisk \subseteq OnDisk' \cup stream
<1> DEFINE oldest == Min(segments)
<1>1. /\ pc = "commit" /\ pc' = "commit" /\ files' = Without(oldest)
      /\ oldest < cursor.segment /\ cursor' = cursor
      /\ accepted' = accepted /\ stream' = stream /\ discarded' = discarded
  BY DEF commit
<1>2. TypeOK /\ Sound /\ segments # {}
  BY <1>1 DEF Inv, Sound, Busy
<1>3. oldest \in segments
  BY <1>2, Ends
<1>4. /\ segments' = segments \ {oldest}
      /\ \A s \in segments \ {oldest} : files'[s] = files[s]
  BY <1>1, <1>2, <1>3, Unlink, Zenon
<1>5. Position = cursor /\ Position' = cursor
  BY <1>1 DEF Position
<1> HIDE DEF oldest
<1>6. \A i \in 1..Len(files[oldest]) : ~Beyond(cursor, oldest, i)
  <2>1. oldest \in Nat /\ cursor.segment \in Nat
    BY <1>2, <1>3 DEF TypeOK, Cursor
  <2> QED
    BY <1>1, <2>1 DEF Beyond
<1>7. Pending' = Pending
  <2>1. \A s \in DOMAIN files : \A i \in 1..Len(files[s]) : Beyond(cursor, s, i) =>
            s \in DOMAIN files' /\ files'[s] = files[s]
    BY <1>4, <1>6
  <2>2. \A s \in DOMAIN files' : \A i \in 1..Len(files'[s]) : Beyond(cursor, s, i) =>
            s \in DOMAIN files /\ files[s] = files'[s]
    BY <1>4
  <2>3. Reads(files, accepted, cursor) \subseteq Reads(files', accepted, cursor)
    BY <2>1, ReadsKept
  <2>4. Reads(files', accepted, cursor) \subseteq Reads(files, accepted, cursor)
    BY <2>2, ReadsKept
  <2> QED
    BY <1>1, <1>5, <2>3, <2>4, PendingIs
<1>8. InRange' /\ Increasing'
  BY <1>1, <1>4, OrderKept DEF Inv, Ordered
<1>9. Behind'
  BY <1>1, <1>4, <1>5 DEF Inv, Ordered, Behind
<1>10. NewestKept' /\ BatchPending' /\ GivenUp'
  BY <1>1, GivenUpKept DEF Inv, Ordered, NewestKept, BatchPending
<1>11. OnDisk \subseteq OnDisk' \cup stream
  <2> SUFFICES ASSUME NEW s \in segments, NEW r \in Range(files[s])
               PROVE  r \in OnDisk' \cup stream
    BY DEF OnDisk
  <2>1. CASE s = oldest
    <3>1. PICK i \in 1..Len(files[s]) : files[s][i] = r
      BY <1>2, RecordsOf
    <3> QED
      BY <1>5, <1>6, <2>1, <3>1 DEF Inv, Ordered, Behind
  <2>2. CASE s # oldest
    BY <1>4, <2>2 DEF OnDisk
  <2> QED
    BY <2>1, <2>2
<1> QED
  BY <1>1, <1>7, <1>8, <1>9, <1>10, <1>11 DEF Ordered

(* A crash moves the drain back, over records the event bus has. *)
LEMMA CrashStep ==
    ASSUME Inv, crash
    PROVE  Ordered' /\ Promise!Replay
<1>1. /\ pc # "down" /\ pc' = "down" /\ files' = files /\ cursorFile' = cursorFile
      /\ accepted' = accepted /\ stream' = stream /\ discarded' = discarded
  BY DEF crash, Forget, history
<1>2. TypeOK /\ Running /\ cursor \in Cursor
  BY <1>1 DEF Inv, Sound, TypeOK
<1>3. Position = cursor /\ Position' = load_cursor
  BY <1>1 DEF Position, load_cursor
<1>4. ASSUME NEW s \in segments, NEW i \in 1..Len(files[s]), Beyond(cursor, s, i)
      PROVE  Beyond(load_cursor, s, i)
  <2>1. LoadRule /\ load_cursor \in Cursor
    BY <1>2, LoadIs, LoadType
  <2>2. CASE cursorFile.segment \in segments
    <3>1. load_cursor = cursorFile /\ AtOrBefore(cursorFile, cursor)
      BY <1>2, <2>1, <2>2 DEF LoadRule, Running
    <3> QED
      BY <1>2, <1>4, <2>1, <3>1, LaterReadsLess
  <2>3. CASE cursorFile.segment \notin segments
    <3>1. i \in Nat \ {0}
      BY <1>2, Numbers
    <3> QED
      BY <2>1, <2>3, <3>1 DEF LoadRule
  <2> QED
    BY <2>2, <2>3
<1>5. Pending \subseteq Pending'
  <2>1. Reads(files, accepted, cursor) \subseteq Reads(files, accepted, load_cursor)
    BY <1>4, ReadsKept
  <2> QED
    BY <1>1, <1>3, <2>1, PendingIs
<1>6. Pending' \ Pending \subseteq stream
  <2> SUFFICES ASSUME NEW r \in Pending', r \notin Pending PROVE r \in stream
    OBVIOUS
  <2>1. PICK s \in segments : \E i \in 1..Len(files[s]) : files[s][i] = r
    BY <1>1, PendingIs DEF Reads
  <2>2. PICK i \in 1..Len(files[s]) : files[s][i] = r
    BY <2>1
  <2>3. ~Beyond(cursor, s, i)
    BY <1>3, <2>2, PlacedIsPending DEF Inv, Ordered
  <2> QED
    BY <1>3, <2>2, <2>3, SMTT(30) DEF Inv, Ordered, Behind
<1>7. Promise!Replay
  BY <1>1, <1>5, <1>6 DEF Promise!Replay
<1>8. InRange' /\ Increasing'
  BY <1>1, OrderKept DEF Inv, Ordered
<1>9. Behind'
  BY <1>1, <1>3, <1>4 DEF Inv, Ordered, Behind
<1>10. NewestKept' /\ BatchPending' /\ GivenUp'
  BY <1>1, GivenUpKept DEF Inv, Ordered, NewestKept, BatchPending
<1> QED
  BY <1>7, <1>8, <1>9, <1>10 DEF Ordered

-----------------------------------------------------------------------------
(* Every step keeps the order of the records and is one the promise allows. *)
LEMMA PromiseStep ==
    ASSUME Inv, [Next]_vars
    PROVE  Ordered' /\ [Promise!Next]_<<accepted, Pending, stream, discarded>>
BY QuietStep, EnsureStep, AppendStep, EnforceStep, ConfirmedStep, RefusedStep, CommitStep,
   CrashStep, Zenon
   DEF Next, Enqueue, Drain, Promise!Next

(* Records lie on disk in the order of their acceptance, and behind the    *)
(* drain there are only records the event bus has, in every state of       *)
(* append, drain, a crash and a restart.                                   *)
THEOREM SpoolOrdered == Spec => []Inv
<1>1. Init => Inv
  BY TypeInit, SoundInit, OrderedInit DEF Inv
<1>2. Inv /\ [Next]_vars => Inv'
  <2> SUFFICES ASSUME Inv, [Next]_vars PROVE Inv'
    OBVIOUS
  <2>1. TypeOK' /\ Sound'
    BY TypeStep, SoundStep, Zenon DEF Inv
  <2>2. Ordered'
    BY PromiseStep, Zenon
  <2> QED
    BY <2>1, <2>2, Zenon DEF Inv
<1> QED
  BY <1>1, <1>2, PTL DEF Spec

(* Every step of append, enforce_capacity, drain, commit, a crash and      *)
(* open is a step of StoreAndForward or leaves its state alone: a record   *)
(* stops being pending only as part of the oldest, stored on the event bus *)
(* or given up for space, and is sent again only if the bus has it.        *)
THEOREM SpoolKeepsPromise == Spec => Keeps
<1>1. Init => Promise!Init
  BY OrderedInit, Zenon
<1>2. Inv /\ [Next]_vars => [Promise!Next]_(Promise!vars)
  BY PromiseStep, Zenon DEF Promise!vars
<1> QED
  BY <1>1, <1>2, SpoolOrdered, PTL DEF Spec, Keeps, Promise!Spec

(* enforce_capacity discards from the old end only, and never the newest   *)
(* record, even when its segment alone exceeds max_total_bytes.            *)
THEOREM OldestFirst == Spec => []OldestGoesFirst
<1>1. Inv => OldestGoesFirst
  <2> SUFFICES ASSUME Inv PROVE OldestGoesFirst
    OBVIOUS
  <2>1. GivenUp /\ accepted \in Nat
    BY DEF Inv, Ordered, TypeOK
  <2>2. accepted \notin 1..(accepted - 1)
    BY <2>1
  <2> QED
    BY <2>1, <2>2 DEF GivenUp, OldestGoesFirst
<1> QED
  BY <1>1, SpoolOrdered, PTL

-----------------------------------------------------------------------------
(* A segment holds no more records than its length. *)
LEMMA SegmentSize ==
    ASSUME TypeOK, NEW s \in segments
    PROVE  /\ IsFiniteSet(Range(files[s])) /\ Len(files[s]) \in Nat
           /\ Cardinality(Range(files[s])) \in Nat
           /\ Cardinality(Range(files[s])) <= Len(files[s])
<1> DEFINE f == files[s]
<1>1. f \in Seq(Nat)
  BY DEF TypeOK
<1> HIDE DEF f
<1>2. Len(f) \in Nat /\ DOMAIN f = 1..Len(f) /\ f \in [1..Len(f) -> Nat]
  BY <1>1
<1>3. f \in Surjection(1..Len(f), Range(f))
  BY <1>2 DEF Surjection, Range
<1>4. /\ IsFiniteSet(1..Len(f))
      /\ Cardinality(1..Len(f)) = IF 1 > Len(f) THEN 0 ELSE Len(f) - 1 + 1
  <2>1. 1 \in Int /\ Len(f) \in Int
    BY <1>2
  <2> QED
    BY <2>1, FS_Interval, Zenon
<1>5. Cardinality(1..Len(f)) = Len(f)
  BY <1>2, <1>4
<1>6. IsFiniteSet(Range(f)) /\ Cardinality(Range(f)) <= Len(f)
  BY <1>3, <1>4, <1>5, FS_Surjection
<1> QED
  BY <1>2, <1>6, FS_CardinalityType, SMTT(30) DEF f

(* Records that are on disk before and after a step. *)
LEMMA StaysOnDisk ==
    ASSUME TypeOK, TypeOK', segments \subseteq segments',
           \A s \in segments : \A i \in 1..Len(files[s]) :
                i \in 1..Len(files'[s]) /\ files'[s][i] = files[s][i]
    PROVE  OnDisk \subseteq OnDisk'
<1> SUFFICES ASSUME NEW s \in segments, NEW r \in Range(files[s]) PROVE r \in Range(files'[s])
  BY DEF OnDisk
<1>1. PICK i \in 1..Len(files[s]) : files[s][i] = r
  BY RecordsOf
<1>2. i \in 1..Len(files'[s]) /\ files'[s][i] = r
  BY <1>1
<1>3. files'[s] \in Seq(Nat)
  BY DEF TypeOK
<1>4. DOMAIN files'[s] = 1..Len(files'[s])
  BY <1>3
<1> QED
  BY <1>2, <1>4, Zenon DEF Range

(* A record leaves the disk by commit, and then the event bus has it, or   *)
(* by enforce_capacity, which counts every record of the segment.          *)
LEMMA LossStep ==
    ASSUME Inv, TypeOK', [Next]_vars
    PROVE  \/ OnDisk \subseteq OnDisk' \cup stream
           \/ Cardinality(OnDisk \ (OnDisk' \cup stream)) <= dropped' - dropped
<1>1. CASE ensure_active_segment
  <2>1. segments \subseteq segments' /\ \A s \in segments : files'[s] = files[s]
    <3>1. CASE active = NoSegment \/ Len(files[active]) >= SegmentRecords
      BY <1>1, <3>1, Rotate DEF Inv
    <3>2. CASE ~(active = NoSegment \/ Len(files[active]) >= SegmentRecords)
      BY <1>1, <3>2 DEF ensure_active_segment
    <3> QED
      BY <3>1, <3>2
  <2> QED
    BY <2>1, StaysOnDisk DEF Inv
<1>2. CASE append
  <2>1. /\ active \in segments /\ segments' = segments
        /\ Len(files'[active]) = Len(files[active]) + 1
        /\ \A i \in 1..Len(files[active]) : files'[active][i] = files[active][i]
        /\ \A s \in segments : s # active => files'[s] = files[s]
    BY <1>2, Written DEF Inv
  <2>2. Len(files[active]) \in Nat
    BY <2>1, Numbers DEF Inv
  <2>3. \A i \in 1..Len(files[active]) : i \in 1..Len(files'[active])
    BY <2>1, <2>2
  <2>4. \A s \in segments : \A i \in 1..Len(files[s]) :
            i \in 1..Len(files'[s]) /\ files'[s][i] = files[s][i]
    BY <2>1, <2>3, Zenon
  <2> QED
    BY <2>1, <2>4, StaysOnDisk DEF Inv
<1>3. CASE enforce_capacity
  <2> DEFINE oldest == Min(segments)
             gone == OnDisk \ (OnDisk' \cup stream)
  <2>1. /\ files' = Without(oldest) /\ dropped' = dropped + Len(files[oldest])
        /\ TypeOK /\ Sound /\ segments # {}
    BY <1>3, SMTT(30) DEF enforce_capacity, Inv, Sound, Busy
  <2>2. oldest \in segments
    BY <2>1, Ends
  <2>3. segments' = segments \ {oldest} /\ \A s \in segments' : files'[s] = files[s]
    BY <2>1, <2>2, Unlink, Zenon
  <2> HIDE DEF oldest
  <2>4. gone \subseteq Range(files[oldest])
    BY <2>3, Zenon DEF OnDisk
  <2> HIDE DEF gone
  <2>5. /\ IsFiniteSet(Range(files[oldest])) /\ Len(files[oldest]) \in Nat
        /\ Cardinality(Range(files[oldest])) \in Nat
        /\ Cardinality(Range(files[oldest])) <= Len(files[oldest])
    BY <2>1, <2>2, SegmentSize
  <2>6. Cardinality(gone) <= Cardinality(Range(files[oldest])) /\ Cardinality(gone) \in Nat
    BY <2>4, <2>5, FS_Subset, FS_CardinalityType
  <2>7. Cardinality(gone) <= dropped' - dropped
    BY <2>1, <2>5, <2>6, SMTT(30) DEF TypeOK
  <2> QED
    BY <2>7 DEF gone
<1>4. CASE commit
  BY <1>4, CommitStep
<1>5. CASE files' = files
  BY <1>5 DEF OnDisk
<1>6. \/ ensure_active_segment \/ append \/ enforce_capacity \/ commit
      \/ files' = files
  BY SMTT(30)
     DEF Next, Enqueue, Drain, vars, store_evicted_cursor, capacity_ok, flush_tick, read_batch,
         drained, publish_confirmed, publish_refused, store_cursor, crash, open, disk
<1> QED
  BY <1>1, <1>2, <1>3, <1>4, <1>5, <1>6

(* "The loss is counted": every record that leaves the disk unsent is      *)
(* counted in dropped_records by the step that removes its segment.        *)
THEOREM LossCounted == Spec => LossIsCounted
<1>1. Inv /\ TypeOK' /\ [Next]_vars =>
        [LET gone == OnDisk \ (OnDisk' \cup stream)
         IN  gone = {} \/ Cardinality(gone) <= dropped' - dropped]_vars
  <2> SUFFICES ASSUME Inv, TypeOK', [Next]_vars
               PROVE  LET gone == OnDisk \ (OnDisk' \cup stream)
                      IN  gone = {} \/ Cardinality(gone) <= dropped' - dropped
    OBVIOUS
  <2> DEFINE gone == OnDisk \ (OnDisk' \cup stream)
  <2>1. OnDisk \subseteq OnDisk' \cup stream \/ Cardinality(gone) <= dropped' - dropped
    BY LossStep
  <2>2. OnDisk \subseteq OnDisk' \cup stream => gone = {}
    OBVIOUS
  <2> QED
    BY <2>1, <2>2, Zenon
<1>2. Inv => TypeOK
  BY DEF Inv
<1> QED
  BY <1>1, <1>2, SpoolOrdered, PTL DEF Spec, LossIsCounted
=============================================================================
