---------------------------- MODULE SpoolProofs ----------------------------
(***************************************************************************)
(* Proofs about the spool for every segment size, size ceiling, batch size *)
(* and number of records.  The argument: Sound is inductive.  Each step    *)
(* moves at most one of the two cursors, never past a record that is not   *)
(* settled, and a segment is unlinked only when both cursors let it go.    *)
(***************************************************************************)
EXTENDS Spool, TLAPS, WellFoundedInduction

(* The oldest segment exists and is not newer than any other. *)
LEMMA MinOfNat ==
    ASSUME NEW S \in SUBSET Nat, S # {}
    PROVE  Min(S) \in S /\ \A s \in S : Min(S) <= s
<1> DEFINE less == OpToRel(<, Nat)
<1>1. IsWellFoundedOn(less, Nat)
  BY NatLessThanWellFounded
<1>2. \A s, t \in S : s < t => <<s, t>> \in less
  BY DEF OpToRel
<1> HIDE DEF less
<1>3. PICK m \in S : \A s \in S : ~(<<s, m>> \in less)
  BY <1>1, WFMin, Zenon
<1>4. \A s \in S : ~(s < m)
  BY <1>2, <1>3, Zenon
<1>5. \A s \in S : m <= s
  BY <1>4
<1>6. QED
  BY <1>5, Zenon DEF Min

USE DEF segments, remove_segment

(* In a nonempty log the oldest and the newest segment are what they say. *)
LEMMA Ends ==
    ASSUME TypeOK, Sound, segments # {}
    PROVE  /\ Min(segments) \in segments /\ \A s \in segments : Min(segments) <= s
           /\ Max(segments) \in segments /\ \A s \in segments : s <= Max(segments)
<1>1. segments \in SUBSET Nat
  BY DEF TypeOK
<1>2. \E m \in segments : \A s \in segments : s <= m
  BY DEF Sound
<1>3. Max(segments) \in segments /\ \A s \in segments : s <= Max(segments)
  <2>1. \E m \in segments : \A s \in segments : m >= s
    BY <1>1, <1>2
  <2>2. Max(segments) \in segments /\ \A s \in segments : Max(segments) >= s
    BY <2>1, Zenon DEF Max
  <2>3. QED
    BY <1>1, <2>2
<1>4. QED
  BY <1>1, <1>3, MinOfNat

(* Unlinking a segment removes its index and touches no other file. *)
LEMMA Unlink ==
    ASSUME TypeOK, NEW s \in segments, files' = Without(s)
    PROVE  /\ segments' = segments \ {s}
           /\ segments' \subseteq Nat
           /\ files' \in [segments' -> Seq(Nat)]
           /\ \A t \in segments' : files'[t] = files[t]
  BY DEF TypeOK, Without, Restrict

(* Rotation adds an index above all others, with an empty file. *)
LEMMA Rotate ==
    ASSUME TypeOK, Sound, ensure_active_segment,
           active = NoSegment \/ Len(files[active]) >= SegmentRecords
    PROVE  /\ active' \in Nat \ segments /\ \A s \in segments : s < active'
           /\ segments' = segments \cup {active'}
           /\ files' \in [segments' -> Seq(Nat)]
           /\ files'[active'] = <<>>
           /\ \A s \in segments : files'[s] = files[s]
<1> DEFINE index == next_index
<1>1. index \in Nat \ segments /\ \A s \in segments : s < index
  <2>1. segments \subseteq Nat
    BY DEF TypeOK
  <2>2. CASE segments = {}
    BY <2>2 DEF next_index
  <2>3. CASE segments # {}
    <3>1. Max(segments) \in Nat /\ \A s \in segments : s <= Max(segments)
      BY <2>1, <2>3, Ends
    <3>2. index = Max(segments) + 1
      BY <2>3 DEF next_index
    <3> HIDE DEF index
    <3>3. QED
      BY <2>1, <3>1, <3>2
  <2>4. QED
    BY <2>2, <2>3, Zenon
<1>2. /\ active' = index
      /\ files' = [s \in segments \cup {index} |-> IF s = index THEN <<>> ELSE files[s]]
  BY DEF ensure_active_segment
<1> HIDE DEF index
<1>3. QED
  BY <1>1, <1>2 DEF TypeOK

(* Writing a record extends the active file by one. *)
LEMMA Written ==
    ASSUME TypeOK, Sound, append
    PROVE  /\ active \in segments /\ segments' = segments
           /\ accepted' = accepted + 1
           /\ files' \in [segments' -> Seq(Nat)]
           /\ Len(files'[active]) = Len(files[active]) + 1
           /\ \A i \in 1..Len(files[active]) : files'[active][i] = files[active][i]
           /\ files'[active][Len(files[active]) + 1] = accepted + 1
           /\ \A s \in segments : s # active => files'[s] = files[s]
<1>1. active \in segments \ torn
  BY DEF append, Sound, Running, Busy
<1>2. files' = [files EXCEPT ![active] = Append(@, accepted + 1)]
  BY <1>1 DEF append
<1>3. files[active] \in Seq(Nat) /\ accepted + 1 \in Nat /\ accepted' = accepted + 1
  BY <1>1 DEF TypeOK, append
<1>4. files'[active] = Append(files[active], accepted + 1)
  BY <1>1, <1>2 DEF TypeOK
<1>5. /\ files'[active] \in Seq(Nat)
      /\ Len(files'[active]) = Len(files[active]) + 1
      /\ \A i \in 1..Len(files[active]) : files'[active][i] = files[active][i]
      /\ files'[active][Len(files[active]) + 1] = accepted + 1
  BY <1>3, <1>4
<1>6. QED
  BY <1>1, <1>2, <1>3, <1>5 DEF TypeOK

(* The cursor a restart loads is always a position. *)
LEMMA LoadType ==
    ASSUME TypeOK
    PROVE  load_cursor \in Cursor
<1>1. segments # {} => Min(segments) \in Nat
  BY MinOfNat DEF TypeOK
<1>2. QED
  BY <1>1, Zenon DEF TypeOK, load_cursor, Start, Cursor

(* Initially the directory is empty and everything has its type. *)
LEMMA TypeInit == Init => TypeOK
  BY DEF Init, TypeOK, Start, Cursor, NoCursor, NoSegment

(* Every step keeps the types; unlinking and rotating need Sound. *)
LEMMA TypeStep == TypeOK /\ Sound /\ [Next]_vars => TypeOK'
<1> SUFFICES ASSUME TypeOK, Sound, [Next]_vars PROVE TypeOK'
  OBVIOUS
<1>1. CASE ensure_active_segment
  <2>1. CASE active = NoSegment \/ Len(files[active]) >= SegmentRecords
    BY <1>1, <2>1, Rotate DEF ensure_active_segment, TypeOK, history
  <2>2. CASE ~(active = NoSegment \/ Len(files[active]) >= SegmentRecords)
    BY <1>1, <2>2 DEF ensure_active_segment, TypeOK, history
  <2>3. QED
    BY <2>1, <2>2
<1>2. CASE append
  BY <1>2, Written, SMTT(30) DEF append, TypeOK, memory
<1>3. CASE enforce_capacity
  <2> DEFINE oldest == Min(segments)
  <2>1. oldest \in segments /\ active \in segments \ {oldest}
    BY <1>3, Ends DEF enforce_capacity, Sound, Running, Busy
  <2>2. Min(segments \ {oldest}) \in Nat
    BY <2>1, MinOfNat, Zenon DEF TypeOK
  <2>3. cursor' \in Cursor /\ pc' \in {"capacity", "evicted"}
    BY <1>3, <2>2 DEF enforce_capacity, Cursor, TypeOK
  <2>4. files[oldest] \in Seq(Nat)
    BY <2>1 DEF TypeOK
  <2>5. dropped' \in Nat /\ discarded' \subseteq Nat
    BY <1>3, <2>4, SMTT(30) DEF enforce_capacity, Range, TypeOK
  <2>6. files' = Without(oldest) /\ torn' = torn \ {oldest}
    BY <1>3 DEF enforce_capacity
  <2> HIDE DEF oldest
  <2>7. QED
    BY <1>3, <2>1, <2>3, <2>5, <2>6, Unlink, Zenon DEF enforce_capacity, TypeOK
<1>4. CASE store_evicted_cursor
  BY <1>4 DEF store_evicted_cursor, TypeOK, memory, history
<1>5. CASE capacity_ok
  BY <1>5 DEF capacity_ok, TypeOK, disk, memory, history
<1>6. CASE flush_tick
  BY <1>6 DEF flush_tick, TypeOK, disk, memory, history
<1>7. CASE read_batch
  <2>1. PICK s \in segments : \E k \in 0..Len(files[s]) :
            /\ next' = [segment |-> s, offset |-> k]
            /\ batch' = Passed(cursor, [segment |-> s, offset |-> k])
    BY <1>7 DEF read_batch
  <2>2. next' \in Cursor
    BY <2>1 DEF TypeOK, Cursor
  <2>3. batch' \subseteq Nat
    BY <2>1 DEF Passed, Unread, TypeOK
  <2>4. QED
    BY <1>7, <2>2, <2>3 DEF read_batch, TypeOK, disk, history
<1>8. CASE drained
  BY <1>8 DEF drained, TypeOK, disk, memory, history
<1>9. CASE publish_confirmed
  BY <1>9 DEF publish_confirmed, TypeOK, disk
<1>10. CASE publish_refused
  BY <1>10 DEF publish_refused, TypeOK, disk, Start, Cursor
<1>11. CASE commit
  <2>1. Min(segments) \in segments
    BY <1>11, Ends DEF Sound, Busy, commit
  <2>2. QED
    BY <1>11, <2>1, Unlink, Zenon DEF commit, TypeOK, memory, history
<1>12. CASE store_cursor
  BY <1>12 DEF store_cursor, TypeOK, history, Start, Cursor
<1>13. CASE crash
  BY <1>13 DEF crash, Forget, TypeOK, history, Start, Cursor, Sound, Running, Busy
<1>14. CASE open
  <2>1. segments # {} => Max(segments) \in Nat
    BY Ends DEF TypeOK
  <2>2. QED
    BY <1>14, <2>1, LoadType, SMTT(30) DEF open, TypeOK, history
<1>15. CASE UNCHANGED vars
  BY <1>15 DEF vars, TypeOK
<1>16. QED
  BY <1>1, <1>2, <1>3, <1>4, <1>5, <1>6, <1>7, <1>8, <1>9, <1>10, <1>11,
     <1>12, <1>13, <1>14, <1>15 DEF Next, Enqueue, Drain

(***************************************************************************)
(* Sound is inductive.                                                     *)
(***************************************************************************)

(* Covered, as a fact about a set of files F, a set S of settled records   *)
(* and the first n records, so that it can be used before and after a step.*)
CovOf(F, S, n, c) ==
    \A r \in 1..n :
        r \in S \/ \E s \in DOMAIN F : \E i \in 1..Len(F[s]) :
                       F[s][i] = r /\ Beyond(c, s, i)

(* Covered, as a formula about the values of the variables it reads. *)
LEMMA CoveredIs ==
    /\ Covered(cursor) <=> CovOf(files, Settled, accepted, cursor)
    /\ Covered(load_cursor) <=> CovOf(files, Settled, accepted, load_cursor)
    /\ Covered(cursor)' <=> CovOf(files', Settled', accepted', cursor')
    /\ Covered(load_cursor)' <=> CovOf(files', Settled', accepted', load_cursor')
  BY DEF Covered, CovOf, Unread

(* Coverage carries over when each record still to be read is settled by   *)
(* the step or stays where it is, beyond the new cursor.                   *)
LEMMA CovKept ==
    ASSUME NEW F, NEW G, NEW S, NEW T, NEW n, NEW c, NEW d,
           CovOf(F, S, n, c), S \subseteq T,
           \A s \in DOMAIN F : \A i \in 1..Len(F[s]) : Beyond(c, s, i) =>
                F[s][i] \in T \/ (s \in DOMAIN G /\ G[s] = F[s] /\ Beyond(d, s, i))
    PROVE  CovOf(G, T, n, d)
  BY DEF CovOf

(* load_cursor is the stored cursor when its segment exists; otherwise     *)
(* every record on disk lies beyond it.                                    *)
LoadRule ==
    /\ cursorFile.segment \in segments => load_cursor = cursorFile
    /\ cursorFile.segment \notin segments =>
            \A s \in segments : \A i \in Nat \ {0} : Beyond(load_cursor, s, i)

(* LoadRule holds of load_cursor before and after a step. *)
LEMMA LoadIs == (TypeOK => LoadRule) /\ (TypeOK' => LoadRule')
<1>1. ASSUME TypeOK PROVE LoadRule
  <2>1. segments # {} => Min(segments) \in segments /\ \A s \in segments : Min(segments) <= s
    BY <1>1, MinOfNat DEF TypeOK
  <2>2. QED
    <3>1. segments \subseteq Nat /\ cursorFile \in Cursor \cup {NoCursor}
      BY <1>1 DEF TypeOK
    <3>2. CASE cursorFile = NoCursor
      BY <3>1, <3>2 DEF LoadRule, load_cursor, Beyond, Start, NoCursor, NoSegment
    <3>3. CASE cursorFile # NoCursor /\ cursorFile.segment \in segments
      BY <3>3 DEF LoadRule, load_cursor
    <3>4. CASE cursorFile # NoCursor /\ cursorFile.segment \notin segments
      BY <2>1, <3>1, <3>4 DEF LoadRule, load_cursor, Beyond
    <3>5. QED
      BY <3>2, <3>3, <3>4
<1>2. ASSUME TypeOK' PROVE LoadRule'
  <2>1. segments' # {} => Min(segments') \in segments' /\ \A s \in segments' : Min(segments') <= s
    BY <1>2, MinOfNat DEF TypeOK
  <2>2. QED
    <3>1. segments' \subseteq Nat /\ cursorFile' \in Cursor \cup {NoCursor}
      BY <1>2 DEF TypeOK
    <3>2. CASE cursorFile' = NoCursor
      BY <3>1, <3>2 DEF LoadRule, load_cursor, Beyond, Start, NoCursor, NoSegment
    <3>3. CASE cursorFile' # NoCursor /\ cursorFile'.segment \in segments'
      BY <3>3 DEF LoadRule, load_cursor
    <3>4. CASE cursorFile' # NoCursor /\ cursorFile'.segment \notin segments'
      BY <2>1, <3>1, <3>4 DEF LoadRule, load_cursor, Beyond
    <3>5. QED
      BY <3>2, <3>3, <3>4
<1>3. QED
  BY <1>1, <1>2

(* On an empty directory both cursors are sound. *)
LEMMA SoundInit == Init => Sound
  BY DEF Init, Sound, Running, Busy, Covered, Start

(* Opening a segment moves no record and gives its index to no cursor. *)
LEMMA SoundEnsure == TypeOK /\ Sound /\ TypeOK' /\ ensure_active_segment => Sound'
<1> SUFFICES ASSUME TypeOK, Sound, TypeOK', ensure_active_segment PROVE Sound'
  OBVIOUS
<1>1. /\ pc = "idle" /\ pc' = "write" /\ torn' = torn
      /\ cursorFile' = cursorFile /\ cursor' = cursor
      /\ accepted' = accepted /\ Settled' = Settled
  BY DEF ensure_active_segment, history, Settled
<1>2. CASE active = NoSegment \/ Len(files[active]) >= SegmentRecords
  <2>1. /\ active' \in Nat \ segments /\ \A s \in segments : s < active'
        /\ segments' = segments \cup {active'}
        /\ files'[active'] = <<>>
        /\ \A s \in segments : files'[s] = files[s]
    BY <1>2, Rotate
  <2>2. cursorFile = NoCursor \/ (cursorFile \in Cursor /\ Within(cursorFile))
    BY DEF Sound, TypeOK
  <2>3. cursorFile.segment \in segments <=> cursorFile.segment \in segments'
    <3>1. CASE cursorFile = NoCursor
      BY <2>1, <3>1 DEF NoCursor, NoSegment
    <3>2. CASE cursorFile \in Cursor /\ Within(cursorFile)
      <4>1. PICK s \in segments : cursorFile.segment <= s
        BY <3>2 DEF Within
      <4>2. s \in Nat /\ active' \in Nat /\ cursorFile.segment \in Nat /\ s < active'
        BY <2>1, <3>2 DEF TypeOK, Cursor
      <4>3. QED
        BY <2>1, <4>1, <4>2
    <3>3. QED
      BY <2>2, <3>1, <3>2
  <2>4. cursorFile' = NoCursor \/ Within(cursorFile)'
    <3>1. ASSUME cursorFile \in Cursor, Within(cursorFile) PROVE Within(cursorFile)'
      <4>1. PICK s \in segments : cursorFile.segment <= s
        BY <3>1 DEF Within
      <4>2. QED
        BY <1>1, <2>1, <2>3, <3>1, <4>1 DEF Within
    <3>2. QED
      BY <1>1, <2>2, <3>1
  <2>5. Covered(load_cursor)'
    <3>1. \A s \in segments : \A i \in Nat \ {0} :
            Beyond(load_cursor, s, i) => Beyond(load_cursor', s, i)
      BY <1>1, <2>1, <2>3, LoadIs DEF LoadRule
    <3>2. CovOf(files, Settled, accepted, load_cursor)
      BY CoveredIs DEF Sound
    <3>3. CovOf(files', Settled', accepted', load_cursor')
      BY <1>1, <2>1, <3>1, <3>2, CovKept
    <3>4. QED
      BY <3>3, CoveredIs
  <2>6. \A s \in segments' : s <= active'
    BY <2>1 DEF TypeOK
  <2>7. Running'
    <3>1. Within(cursor)'
      <4>1. cursor \in Cursor /\ segments \subseteq Nat
        BY DEF TypeOK
      <4>2. CASE segments = {}
        <5>1. cursor = Start
          BY <1>1, <4>2 DEF Sound, Running
        <5>2. QED
          BY <1>1, <2>1, <4>2, <5>1 DEF Within, Start
      <4>3. CASE segments # {}
        <5>1. Within(cursor)
          BY <1>1, <4>3 DEF Sound, Running
        <5>2. QED
          BY <1>1, <2>1, <4>1, <5>1 DEF Within, Cursor
      <4>4. QED
        BY <4>2, <4>3, Zenon
    <3>2. CovOf(files, Settled, accepted, cursor)
      BY <1>1, CoveredIs DEF Sound, Running
    <3>3. CovOf(files', Settled', accepted', cursor')
      BY <1>1, <2>1, <3>2, CovKept
    <3>4. active' \notin torn'
      BY <1>1, <2>1 DEF TypeOK
    <3>5. cursorFile'.segment \in segments' => AtOrBefore(cursorFile', cursor')
      BY <1>1, <2>3 DEF Sound, Running
    <3>6. QED
      BY <1>1, <2>1, <2>6, <3>1, <3>3, <3>4, <3>5, CoveredIs DEF Running, AtOrBefore
  <2>8. Busy'
    BY <1>1, <2>1 DEF Busy
  <2>9. QED
    BY <2>1, <2>4, <2>5, <2>6, <2>7, <2>8 DEF Sound
<1>3. CASE ~(active = NoSegment \/ Len(files[active]) >= SegmentRecords)
  <2>1. files' = files /\ active' = active /\ segments # {}
    BY <1>1, <1>3 DEF ensure_active_segment, Sound, Running
  <2>2. load_cursor' = load_cursor
    BY <1>1, <2>1 DEF load_cursor
  <2>3. QED
    BY <1>1, <2>1, <2>2 DEF Sound, Running, Busy, Within, Covered, Unread, AtOrBefore
<1>4. QED
  BY <1>2, <1>3

(* The new record lands beyond both cursors. *)
LEMMA SoundAppend == TypeOK /\ Sound /\ TypeOK' /\ append => Sound'
<1> SUFFICES ASSUME TypeOK, Sound, TypeOK', append PROVE Sound'
  OBVIOUS
<1>1. /\ pc = "write" /\ pc' = "capacity" /\ torn' = torn
      /\ cursorFile' = cursorFile /\ cursor' = cursor /\ active' = active
      /\ Settled' = Settled
  BY DEF append, memory, Settled
<1>2. /\ active \in segments /\ segments' = segments /\ accepted' = accepted + 1
      /\ Len(files'[active]) = Len(files[active]) + 1
      /\ \A i \in 1..Len(files[active]) : files'[active][i] = files[active][i]
      /\ files'[active][Len(files[active]) + 1] = accepted + 1
      /\ \A s \in segments : s # active => files'[s] = files[s]
  BY Written
<1>3. load_cursor' = load_cursor
  BY <1>1, <1>2 DEF load_cursor
<1>4. ASSUME NEW c \in Cursor, CovOf(files, Settled, accepted, c),
             Beyond(c, active, Len(files[active]) + 1)
      PROVE  CovOf(files', Settled', accepted', c)
  <2> SUFFICES ASSUME NEW r \in 1..(accepted + 1), r \notin Settled
               PROVE  \E s \in segments : \E i \in 1..Len(files'[s]) :
                         files'[s][i] = r /\ Beyond(c, s, i)
    BY <1>1, <1>2 DEF CovOf
  <2>1. files[active] \in Seq(Nat)
    BY <1>2 DEF TypeOK
  <2>2. CASE r = accepted + 1
    BY <1>2, <1>4, <2>1, <2>2
  <2>3. CASE r \in 1..accepted
    <3>1. PICK s \in segments : \E i \in 1..Len(files[s]) :
                files[s][i] = r /\ Beyond(c, s, i)
      BY <1>4, <2>3 DEF CovOf
    <3>2. CASE s = active
      BY <1>2, <2>1, <3>1, <3>2
    <3>3. CASE s # active
      BY <1>2, <3>1, <3>3
    <3>4. QED
      BY <3>2, <3>3
  <2>4. QED
    BY <2>2, <2>3 DEF TypeOK
<1>5. \A c \in Cursor : Within(c) => Beyond(c, active, Len(files[active]) + 1)
  <2>1. segments \subseteq Nat /\ \A s \in segments : s <= active
    BY <1>1, <1>2 DEF Sound, Running, TypeOK
  <2>2. Len(files[active]) \in Nat
    BY <1>2 DEF TypeOK
  <2>3. QED
    BY <1>2, <2>1, <2>2 DEF Within, Beyond, Cursor
<1>6. Covered(cursor)'
  <2>1. Within(cursor) /\ CovOf(files, Settled, accepted, cursor)
    BY <1>1, <1>2, CoveredIs DEF Sound, Running
  <2>2. CovOf(files', Settled', accepted', cursor)
    BY <1>4, <1>5, <2>1 DEF TypeOK
  <2>3. QED
    BY <1>1, <2>2, CoveredIs
<1>7. Covered(load_cursor)'
  <2>1. Beyond(load_cursor, active, Len(files[active]) + 1)
    <3>1. Len(files[active]) + 1 \in Nat \ {0}
      BY <1>2 DEF TypeOK
    <3>2. cursorFile.segment \in segments => cursorFile \in Cursor /\ Within(cursorFile)
      BY DEF Sound, TypeOK, NoCursor, NoSegment
    <3>3. QED
      BY <1>2, <1>5, <3>1, <3>2, LoadIs DEF LoadRule
  <2>2. CovOf(files', Settled', accepted', load_cursor)
    BY <1>4, <2>1, LoadType, CoveredIs DEF Sound
  <2>3. QED
    BY <1>3, <2>2, CoveredIs
<1>8. \A c \in Cursor : Within(c) => Within(c)'
  <2>1. \A s \in segments : Len(files[s]) \in Nat
    BY DEF TypeOK
  <2>2. \A s \in segments : Len(files'[s]) \in Nat /\ Len(files[s]) <= Len(files'[s])
    BY <1>2, <2>1
  <2>3. SUFFICES ASSUME NEW c \in Cursor, Within(c) PROVE Within(c)'
    OBVIOUS
  <2>4. c.segment \in segments' => c.offset <= Len(files'[c.segment])
    BY <1>2, <2>1, <2>2, <2>3 DEF Within, Cursor
  <2>5. QED
    BY <1>2, <2>3, <2>4 DEF Within
<1>9. Running'
  BY <1>1, <1>2, <1>6, <1>8, Zenon DEF Sound, Running, TypeOK, AtOrBefore, Within
<1>10. cursorFile' = NoCursor \/ Within(cursorFile)'
  BY <1>1, <1>8, SMTT(30) DEF Sound, TypeOK, Within
<1>11. QED
  BY <1>1, <1>2, <1>7, <1>9, <1>10 DEF Sound, Busy

(* Unlinking the oldest segment keeps the disk cursor sound, provided its  *)
(* records are settled or the disk cursor has nothing to lose with it.     *)
LEMMA UnlinkOldest ==
    ASSUME TypeOK, Sound, TypeOK', pc # "down",
           Min(segments) # active, segments # {}, files' = Without(Min(segments)),
           cursorFile' = cursorFile, accepted' = accepted, Settled \subseteq Settled',
           \A i \in 1..Len(files[Min(segments)]) :
               \/ files[Min(segments)][i] \notin 1..accepted
               \/ files[Min(segments)][i] \in Settled'
               \/ \E s \in segments' : \E k \in 1..Len(files[s]) :
                      files[s][k] = files[Min(segments)][i] /\ Beyond(cursor, s, k)
    PROVE  /\ cursorFile' = NoCursor \/ Within(cursorFile)'
           /\ Covered(load_cursor)'
           /\ active \in segments' \ torn /\ \A s \in segments' : s <= active
           /\ segments' = segments \ {Min(segments)}
           /\ \A s \in segments' : files'[s] = files[s] /\ Min(segments) < s
<1> DEFINE oldest == Min(segments)
<1>1. oldest \in segments /\ \A s \in segments : oldest <= s
  BY Ends
<1>2. /\ segments' = segments \ {oldest} /\ segments \subseteq Nat
      /\ \A s \in segments' : files'[s] = files[s]
  BY <1>1, Unlink, Zenon DEF TypeOK
<1>3. /\ active \in segments' \ torn /\ \A s \in segments' : s <= active
      /\ \A s \in segments : s <= active
  BY <1>2 DEF Sound, Running
<1>4. \A s \in segments' : oldest < s
  BY <1>1, <1>2
<1>5. cursorFile' = NoCursor \/ Within(cursorFile)'
  <2>1. CASE cursorFile = NoCursor
    BY <2>1
  <2>2. CASE cursorFile # NoCursor
    <3>1. Within(cursorFile) /\ cursorFile \in Cursor
      BY <2>2 DEF Sound, TypeOK
    <3>2. cursorFile.segment <= active
      BY <1>2, <1>3, <3>1 DEF Within, Cursor
    <3>3. QED
      BY <1>2, <1>3, <3>1, <3>2 DEF Within
  <2>3. QED
    BY <2>1, <2>2
<1>6. CovOf(files', Settled', accepted', load_cursor')
  <2> SUFFICES ASSUME NEW r \in 1..accepted, r \notin Settled'
               PROVE  \E s \in segments' : \E i \in 1..Len(files'[s]) :
                         files'[s][i] = r /\ Beyond(load_cursor', s, i)
    BY DEF CovOf
  <2>1. \A s \in segments' : \A i \in Nat \ {0} :
           Beyond(load_cursor, s, i) \/ Beyond(cursor, s, i) => Beyond(load_cursor', s, i)
    <3>1. CASE cursorFile.segment \in segments'
      <4>1. load_cursor = cursorFile /\ load_cursor' = cursorFile
        BY <1>2, <3>1, LoadIs DEF LoadRule
      <4>2. AtOrBefore(cursorFile, cursor) /\ cursor \in Cursor /\ cursorFile \in Cursor
        BY <1>2, <3>1 DEF Sound, Running, TypeOK, NoCursor, NoSegment
      <4>3. QED
        BY <1>2, <4>1, <4>2 DEF Beyond, AtOrBefore, Cursor
    <3>2. CASE cursorFile.segment \notin segments'
      BY <3>2, LoadIs DEF LoadRule
    <3>3. QED
      BY <3>1, <3>2
  <2>2. PICK s \in segments : \E i \in 1..Len(files[s]) :
              files[s][i] = r /\ Beyond(load_cursor, s, i)
    BY CoveredIs, SMTT(30) DEF Sound, CovOf
  <2>3. \A t \in segments : Len(files[t]) \in Nat
    BY DEF TypeOK
  <2>4. CASE s \in segments'
    BY <1>2, <2>1, <2>2, <2>3, <2>4
  <2>5. CASE s = oldest
    <3>1. PICK t \in segments' : \E k \in 1..Len(files[t]) :
                files[t][k] = r /\ Beyond(cursor, t, k)
      BY <2>2, <2>5
    <3>2. QED
      BY <1>2, <2>1, <2>3, <3>1
  <2>6. QED
    BY <1>2, <2>4, <2>5
<1>7. QED
  BY <1>2, <1>3, <1>4, <1>5, <1>6, CoveredIs

(* An evicted segment's records are settled by being discarded, and the    *)
(* cursor moves to the start of what is left.                              *)
LEMMA SoundEnforce == TypeOK /\ Sound /\ TypeOK' /\ enforce_capacity => Sound'
<1> SUFFICES ASSUME TypeOK, Sound, TypeOK', enforce_capacity PROVE Sound'
  OBVIOUS
<1> DEFINE oldest == Min(segments)
<1>1. /\ pc = "capacity" /\ active' = active /\ torn' = torn \ {oldest}
      /\ oldest # active /\ segments # {} /\ files' = Without(oldest)
      /\ cursorFile' = cursorFile /\ accepted' = accepted
      /\ Settled' = Settled \cup Range(files[oldest])
  BY DEF enforce_capacity, Sound, Busy, Settled
<1>2. oldest \in segments /\ segments \subseteq Nat /\ files[oldest] \in Seq(Nat)
  BY <1>1, Ends DEF TypeOK
<1>3. \A i \in 1..Len(files[oldest]) : files[oldest][i] \in Settled'
  BY <1>1, <1>2 DEF Range
<1>4. /\ cursorFile' = NoCursor \/ Within(cursorFile)'
      /\ Covered(load_cursor)'
      /\ active \in segments' \ torn /\ \A s \in segments' : s <= active
      /\ segments' = segments \ {oldest}
      /\ \A s \in segments' : files'[s] = files[s] /\ oldest < s
  BY <1>1, <1>3, UnlinkOldest
<1>5. CovOf(files, Settled, accepted, cursor) /\ cursor \in Cursor /\ Within(cursor)
  BY <1>1, CoveredIs DEF Sound, Running, TypeOK
<1>6. cursorFile.segment \in segments => AtOrBefore(cursorFile, cursor) /\ cursorFile \in Cursor
  BY <1>1, <1>2 DEF Sound, Running, TypeOK, NoCursor, NoSegment
<1>7. CASE cursor.segment <= oldest
  <2>1. /\ cursor' = [segment |-> Min(segments'), offset |-> 0]
        /\ pc' = "evicted"
    BY <1>4, <1>7 DEF enforce_capacity
  <2>2. Min(segments') \in segments' /\ \A s \in segments' : Min(segments') <= s
    BY <1>2, <1>4, MinOfNat, Zenon
  <2>3. cursorFile.segment \notin segments'
    BY <1>2, <1>4, <1>5, <1>6, <1>7, SMTT(30) DEF AtOrBefore, Cursor
  <2>4. Within(cursor)'
    <3>1. Len(files[Min(segments')]) \in Nat
      BY <1>2, <1>4, <2>2 DEF TypeOK
    <3>2. QED
      BY <1>2, <1>4, <2>1, <2>2, <3>1 DEF Within
  <2>5. \A s \in segments' : \A i \in Nat \ {0} : Beyond(cursor', s, i)
    <3>1. cursor'.segment \in Nat /\ cursor'.offset = 0
      BY <1>2, <1>4, <2>1, <2>2
    <3>2. \A s \in segments' : s \in Nat /\ cursor'.segment <= s
      BY <1>2, <1>4, <2>1, <2>2, Zenon
    <3>3. QED
      BY <3>1, <3>2 DEF Beyond
  <2>6. CovOf(files', Settled', accepted', cursor')
    <3>1. \A s \in DOMAIN files : \A i \in 1..Len(files[s]) : files[s][i] \in Settled' \/
            (s \in DOMAIN files' /\ files'[s] = files[s] /\ Beyond(cursor', s, i))
      BY <1>3, <1>4, <2>5
    <3>2. CovOf(files, Settled, accepted, cursor) /\ Settled \subseteq Settled'
      BY <1>1, <1>5
    <3>3. QED
      BY <1>1, <3>1, <3>2, CovKept
  <2>7. Running'
    BY <1>1, <1>4, <2>3, <2>4, <2>6, CoveredIs DEF Running
  <2>8. Busy'
    BY <1>4, <2>1, <2>2, SMTT(30) DEF Busy
  <2>9. QED
    BY <1>1, <1>4, <2>7, <2>8 DEF Sound
<1>8. CASE ~(cursor.segment <= oldest)
  <2>1. cursor' = cursor /\ pc' = pc
    BY <1>8 DEF enforce_capacity
  <2>2. Within(cursor)'
    <3>1. cursor.segment <= active
      BY <1>1, <1>2, <1>5 DEF Within, Cursor, Sound, Running
    <3>2. QED
      BY <1>4, <1>5, <2>1, <3>1 DEF Within
  <2>3. CovOf(files', Settled', accepted', cursor')
    <3>1. \A s \in DOMAIN files : \A i \in 1..Len(files[s]) : Beyond(cursor, s, i) =>
            files[s][i] \in Settled' \/
            (s \in DOMAIN files' /\ files'[s] = files[s] /\ Beyond(cursor', s, i))
      BY <1>3, <1>4, <2>1
    <3>2. CovOf(files, Settled, accepted, cursor) /\ Settled \subseteq Settled'
      BY <1>1, <1>5
    <3>3. QED
      BY <1>1, <3>1, <3>2, CovKept
  <2>4. Running'
    BY <1>1, <1>4, <1>6, <2>1, <2>2, <2>3, CoveredIs DEF Running
  <2>5. Busy'
    <3>1. pc' = "capacity" /\ segments' # {}
      BY <1>1, <1>4, <2>1
    <3>2. QED
      BY <3>1 DEF Busy
  <2>6. QED
    BY <1>1, <1>4, <2>4, <2>5 DEF Sound
<1>9. QED
  BY <1>7, <1>8

(* Steps that touch no file but the cursor's, and move no cursor in memory.*)
LEMMA SoundQuiet ==
    TypeOK /\ Sound /\ (capacity_ok \/ flush_tick \/ drained \/ UNCHANGED vars) => Sound'
<1> SUFFICES ASSUME TypeOK, Sound, capacity_ok \/ flush_tick \/ drained \/ UNCHANGED vars
             PROVE  Sound'
  OBVIOUS
<1>1. /\ files' = files /\ torn' = torn /\ cursorFile' = cursorFile
      /\ cursor' = cursor /\ active' = active /\ batch' = batch /\ next' = next
      /\ accepted' = accepted /\ stream' = stream /\ discarded' = discarded
  BY DEF capacity_ok, flush_tick, drained, vars, disk, memory, history
<1>2. pc' = pc \/ (pc # "down" /\ pc' \in {"idle", "drain"})
  BY DEF capacity_ok, flush_tick, drained, vars
<1>3. load_cursor' = load_cursor
  BY <1>1 DEF load_cursor
<1>4. QED
  BY <1>1, <1>2, <1>3, SMTT(30) DEF Sound, Running, Busy, Within, Covered, Unread, Passed,
     Settled, AtOrBefore

(* Storing the cursor makes the disk agree with memory, which is sound. *)
LEMMA SoundStore ==
    TypeOK /\ Sound /\ TypeOK' /\ (store_evicted_cursor \/ store_cursor) => Sound'
<1> SUFFICES ASSUME TypeOK, Sound, TypeOK', store_evicted_cursor \/ store_cursor
             PROVE  Sound'
  OBVIOUS
<1>1. /\ files' = files /\ torn' = torn /\ cursorFile' = cursor
      /\ cursor' = cursor /\ active' = active
      /\ accepted' = accepted /\ Settled' = Settled
      /\ pc \in {"evicted", "commit"} /\ pc' \in {"capacity", "drain"}
  BY DEF store_evicted_cursor, store_cursor, memory, history, Settled
<1>2. segments # {} /\ cursor.segment \in segments /\ Running
  BY <1>1 DEF Sound, Busy
<1>3. load_cursor' = cursor
  BY <1>1, <1>2, LoadIs DEF LoadRule
<1>4. Covered(cursor)' /\ Covered(load_cursor)'
  <2>1. CovOf(files, Settled, accepted, cursor)
    BY <1>2, CoveredIs DEF Running
  <2>2. QED
    BY <1>1, <1>3, <2>1, CoveredIs
<1>5. Within(cursor)' /\ Within(cursorFile)'
  BY <1>1, <1>2 DEF Running, Within
<1>6. AtOrBefore(cursorFile, cursor)'
  BY <1>1 DEF AtOrBefore, TypeOK, Cursor
<1>7. Running'
  BY <1>1, <1>2, <1>4, <1>5, <1>6 DEF Running
<1>8. Busy'
  BY <1>1, <1>2 DEF Busy
<1>9. QED
  BY <1>1, <1>2, <1>4, <1>5, <1>7, <1>8 DEF Sound

(* read_batch stops at or behind the cursor, and hands out what it passed. *)
LEMMA SoundRead == TypeOK /\ Sound /\ read_batch => Sound'
<1> SUFFICES ASSUME TypeOK, Sound, read_batch PROVE Sound'
  OBVIOUS
<1>1. /\ pc = "drain" /\ pc' = "publish"
      /\ files' = files /\ torn' = torn /\ cursorFile' = cursorFile
      /\ cursor' = cursor /\ active' = active
      /\ accepted' = accepted /\ stream' = stream /\ discarded' = discarded
  BY DEF read_batch, disk, history
<1>2. PICK s \in segments : \E k \in 0..Len(files[s]) :
            /\ StopsAt([segment |-> s, offset |-> k])
            /\ next' = [segment |-> s, offset |-> k]
            /\ batch' = Passed(cursor, [segment |-> s, offset |-> k])
  BY DEF read_batch
<1>3. PICK k \in 0..Len(files[s]) :
            /\ StopsAt([segment |-> s, offset |-> k])
            /\ next' = [segment |-> s, offset |-> k]
            /\ batch' = Passed(cursor, [segment |-> s, offset |-> k])
  BY <1>2
<1>4. Running /\ segments # {} /\ Within(cursor) /\ cursor \in Cursor
  BY <1>1, <1>2 DEF Sound, Running, TypeOK
<1>5. Len(files[s]) \in Nat /\ s \in Nat /\ k \in Nat
  BY <1>2, <1>3 DEF TypeOK
<1>6. AtOrBefore(cursor, next')
  <2>1. CASE k > 0 /\ Beyond(cursor, s, k)
    BY <1>3, <1>4, <1>5, <2>1 DEF AtOrBefore, Beyond, Cursor
  <2>2. CASE s = Max(segments) /\ k = Len(files[s])
    <3>1. \A t \in segments : t <= s
      BY <1>4, <2>2, Ends
    <3>2. segments \subseteq Nat
      BY DEF TypeOK
    <3>3. QED
      BY <1>3, <1>4, <1>5, <2>2, <3>1, <3>2 DEF AtOrBefore, Within, Cursor
  <2>3. QED
    BY <1>3, <2>1, <2>2 DEF StopsAt
<1>7. Passed(cursor, next)' = Passed(cursor, [segment |-> s, offset |-> k])
  BY <1>1, <1>3, SMTT(30) DEF Passed, Unread
<1>8. Busy'
  BY <1>1, <1>2, <1>3, <1>4, <1>5, <1>6, <1>7 DEF Busy, AtOrBefore
<1>9. load_cursor' = load_cursor
  BY <1>1 DEF load_cursor
<1>10. QED
  BY <1>1, <1>4, <1>8, <1>9, SMTT(30) DEF Sound, Running, Within, Covered, Unread, Settled, AtOrBefore

(* Once the batch is confirmed, moving the cursor past it loses nothing. *)
LEMMA SoundConfirmed == TypeOK /\ Sound /\ TypeOK' /\ publish_confirmed => Sound'
<1> SUFFICES ASSUME TypeOK, Sound, TypeOK', publish_confirmed PROVE Sound'
  OBVIOUS
<1>1. /\ pc = "publish" /\ pc' = "commit" /\ files' = files /\ torn' = torn
      /\ cursorFile' = cursorFile /\ cursor' = next /\ active' = active
      /\ accepted' = accepted /\ Settled' = Settled \cup batch
  BY DEF publish_confirmed, disk, Settled
<1>2. /\ next.segment \in segments /\ next.offset <= Len(files[next.segment])
      /\ AtOrBefore(cursor, next) /\ Passed(cursor, next) \subseteq batch
      /\ segments # {} /\ Running
  BY <1>1 DEF Sound, Busy
<1>3. next \in Cursor /\ cursor \in Cursor /\ segments \subseteq Nat
  BY DEF TypeOK
<1>4. Covered(cursor)'
  <2>1. Unread(cursor) \subseteq batch \cup Unread(next)
    BY <1>2 DEF Passed
  <2>2. Unread(next) = Unread(cursor)'
    BY <1>1 DEF Unread
  <2>3. QED
    BY <1>1, <1>2, <2>1, <2>2 DEF Running, Covered
<1>5. Within(cursor)'
  BY <1>1, <1>2, <1>3 DEF Within, Cursor
<1>6. cursorFile'.segment \in segments' => AtOrBefore(cursorFile', cursor')
  <2> SUFFICES ASSUME cursorFile.segment \in segments PROVE AtOrBefore(cursorFile, next)
    BY <1>1
  <2>1. cursorFile \in Cursor /\ AtOrBefore(cursorFile, cursor)
    BY <1>2, <1>3 DEF Running, TypeOK, NoCursor, NoSegment
  <2>2. QED
    BY <1>2, <1>3, <2>1 DEF AtOrBefore, Cursor
<1>7. Running'
  BY <1>1, <1>2, <1>4, <1>5, <1>6 DEF Running
<1>8. load_cursor' = load_cursor
  BY <1>1 DEF load_cursor
<1>9. Covered(load_cursor)'
  BY <1>1, <1>8, SMTT(30) DEF Sound, Covered, Unread
<1>10. Busy'
  BY <1>1, <1>2 DEF Busy
<1>11. QED
  BY <1>1, <1>7, <1>9, <1>10 DEF Sound, Within

(* A refusal moves nothing; what was stored all the same is settled. *)
LEMMA SoundRefused == TypeOK /\ Sound /\ publish_refused => Sound'
<1> SUFFICES ASSUME TypeOK, Sound, publish_refused PROVE Sound'
  OBVIOUS
<1>1. /\ pc = "publish" /\ pc' = "idle" /\ files' = files /\ torn' = torn
      /\ cursorFile' = cursorFile /\ cursor' = cursor /\ active' = active
      /\ accepted' = accepted /\ Settled \subseteq Settled'
  BY DEF publish_refused, disk, Settled
<1>2. load_cursor' = load_cursor
  BY <1>1 DEF load_cursor
<1>3. Covered(load_cursor)' /\ Covered(cursor)'
  BY <1>1, <1>2, SMTT(30) DEF Sound, Running, Covered, Unread
<1>4. QED
  BY <1>1, <1>3, SMTT(30) DEF Sound, Running, Busy, Within, AtOrBefore

(* commit unlinks a segment only when the cursor in memory is past it, so  *)
(* an unsettled record of it would have to be found further on as well.    *)
LEMMA SoundCommit == TypeOK /\ Sound /\ TypeOK' /\ commit => Sound'
<1> SUFFICES ASSUME TypeOK, Sound, TypeOK', commit PROVE Sound'
  OBVIOUS
<1> DEFINE oldest == Min(segments)
<1>1. /\ pc = "commit" /\ pc' = "commit" /\ files' = Without(oldest)
      /\ torn' = torn \ {oldest} /\ oldest < cursor.segment
      /\ cursorFile' = cursorFile /\ cursor' = cursor
      /\ active' = IF oldest = active THEN NoSegment ELSE active
      /\ accepted' = accepted /\ Settled' = Settled
  BY DEF commit, memory, history, Settled
<1>2. segments # {} /\ cursor.segment \in segments /\ Running /\ Within(cursor)
  BY <1>1, SMTT(30) DEF Sound, Busy, Running
<1>3. /\ oldest \in segments /\ \A s \in segments : oldest <= s
      /\ segments \subseteq Nat /\ cursor \in Cursor
  BY <1>2, Ends, SMTT(30) DEF TypeOK
<1>4. oldest # active
  BY <1>1, <1>2, <1>3 DEF Running
<1>5. segments' = segments \ {oldest}
  BY <1>1, <1>3, Unlink, Zenon
<1>6. CovOf(files, Settled, accepted, cursor)
  BY <1>2, CoveredIs DEF Running
<1>7. \A s \in segments : \A i \in Nat : Beyond(cursor, s, i) => s \in segments'
  BY <1>1, <1>3, <1>5 DEF Beyond, Cursor
<1>8. \A i \in 1..Len(files[oldest]) :
         \/ files[oldest][i] \notin 1..accepted
         \/ files[oldest][i] \in Settled'
         \/ \E s \in segments' : \E k \in 1..Len(files[s]) :
                files[s][k] = files[oldest][i] /\ Beyond(cursor, s, k)
  <2> SUFFICES ASSUME NEW r \in 1..accepted, r \notin Settled
               PROVE  \E s \in segments' : \E k \in 1..Len(files[s]) :
                          files[s][k] = r /\ Beyond(cursor, s, k)
    BY <1>1, SMTT(30)
  <2>1. PICK s \in segments : \E k \in 1..Len(files[s]) :
              files[s][k] = r /\ Beyond(cursor, s, k)
    BY <1>6 DEF CovOf
  <2>2. Len(files[s]) \in Nat
    BY DEF TypeOK
  <2>3. QED
    BY <1>7, <2>1, <2>2
<1>9. /\ cursorFile' = NoCursor \/ Within(cursorFile)'
      /\ Covered(load_cursor)'
      /\ active \in segments' \ torn /\ \A s \in segments' : s <= active
      /\ segments' = segments \ {oldest}
      /\ \A s \in segments' : files'[s] = files[s] /\ oldest < s
  BY <1>1, <1>2, <1>4, <1>8, UnlinkOldest, SMTT(30)
<1>10. Within(cursor)' /\ cursor.segment \in segments'
  BY <1>1, <1>2, <1>3, <1>9 DEF Within, Cursor
<1>11. CovOf(files', Settled', accepted', cursor')
  <2> SUFFICES ASSUME NEW r \in 1..accepted, r \notin Settled
               PROVE  \E s \in segments' : \E k \in 1..Len(files'[s]) :
                          files'[s][k] = r /\ Beyond(cursor, s, k)
    BY <1>1 DEF CovOf
  <2>1. PICK s \in segments : \E k \in 1..Len(files[s]) :
              files[s][k] = r /\ Beyond(cursor, s, k)
    BY <1>6 DEF CovOf
  <2>2. Len(files[s]) \in Nat
    BY DEF TypeOK
  <2>3. s \in segments'
    BY <1>7, <2>1, <2>2
  <2>4. QED
    BY <1>9, <2>1, <2>3
<1>12. Running'
  <2>1. cursorFile'.segment \in segments' => AtOrBefore(cursorFile', cursor')
    BY <1>1, <1>2, <1>5, SMTT(30) DEF Running
  <2>2. QED
    BY <1>1, <1>9, <1>10, <1>11, <2>1, CoveredIs DEF Running
<1>13. Busy'
  BY <1>1, <1>10 DEF Busy
<1>14. QED
  BY <1>1, <1>9, <1>12, <1>13 DEF Sound

(* A crash leaves the files and the stored cursor, which was sound already.*)
LEMMA SoundCrash == TypeOK /\ Sound /\ crash => Sound'
<1> SUFFICES ASSUME TypeOK, Sound, crash PROVE Sound'
  OBVIOUS
<1>1. /\ files' = files /\ cursorFile' = cursorFile /\ pc' = "down"
      /\ accepted' = accepted /\ Settled' = Settled
  BY DEF crash, Forget, history, Settled
<1>2. load_cursor' = load_cursor
  BY <1>1 DEF load_cursor
<1>3. QED
  BY <1>1, <1>2, SMTT(30) DEF Sound, Busy, Within, Covered, Unread

(* The cursor a restart loads is within the log. *)
LEMMA SoundOpen == TypeOK /\ Sound /\ TypeOK' /\ open => Sound'
<1> SUFFICES ASSUME TypeOK, Sound, TypeOK', open PROVE Sound'
  OBVIOUS
<1>1. /\ pc = "down" /\ pc' = "idle" /\ files' = files /\ cursorFile' = cursorFile
      /\ cursor' = load_cursor /\ accepted' = accepted /\ Settled' = Settled
  BY DEF open, history, Settled
<1>2. load_cursor' = load_cursor
  BY <1>1 DEF load_cursor
<1>3. Covered(load_cursor)' /\ Covered(cursor)'
  BY <1>1, <1>2 DEF Sound, Covered, Unread
<1>4. cursorFile.segment \in segments => load_cursor = cursorFile
  BY LoadIs DEF LoadRule
<1>5. cursorFile'.segment \in segments' => AtOrBefore(cursorFile', cursor')
  BY <1>1, <1>4 DEF AtOrBefore, TypeOK, Cursor
<1>6. CASE segments = {}
  <2>1. cursorFile = NoCursor
    BY <1>6 DEF Sound, Within
  <2>2. load_cursor = Start
    BY <2>1 DEF load_cursor
  <2>3. active' = NoSegment
    BY <1>6 DEF open
  <2>4. Running'
    BY <1>1, <1>3, <1>5, <1>6, <2>2, <2>3 DEF Running
  <2>5. QED
    BY <1>1, <1>3, <1>6, <2>1, <2>4 DEF Sound, Busy
<1>7. CASE segments # {}
  <2>1. /\ Min(segments) \in segments /\ Max(segments) \in segments
        /\ \A s \in segments : Min(segments) <= s /\ s <= Max(segments)
    BY <1>7, Ends
  <2>2. /\ active' = Max(segments) /\ torn' = torn \ {Max(segments)}
    BY <1>7 DEF open
  <2>3. Within(load_cursor)
    <3>1. CASE cursorFile = NoCursor
      BY <2>1, <3>1 DEF load_cursor, Within, Start, TypeOK
    <3>2. CASE cursorFile # NoCursor /\ cursorFile.segment \in segments
      BY <1>4, <3>2 DEF Sound
    <3>3. CASE cursorFile # NoCursor /\ cursorFile.segment \notin segments
      <4>1. load_cursor = [segment |-> Min(segments), offset |-> 0]
        BY <1>7, <3>3 DEF load_cursor
      <4>2. Len(files[Min(segments)]) \in Nat
        BY <2>1 DEF TypeOK
      <4>3. QED
        BY <2>1, <4>1, <4>2 DEF Within, TypeOK
    <3>4. QED
      BY <3>1, <3>2, <3>3
  <2>4. Within(cursor)' /\ (cursorFile' = NoCursor \/ Within(cursorFile)')
    BY <1>1, <2>3 DEF Within, Sound
  <2>5. Running'
    BY <1>1, <1>3, <1>5, <1>7, <2>1, <2>2, <2>4 DEF Running
  <2>6. QED
    BY <1>1, <1>3, <2>1, <2>4, <2>5 DEF Sound, Busy
<1>8. QED
  BY <1>6, <1>7, Zenon

-----------------------------------------------------------------------------
(* Every step keeps both cursors sound. *)
LEMMA SoundStep == TypeOK /\ Sound /\ TypeOK' /\ [Next]_vars => Sound'
  BY SoundEnsure, SoundAppend, SoundEnforce, SoundQuiet, SoundStore, SoundRead,
     SoundConfirmed, SoundRefused, SoundCommit, SoundCrash, SoundOpen
     DEF Next, Enqueue, Drain

(* Both cursors of the spool are sound in every state, for every segment   *)
(* size, ceiling, batch size and number of records.                        *)
THEOREM SpoolInvariant == Spec => [](TypeOK /\ Sound)
<1>1. Init => TypeOK /\ Sound
  BY TypeInit, SoundInit
<1>2. TypeOK /\ Sound /\ [Next]_vars => (TypeOK /\ Sound)'
  BY TypeStep, SoundStep
<1>3. QED
  BY <1>1, <1>2, PTL DEF Spec

(* The state of the spool always has its type: whatever a crash left in    *)
(* the directory, open gives the agent a cursor and segments it can use.   *)
THEOREM TypeCorrect == Spec => []TypeOK
  BY SpoolInvariant, PTL

(* No record the spool accepted is lost silently: it is on the event bus,  *)
(* or counted as discarded, or a drain still reaches it, also after a      *)
(* crash between any two file operations.                                  *)
THEOREM NothingLost == Spec => []NoSilentLoss
<1>1. Sound => NoSilentLoss
  BY DEF Sound, Running, Covered, NoSilentLoss, Pending, Position
<1>2. QED
  BY <1>1, SpoolInvariant, PTL
=============================================================================
