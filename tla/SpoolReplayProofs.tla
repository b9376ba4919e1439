------------------------- MODULE SpoolReplayProofs -------------------------
(***************************************************************************)
(* A crash of the agent replays no more than one batch, for every segment  *)
(* size, size ceiling and batch size.  The argument: what is on the event  *)
(* bus and would be read again lies among the BatchSize oldest records     *)
(* that a drain from the stored cursor reads; each further attempt to send *)
(* reads a batch from the same place, and a confirmed batch is a full one  *)
(* or all there is, so that nothing behind it has been sent.               *)
(***************************************************************************)
EXTENDS SpoolPromiseProofs

USE DEF segments, remove_segment

(* The members of S within U lie among the BatchSize smallest of U, where  *)
(* all are numbers up to n.                                                *)
Fits(U, S, n) ==
    \E m \in 0..n : S \cap U \subseteq 1..m /\ Cardinality(U \cap (1..m)) <= BatchSize

(* What a drain reads if the process dies now. *)
AfterCrash == Unread(load_cursor)

(* Outside commit the stored cursor reads what the one in memory reads. *)
SameReads ==
    pc \notin {"down", "commit"} =>
        \A s \in segments : \A i \in 1..Len(files[s]) :
            Beyond(load_cursor, s, i) <=> Beyond(cursor, s, i)

(* What would be sent again is part of one batch. *)
Replayed == Fits(AfterCrash, stream, accepted)

(* Behind a confirmed batch nothing has been sent. *)
Fresh == pc = "commit" => stream \cap Unread(cursor) = {}

(* The batch being published is the oldest of what is unread: a full       *)
(* batch, or the rest.                                                     *)
Published ==
    pc = "publish" =>
        /\ Fits(Unread(cursor), batch, accepted)
        /\ \/ Unread(next) = {}
           \/ batch = Passed(cursor, next) /\ Cardinality(batch) = BatchSize

StreamIn == stream \subseteq 1..accepted

Replay == SameReads /\ Replayed /\ Fresh /\ Published /\ StreamIn

-----------------------------------------------------------------------------
(* A part of an interval is finite. *)
LEMMA PartSize ==
    ASSUME NEW n \in Nat, NEW U \in SUBSET (1..n)
    PROVE  IsFiniteSet(U) /\ Cardinality(U) \in Nat
<1>1. 1 \in Int /\ n \in Int
  OBVIOUS
<1>2. IsFiniteSet(1..n)
  BY <1>1, FS_Interval, Zenon
<1> QED
  BY <1>2, FS_Subset, FS_CardinalityType, Zenon

(* The numbers stay among the smallest when U loses elements or gains      *)
(* larger ones.                                                            *)
LEMMA FitsKept ==
    ASSUME NEW n \in Nat, NEW k \in Nat, n <= k, NEW U \in SUBSET (1..n), NEW S,
           NEW V, NEW T, V \cap (1..n) \subseteq U, T \cap V \subseteq S \cap U, Fits(U, S, n)
    PROVE  Fits(V, T, k)
<1>1. PICK m \in 0..n : S \cap U \subseteq 1..m /\ Cardinality(U \cap (1..m)) <= BatchSize
  BY Zenon DEF Fits
<1>2. m \in 0..k /\ 1..m \subseteq 1..n
  OBVIOUS
<1>3. V \cap (1..m) \subseteq U \cap (1..m)
  BY <1>2
<1>4. U \cap (1..m) \in SUBSET (1..n)
  OBVIOUS
<1>5. Cardinality(V \cap (1..m)) <= Cardinality(U \cap (1..m))
  BY <1>3, <1>4, PartSize, FS_Subset, Zenon
<1>6. V \cap (1..m) \in SUBSET (1..n)
  BY <1>3
<1>7. Cardinality(V \cap (1..m)) \in Nat /\ Cardinality(U \cap (1..m)) \in Nat
  BY <1>4, <1>6, PartSize, Zenon
<1>8. Cardinality(V \cap (1..m)) <= BatchSize
  BY <1>1, <1>5, <1>7, SpoolConfigAssumption
<1>9. T \cap V \subseteq 1..m
  BY <1>1
<1> QED
  BY <1>2, <1>8, <1>9, Zenon DEF Fits

(* Two parts of U that lie among its smallest do so together. *)
LEMMA FitsBoth ==
    ASSUME NEW n \in Nat, NEW U, NEW S, NEW T, Fits(U, S, n), Fits(U, T, n)
    PROVE  Fits(U, S \cup T, n)
<1>1. PICK m \in 0..n : S \cap U \subseteq 1..m /\ Cardinality(U \cap (1..m)) <= BatchSize
  BY Zenon DEF Fits
<1>2. PICK k \in 0..n : T \cap U \subseteq 1..k /\ Cardinality(U \cap (1..k)) <= BatchSize
  BY Zenon DEF Fits
<1>3. CASE m <= k
  <2>1. 1..m \subseteq 1..k
    BY <1>3
  <2>2. (S \cup T) \cap U \subseteq 1..k
    BY <1>1, <1>2, <2>1
  <2> QED
    BY <1>2, <2>2, Zenon DEF Fits
<1>4. CASE k <= m
  <2>1. 1..k \subseteq 1..m
    BY <1>4
  <2>2. (S \cup T) \cap U \subseteq 1..m
    BY <1>1, <1>2, <2>1
  <2> QED
    BY <1>1, <2>2, Zenon DEF Fits
<1> QED
  BY <1>3, <1>4

(* Nothing lies among the smallest of any set. *)
LEMMA FitsNone ==
    ASSUME NEW n \in Nat, NEW U, NEW S, S \cap U = {}
    PROVE  Fits(U, S, n)
<1>1. U \cap (1..0) = {}
  OBVIOUS
<1>2. Cardinality(U \cap (1..0)) <= BatchSize
  BY <1>1, FS_EmptySet, SpoolConfigAssumption
<1>3. 0 \in 0..n /\ S \cap U \subseteq 1..0
  OBVIOUS
<1> QED
  BY <1>2, <1>3, Zenon DEF Fits

-----------------------------------------------------------------------------
(* What the cursors read, before and after a step. *)
LEMMA UnreadIs ==
    /\ AfterCrash = Reads(files, accepted, load_cursor)
    /\ AfterCrash' = Reads(files', accepted', load_cursor')
    /\ Unread(cursor) = Reads(files, accepted, cursor)
    /\ Unread(cursor)' = Reads(files', accepted', cursor')
    /\ Unread(next) = Reads(files, accepted, next)
    /\ Unread(next)' = Reads(files', accepted', next')
    /\ AfterCrash \subseteq 1..accepted
<1>1. AfterCrash = Reads(files, accepted, load_cursor)
  BY Zenon DEF AfterCrash, Unread, Reads
<1>2. AfterCrash' = Reads(files', accepted', load_cursor')
  BY Zenon DEF AfterCrash, Unread, Reads
<1>3. Unread(cursor) = Reads(files, accepted, cursor)
  BY Zenon DEF Unread, Reads
<1>4. Unread(cursor)' = Reads(files', accepted', cursor')
  BY Zenon DEF Unread, Reads
<1>5. Unread(next) = Reads(files, accepted, next)
  BY Zenon DEF Unread, Reads
<1>6. Unread(next)' = Reads(files', accepted', next')
  BY Zenon DEF Unread, Reads
<1>7. AfterCrash \subseteq 1..accepted
  BY Zenon DEF AfterCrash, Unread
<1> QED
  BY <1>1, <1>2, <1>3, <1>4, <1>5, <1>6, <1>7, Zenon

(* Outside commit both cursors leave the same records to read. *)
LEMMA BothRead ==
    ASSUME SameReads, pc \notin {"down", "commit"}
    PROVE  Unread(cursor) = AfterCrash
<1>1. \A s \in DOMAIN files : \A i \in 1..Len(files[s]) :
          Beyond(load_cursor, s, i) <=> Beyond(cursor, s, i)
  BY DEF SameReads
<1>2. /\ Reads(files, accepted, cursor) \subseteq Reads(files, accepted, load_cursor)
      /\ Reads(files, accepted, load_cursor) \subseteq Reads(files, accepted, cursor)
  BY <1>1, ReadsKept
<1> QED
  BY <1>2, UnreadIs

(* While the cursor file stays, a record that stays is read after a crash  *)
(* if it would have been before, unless a segment takes the name the       *)
(* cursor file holds.                                                      *)
LEMMA LoadReads ==
    ASSUME TypeOK, TypeOK', cursorFile' = cursorFile,
           NEW s \in segments, s \in segments', NEW i \in Nat \ {0},
           cursorFile.segment \in segments' => cursorFile.segment \in segments,
           cursorFile.segment \in segments =>
                cursorFile.segment \in segments' \/ cursorFile.segment < s
    PROVE  Beyond(load_cursor', s, i) <=> Beyond(load_cursor, s, i)
<1>1. LoadRule /\ LoadRule'
  BY LoadIs
<1>2. CASE cursorFile.segment \in segments'
  BY <1>1, <1>2 DEF LoadRule
<1>3. CASE cursorFile.segment \notin segments'
  <2>1. Beyond(load_cursor', s, i)
    BY <1>1, <1>3 DEF LoadRule
  <2>2. Beyond(load_cursor, s, i)
    <3>1. CASE cursorFile.segment \in segments
      <4>1. load_cursor = cursorFile /\ cursorFile.segment < s
        BY <1>1, <1>3, <3>1 DEF LoadRule
      <4>2. cursorFile.segment \in Nat /\ s \in Nat
        BY <3>1 DEF TypeOK
      <4> QED
        BY <4>1, <4>2 DEF Beyond
    <3>2. CASE cursorFile.segment \notin segments
      BY <1>1, <3>2 DEF LoadRule
    <3> QED
      BY <3>1, <3>2
  <2> QED
    BY <2>1, <2>2
<1> QED
  BY <1>2, <1>3

(* What would be sent again stays part of one batch when less is read. *)
LEMMA LessReplayed ==
    ASSUME accepted \in Nat, Replayed, accepted' = accepted, stream' = stream,
           AfterCrash' \subseteq AfterCrash
    PROVE  Replayed'
<1> DEFINE U == AfterCrash
           V == AfterCrash'
<1>1. U \in SUBSET (1..accepted) /\ V \subseteq U /\ Fits(U, stream, accepted)
  BY UnreadIs DEF Replayed
<1> HIDE DEF U, V
<1>2. V \cap (1..accepted) \subseteq U /\ stream \cap V \subseteq stream \cap U
  BY <1>1, Zenon
<1>3. accepted <= accepted
  OBVIOUS
<1>4. Fits(V, stream, accepted)
  BY <1>1, <1>2, <1>3, FitsKept, Zenon
<1> QED
  BY <1>4 DEF Replayed, V

(* Unlinking the oldest segment leaves less to read after a crash. *)
LEMMA UnlinkReads ==
    ASSUME TypeOK, TypeOK', Sound, segments # {}, cursorFile' = cursorFile,
           files' = Without(Min(segments)), accepted' = accepted
    PROVE  /\ AfterCrash' \subseteq AfterCrash
           /\ segments' = segments \ {Min(segments)}
           /\ \A s \in segments' : files'[s] = files[s]
           /\ \A s \in segments' : \A i \in 1..Len(files[s]) :
                 Beyond(load_cursor', s, i) <=> Beyond(load_cursor, s, i)
<1> DEFINE oldest == Min(segments)
<1>1. oldest \in segments /\ \A s \in segments : oldest <= s
  BY Ends
<1>2. segments' = segments \ {oldest} /\ \A s \in segments' : files'[s] = files[s]
  BY <1>1, Unlink, Zenon
<1>3. segments \subseteq Nat
  BY DEF TypeOK
<1> HIDE DEF oldest
<1>4. ASSUME NEW s \in segments', NEW i \in 1..Len(files[s])
      PROVE  Beyond(load_cursor', s, i) <=> Beyond(load_cursor, s, i)
  <2>1. s \in segments /\ s # oldest
    BY <1>2
  <2>2. i \in Nat \ {0}
    BY <2>1, Numbers
  <2>3. oldest < s
    BY <1>1, <1>3, <2>1
  <2>4. /\ cursorFile.segment \in segments' => cursorFile.segment \in segments
        /\ cursorFile.segment \in segments =>
              cursorFile.segment \in segments' \/ cursorFile.segment < s
    BY <1>2, <2>3
  <2> QED
    BY <2>1, <2>2, <2>4, LoadReads
<1>5. Reads(files', accepted, load_cursor') \subseteq Reads(files, accepted, load_cursor)
  <2>1. \A s \in DOMAIN files' : \A i \in 1..Len(files'[s]) : Beyond(load_cursor', s, i) =>
            s \in DOMAIN files /\ files[s] = files'[s] /\ Beyond(load_cursor, s, i)
    BY <1>2, <1>4
  <2> QED
    BY <2>1, ReadsKept
<1> QED
  BY <1>2, <1>4, <1>5, UnreadIs DEF oldest

-----------------------------------------------------------------------------
(* Nothing has been sent at first. *)
LEMMA ReplayInit == Init => Replay
<1> SUFFICES ASSUME Init PROVE Replay
  OBVIOUS
<1>1. segments = {} /\ accepted = 0 /\ pc = "idle" /\ stream = {}
  BY DEF Init
<1>2. Replayed
  BY <1>1, FitsNone DEF Replayed
<1> QED
  BY <1>1, <1>2 DEF Replay, SameReads, Fresh, Published, StreamIn

(* Steps that touch neither records nor cursors, and open, which takes the *)
(* stored cursor.                                                          *)
LEMMA ReplayQuiet ==
    ASSUME Inv, Replay, capacity_ok \/ flush_tick \/ drained \/ open \/ UNCHANGED vars
    PROVE  Replay'
<1>1. /\ files' = files /\ cursorFile' = cursorFile /\ accepted' = accepted
      /\ stream' = stream
  BY DEF capacity_ok, flush_tick, drained, open, vars, disk, history
<1>2. load_cursor' = load_cursor
  BY <1>1 DEF load_cursor
<1>3. AfterCrash' = AfterCrash
  BY <1>1, <1>2, UnreadIs
<1>4. Replayed' /\ StreamIn'
  BY <1>1, <1>3 DEF Replay, Replayed, StreamIn
<1>5. CASE capacity_ok \/ flush_tick \/ drained
  <2>1. cursor' = cursor /\ pc \notin {"down", "commit"} /\ pc' \notin {"publish", "commit"}
    BY <1>5 DEF capacity_ok, flush_tick, drained, memory
  <2>2. SameReads'
    BY <1>1, <1>2, <2>1 DEF Replay, SameReads
  <2> QED
    BY <1>4, <2>1, <2>2 DEF Replay, Fresh, Published
<1>6. CASE open
  <2>1. cursor' = load_cursor /\ pc' = "idle"
    BY <1>6 DEF open
  <2>2. SameReads'
    BY <1>2, <2>1 DEF SameReads
  <2> QED
    BY <1>4, <2>1, <2>2 DEF Replay, Fresh, Published
<1>7. CASE UNCHANGED vars
  <2>1. pc' = pc /\ cursor' = cursor /\ batch' = batch /\ next' = next
    BY <1>7 DEF vars
  <2>2. SameReads'
    BY <1>1, <1>2, <2>1 DEF Replay, SameReads
  <2>3. Unread(cursor)' = Unread(cursor) /\ Unread(next)' = Unread(next)
    BY <1>1, <2>1, UnreadIs
  <2>4. Fresh'
    BY <1>1, <2>1, <2>3 DEF Replay, Fresh
  <2>5. Published'
    BY <1>1, <2>1, <2>3, Zenon DEF Replay, Published, Passed
  <2> QED
    BY <1>4, <2>2, <2>4, <2>5 DEF Replay
<1> QED
  BY <1>5, <1>6, <1>7

(* Storing the cursor makes the records behind it safe from a replay. *)
LEMMA ReplayStore ==
    ASSUME Inv, Replay, store_evicted_cursor \/ store_cursor
    PROVE  Replay'
<1>1. /\ files' = files /\ cursorFile' = cursor /\ cursor' = cursor
      /\ accepted' = accepted /\ stream' = stream
      /\ pc \in {"evicted", "commit"} /\ pc' \notin {"down", "publish", "commit"}
  BY DEF store_evicted_cursor, store_cursor, memory, history
<1>2. load_cursor' = cursor
  <2>1. cursor.segment \in segments /\ cursor \in Cursor /\ segments \subseteq Nat
    BY <1>1 DEF Inv, Sound, Busy, TypeOK
  <2>2. cursor # NoCursor
    BY <2>1 DEF NoCursor, NoSegment
  <2> QED
    BY <1>1, <2>1, <2>2 DEF load_cursor
<1>3. AfterCrash' = Unread(cursor)
  BY <1>1, <1>2, UnreadIs
<1>4. Fits(Unread(cursor), stream, accepted)
  <2>1. CASE pc = "evicted"
    BY <2>1, BothRead DEF Replay, Replayed
  <2>2. CASE pc = "commit"
    BY <2>2, FitsNone DEF Inv, TypeOK, Replay, Fresh
  <2> QED
    BY <1>1, <2>1, <2>2
<1>5. Replayed' /\ StreamIn'
  BY <1>1, <1>3, <1>4 DEF Replay, Replayed, StreamIn
<1>6. SameReads'
  BY <1>1, <1>2 DEF SameReads
<1> QED
  BY <1>1, <1>5, <1>6 DEF Replay, Fresh, Published

(* A new segment takes the name no cursor holds. *)
LEMMA ReplayEnsure ==
    ASSUME Inv, TypeOK', Replay, ensure_active_segment
    PROVE  Replay'
<1>1. /\ pc = "idle" /\ pc' = "write" /\ cursor' = cursor /\ cursorFile' = cursorFile
      /\ accepted' = accepted /\ stream' = stream
  BY DEF ensure_active_segment, history
<1>2. /\ segments \subseteq segments'
      /\ \A s \in segments : files'[s] = files[s]
      /\ \A s \in segments' : \A i \in 1..Len(files'[s]) : s \in segments /\ files'[s] = files[s]
      /\ cursorFile.segment \in segments' => cursorFile.segment \in segments
  <2>1. CASE active = NoSegment \/ Len(files[active]) >= SegmentRecords
    <3>1. /\ active' \in Nat \ segments /\ \A s \in segments : s < active'
          /\ segments' = segments \cup {active'}
          /\ files'[active'] = <<>>
          /\ \A s \in segments : files'[s] = files[s]
      BY <2>1, Rotate DEF Inv
    <3>2. cursorFile.segment # active'
      <4>1. CASE cursorFile = NoCursor
        BY <3>1, <4>1 DEF NoCursor, NoSegment
      <4>2. CASE cursorFile # NoCursor
        <5>1. PICK s \in segments : cursorFile.segment <= s
          BY <4>2 DEF Inv, Sound, Within
        <5>2. cursorFile \in Cursor /\ s \in Nat
          BY <4>2 DEF Inv, TypeOK
        <5> QED
          BY <3>1, <5>1, <5>2 DEF Cursor
      <4> QED
        BY <4>1, <4>2
    <3> QED
      BY <3>1, <3>2
  <2>2. CASE ~(active = NoSegment \/ Len(files[active]) >= SegmentRecords)
    BY <2>2 DEF ensure_active_segment
  <2> QED
    BY <2>1, <2>2
<1>3. ASSUME NEW s \in segments, NEW i \in 1..Len(files[s])
      PROVE  Beyond(load_cursor', s, i) <=> Beyond(load_cursor, s, i)
  <2>1. i \in Nat \ {0}
    BY Numbers DEF Inv
  <2> QED
    BY <1>1, <1>2, <2>1, LoadReads DEF Inv
<1>4. AfterCrash' \subseteq AfterCrash
  <2>1. \A s \in DOMAIN files' : \A i \in 1..Len(files'[s]) : Beyond(load_cursor', s, i) =>
            s \in DOMAIN files /\ files[s] = files'[s] /\ Beyond(load_cursor, s, i)
    BY <1>2, <1>3
  <2>2. Reads(files', accepted, load_cursor') \subseteq Reads(files, accepted, load_cursor)
    BY <2>1, ReadsKept
  <2> QED
    BY <1>1, <2>2, UnreadIs
<1>5. Replayed'
  BY <1>1, <1>4, LessReplayed DEF Inv, TypeOK, Replay
<1>6. SameReads'
  BY <1>1, <1>2, <1>3 DEF Replay, SameReads
<1>7. StreamIn'
  BY <1>1 DEF Replay, StreamIn
<1> QED
  BY <1>1, <1>5, <1>6, <1>7 DEF Replay, Fresh, Published

(* A new record lies beyond both cursors, after all that has been sent. *)
LEMMA ReplayAppend ==
    ASSUME Inv, TypeOK', Replay, append
    PROVE  Replay'
<1> DEFINE a == active
           n == Len(files[active])
<1>1. /\ pc = "write" /\ pc' = "capacity" /\ cursor' = cursor /\ cursorFile' = cursorFile
      /\ stream' = stream
  BY DEF append, memory
<1>2. TypeOK /\ a \in segments /\ segments' = segments /\ accepted' = accepted + 1
      /\ accepted \in Nat
  BY Written, SMTT(30) DEF Inv, TypeOK
<1>3. n \in Nat /\ a \in Nat
  BY <1>2, Numbers
<1>4. Beyond(cursor, a, n + 1)
  BY NewPlace
<1>5. ASSUME NEW s \in segments, NEW i \in Nat \ {0}
      PROVE  Beyond(load_cursor', s, i) <=> Beyond(load_cursor, s, i)
  BY <1>1, <1>2, LoadReads
<1>6. ASSUME NEW s \in segments, NEW i \in 1..Len(files'[s])
      PROVE  \/ /\ i \in 1..Len(files[s]) /\ files'[s][i] = files[s][i]
                /\ files[s][i] \in 1..accepted
             \/ s = a /\ i = n + 1 /\ files'[s][i] = accepted + 1
  BY Places
<1> HIDE DEF a, n
<1>7. Beyond(load_cursor, a, n + 1)
  <2>1. LoadRule /\ Running /\ cursor \in Cursor /\ load_cursor \in Cursor
    BY <1>1, <1>2, LoadIs, LoadType, Zenon DEF Inv, Sound, TypeOK
  <2>2. CASE cursorFile.segment \in segments
    <3>1. load_cursor = cursorFile /\ AtOrBefore(cursorFile, cursor)
      BY <2>1, <2>2 DEF LoadRule, Running
    <3> QED
      BY <1>3, <1>4, <2>1, <3>1 DEF AtOrBefore, Beyond, Cursor
  <2>3. CASE cursorFile.segment \notin segments
    BY <1>2, <1>3, <2>1, <2>3 DEF LoadRule
  <2> QED
    BY <2>2, <2>3
<1>8. SameReads'
  <2> SUFFICES ASSUME NEW s \in segments, NEW i \in 1..Len(files'[s])
               PROVE  Beyond(load_cursor', s, i) <=> Beyond(cursor, s, i)
    BY <1>1, <1>2 DEF SameReads
  <2>1. Len(files'[s]) \in Nat
    BY <1>2 DEF TypeOK
  <2>2. i \in Nat \ {0}
    BY <2>1
  <2>3. Beyond(load_cursor, s, i) <=> Beyond(cursor, s, i)
    <3>1. CASE s = a /\ i = n + 1
      BY <1>4, <1>7, <3>1
    <3>2. CASE i \in 1..Len(files[s])
      BY <1>1, <3>2 DEF Replay, SameReads
    <3> QED
      BY <1>6, <3>1, <3>2
  <2> QED
    BY <1>5, <2>2, <2>3
<1>9. Replayed'
  <2> DEFINE U == AfterCrash
             V == AfterCrash'
  <2>1. U \in SUBSET (1..accepted) /\ Fits(U, stream, accepted) /\ stream \subseteq 1..accepted
    BY UnreadIs DEF Replay, Replayed, StreamIn
  <2>2. ASSUME NEW r \in V, r \in 1..accepted PROVE r \in U
    <3>1. PICK s \in segments : \E i \in 1..Len(files'[s]) :
                files'[s][i] = r /\ Beyond(load_cursor', s, i)
      BY <1>2, UnreadIs DEF Reads
    <3>2. PICK i \in 1..Len(files'[s]) : files'[s][i] = r /\ Beyond(load_cursor', s, i)
      BY <3>1
    <3>3. i \in 1..Len(files[s]) /\ files[s][i] = r
      <4>1. r # accepted + 1
        BY <1>2, <2>2
      <4> QED
        BY <1>6, <3>2, <4>1
    <3>4. i \in Nat \ {0}
      BY <1>2, <3>3, Numbers
    <3>5. Beyond(load_cursor, s, i)
      BY <1>5, <3>2, <3>4
    <3> QED
      BY <2>2, <3>3, <3>5, UnreadIs DEF Reads
  <2> HIDE DEF U, V
  <2>3. V \cap (1..accepted) \subseteq U /\ stream \cap V \subseteq stream \cap U
    BY <2>1, <2>2, Zenon
  <2>4. accepted + 1 \in Nat /\ accepted <= accepted + 1
    BY <1>2
  <2>5. Fits(V, stream, accepted + 1)
    BY <1>2, <2>1, <2>3, <2>4, FitsKept, Zenon
  <2> QED
    BY <1>1, <1>2, <2>5 DEF Replayed, V
<1>10. StreamIn'
  <2>1. 1..accepted \subseteq 1..(accepted + 1)
    BY <1>2
  <2> QED
    BY <1>1, <1>2, <2>1 DEF Replay, StreamIn
<1> QED
  BY <1>1, <1>8, <1>9, <1>10 DEF Replay, Fresh, Published

(* Eviction moves both cursors off the segment. *)
LEMMA ReplayEnforce ==
    ASSUME Inv, TypeOK', Replay, enforce_capacity
    PROVE  Replay'
<1>1. /\ pc = "capacity" /\ pc' \in {"capacity", "evicted"} /\ cursorFile' = cursorFile
      /\ files' = Without(Min(segments)) /\ accepted' = accepted /\ stream' = stream
  BY DEF enforce_capacity
<1>2. TypeOK /\ Sound /\ segments # {}
  BY <1>1 DEF Inv, Sound, Busy
<1>3. /\ AfterCrash' \subseteq AfterCrash
      /\ segments' = segments \ {Min(segments)}
      /\ \A s \in segments' : files'[s] = files[s]
      /\ \A s \in segments' : \A i \in 1..Len(files[s]) :
            Beyond(load_cursor', s, i) <=> Beyond(load_cursor, s, i)
  BY <1>1, <1>2, UnlinkReads
<1>4. \A s \in segments' : \A i \in 1..Len(files[s]) :
          Beyond(cursor', s, i) <=> Beyond(cursor, s, i)
  BY <1>3, EvictedReads
<1>5. SameReads'
  <2> SUFFICES ASSUME NEW s \in segments', NEW i \in 1..Len(files'[s])
               PROVE  Beyond(load_cursor', s, i) <=> Beyond(cursor', s, i)
    BY DEF SameReads
  <2>1. s \in segments /\ files'[s] = files[s]
    BY <1>3
  <2>2. Beyond(load_cursor, s, i) <=> Beyond(cursor, s, i)
    BY <1>1, <2>1 DEF Replay, SameReads
  <2> QED
    BY <1>3, <1>4, <2>1, <2>2
<1>6. Replayed' /\ StreamIn'
  BY <1>1, <1>2, <1>3, LessReplayed DEF TypeOK, Replay, StreamIn
<1> QED
  BY <1>1, <1>5, <1>6 DEF Replay, Fresh, Published

(* commit leaves unread what is behind the confirmed batch. *)
LEMMA ReplayCommit ==
    ASSUME Inv, TypeOK', Replay, commit
    PROVE  Replay'
<1>1. /\ pc = "commit" /\ pc' = "commit" /\ cursorFile' = cursorFile /\ cursor' = cursor
      /\ files' = Without(Min(segments)) /\ accepted' = accepted /\ stream' = stream
  BY DEF commit
<1>2. TypeOK /\ Sound /\ segments # {}
  BY <1>1 DEF Inv, Sound, Busy
<1>3. AfterCrash' \subseteq AfterCrash
  BY <1>1, <1>2, UnlinkReads
<1>4. Replayed' /\ StreamIn'
  BY <1>1, <1>2, <1>3, LessReplayed DEF TypeOK, Replay, StreamIn
<1>5. Fresh'
  <2>1. Pending' = Pending
    BY CommitStep
  <2>2. Pending = Unread(cursor) /\ Pending' = Unread(cursor)'
    BY <1>1 DEF Pending, Position
  <2> QED
    BY <1>1, <2>1, <2>2 DEF Replay, Fresh
<1> QED
  BY <1>1, <1>4, <1>5, SMTT(30) DEF Replay, SameReads, Published

(* A crash leaves the stored cursor. *)
LEMMA ReplayCrash ==
    ASSUME Inv, Replay, crash
    PROVE  Replay'
<1>1. /\ pc' = "down" /\ files' = files /\ cursorFile' = cursorFile
      /\ accepted' = accepted /\ stream' = stream
  BY DEF crash, Forget, history
<1>2. AfterCrash' = AfterCrash
  BY <1>1, UnreadIs DEF load_cursor
<1>3. Replayed' /\ StreamIn'
  BY <1>1, <1>2 DEF Replay, Replayed, StreamIn
<1> QED
  BY <1>1, <1>3 DEF Replay, SameReads, Fresh, Published

-----------------------------------------------------------------------------
(* read_batch takes the oldest of what is unread. *)
LEMMA ReplayRead ==
    ASSUME Inv, Replay, read_batch
    PROVE  Replay'
<1>1. /\ pc = "drain" /\ pc' = "publish" /\ files' = files /\ cursorFile' = cursorFile
      /\ cursor' = cursor /\ accepted' = accepted /\ stream' = stream
  BY DEF read_batch, disk, history
<1>2. PICK s \in segments : \E k \in 0..Len(files[s]) :
          LET d == [segment |-> s, offset |-> k]
          IN  StopsAt(d) /\ next' = d /\ batch' = Passed(cursor, d)
  BY DEF read_batch
<1>3. PICK k \in 0..Len(files[s]) :
          LET d == [segment |-> s, offset |-> k]
          IN  StopsAt(d) /\ next' = d /\ batch' = Passed(cursor, d)
  BY <1>2
<1> DEFINE d == [segment |-> s, offset |-> k]
           U == Unread(cursor)
<1>4. StopsAt(d) /\ next' = d /\ batch' = Passed(cursor, d)
  BY <1>3
<1>5. /\ TypeOK /\ s \in Nat /\ k \in Nat /\ d.segment = s /\ d.offset = k /\ d \in Cursor
      /\ accepted \in Nat
  BY Numbers, SMTT(30) DEF Inv, Cursor, TypeOK
<1> HIDE DEF d
<1>6. Unread(cursor)' = U /\ Unread(next)' = Unread(d)
  <2>1. Unread(d) = Reads(files, accepted, d)
    BY Zenon DEF Unread, Reads
  <2> QED
    BY <1>1, <1>4, <2>1, UnreadIs
<1>7. U \in SUBSET (1..accepted) /\ Unread(d) \subseteq 1..accepted
  BY Zenon DEF Unread
<1>8. Passed(cursor, next)' = batch'
  BY <1>4, <1>6 DEF Passed
<1>9. ASSUME Cardinality(Passed(cursor, d)) = BatchSize,
             d.offset > 0, Beyond(cursor, d.segment, d.offset)
      PROVE  Published'
  <2> DEFINE m == files[s][k]
  <2>1. k \in 1..Len(files[s]) /\ ~Beyond(d, s, k)
    BY <1>5, <1>9 DEF Beyond
  <2>2. m \in 1..accepted
    BY <2>1 DEF Inv, Ordered, InRange
  <2>3. ASSUME NEW r \in U, r \notin Unread(d) PROVE r <= m
    <3>1. PICK t \in segments : \E j \in 1..Len(files[t]) : files[t][j] = r
      BY UnreadIs DEF Reads
    <3>2. PICK j \in 1..Len(files[t]) : files[t][j] = r
      BY <3>1
    <3>3. ~Beyond(d, t, j)
      BY <1>7, <2>3, <3>2, Zenon DEF Unread
    <3>4. t \in Nat /\ j \in Nat
      BY <1>5, Numbers
    <3>5. t < s \/ (t = s /\ j < k) \/ (t = s /\ j = k)
      BY <1>5, <3>3, <3>4 DEF Beyond
    <3>6. r \in Nat /\ m \in Nat
      BY <1>7, <2>2
    <3>7. CASE t < s \/ (t = s /\ j < k)
      <4>1. files[t][j] < files[s][k]
        BY <2>1, <3>7 DEF Inv, Ordered, Increasing
      <4> QED
        BY <3>2, <3>6, <4>1
    <3> QED
      BY <3>2, <3>5, <3>6, <3>7
  <2>4. ASSUME NEW r \in U, r <= m PROVE r \notin Unread(d)
    <3> SUFFICES ASSUME r \in Unread(d) PROVE FALSE
      OBVIOUS
    <3>1. PICK t \in segments : \E j \in 1..Len(files[t]) :
                files[t][j] = r /\ Beyond(d, t, j)
      BY Zenon DEF Unread
    <3>2. PICK j \in 1..Len(files[t]) : files[t][j] = r /\ Beyond(d, t, j)
      BY <3>1
    <3>3. m < r
      BY <1>5, <2>1, <3>2, Parted DEF Inv, Ordered
    <3>4. r \in Nat /\ m \in Nat
      BY <1>7, <2>2
    <3> QED
      BY <2>4, <3>3, <3>4
  <2> HIDE DEF m
  <2>5. U \cap (1..m) = Passed(cursor, d)
    <3>1. \A r \in U : r \in 1..m <=> r <= m
      BY <1>7, <2>2
    <3> QED
      BY <2>3, <2>4, <3>1 DEF Passed
  <2>6. Fits(U, batch', accepted)
    <3>1. m \in 0..accepted /\ BatchSize <= BatchSize
      BY <2>2, SpoolConfigAssumption
    <3>2. batch' \cap U \subseteq 1..m /\ Cardinality(U \cap (1..m)) <= BatchSize
      BY <1>4, <1>9, <2>5, <3>1, Zenon
    <3> QED
      BY <3>1, <3>2, Zenon DEF Fits
  <2> QED
    BY <1>1, <1>4, <1>6, <1>8, <1>9, <2>6 DEF Published
<1>10. ASSUME Cardinality(U) < BatchSize,
              d.segment = Max(segments), d.offset = Len(files[d.segment])
       PROVE  Published'
  <2>1. Unread(d) = {}
    <3> SUFFICES ASSUME NEW t \in segments, NEW j \in 1..Len(files[t]), Beyond(d, t, j)
                 PROVE  FALSE
      BY Zenon DEF Unread
    <3>1. t \in Nat /\ Len(files[t]) \in Nat /\ j \in Nat
      BY <1>5, Numbers
    <3>2. t <= s
      BY <1>5, <1>10, Ends DEF Inv
    <3>3. t = s /\ j > k
      BY <1>5, <3>1, <3>2 DEF Beyond
    <3>4. k = Len(files[t])
      BY <1>5, <1>10, <3>3, Zenon
    <3>5. j <= Len(files[t])
      BY <3>1
    <3> QED
      BY <1>5, <3>1, <3>3, <3>4, <3>5
  <2>2. U \cap (1..accepted) = U
    BY <1>7, Zenon
  <2>3. Cardinality(U \cap (1..accepted)) <= BatchSize
    <3>1. Cardinality(U) \in Nat
      BY <1>5, <1>7, PartSize, Zenon
    <3>2. Cardinality(U) < BatchSize /\ BatchSize \in Nat
      BY <1>10, SpoolConfigAssumption, Zenon
    <3>3. Cardinality(U) <= BatchSize
      BY <3>1, <3>2
    <3> QED
      BY <2>2, <3>3, Zenon
  <2>4. batch' \cap U \subseteq 1..accepted /\ accepted \in 0..accepted
    BY <1>5, <1>7
  <2>5. Fits(U, batch', accepted)
    BY <2>3, <2>4, Zenon DEF Fits
  <2> QED
    BY <1>1, <1>6, <2>1, <2>5 DEF Published
<1>11. Published'
  BY <1>4, <1>9, <1>10 DEF StopsAt
<1>12. load_cursor' = load_cursor
  BY <1>1 DEF load_cursor
<1>13. Replayed' /\ StreamIn'
  BY <1>1, <1>12, UnreadIs DEF Replay, Replayed, StreamIn
<1>14. SameReads'
  BY <1>1, <1>12 DEF Replay, SameReads
<1> QED
  BY <1>1, <1>11, <1>13, <1>14 DEF Replay, Fresh

(* What an attempt to send has stored is part of the batch at its place. *)
LEMMA ReplaySent ==
    ASSUME Inv, Replay, pc = "publish", files' = files, cursorFile' = cursorFile,
           accepted' = accepted, stream' \subseteq stream \cup batch
    PROVE  Replayed' /\ StreamIn'
<1> DEFINE U == AfterCrash
<1>1. accepted \in Nat /\ U \in SUBSET (1..accepted) /\ AfterCrash' = U
  BY UnreadIs, SMTT(30) DEF Inv, TypeOK, load_cursor
<1>2. Unread(cursor) = U
  BY BothRead DEF Replay
<1>3. Fits(U, stream, accepted) /\ Fits(U, batch, accepted)
  BY <1>2 DEF Replay, Replayed, Published
<1>4. StreamIn'
  <2>1. batch \subseteq 1..accepted
    BY PendingIs DEF Inv, Ordered, BatchPending, Reads
  <2> QED
    BY <2>1 DEF Replay, StreamIn
<1> HIDE DEF U
<1>5. Fits(U, stream \cup batch, accepted)
  BY <1>1, <1>3, FitsBoth
<1>6. U \cap (1..accepted) \subseteq U /\ stream' \cap U \subseteq (stream \cup batch) \cap U
  BY Zenon
<1>7. accepted <= accepted
  BY <1>1
<1>8. Fits(U, stream', accepted)
  BY <1>1, <1>5, <1>6, <1>7, FitsKept, Zenon
<1> QED
  BY <1>1, <1>4, <1>8 DEF Replayed

(* A refused batch stays where it is. *)
LEMMA ReplayRefused ==
    ASSUME Inv, Replay, publish_refused
    PROVE  Replay'
<1>1. /\ pc = "publish" /\ pc' = "idle" /\ files' = files /\ cursorFile' = cursorFile
      /\ cursor' = cursor /\ accepted' = accepted /\ stream' \subseteq stream \cup batch
  BY DEF publish_refused, disk
<1>2. Replayed' /\ StreamIn'
  BY <1>1, ReplaySent
<1>3. SameReads'
  BY <1>1 DEF Replay, SameReads, load_cursor
<1> QED
  BY <1>1, <1>2, <1>3 DEF Replay, Fresh, Published

(* Behind a confirmed batch nothing has been sent: a record there would    *)
(* be one too many among the oldest.                                       *)
LEMMA ReplayConfirmed ==
    ASSUME Inv, Replay, publish_confirmed
    PROVE  Replay'
<1>1. /\ pc = "publish" /\ pc' = "commit" /\ files' = files /\ cursorFile' = cursorFile
      /\ cursor' = next /\ accepted' = accepted /\ stream' = stream \cup batch
  BY DEF publish_confirmed, disk
<1>2. Replayed' /\ StreamIn'
  BY <1>1, ReplaySent
<1> DEFINE U == Unread(cursor)
           V == Unread(next)
<1>3. Unread(cursor)' = V
  BY <1>1, UnreadIs
<1>4. V \subseteq U /\ \A q \in U \ V : \A r \in U : r < q => r \in U \ V
  <2>1. Pending = U
    BY <1>1 DEF Pending, Position
  <2>2. Pending' = V
    BY <1>1, <1>3 DEF Pending, Position
  <2>3. Promise!Send
    BY ConfirmedStep
  <2> QED
    BY <2>1, <2>2, <2>3 DEF Promise!Send, Promise!OldestPart
<1>5. Fits(U, stream, accepted)
  BY <1>1, BothRead DEF Replay, Replayed
<1>6. accepted \in Nat /\ U \in SUBSET (1..accepted)
  BY Zenon DEF Inv, TypeOK, Unread
<1>7. V = {} \/ (batch = U \ V /\ Cardinality(batch) = BatchSize)
  BY <1>1 DEF Replay, Published, Passed
<1> HIDE DEF U, V
<1>8. ASSUME NEW r \in stream \cap V, batch = U \ V, Cardinality(batch) = BatchSize
      PROVE  FALSE
  <2>1. PICK m \in 0..accepted :
            stream \cap U \subseteq 1..m /\ Cardinality(U \cap (1..m)) <= BatchSize
    BY <1>5, Zenon DEF Fits
  <2>2. r \in U /\ r \in 1..m /\ r \notin batch
    BY <1>4, <1>8, <2>1
  <2>3. ASSUME NEW q \in batch PROVE q \in 1..m
    <3>1. q \in U \ V /\ ~(r < q)
      BY <1>4, <1>8, <2>2
    <3>2. q \in 1..accepted
      BY <1>6, <3>1
    <3> QED
      BY <2>2, <3>1, <3>2
  <2>4. batch \cup {r} \subseteq U \cap (1..m)
    BY <1>8, <2>2, <2>3, Zenon
  <2>5. U \cap (1..m) \in SUBSET (1..accepted) /\ batch \in SUBSET (1..accepted)
    BY <1>6, <1>8, Zenon
  <2>6. /\ IsFiniteSet(U \cap (1..m)) /\ Cardinality(U \cap (1..m)) \in Nat
        /\ IsFiniteSet(batch)
    BY <1>6, <2>5, PartSize, Zenon
  <2>7. Cardinality(batch \cup {r}) = BatchSize + 1
    BY <1>8, <2>2, <2>6, FS_AddElement, Zenon
  <2>8. Cardinality(batch \cup {r}) <= Cardinality(U \cap (1..m))
    BY <2>4, <2>6, FS_Subset
  <2> QED
    BY <2>1, <2>6, <2>7, <2>8, SpoolConfigAssumption
<1>9. stream' \cap V = {}
  BY <1>1, <1>7, <1>8
<1>10. Fresh'
  BY <1>3, <1>9 DEF Fresh
<1> QED
  BY <1>1, <1>2, <1>10, SMTT(30) DEF Replay, SameReads, Published

-----------------------------------------------------------------------------
(* Every step keeps what would be sent again within one batch. *)
LEMMA ReplayStep ==
    ASSUME Inv, TypeOK', Replay, [Next]_vars
    PROVE  Replay'
BY ReplayQuiet, ReplayStore, ReplayEnsure, ReplayAppend, ReplayEnforce, ReplayCommit,
   ReplayCrash, ReplayRead, ReplayRefused, ReplayConfirmed, Zenon
   DEF Next, Enqueue, Drain

(* "A crash replays a few records": whatever the process was doing when it *)
(* died, in append, drain or commit, what the event bus has and a drain    *)
(* sends again is at most one batch.                                       *)
THEOREM OneBatchReplayed == Spec => []ReplayIsOneBatch
<1>1. Init => Replay
  BY ReplayInit
<1>2. Inv /\ Inv' /\ Replay /\ [Next]_vars => Replay'
  <2>1. Inv' => TypeOK'
    BY DEF Inv
  <2> QED
    BY <2>1, ReplayStep, Zenon
<1>3. Inv /\ Replay => ReplayIsOneBatch
  <2> SUFFICES ASSUME Inv, Replay PROVE ReplayIsOneBatch
    OBVIOUS
  <2> DEFINE U == AfterCrash
  <2>1. CASE pc = "commit"
    <3>1. stream \cap Pending = {}
      BY <2>1 DEF Replay, Fresh, Pending, Position
    <3> QED
      BY <3>1, FS_EmptySet, SpoolConfigAssumption DEF ReplayIsOneBatch
  <2>2. CASE pc # "commit"
    <3>1. Pending = U
      <4>1. CASE pc = "down"
        BY <4>1 DEF Pending, Position, AfterCrash
      <4>2. CASE pc # "down"
        <5>1. Unread(cursor) = U
          BY <2>2, <4>2, BothRead DEF Replay
        <5> QED
          BY <4>2, <5>1 DEF Pending, Position
      <4> QED
        BY <4>1, <4>2
    <3>2. accepted \in Nat /\ U \in SUBSET (1..accepted) /\ Fits(U, stream, accepted)
      BY UnreadIs DEF Inv, TypeOK, Replay, Replayed
    <3> HIDE DEF U
    <3>3. PICK m \in 0..accepted :
              stream \cap U \subseteq 1..m /\ Cardinality(U \cap (1..m)) <= BatchSize
      BY <3>2, Zenon DEF Fits
    <3>4. U \cap (1..m) \in SUBSET (1..accepted) /\ stream \cap U \subseteq U \cap (1..m)
      BY <3>2, <3>3
    <3>5. /\ Cardinality(stream \cap U) <= Cardinality(U \cap (1..m))
          /\ Cardinality(U \cap (1..m)) \in Nat
      BY <3>2, <3>4, PartSize, FS_Subset, Zenon
    <3>6. stream \cap U \in SUBSET (1..accepted)
      BY <3>2, Zenon
    <3>7. Cardinality(stream \cap U) \in Nat
      BY <3>2, <3>6, PartSize, Zenon
    <3> QED
      BY <3>1, <3>3, <3>5, <3>7, SpoolConfigAssumption DEF ReplayIsOneBatch
  <2> QED
    BY <2>1, <2>2
<1> QED
  BY <1>1, <1>2, <1>3, SpoolOrdered, PTL DEF Spec
=============================================================================
