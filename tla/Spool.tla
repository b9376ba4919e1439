------------------------------- MODULE Spool -------------------------------
(***************************************************************************)
(* The edge agent's store-and-forward buffer (spool.rs) and the forwarder  *)
(* that empties it into the event bus (pipeline.rs).                       *)
(*                                                                         *)
(* Files survive a crash of the process; everything else is its memory.    *)
(* The agent's main loop is one task, so appending and draining never      *)
(* overlap, but the process can die between any two file operations.  Each *)
(* file operation is therefore a step of its own, sequenced by pc:         *)
(*                                                                         *)
(*   append:  idle -> write -> capacity (-> evicted -> capacity)* -> idle  *)
(*   drain:   idle -> drain (-> publish -> commit* -> drain)* -> idle      *)
(*                                                                         *)
(* A payload is its position in the order of acceptance: the n-th record   *)
(* ever written is n.  Records have one size, so lengths, offsets and the  *)
(* two size limits of SpoolConfig are counted in records.                  *)
(***************************************************************************)
EXTENDS Integers, Sequences, FiniteSets, FiniteSetsExt, Functions

CONSTANTS
    SegmentRecords,  \* SpoolConfig.segment_bytes
    MaxTotal,        \* SpoolConfig.max_total_bytes
    BatchSize,       \* Forwarder.batch_size
    MaxRecords       \* bound: records accepted in one behaviour

ASSUME SpoolConfigAssumption ==
    /\ SegmentRecords \in Nat \ {0}
    /\ MaxTotal \in Nat
    /\ BatchSize \in Nat \ {0}
    /\ MaxRecords \in Nat

VARIABLES
    files,       \* segment index -> the intact records in that file
    torn,        \* the segment files that end in unreadable bytes
    cursorFile,  \* content of the file "cursor", or NoCursor
    pc,          \* where the agent is; "down" when no process runs
    cursor,      \* Spool.cursor
    active,      \* index of Spool.active, or NoSegment
    batch,       \* the records read_batch returned and drain is publishing
    next,        \* the cursor read_batch returned with them
    dropped,     \* Spool.dropped_records
    accepted,    \* how many records append has written, ever
    stream,      \* the records the event bus has stored
    discarded    \* the records removed to respect the size ceiling, ever

disk == <<files, torn, cursorFile>>
memory == <<cursor, active, batch, next, dropped>>
history == <<accepted, stream, discarded>>
vars == <<files, torn, cursorFile, pc, cursor, active, batch, next, dropped,
          accepted, stream, discarded>>

NoSegment == -1
NoCursor == [segment |-> NoSegment, offset |-> 0]

Cursor == [segment : Nat, offset : Nat]
Start == [segment |-> 0, offset |-> 0]

segments == DOMAIN files
Without(s) == Restrict(files, segments \ {s})

(* Record i of segment s lies beyond cursor c: a drain at c still reads it. *)
Beyond(c, s, i) == s > c.segment \/ (s = c.segment /\ i > c.offset)

(* The records a drain starting at c would read, in the end. *)
Unread(c) == {r \in 1..accepted :
                \E s \in segments : \E i \in 1..Len(files[s]) :
                    files[s][i] = r /\ Beyond(c, s, i)}

(* The records a drain reads on its way from c to d. *)
Passed(c, d) == Unread(c) \ Unread(d)

-----------------------------------------------------------------------------
(* The first start of the agent on an empty directory. *)
Init ==
    /\ files = <<>> /\ torn = {} /\ cursorFile = NoCursor
    /\ pc = "idle" /\ cursor = Start /\ active = NoSegment
    /\ batch = {} /\ next = Start /\ dropped = 0
    /\ accepted = 0 /\ stream = {} /\ discarded = {}

next_index == IF segments = {} THEN 0 ELSE Max(segments) + 1

(* append, up to the write: a new segment is opened when there is no       *)
(* active one or the active one is full.                                   *)
ensure_active_segment ==
    /\ pc = "idle" /\ accepted < MaxRecords
    /\ pc' = "write"
    /\ IF active = NoSegment \/ Len(files[active]) >= SegmentRecords
       THEN /\ files' = [s \in segments \cup {next_index} |->
                            IF s = next_index THEN <<>> ELSE files[s]]
            /\ active' = next_index
       ELSE UNCHANGED <<files, active>>
    /\ UNCHANGED <<torn, cursorFile, cursor, batch, next, dropped, history>>

(* append: header and payload reach the page cache with the flush.  Behind *)
(* a torn tail no reader would find the record.                            *)
append ==
    /\ pc = "write"
    /\ files' = IF active \in torn THEN files
                ELSE [files EXCEPT ![active] = Append(@, accepted + 1)]
    /\ accepted' = accepted + 1
    /\ pc' = "capacity"
    /\ UNCHANGED <<torn, cursorFile, memory, stream, discarded>>

total_bytes ==
    LET length(s) == Len(files[s]) + (IF s \in torn THEN 1 ELSE 0)
    IN  MapThenSumSet(length, segments)

(* Mutant: the records of a discarded segment are not counted. *)
remove_segment_uncounted(s, count_as_dropped) ==
    /\ files' = Without(s)
    /\ torn' = torn \ {s}
    /\ active' = IF s = active THEN NoSegment ELSE active
    /\ dropped' = dropped
    /\ discarded' = IF count_as_dropped THEN discarded \cup Range(files[s])
                    ELSE discarded

(* Every record of the file is counted, the delivered ones too. *)
remove_segment(s, count_as_dropped) ==
    /\ files' = Without(s)
    /\ torn' = torn \ {s}
    /\ active' = IF s = active THEN NoSegment ELSE active
    /\ dropped' = IF count_as_dropped THEN dropped + Len(files[s]) ELSE dropped
    /\ discarded' = IF count_as_dropped THEN discarded \cup Range(files[s])
                    ELSE discarded

(* Mutant: the newest of the closed segments is taken. *)
enforce_capacity_newest ==
    LET newest == Max(segments \ {active})
    IN  /\ pc = "capacity"
        /\ total_bytes > MaxTotal
        /\ segments # {active}
        /\ remove_segment(newest, TRUE)
        /\ UNCHANGED <<cursorFile, pc, cursor, batch, next, accepted, stream>>

(* One turn of the loop of enforce_capacity.  When the drain had not       *)
(* passed the segment the cursor moves off it, and the new cursor is still *)
(* to be stored.                                                           *)
enforce_capacity ==
    LET oldest == Min(segments)
        left == segments \ {oldest}
    IN  /\ pc = "capacity"
        /\ total_bytes > MaxTotal
        /\ oldest # active
        /\ remove_segment(oldest, TRUE)
        /\ IF cursor.segment <= oldest
           THEN /\ cursor' = [segment |-> Min(left), offset |-> 0]
                /\ pc' = "evicted"
           ELSE UNCHANGED <<cursor, pc>>
        /\ UNCHANGED <<cursorFile, batch, next, accepted, stream>>

capacity_ok ==
    /\ pc = "capacity"
    /\ total_bytes <= MaxTotal \/ Min(segments) = active
    /\ pc' = "idle"
    /\ UNCHANGED <<disk, memory, history>>

store_evicted_cursor ==
    /\ pc = "evicted"
    /\ cursorFile' = cursor
    /\ pc' = "capacity"
    /\ UNCHANGED <<files, torn, memory, history>>

-----------------------------------------------------------------------------
(* A flush tick: Forwarder::drain starts. *)
flush_tick ==
    /\ pc = "idle"
    /\ pc' = "drain"
    /\ UNCHANGED <<disk, memory, history>>

(* Mutant: the end of a segment ends the batch, whatever follows it. *)
StopsAt_segment_end(d) ==
    \/ /\ Cardinality(Passed(cursor, d)) = BatchSize
       /\ d.offset > 0 /\ Beyond(cursor, d.segment, d.offset)
    \/ /\ Cardinality(Unread(cursor)) < BatchSize
       /\ d.segment = cursor.segment /\ d.offset = Len(files[d.segment])

(* Where read_batch stops: right behind its last record when the batch is  *)
(* full, else at the end of the newest segment.                            *)
StopsAt(d) ==
    \/ /\ Cardinality(Passed(cursor, d)) = BatchSize
       /\ d.offset > 0 /\ Beyond(cursor, d.segment, d.offset)
    \/ /\ Cardinality(Unread(cursor)) < BatchSize
       /\ d.segment = Max(segments) /\ d.offset = Len(files[d.segment])

read_batch ==
    /\ pc = "drain"
    /\ Unread(cursor) # {}
    /\ \E s \in segments : \E k \in 0..Len(files[s]) :
        LET d == [segment |-> s, offset |-> k]
        IN  /\ StopsAt(d)
            /\ next' = d
            /\ batch' = Passed(cursor, d)
    /\ pc' = "publish"
    /\ UNCHANGED <<disk, cursor, active, dropped, history>>

(* An empty batch ends the drain. *)
drained ==
    /\ pc = "drain"
    /\ Unread(cursor) = {}
    /\ pc' = "idle"
    /\ UNCHANGED <<disk, memory, history>>

(* The sink confirmed every record of the batch; commit adopts the cursor. *)
publish_confirmed ==
    /\ pc = "publish"
    /\ stream' = stream \cup batch
    /\ cursor' = next
    /\ pc' = "commit"
    /\ UNCHANGED <<disk, active, batch, next, dropped, accepted, discarded>>

(* The sink refused: not connected, or a publish or an acknowledgement     *)
(* failed.  Any part of the batch may have been stored all the same.       *)
publish_refused ==
    /\ pc = "publish"
    /\ \E stored \in SUBSET batch : stream' = stream \cup stored
    /\ batch' = {} /\ next' = Start
    /\ pc' = "idle"
    /\ UNCHANGED <<disk, cursor, active, dropped, accepted, discarded>>

(* Mutant: the segment the cursor is in is unlinked too. *)
commit_inclusive ==
    /\ pc = "commit" /\ segments # {}
    /\ Min(segments) <= cursor.segment
    /\ remove_segment(Min(segments), FALSE)
    /\ UNCHANGED <<cursorFile, pc, cursor, batch, next, accepted, stream>>

(* commit: the oldest fully drained segment is unlinked. *)
commit ==
    /\ pc = "commit"
    /\ Min(segments) < cursor.segment
    /\ remove_segment(Min(segments), FALSE)
    /\ UNCHANGED <<cursorFile, pc, cursor, batch, next, accepted, stream>>

(* Mutant: the cursor advances in memory only. *)
store_cursor_unsaved ==
    /\ pc = "commit"
    /\ \A s \in segments : s >= cursor.segment
    /\ batch' = {} /\ next' = Start
    /\ pc' = "drain"
    /\ UNCHANGED <<disk, cursor, active, dropped, history>>

(* commit, last: the cursor file is replaced by a rename, and drain loops. *)
store_cursor ==
    /\ pc = "commit"
    /\ \A s \in segments : s >= cursor.segment
    /\ cursorFile' = cursor
    /\ batch' = {} /\ next' = Start
    /\ pc' = "drain"
    /\ UNCHANGED <<files, torn, cursor, active, dropped, history>>

-----------------------------------------------------------------------------
(* The process dies.  A record being written may leave a torn tail. *)
Forget ==
    /\ pc' = "down"
    /\ cursor' = Start /\ active' = NoSegment
    /\ batch' = {} /\ next' = Start /\ dropped' = 0

crash ==
    /\ pc # "down"
    /\ torn' \in IF pc = "write" THEN {torn, torn \cup {active}} ELSE {torn}
    /\ Forget
    /\ UNCHANGED <<files, cursorFile, history>>

(* Mutant: the cursor file is taken as it is. *)
load_cursor_unchecked == cursorFile

(* Mutant: without its segment, the drain restarts at the newest one. *)
load_cursor_newest ==
    IF cursorFile = NoCursor THEN Start
    ELSE IF cursorFile.segment \in segments THEN cursorFile
    ELSE [segment |-> IF segments = {} THEN 0 ELSE Max(segments), offset |-> 0]

(* The cursor file names a segment that exists, or the drain restarts at   *)
(* the oldest one.                                                         *)
load_cursor ==
    IF cursorFile = NoCursor THEN Start
    ELSE IF cursorFile.segment \in segments THEN cursorFile
    ELSE [segment |-> IF segments = {} THEN 0 ELSE Min(segments), offset |-> 0]

(* Mutant: the torn tail of the newest segment stays. *)
open_without_recovery ==
    /\ pc = "down"
    /\ cursor' = load_cursor
    /\ active' = IF segments = {} THEN NoSegment ELSE Max(segments)
    /\ pc' = "idle"
    /\ UNCHANGED <<disk, batch, next, dropped, history>>

(* Spool::open, with recover_newest_segment: the torn tail of the newest   *)
(* segment is cut off and the segment becomes the active one.              *)
open ==
    /\ pc = "down"
    /\ cursor' = load_cursor
    /\ IF segments = {}
       THEN torn' = torn /\ active' = NoSegment
       ELSE torn' = torn \ {Max(segments)} /\ active' = Max(segments)
    /\ pc' = "idle"
    /\ UNCHANGED <<files, cursorFile, batch, next, dropped, history>>

-----------------------------------------------------------------------------
Enqueue == ensure_active_segment \/ append \/ enforce_capacity
            \/ store_evicted_cursor \/ capacity_ok
Drain == flush_tick \/ read_batch \/ drained \/ publish_confirmed
            \/ publish_refused \/ commit \/ store_cursor

Next == Enqueue \/ Drain \/ crash \/ open

Spec == Init /\ [][Next]_vars

(* The main loop keeps running and the supervisor restarts the agent.  The *)
(* timer, the link and the process may fail again and again, but not       *)
(* always at the same step: what is attempted for ever succeeds at times.  *)
Fairness ==
    /\ WF_vars(open)
    /\ WF_vars(append) /\ WF_vars(enforce_capacity)
    /\ WF_vars(store_evicted_cursor) /\ WF_vars(capacity_ok)
    /\ SF_vars(flush_tick) /\ SF_vars(read_batch)
    /\ SF_vars(publish_confirmed) /\ SF_vars(commit) /\ SF_vars(store_cursor)

FairSpec == Spec /\ Fairness

-----------------------------------------------------------------------------
(* Every variable keeps its type; in particular the cursor in memory is    *)
(* always a position, whatever load_cursor found on the disk.              *)
TypeOK ==
    /\ segments \subseteq Nat
    /\ files \in [segments -> Seq(Nat)]
    /\ torn \subseteq segments
    /\ cursorFile \in Cursor \cup {NoCursor}
    /\ pc \in {"down", "idle", "write", "capacity", "evicted",
               "drain", "publish", "commit"}
    /\ cursor \in Cursor
    /\ active \in Nat \cup {NoSegment}
    /\ batch \subseteq Nat
    /\ next \in Cursor
    /\ dropped \in Nat
    /\ accepted \in Nat
    /\ stream \subseteq Nat
    /\ discarded \subseteq Nat

(* Where a drain reads from, now or after the restart that must come first. *)
Position == IF pc = "down" THEN load_cursor ELSE cursor

Pending == Unread(Position)
Settled == stream \cup discarded

(* A record append has written is on the event bus, or was discarded for   *)
(* space, or a drain still reaches it: whatever the process was doing when *)
(* it died, and wherever its cursor file then pointed.                     *)
NoSilentLoss == 1..accepted \subseteq Settled \cup Pending

(* "A crash replays a few records": what is both on the event bus and      *)
(* still to be sent never exceeds one batch, although commit unlinks       *)
(* segments before it stores the cursor that no longer needs them.         *)
ReplayIsOneBatch == Cardinality(stream \cap Pending) <= BatchSize

(* enforce_capacity discards from the old end only: whatever is older than *)
(* a discarded record is settled too, and the newest record is kept even   *)
(* when its segment alone exceeds the ceiling.                             *)
OldestGoesFirst ==
    /\ \A r \in discarded : 1..r \subseteq Settled
    /\ accepted > 0 => accepted \notin discarded

OnDisk == UNION {Range(files[s]) : s \in segments}

(* "The loss is counted": a record that leaves the disk without having     *)
(* reached the event bus is counted in dropped_records by that very step.  *)
LossIsCounted ==
    [][LET gone == OnDisk \ (OnDisk' \cup stream)
       IN  gone = {} \/ Cardinality(gone) <= dropped' - dropped]_vars

(* Every record is settled in the end, through crashes and refusals. *)
EventuallySettled ==
    \A r \in 1..MaxRecords : (r <= accepted) ~> (r \in Settled)

-----------------------------------------------------------------------------
AtOrBefore(c, d) ==
    c.segment < d.segment \/ (c.segment = d.segment /\ c.offset <= d.offset)

(* A cursor lies within the log: its segment is not newer than the newest, *)
(* so no new segment will be given its index, and its offset is not past   *)
(* the end of the segment, so no new record will land before it.           *)
Within(c) ==
    /\ \E s \in segments : c.segment <= s
    /\ c.segment \in segments => c.offset <= Len(files[c.segment])

(* A drain that starts at c misses no record that is not settled. *)
Covered(c) == 1..accepted \subseteq Settled \cup Unread(c)

(* What holds while the process runs: its cursor is not behind the one on  *)
(* disk, and it appends to the newest segment, which ends cleanly.         *)
Running ==
    /\ IF segments = {} THEN cursor = Start ELSE Within(cursor)
    /\ IF segments = {} THEN active = NoSegment
       ELSE active \in segments \ torn /\ \A s \in segments : s <= active
    /\ cursorFile.segment \in segments => AtOrBefore(cursorFile, cursor)
    /\ Covered(cursor)

(* What holds within an append or a drain. *)
Busy ==
    /\ pc \in {"write", "capacity", "evicted", "publish", "commit"} => segments # {}
    /\ pc \in {"evicted", "commit"} => cursor.segment \in segments
    /\ pc = "publish" =>
        /\ next.segment \in segments /\ next.offset <= Len(files[next.segment])
        /\ AtOrBefore(cursor, next)
        /\ Passed(cursor, next) \subseteq batch

(* The strengthening of NoSilentLoss that every step preserves.  Both      *)
(* cursors, the one in memory and the one on disk, must be sound at every  *)
(* moment, because a crash decides which of the two counts.                *)
Sound ==
    /\ cursorFile = NoCursor \/ Within(cursorFile)
    /\ Covered(load_cursor)
    /\ segments # {} => \E newest \in segments : \A s \in segments : s <= newest
    /\ pc # "down" => Running
    /\ Busy

-----------------------------------------------------------------------------
(* The promise the spool keeps, stated without segments and cursors. *)
Promise == INSTANCE StoreAndForward WITH pending <- Pending

(* Every step of the spool is one the promise allows: a record leaves the  *)
(* pending ones only as part of the oldest, stored or discarded, and comes *)
(* back only if the event bus has it already.                              *)
Keeps == Promise!Spec
=============================================================================
