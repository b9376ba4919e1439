--------------------------- MODULE SpoolPowerCut ---------------------------
(***************************************************************************)
(* The spool under power cuts.  append returns once a record is in the     *)
(* page cache and nothing in spool.rs calls fsync, so a power cut takes    *)
(* whatever the operating system had not written back: the tail of any     *)
(* segment, and the last replacements of the cursor file.  What the system *)
(* writes back, and when, is not the agent's decision.                     *)
(*                                                                         *)
(* A rename may become durable before the data that was in the page cache  *)
(* when it was made: spool.rs asks for no order between the two.           *)
(***************************************************************************)
EXTENDS Spool

VARIABLES
    written,        \* segment -> how many of its records are on the flash
    writtenCursor   \* the cursor file on the flash

pvars == <<vars, written, writtenCursor>>

PInit == Init /\ written = <<>> /\ writtenCursor = NoCursor

(* A step of the agent: a new segment has nothing on the flash yet. *)
Run ==
    /\ Next
    /\ written' = [s \in segments' |-> IF s \in segments THEN written[s] ELSE 0]
    /\ UNCHANGED writtenCursor

write_back_segment ==
    /\ \E s \in segments : written' = [written EXCEPT ![s] = Len(files[s])]
    /\ UNCHANGED <<vars, writtenCursor>>

write_back_cursor ==
    /\ writtenCursor' = cursorFile
    /\ UNCHANGED <<vars, written>>

(* Each segment keeps what was written back and perhaps part of the rest,  *)
(* the last of it torn; the cursor file is the one on the flash.           *)
power_cut ==
    /\ \E kept \in [segments -> 0..MaxRecords] :
        /\ \A s \in segments : written[s] <= kept[s] /\ kept[s] <= Len(files[s])
        /\ files' = [s \in segments |-> SubSeq(files[s], 1, kept[s])]
        /\ written' = kept
        /\ \E more \in SUBSET {s \in segments : kept[s] < Len(files[s])} :
            torn' = torn \cup more
    /\ cursorFile' = writtenCursor
    /\ Forget
    /\ UNCHANGED <<history, writtenCursor>>

PNext == Run \/ write_back_segment \/ write_back_cursor \/ power_cut

PSpec == PInit /\ [][PNext]_pvars

-----------------------------------------------------------------------------
(* "Appends after a power cut are not written behind unreadable bytes      *)
(* where the drain would never reach them": an intact record on the disk   *)
(* is settled, or a drain reaches it.                                      *)
IntactIsReachable == OnDisk \subseteq Settled \cup Pending
=============================================================================
