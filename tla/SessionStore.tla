---------------------------- MODULE SessionStore ----------------------------
(***************************************************************************)
(* The charging-session projection of store/sessions.go: one event folded  *)
(* into its row (upsertSessionSQL), the append-only log beside it, and the *)
(* energy the row reports (sessionColumns).                                *)
(*                                                                         *)
(* An event is [session_id, type, occurred_at, register, connector_id];    *)
(* NULL is -1.  Columns every event repeats alike (station, site, source   *)
(* protocol) and the tokens are left out.                                  *)
(***************************************************************************)
EXTENDS Integers, FiniteSets, FiniteSetsExt

CONSTANT Sessions   \* the session identifiers that may come into being

VARIABLES
    stream,             \* the events in ORVOLT_SESSIONS
    charging_sessions,  \* session -> its row, or NoRow
    session_events      \* the log

NULL == -1

NoRow == [connector_id |-> NULL, started_at |-> NULL, stopped_at |-> NULL,
          meter_start |-> NULL, meter_last |-> NULL, meter_stop |-> NULL]

StoreInit ==
    /\ stream = {}
    /\ charging_sessions = [s \in Sessions |-> NoRow]
    /\ session_events = {}

COALESCE(a, b) == IF a # NULL THEN a ELSE b

(* Mutant: the closing column is written by the wrong kind of event. *)
sessionBoundaries_updated(e) ==
    [started_at |-> IF e.type = "STARTED" THEN e.occurred_at ELSE NULL,
     stopped_at |-> IF e.type = "UPDATED" THEN e.occurred_at ELSE NULL]

(* The columns an event is allowed to open or close. *)
sessionBoundaries(e) ==
    [started_at |-> IF e.type = "STARTED" THEN e.occurred_at ELSE NULL,
     stopped_at |-> IF e.type = "STOPPED" THEN e.occurred_at ELSE NULL]

(* Mutant: any event may supply the opening reading. *)
sessionMeters_opening(e) ==
    [start |-> e.register, last |-> e.register,
     stop |-> IF e.type = "STOPPED" THEN e.register ELSE NULL]

sessionMeters(e) ==
    [start |-> IF e.type = "STARTED" THEN e.register ELSE NULL,
     last |-> e.register,
     stop |-> IF e.type = "STOPPED" THEN e.register ELSE NULL]

(* Mutant: the newest event's register replaces the last one. *)
upsertSession_last(row, e) ==
    LET b == sessionBoundaries(e)
        m == sessionMeters(e)
    IN  [connector_id |-> COALESCE(e.connector_id, row.connector_id),
         started_at |-> COALESCE(row.started_at, b.started_at),
         stopped_at |-> COALESCE(row.stopped_at, b.stopped_at),
         meter_start |-> COALESCE(row.meter_start, m.start),
         meter_last |-> COALESCE(m.last, row.meter_last),
         meter_stop |-> COALESCE(row.meter_stop, m.stop)]

(* ON CONFLICT (session_id) DO UPDATE.  A connector label is never empty,  *)
(* so the newest event's label wins.                                       *)
upsertSession(row, e) ==
    LET b == sessionBoundaries(e)
        m == sessionMeters(e)
    IN  [connector_id |-> COALESCE(e.connector_id, row.connector_id),
         started_at |-> COALESCE(row.started_at, b.started_at),
         stopped_at |-> COALESCE(row.stopped_at, b.stopped_at),
         meter_start |-> COALESCE(row.meter_start, m.start),
         meter_last |-> Max({row.meter_last, m.last}),
         meter_stop |-> COALESCE(row.meter_stop, m.stop)]

(* ON CONFLICT (session_id, event_type, occurred_at) DO NOTHING *)
insertSessionEvent(table, e) ==
    IF \E f \in table : /\ f.session_id = e.session_id /\ f.type = e.type
                        /\ f.occurred_at = e.occurred_at
    THEN table ELSE table \cup {e}

(* One event of a batch.  Batches arrive in any order and more than once,  *)
(* and the statements of two events of a session are serialised by its row *)
(* lock, so events are taken one at a time.                                *)
PersistSessionEvent(e) ==
    /\ e \in stream
    /\ session_events' = insertSessionEvent(session_events, e)
    /\ charging_sessions' = [charging_sessions EXCEPT ![e.session_id] = upsertSession(@, e)]
    /\ UNCHANGED stream

energy_delivered(row) ==
    LET close == COALESCE(row.meter_stop, row.meter_last)
    IN  IF row.meter_start # NULL /\ close # NULL THEN Max({close - row.meter_start, 0})
        ELSE NULL
=============================================================================
