--------------------------- MODULE TelemetryStore ---------------------------
(***************************************************************************)
(* One station's telemetry in PostgreSQL (store/postgres.go, demand.go):   *)
(* the append-only table, the stations and connectors projections written  *)
(* beside it in the same transaction, and the queries that read them.      *)
(*                                                                         *)
(* Each replica's pull collects a batch for a while, ProcessBatch stamps   *)
(* the batch and later commits it: neither the stamps nor the commits need *)
(* follow the order of the stream.  Transactions of one station are        *)
(* serialised: every batch first upserts, and so locks, the station's row. *)
(***************************************************************************)
EXTENDS Integers, Sequences, FiniteSetsExt, SequencesExt

CONSTANTS
    Connectors, States, ChargingStates,
    Replicas,
    BatchSize,
    Window,        \* ListSiteDemand: within
    Threshold,     \* ListSilentStations: threshold
    Skew,          \* how far a replica's clock may be behind the database's
    DeviceTimes,   \* the timestamps stations put on readings
    MaxReadings, MaxRedeliveries, MaxTime   \* bounds

ASSUME StoreAssumption ==
    /\ ChargingStates \subseteq States
    /\ {BatchSize, Window, Threshold, Skew} \subseteq Nat
    /\ {MaxReadings, MaxRedeliveries, MaxTime} \subseteq Nat
    /\ DeviceTimes \subseteq Nat

VARIABLES
    now,
    readings,    \* what the station sends, in the order of the stream
    fetched,     \* readings[1..fetched] have been delivered at least once
    again,       \* history: the ones delivered more than once
    batch,       \* replica -> the batch it collects, then persists
    telemetry,   \* the table, by id
    station,     \* its row of stations, or NoRow
    connectors   \* the rows of connectors, or NoRow

vars == <<now, readings, fetched, again, batch, telemetry, station, connectors>>

Unstamped == -1
Idle == [ingested_at |-> Unstamped, records |-> << >>]
NoStation == [last_seen_at |-> -1, last_device_time |-> -1]
NoConnector == [last_state |-> "none", last_seen_at |-> -1]

(* What a station sends, with a timestamp of its own clock: of the         *)
(* resolution of a second from OCPP, and right or wrong.                   *)
Reading == [connector_id : Connectors, state : States, timestamp : DeviceTimes]

Init ==
    /\ now = 0 /\ fetched = 0 /\ again = {}
    /\ readings \in [1..MaxReadings -> Reading]
    /\ batch = [r \in Replicas |-> Idle]
    /\ telemetry = << >> /\ station = NoStation
    /\ connectors = [c \in Connectors |-> NoConnector]

tick ==
    /\ now < MaxTime
    /\ now' = now + 1
    /\ UNCHANGED <<readings, fetched, again, batch, telemetry, station, connectors>>

(* Run: the pull receives the next message of the stream, or one that was  *)
(* delivered before and has come back.                                     *)
Fetch(r) ==
    /\ batch[r].ingested_at = Unstamped
    /\ Len(batch[r].records) < BatchSize
    /\ \E m \in 1..Len(readings) :
        /\ \/ m = fetched + 1
           \/ m \in (1..fetched) \ again /\ Cardinality(again) < MaxRedeliveries
        /\ batch' = [batch EXCEPT ![r].records = Append(@, m)]
        /\ fetched' = Max({fetched, m})
        /\ again' = again \cup ({m} \cap 1..fetched)
    /\ UNCHANGED <<now, readings, telemetry, station, connectors>>

(* ProcessBatch: ingestedAt := runner.now(), once the batch is complete,   *)
(* by the clock of the replica's own host.                                 *)
ProcessBatch(r) ==
    /\ batch[r].ingested_at = Unstamped /\ batch[r].records # << >>
    /\ \E at \in (now - Skew)..now :
        /\ at >= 0
        /\ batch' = [batch EXCEPT ![r].ingested_at = at]
    /\ UNCHANGED <<now, readings, fetched, again, telemetry, station, connectors>>

-----------------------------------------------------------------------------
(* Mutant: the last transaction to commit decides when the station was     *)
(* last seen.                                                              *)
upsertStation_overwrites(row, at, time) ==
    [last_seen_at |-> at, last_device_time |-> time]

upsertStation(row, at, time) ==
    [last_seen_at |-> Max({row.last_seen_at, at}), last_device_time |-> time]

(* Mutant: a connector is only ever registered elsewhere. *)
upsertConnector_never(row, at, state) == row

(* Mutant: the second of two readings of one batch does not count. *)
upsertConnector_strict(row, at, state) ==
    IF at > row.last_seen_at THEN [last_state |-> state, last_seen_at |-> at] ELSE row

upsertConnector(row, at, state) ==
    IF at >= row.last_seen_at THEN [last_state |-> state, last_seen_at |-> at] ELSE row

(* The unique key (station_id, connector_id, timestamp, edge_id), of one   *)
(* station behind one edge.                                                *)
Key(m) == <<readings[m].connector_id, readings[m].timestamp>>

(* Mutant: the key lacks the connector. *)
insertTelemetry_by_time(table, at, m) ==
    IF \E i \in DOMAIN table : readings[table[i].reading].timestamp = readings[m].timestamp
    THEN table
    ELSE Append(table, [reading |-> m, ingested_at |-> at])

(* ON CONFLICT DO NOTHING: the first row under a key stays, with its first *)
(* arrival stamp, be the second the same reading or another one.           *)
insertTelemetry(table, at, m) ==
    IF \E i \in DOMAIN table : Key(table[i].reading) = Key(m) THEN table
    ELSE Append(table, [reading |-> m, ingested_at |-> at])

(* The three statements queued for one record of a batch. *)
Written(db, at, m) ==
    LET record == readings[m]
    IN  [station |-> upsertStation(db.station, at, record.timestamp),
         connectors |-> [db.connectors EXCEPT ![record.connector_id] =
                           upsertConnector(@, at, record.state)],
         telemetry |-> insertTelemetry(db.telemetry, at, m)]

PersistTelemetryBatch(r) ==
    /\ batch[r].ingested_at # Unstamped
    /\ LET after == FoldLeft(LAMBDA db, m : Written(db, batch[r].ingested_at, m),
                        [station |-> station, connectors |-> connectors, telemetry |-> telemetry],
                        batch[r].records)
       IN  /\ station' = after.station
           /\ connectors' = after.connectors
           /\ telemetry' = after.telemetry
    /\ batch' = [batch EXCEPT ![r] = Idle]
    /\ UNCHANGED <<now, readings, fetched, again>>

Next ==
    \/ tick
    \/ \E r \in Replicas : Fetch(r) \/ ProcessBatch(r) \/ PersistTelemetryBatch(r)

Spec == Init /\ [][Next]_vars

-----------------------------------------------------------------------------
(* The queries.  The database's clock is now. *)
Of(i) == readings[telemetry[i].reading]

(* ORDER BY ingested_at DESC, id DESC LIMIT 1 *)
Newest(rows) ==
    CHOOSE i \in rows : \A j \in rows :
        \/ telemetry[j].ingested_at < telemetry[i].ingested_at
        \/ telemetry[j].ingested_at = telemetry[i].ingested_at /\ j <= i

RowsOf(c) == {i \in DOMAIN telemetry : Of(i).connector_id = c}

LatestTelemetry == Newest(DOMAIN telemetry)

ListSiteDemand ==
    LET drawing(c) == {i \in RowsOf(c) : /\ telemetry[i].ingested_at > now - Window
                                         /\ Of(i).state \in ChargingStates}
    IN  {Newest(drawing(c)) : c \in {d \in Connectors : drawing(d) # {}}}

ListSilentStations == station # NoStation /\ station.last_seen_at < now - Threshold

-----------------------------------------------------------------------------
(* A connector each of whose readings came once and under a device time of *)
(* its own: what the table's key and the projections identify alike.       *)
Regular(c) ==
    LET delivered == {m \in 1..fetched : readings[m].connector_id = c}
    IN  /\ delivered \cap again = {}
        /\ \A m, n \in delivered : Key(m) = Key(n) => m = n

(* Types; the table's key is unique, and a connector has a row just when   *)
(* the table knows it.                                                     *)
TypeOK ==
    /\ now \in 0..MaxTime /\ fetched \in 0..Len(readings) /\ again \subseteq 1..fetched
    /\ readings \in Seq(Reading)
    /\ \A r \in Replicas : Range(batch[r].records) \subseteq 1..fetched
    /\ \A i, j \in DOMAIN telemetry :
        Key(telemetry[i].reading) = Key(telemetry[j].reading) => i = j
    /\ \A c \in Connectors : connectors[c] = NoConnector <=> RowsOf(c) = {}

(* GetStation and LatestTelemetry agree: a connector's row shows the state *)
(* and the arrival stamp of the newest of its readings, although replicas  *)
(* stamp by clocks of their own and commit in any order                    *)
(* (upsertConnectorSQL against the order of the queries).  It takes        *)
(* readings that come once and differ in device time.                      *)
ViewsAgree ==
    \A c \in Connectors : Regular(c) /\ RowsOf(c) # {} =>
        LET newest == Newest(RowsOf(c))
        IN  connectors[c] = [last_state |-> Of(newest).state,
                             last_seen_at |-> telemetry[newest].ingested_at]

(* A station reported silent has no reading stamped within the threshold:  *)
(* a batch that was stamped early and commits late, or comes again, never  *)
(* takes a station back into silence (GREATEST in upsertStationSQL).       *)
SilenceIsReal ==
    ListSilentStations =>
        \A i \in DOMAIN telemetry : telemetry[i].ingested_at < now - Threshold

(* What the operator is shown charging, the allocator budgets for: a       *)
(* connector whose row has a charging state seen within the window is in   *)
(* the site's demand, with that state, although the one is a projection    *)
(* and the other a query of the history (upsertConnectorSQL and            *)
(* insertTelemetrySQL against ListSiteDemand).                             *)
ShownIsBudgeted ==
    \A c \in Connectors :
        (/\ Regular(c)
         /\ connectors[c].last_state \in ChargingStates
         /\ connectors[c].last_seen_at > now - Window)
        => \E i \in ListSiteDemand :
              Of(i).connector_id = c /\ Of(i).state = connectors[c].last_state

(* "Every statement is idempotent because JetStream delivery is            *)
(* at-least-once" (PersistTelemetryBatch): writing again what is stored    *)
(* leaves the states the operator is shown as they were.                   *)
ReplayIsIdempotent ==
    [][\A r \in Replicas :
         (/\ PersistTelemetryBatch(r)
          /\ Range(batch[r].records) \subseteq {telemetry[i].reading : i \in DOMAIN telemetry})
         => \A c \in Connectors : connectors'[c].last_state = connectors[c].last_state]_vars
=============================================================================
