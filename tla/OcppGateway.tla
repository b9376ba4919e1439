---------------------------- MODULE OcppGateway -----------------------------
(***************************************************************************)
(* Charging transactions from the charge point to the bill: the charge     *)
(* point's side of OCPP 1.6 (external), the gateway's handlers             *)
(* (csms/handler.go), the session stream and the projection built from it  *)
(* (SessionStore).                                                         *)
(*                                                                         *)
(* A handler publishes one session event.  The publish may fail, may fail  *)
(* after the broker has stored the event, or may succeed while the answer  *)
(* to the charge point is lost; the charge point then sends the request    *)
(* again with the same content.  A charge point that is refused does not   *)
(* charge.                                                                 *)
(***************************************************************************)
EXTENDS SessionStore, Functions

CONSTANTS
    Transactions,     \* what happens at the charge point, numbered as it begins
    ConnectorOf,      \* transaction -> its connector, from 1
    MaxClock, MaxMeter, MaxUpdates,  \* bounds: seconds, register, updates sent
    MaxId,                           \* bound: transaction ids
    MaxStarts                        \* bound: ids given to transactions, retries included

ASSUME GatewayAssumption ==
    /\ Transactions \subseteq Nat
    /\ ConnectorOf \in [Transactions -> Nat \ {0}]
    /\ {MaxClock, MaxMeter, MaxUpdates, MaxId, MaxStarts} \subseteq Nat
    /\ MaxClock <= MaxId
    /\ Sessions = 1..MaxId

VARIABLES
    clock,     \* seconds
    counter,   \* MonotonicIDs.counter
    mode,      \* Options.AuthorizationMode
    issued,    \* history: <<id, transaction>>, the ids Next returned and for whom
    behind,    \* history: a restart came with the clock behind an id issued before
    meter,     \* connector -> the charge point's energy register
    cp         \* transaction -> the charge point's record of it

gateway == <<counter, mode, issued, behind>>
store == <<stream, charging_sessions, session_events>>
vars == <<clock, counter, mode, issued, behind, meter, cp,
          stream, charging_sessions, session_events>>

Modes == {"AllowAll", "DenyAll"}

connectorUnknown == 0

Fresh == [status |-> "idle", id |-> 0, started_at |-> NULL, meter_start |-> NULL,
          stopped_at |-> NULL, meter_stop |-> NULL]

Init ==
    /\ StoreInit
    /\ clock = 0 /\ counter = 0 /\ mode \in Modes
    /\ issued = {} /\ behind = FALSE
    /\ meter = [c \in Range(ConnectorOf) |-> 0]
    /\ cp = [t \in Transactions |-> Fresh]

SessionEvent(id, connector, type, at, register) ==
    [session_id |-> id, connector_id |-> connector, type |-> type,
     occurred_at |-> at, register |-> register]

-----------------------------------------------------------------------------
(* The charge point. *)
At(t) == meter[ConnectorOf[t]]

plug_in(t) ==
    /\ cp[t].status = "idle"
    /\ \A u \in Transactions : u < t => cp[u].status # "idle"
    /\ ~\E u \in Transactions : /\ cp[u].status \in {"starting", "charging"}
                                /\ ConnectorOf[u] = ConnectorOf[t]
    /\ cp' = [cp EXCEPT ![t].status = "starting", ![t].started_at = clock,
                        ![t].meter_start = At(t)]
    /\ UNCHANGED <<clock, gateway, meter, store>>

deliver_energy(t) ==
    /\ cp[t].status = "charging" /\ At(t) < MaxMeter
    /\ meter' = [meter EXCEPT ![ConnectorOf[t]] = @ + 1]
    /\ UNCHANGED <<clock, gateway, cp, store>>

unplug(t) ==
    /\ cp[t].status = "charging"
    /\ cp' = [cp EXCEPT ![t].status = "stopping", ![t].stopped_at = clock,
                        ![t].meter_stop = At(t)]
    /\ UNCHANGED <<clock, gateway, meter, store>>

-----------------------------------------------------------------------------
(* The gateway.  MonotonicIDs.Next, for transaction t. *)
Next_id(t) ==
    /\ counter < MaxId
    /\ counter' = counter + 1
    /\ issued' = issued \cup {<<counter', t>>}
    /\ Cardinality(issued') <= MaxStarts
    /\ UNCHANGED <<mode, behind>>

StartEvent(t, id) ==
    SessionEvent(id, ConnectorOf[t], "STARTED", cp[t].started_at, cp[t].meter_start)

(* Published, acknowledged, and the answer reaches the charge point. *)
OnStartTransaction(t) ==
    /\ cp[t].status = "starting" /\ mode = "AllowAll"
    /\ Next_id(t)
    /\ stream' = stream \cup {StartEvent(t, counter')}
    /\ cp' = [cp EXCEPT ![t].status = "charging", ![t].id = counter']
    /\ UNCHANGED <<clock, meter, charging_sessions, session_events>>

(* Not published, published without an acknowledgement, or the answer is   *)
(* lost: the charge point will try again.                                  *)
StartTransactionFails(t) ==
    /\ cp[t].status = "starting" /\ mode = "AllowAll"
    /\ Next_id(t)
    /\ stream' \in {stream, stream \cup {StartEvent(t, counter')}}
    /\ UNCHANGED <<clock, meter, cp, charging_sessions, session_events>>

(* DenyAll: answered with id 0 and the status Invalid, nothing recorded. *)
StartTransactionRefused(t) ==
    /\ cp[t].status = "starting" /\ mode = "DenyAll"
    /\ cp' = [cp EXCEPT ![t].status = "refused"]
    /\ UNCHANGED <<clock, gateway, meter, store>>

(* An update; one that is lost changes nothing, the call succeeds anyway. *)
OnMeterValues(t) ==
    /\ cp[t].status = "charging"
    /\ Cardinality({e \in stream : e.type = "UPDATED"}) < MaxUpdates
    /\ stream' = stream \cup {SessionEvent(cp[t].id, ConnectorOf[t], "UPDATED", clock, At(t))}
    /\ UNCHANGED <<clock, gateway, meter, cp, charging_sessions, session_events>>

StopEvent(t) ==
    SessionEvent(cp[t].id, connectorUnknown, "STOPPED", cp[t].stopped_at, cp[t].meter_stop)

(* Published, acknowledged, and the answer reaches the charge point, which *)
(* then forgets the transaction.                                           *)
OnStopTransaction(t) ==
    /\ cp[t].status = "stopping"
    /\ stream' = stream \cup {StopEvent(t)}
    /\ cp' = [cp EXCEPT ![t].status = "stopped"]
    /\ UNCHANGED <<clock, gateway, meter, charging_sessions, session_events>>

(* Mutant: the stop is confirmed although the publish failed. *)
StopTransactionFails_confirmed(t) ==
    /\ cp[t].status = "stopping"
    /\ stream' \in {stream, stream \cup {StopEvent(t)}}
    /\ cp' = [cp EXCEPT ![t].status = "stopped"]
    /\ UNCHANGED <<clock, gateway, meter, charging_sessions, session_events>>

StopTransactionFails(t) ==
    /\ cp[t].status = "stopping"
    /\ stream' = stream \cup {StopEvent(t)}
    /\ UNCHANGED <<clock, gateway, meter, cp, charging_sessions, session_events>>

tick ==
    /\ clock < MaxClock
    /\ clock' = clock + 1
    /\ UNCHANGED <<gateway, meter, cp, store>>

(* Mutant: a restart counts from one again. *)
restart_from_zero ==
    /\ counter' = 0
    /\ behind' = (behind \/ \E p \in issued : p[1] > clock)
    /\ UNCHANGED <<clock, mode, issued, meter, cp, store>>

(* The process starts again, in the same second or later; NewMonotonicIDs  *)
(* seeds the counter from the clock.                                       *)
restart ==
    /\ counter' = clock
    /\ behind' = (behind \/ \E p \in issued : p[1] > clock)
    /\ UNCHANGED <<clock, mode, issued, meter, cp, store>>

Gateway(t) ==
    \/ OnStartTransaction(t) \/ StartTransactionFails(t) \/ StartTransactionRefused(t)
    \/ OnMeterValues(t)
    \/ OnStopTransaction(t) \/ StopTransactionFails(t)

Persist(e) ==
    /\ PersistSessionEvent(e)
    /\ UNCHANGED <<clock, gateway, meter, cp>>

Next ==
    \/ \E t \in Transactions : plug_in(t) \/ deliver_energy(t) \/ unplug(t) \/ Gateway(t)
    \/ tick \/ restart \/ \E e \in stream : Persist(e)

Spec == Init /\ [][Next]_vars

(* The charge point repeats a StopTransaction until it is accepted, and    *)
(* not every attempt fails; the ingest consumer delivers what the stream   *)
(* holds (NoStall of Ingest).                                              *)
FairSpec ==
    /\ Spec
    /\ \A t \in Transactions :
        /\ WF_vars(OnStopTransaction(t))
        /\ WF_vars(Persist(StartEvent(t, cp[t].id)))
        /\ WF_vars(Persist(StopEvent(t)))

-----------------------------------------------------------------------------
Row(t) == charging_sessions[cp[t].id]

(* No other transaction was given the identifier, or none could have been: *)
(* "seeded from the wall clock so that a restart resumes above the         *)
(* previous run's range" (MonotonicIDs) holds of a clock that every        *)
(* restart found ahead of the identifiers issued before.                   *)
Alone(s) == \A p, q \in issued : p[1] = s /\ q[1] = s => p[2] = q[2]
Distinct(s) == ~behind \/ Alone(s)

(* The types; the charge point's identifiers were issued to it, and a row  *)
(* has an opening reading exactly when it has been opened, a closing one   *)
(* exactly when it has been closed (sessionMeters, sessionBoundaries).     *)
TypeOK ==
    /\ clock \in 0..MaxClock /\ counter \in 0..MaxId /\ mode \in Modes
    /\ issued \subseteq Sessions \X Transactions
    /\ \A t \in Transactions :
        At(t) \in 0..MaxMeter /\ (cp[t].id # 0 => <<cp[t].id, t>> \in issued)
    /\ session_events \subseteq stream
    /\ \A s \in Sessions :
        /\ charging_sessions[s].started_at # NULL <=> charging_sessions[s].meter_start # NULL
        /\ charging_sessions[s].stopped_at # NULL <=> charging_sessions[s].meter_stop # NULL

(* The charge point never runs a transaction the platform has no record    *)
(* of, and never forgets one whose end the platform has not recorded: what *)
(* OnStartTransaction and OnStopTransaction confirm is in the stream.      *)
AcceptedIsRecorded ==
    \A t \in Transactions :
        /\ cp[t].id # 0 => StartEvent(t, cp[t].id) \in stream
        /\ cp[t].status = "stopped" => StopEvent(t) \in stream

(* The bill is right: a closed session whose start is known reports the    *)
(* energy of this very transaction, whatever the order and the number of   *)
(* deliveries of its events, and across restarts of the gateway.  A        *)
(* restart may make it wrong in one way only: the gateway issued           *)
(* identifiers faster than seconds passed, and the new process issued one  *)
(* of them again, to another transaction ("unlikely, not impossible").     *)
BillIsRight ==
    \A t \in Transactions :
        (/\ cp[t].id # 0 /\ Distinct(cp[t].id)
         /\ Row(t).started_at # NULL /\ Row(t).stopped_at # NULL)
          => energy_delivered(Row(t)) = cp[t].meter_stop - cp[t].meter_start

(* The energy a session reports is never taken back: an update that        *)
(* arrives late or twice changes neither a running nor a closed session    *)
(* to less (GREATEST on meter_last_wh, first write on the boundaries), as  *)
(* long as its events are of one transaction.                              *)
EnergyNeverDrops ==
    [][\A s \in Sessions :
         Distinct(s) /\ energy_delivered(charging_sessions[s]) # NULL =>
           energy_delivered(charging_sessions[s])' >= energy_delivered(charging_sessions[s])]_vars

(* Every transaction the charge point ends is in the end a closed session  *)
(* with its energy ("refusing preserves the transaction rather than losing *)
(* an invoice", OnStopTransaction).                                        *)
StopIsBilled ==
    \A t \in Transactions :
        cp[t].status = "stopping" ~>
          (cp[t].id # 0 /\ Row(t).stopped_at # NULL /\ energy_delivered(Row(t)) # NULL)
=============================================================================
