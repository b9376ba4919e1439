------------------------- MODULE OcppGatewayProofs --------------------------
(***************************************************************************)
(* Proofs about charging transactions for any number of transactions and   *)
(* connectors, any registers, and any number of restarts, retries and      *)
(* deliveries.  The argument: as long as no restart finds the clock behind *)
(* an identifier, identifiers are issued in increasing order; an event     *)
(* tells of a transaction its identifier was issued to; a row holds only   *)
(* what some event in the stream says.                                     *)
(***************************************************************************)
EXTENDS OcppGateway, TLAPS

Registers == {NULL} \cup Nat

Records == [status : {"idle", "starting", "charging", "stopping", "stopped",
                     "refused"},
            id : {0} \cup Sessions, started_at : Registers, meter_start : Registers,
            stopped_at : Registers, meter_stop : Registers]
Events == [session_id : Sessions, connector_id : Nat,
           type : {"STARTED", "UPDATED", "STOPPED"}, occurred_at : Nat, register : Nat]
Rows == [connector_id : Registers, started_at : Registers, stopped_at : Registers,
         meter_start : Registers, meter_last : Registers, meter_stop : Registers]

(* The types. *)
Typed ==
    /\ clock \in 0..MaxClock /\ counter \in 0..MaxId /\ mode \in Modes
    /\ issued \subseteq Sessions \X Transactions
    /\ meter \in [Range(ConnectorOf) -> 0..MaxMeter]
    /\ cp \in [Transactions -> Records]
    /\ stream \subseteq Events /\ session_events \subseteq stream
    /\ charging_sessions \in [Sessions -> Rows]

(* What the charge point knows of a transaction; registers never run back. *)
Known(t) ==
    /\ cp[t].id # 0 => <<cp[t].id, t>> \in issued
    /\ cp[t].id # 0 <=> cp[t].status \in {"charging", "stopping", "stopped"}
    /\ cp[t].status # "idle" => cp[t].started_at \in Nat /\ cp[t].meter_start \in Nat
    /\ cp[t].status \in {"starting", "charging"} => cp[t].meter_start <= At(t)
    /\ cp[t].status \in {"stopping", "stopped"} =>
          cp[t].stopped_at \in Nat /\ cp[t].meter_stop \in Nat
            /\ cp[t].meter_start <= cp[t].meter_stop

(* Identifiers are issued in increasing order, each to one transaction,    *)
(* until a restart finds the clock behind.                                 *)
Ascending ==
    ~behind => /\ \A p \in issued : p[1] <= counter
               /\ \A p, q \in issued : p[1] = q[1] => p[2] = q[2]

(* What event e says of transaction t. *)
Tells(e, t) ==
    /\ cp[t].status # "idle"
    /\ e.type = "STARTED" => e.register = cp[t].meter_start
    /\ cp[t].status \in {"starting", "charging"} => e.register <= At(t)
    /\ cp[t].status \in {"stopping", "stopped"} => e.register <= cp[t].meter_stop
    /\ e.type = "STOPPED" => /\ cp[t].status \in {"stopping", "stopped"}
                             /\ e.register = cp[t].meter_stop

(* An event tells the truth about a transaction its identifier was issued to. *)
Truthful(e) == \E t \in Transactions : <<e.session_id, t>> \in issued /\ Tells(e, t)

(* A row is made of what events of its session say. *)
Supported(s) ==
    LET row == charging_sessions[s]
        Says(e, register) == e.session_id = s /\ e.register = register
    IN  /\ row.started_at # NULL <=> row.meter_start # NULL
        /\ row.stopped_at # NULL <=> row.meter_stop # NULL
        /\ row.meter_start # NULL =>
              \E e \in stream : e.type = "STARTED" /\ Says(e, row.meter_start)
        /\ row.meter_stop # NULL =>
              \E e \in stream : e.type = "STOPPED" /\ Says(e, row.meter_stop)
        /\ row.meter_last # NULL => \E e \in stream : Says(e, row.meter_last)

Inv ==
    /\ Typed /\ AcceptedIsRecorded /\ Ascending
    /\ \A t \in Transactions : Known(t)
    /\ \A e \in stream : Truthful(e)
    /\ \A s \in Sessions : Supported(s)

-----------------------------------------------------------------------------
(* GREATEST of two. *)
LEMMA MaxOfTwo ==
    ASSUME NEW a \in Int, NEW b \in Int
    PROVE  Max({a, b}) = IF a >= b THEN a ELSE b
<1> DEFINE m == IF a >= b THEN a ELSE b
<1>1. m \in {a, b} /\ \A y \in {a, b} : m >= y
  OBVIOUS
<1> HIDE DEF m
<1>2. Max({a, b}) \in {a, b} /\ \A y \in {a, b} : Max({a, b}) >= y
  BY <1>1, Zenon DEF Max
<1> QED
  BY <1>2 DEF m

(* The bounds are numbers. *)
LEMMA Bounds ==
    /\ MaxClock \in Nat /\ MaxMeter \in Nat /\ MaxId \in Nat /\ MaxClock <= MaxId
    /\ Sessions = 1..MaxId /\ ConnectorOf \in [Transactions -> Nat \ {0}]
BY GatewayAssumption

(* Every transaction has a register. *)
LEMMA Metered ==
    ASSUME Typed, NEW t \in Transactions
    PROVE  ConnectorOf[t] \in Range(ConnectorOf) /\ At(t) \in 0..MaxMeter /\ At(t) \in Nat
<1>1. ConnectorOf[t] \in Range(ConnectorOf)
  BY Bounds DEF Range
<1> QED
  BY <1>1, Bounds DEF Typed, At

(* The transactions two events of one session tell of are one, when no     *)
(* identifier came back or this one did not.                               *)
LEMMA OneTransaction ==
    ASSUME Inv, NEW s, Distinct(s), NEW t, NEW u, <<s, t>> \in issued, <<s, u>> \in issued
    PROVE  t = u
<1> DEFINE p == <<s, t>>
           q == <<s, u>>
<1>1. p \in issued /\ q \in issued /\ p[1] = s /\ q[1] = s /\ p[2] = t /\ q[2] = u
  OBVIOUS
<1> HIDE DEF p, q
<1>2. p[1] = q[1] => p[2] = q[2]
  BY <1>1, Zenon DEF Inv, Ascending, Distinct, Alone
<1> QED
  BY <1>1, <1>2

(* The invariant implies what the runs check. *)
LEMMA Implied == ASSUME Inv PROVE TypeOK /\ AcceptedIsRecorded /\ BillIsRight
<1>1. TypeOK
  <2>1. /\ clock \in 0..MaxClock /\ counter \in 0..MaxId /\ mode \in Modes
        /\ issued \subseteq Sessions \X Transactions
    BY DEF Inv, Typed
  <2>2. \A t \in Transactions : At(t) \in 0..MaxMeter /\ (cp[t].id # 0 => <<cp[t].id, t>> \in issued)
    BY Metered DEF Inv, Known
  <2>3. \A s \in Sessions :
          /\ charging_sessions[s].started_at # NULL <=> charging_sessions[s].meter_start # NULL
          /\ charging_sessions[s].stopped_at # NULL <=> charging_sessions[s].meter_stop # NULL
    BY DEF Inv, Supported
  <2> QED
    BY <2>1, <2>2, <2>3 DEF TypeOK, Inv, Typed
<1>2. BillIsRight
  <2> SUFFICES ASSUME NEW t \in Transactions, cp[t].id # 0, Distinct(cp[t].id),
                      Row(t).started_at # NULL, Row(t).stopped_at # NULL
               PROVE  energy_delivered(Row(t)) = cp[t].meter_stop - cp[t].meter_start
    BY DEF BillIsRight
  <2> DEFINE s == cp[t].id
             row == charging_sessions[s]
  <2>1. s \in Sessions /\ row \in Rows /\ cp[t] \in Records /\ <<s, t>> \in issued
    BY DEF Inv, Typed, Records, Known
  <2>2. row.meter_start # NULL /\ row.meter_stop # NULL
    BY <2>1 DEF Inv, Supported, Row
  <2>3. row.meter_start = cp[t].meter_start
    <3>1. PICK e \in stream : e.type = "STARTED" /\ e.session_id = s /\ e.register = row.meter_start
      BY <2>1, <2>2 DEF Inv, Supported
    <3>2. PICK u \in Transactions : <<s, u>> \in issued /\ Tells(e, u)
      BY <3>1 DEF Inv, Truthful
    <3>3. Tells(e, t)
      BY <2>1, <3>2, OneTransaction
    <3> QED
      BY <3>1, <3>3 DEF Tells
  <2>4. row.meter_stop = cp[t].meter_stop /\ cp[t].status \in {"stopping", "stopped"}
    <3>1. PICK e \in stream : e.type = "STOPPED" /\ e.session_id = s /\ e.register = row.meter_stop
      BY <2>1, <2>2 DEF Inv, Supported
    <3>2. PICK u \in Transactions : <<s, u>> \in issued /\ Tells(e, u)
      BY <3>1 DEF Inv, Truthful
    <3>3. Tells(e, t)
      BY <2>1, <3>2, OneTransaction
    <3> QED
      BY <3>1, <3>3 DEF Tells
  <2>5. cp[t].meter_start \in Nat /\ cp[t].meter_stop \in Nat
          /\ cp[t].meter_start <= cp[t].meter_stop
    BY <2>4, Zenon DEF Inv, Known
  <2>6. energy_delivered(row) = Max({cp[t].meter_stop - cp[t].meter_start, 0})
    BY <2>2, <2>3, <2>4 DEF energy_delivered, COALESCE
  <2>7. cp[t].meter_stop - cp[t].meter_start \in Int /\ cp[t].meter_stop - cp[t].meter_start >= 0
    BY <2>5
  <2> QED
    BY <2>6, <2>7, MaxOfTwo DEF Row
<1> QED
  BY <1>1, <1>2 DEF Inv

(* Nothing has happened yet. *)
LEMMA InitInv == ASSUME Init PROVE Inv
<1>1. Typed
  <2>1. cp \in [Transactions -> Records]
    BY DEF Init, Fresh, Records, Registers, NULL
  <2>2. charging_sessions \in [Sessions -> Rows]
    BY DEF Init, StoreInit, NoRow, Rows, Registers, NULL
  <2>3. meter \in [Range(ConnectorOf) -> 0..MaxMeter]
    BY Bounds DEF Init
  <2>4. clock \in 0..MaxClock /\ counter \in 0..MaxId /\ mode \in Modes /\ issued = {}
    BY Bounds DEF Init
  <2> QED
    BY <2>1, <2>2, <2>3, <2>4, Zenon DEF Init, StoreInit, Typed
<1>2. \A t \in Transactions : cp[t].id = 0 /\ cp[t].status = "idle"
  BY DEF Init, Fresh
<1>3. \A t \in Transactions : Known(t)
  BY <1>1, <1>2 DEF Known, Typed
<1>4. \A s \in Sessions : Supported(s)
  BY DEF Init, StoreInit, NoRow, Supported
<1> QED
  BY <1>1, <1>2, <1>3, <1>4, Zenon DEF Init, StoreInit, Inv, AcceptedIsRecorded, Ascending

-----------------------------------------------------------------------------
(* Types of what the steps below talk about. *)
LEMMA Kinds ==
    ASSUME Inv
    PROVE  /\ counter \in Nat /\ clock \in Nat
           /\ \A t \in Transactions : cp[t] \in Records /\ cp[t].id \in Nat /\ At(t) \in Nat
           /\ \A e \in stream : e \in Events /\ e.session_id \in Nat /\ e.session_id # 0
                                  /\ e.register \in Nat
<1>1. \A t \in Transactions : cp[t] \in Records /\ cp[t].id \in Nat /\ At(t) \in Nat
  BY Metered, Bounds DEF Inv, Typed, Records
<1>2. \A e \in stream : e \in Events /\ e.session_id \in Nat /\ e.session_id # 0
                          /\ e.register \in Nat
  BY Bounds DEF Inv, Typed, Events
<1> QED
  BY <1>1, <1>2, Bounds DEF Inv, Typed

(* Rows that do not change stay supported: the stream forgets nothing. *)
LEMMA StillSupported ==
    ASSUME Inv, stream \subseteq stream', charging_sessions' = charging_sessions
    PROVE  \A s \in Sessions : Supported(s)'
<1> SUFFICES ASSUME NEW s \in Sessions PROVE Supported(s)'
  OBVIOUS
<1>1. Supported(s)
  BY DEF Inv
<1> QED
  BY <1>1 DEF Supported

(* What an event told it still tells. *)
LEMMA StillTruthful ==
    ASSUME Inv, issued \subseteq issued', NEW f \in stream,
           \A u \in Transactions : Tells(f, u) => Tells(f, u)'
    PROVE  Truthful(f)'
<1>1. PICK u \in Transactions : <<f.session_id, u>> \in issued /\ Tells(f, u)
  BY DEF Inv, Truthful
<1> QED
  BY <1>1, Zenon DEF Truthful

(* No identifier is issued and the process goes on. *)
LEMMA StillAscending ==
    ASSUME Inv, UNCHANGED <<counter, issued, behind>>
    PROVE  Ascending'
BY Zenon DEF Inv, Ascending

(* Another event in the stream, with the charge point as it was. *)
LEMMA OneMoreEvent ==
    ASSUME Inv, NEW e, cp' = cp, meter' = meter, charging_sessions' = charging_sessions,
           issued \subseteq issued',
           stream \subseteq stream', stream' \subseteq stream \cup {e}, Truthful(e)'
    PROVE  /\ AcceptedIsRecorded'
           /\ \A t \in Transactions : Known(t)'
           /\ \A f \in stream' : Truthful(f)'
           /\ \A s \in Sessions : Supported(s)'
<1>1. AcceptedIsRecorded'
  BY DEF Inv, AcceptedIsRecorded, StartEvent, StopEvent, SessionEvent
<1>2. \A t \in Transactions : Known(t)'
  <2> SUFFICES ASSUME NEW t \in Transactions PROVE Known(t)'
    OBVIOUS
  <2>1. Known(t)
    BY DEF Inv
  <2> QED
    BY <2>1, SMTT(30) DEF Known, At
<1>3. ASSUME NEW f \in stream PROVE Truthful(f)'
  <2>1. \A u \in Transactions : Tells(f, u) => Tells(f, u)'
    BY Zenon DEF Tells, At
  <2> QED
    BY <2>1, StillTruthful
<1> QED
  BY <1>1, <1>2, <1>3, StillSupported

-----------------------------------------------------------------------------
(* The charge point's own steps. *)
LEMMA PlugInStep == ASSUME Inv, NEW t \in Transactions, plug_in(t) PROVE Inv'
<1>1. /\ cp[t] \in Records /\ cp[t].status = "idle" /\ cp[t].id = 0
      /\ At(t) \in Nat /\ clock \in Nat
  <2>1. cp[t].status = "idle" /\ Known(t)
    BY DEF Inv, plug_in
  <2>2. cp[t].id = 0
    BY <2>1, Zenon DEF Known
  <2> QED
    BY <2>1, <2>2, Kinds, Zenon
<1>2. cp'[t] = [cp[t] EXCEPT !.status = "starting", !.started_at = clock, !.meter_start = At(t)]
      /\ \A u \in Transactions : u # t => cp'[u] = cp[u]
  BY DEF plug_in, Inv, Typed
<1>3. /\ cp'[t].status = "starting" /\ cp'[t].id = 0 /\ cp'[t].started_at = clock
      /\ cp'[t].meter_start = At(t) /\ cp'[t] \in Records
  BY <1>1, <1>2, Zenon DEF Records, Registers
<1>4. UNCHANGED <<clock, counter, mode, issued, behind, meter, stream, charging_sessions, session_events>>
  BY DEF plug_in, gateway, store
<1>5. Typed'
  <2>1. cp' \in [Transactions -> Records]
    BY <1>2, <1>3 DEF plug_in, Inv, Typed
  <2> QED
    BY <1>4, <2>1 DEF Inv, Typed
<1>6. AcceptedIsRecorded'
  BY <1>2, <1>3, <1>4, Zenon DEF Inv, AcceptedIsRecorded, StartEvent, StopEvent, SessionEvent
<1>7. Ascending'
  BY <1>4, StillAscending
<1>8. ASSUME NEW u \in Transactions PROVE Known(u)'
  <2>1. CASE u = t
    BY <1>1, <1>3, <1>4, <2>1, Kinds, SMTT(30) DEF Known, At
  <2>2. CASE u # t
    BY <1>2, <1>4, <2>2, SMTT(30) DEF Inv, Known, At
  <2> QED
    BY <2>1, <2>2
<1>9. ASSUME NEW e \in stream PROVE Truthful(e)'
  <2>1. ASSUME NEW u \in Transactions, Tells(e, u) PROVE Tells(e, u)'
    <3>1. cp'[u] = cp[u]
      BY <1>1, <1>2, <2>1, Zenon DEF Tells
    <3> QED
      BY <1>4, <2>1, <3>1, Zenon DEF Tells, At
  <2> QED
    BY <1>4, <2>1, StillTruthful
<1>10. \A s \in Sessions : Supported(s)'
  BY <1>4, StillSupported
<1> QED
  BY <1>4, <1>5, <1>6, <1>7, <1>8, <1>9, <1>10 DEF Inv

(* A register only rises. *)
LEMMA EnergyStep == ASSUME Inv, NEW t \in Transactions, deliver_energy(t) PROVE Inv'
<1>1. UNCHANGED <<clock, counter, mode, issued, behind, cp, stream, charging_sessions, session_events>>
  BY DEF deliver_energy, gateway, store
<1> DEFINE c == ConnectorOf[t]
<1>2. c \in Range(ConnectorOf) /\ meter[c] \in Nat /\ meter[c] + 1 \in 0..MaxMeter
      /\ meter' = [meter EXCEPT ![c] = meter[c] + 1]
  BY Metered, Bounds DEF Inv, At, deliver_energy
<1> HIDE DEF c
<1>3. Typed'
  <2>1. meter' \in [Range(ConnectorOf) -> 0..MaxMeter]
    BY <1>2 DEF Inv, Typed
  <2> QED
    BY <1>1, <2>1 DEF Inv, Typed
<1>4. ASSUME NEW u \in Transactions PROVE At(u) \in Nat /\ At(u)' \in Nat /\ At(u) <= At(u)'
  BY <1>2, Metered, SMTT(30) DEF Inv, Typed, At
<1>5. AcceptedIsRecorded' /\ Ascending'
  BY <1>1, StillAscending DEF Inv, AcceptedIsRecorded, StartEvent, StopEvent, SessionEvent
<1>6. ASSUME NEW u \in Transactions PROVE Known(u)'
  <2>1. Known(u) /\ At(u) \in Nat /\ At(u)' \in Nat /\ At(u) <= At(u)'
    BY <1>4 DEF Inv
  <2> QED
    BY <1>1, <2>1, SMTT(30) DEF Known
<1>7. ASSUME NEW e \in stream PROVE Truthful(e)'
  <2>1. ASSUME NEW u \in Transactions, Tells(e, u) PROVE Tells(e, u)'
    <3>1. At(u) \in Nat /\ At(u)' \in Nat /\ At(u) <= At(u)' /\ e.register \in Nat
      BY <1>4, Kinds
    <3> QED
      BY <1>1, <2>1, <3>1, SMTT(30) DEF Tells
  <2> QED
    BY <1>1, <2>1, StillTruthful
<1>8. \A s \in Sessions : Supported(s)'
  BY <1>1, StillSupported
<1> QED
  BY <1>1, <1>3, <1>5, <1>6, <1>7, <1>8 DEF Inv

(* The closing reading is at or above every reading sent before. *)
LEMMA UnplugStep == ASSUME Inv, NEW t \in Transactions, unplug(t) PROVE Inv'
<1>1. /\ cp[t] \in Records /\ cp[t].status = "charging" /\ Known(t)
      /\ At(t) \in Nat /\ clock \in Nat
  BY Kinds DEF Inv, unplug
<1>2. cp'[t] = [cp[t] EXCEPT !.status = "stopping", !.stopped_at = clock, !.meter_stop = At(t)]
      /\ \A u \in Transactions : u # t => cp'[u] = cp[u]
  BY DEF unplug, Inv, Typed
<1>3. /\ cp'[t].status = "stopping" /\ cp'[t].id = cp[t].id /\ cp'[t].stopped_at = clock
      /\ cp'[t].started_at = cp[t].started_at /\ cp'[t].meter_start = cp[t].meter_start
      /\ cp'[t].meter_stop = At(t) /\ cp'[t] \in Records
  BY <1>1, <1>2, Zenon DEF Records, Registers
<1>4. UNCHANGED <<clock, counter, mode, issued, behind, meter, stream, charging_sessions, session_events>>
  BY DEF unplug, gateway, store
<1>5. Typed'
  <2>1. cp' \in [Transactions -> Records]
    BY <1>2, <1>3 DEF unplug, Inv, Typed
  <2> QED
    BY <1>4, <2>1 DEF Inv, Typed
<1>6. AcceptedIsRecorded'
  BY <1>2, <1>3, <1>4, Zenon DEF Inv, AcceptedIsRecorded, StartEvent, StopEvent, SessionEvent
<1>7. Ascending'
  BY <1>4, StillAscending
<1>8. ASSUME NEW u \in Transactions PROVE Known(u)'
  <2>1. CASE u = t
    BY <1>1, <1>3, <1>4, <2>1, Zenon DEF Known, At
  <2>2. CASE u # t
    BY <1>2, <1>4, <2>2, SMTT(30) DEF Inv, Known, At
  <2> QED
    BY <2>1, <2>2
<1>9. ASSUME NEW e \in stream PROVE Truthful(e)'
  <2>1. ASSUME NEW u \in Transactions, Tells(e, u) PROVE Tells(e, u)'
    <3>1. CASE u = t
      BY <1>1, <1>3, <2>1, <3>1, SMTT(30) DEF Tells
    <3>2. CASE u # t
      BY <1>2, <1>4, <2>1, <3>2, Zenon DEF Tells, At
    <3> QED
      BY <3>1, <3>2
  <2> QED
    BY <1>4, <2>1, StillTruthful
<1>10. \A s \in Sessions : Supported(s)'
  BY <1>4, StillSupported
<1> QED
  BY <1>4, <1>5, <1>6, <1>7, <1>8, <1>9, <1>10 DEF Inv

-----------------------------------------------------------------------------
(* An identifier is issued: until a restart finds the clock behind, to     *)
(* nobody before.                                                          *)
LEMMA NewId ==
    ASSUME Inv, NEW t \in Transactions, Next_id(t)
    PROVE  /\ counter' \in 0..MaxId /\ counter' \in Sessions /\ counter' # 0
           /\ mode' \in Modes /\ issued \subseteq issued'
           /\ <<counter', t>> \in issued' /\ issued' \subseteq Sessions \X Transactions
           /\ Ascending'
<1>a. PICK id : id = counter'
  BY Zenon
<1>1. /\ id = counter + 1 /\ counter \in 0..MaxId /\ counter < MaxId
      /\ issued' = issued \cup {<<id, t>>} /\ UNCHANGED <<mode, behind>>
  BY <1>a DEF Inv, Typed, Next_id
<1>2. id \in 0..MaxId /\ id \in Sessions /\ id # 0
  BY <1>1, Bounds
<1>3. issued' \subseteq Sessions \X Transactions
  <2>1. <<id, t>> \in Sessions \X Transactions
    BY <1>2
  <2> QED
    BY <1>1, <2>1, Zenon DEF Inv, Typed
<1>4. ASSUME ~behind, NEW p \in issued PROVE p[1] \in Nat /\ p[1] <= counter /\ p[1] # id
  <2>1. p[1] \in Nat
    BY Bounds DEF Inv, Typed
  <2>2. p[1] <= counter
    BY <1>4, Zenon DEF Inv, Ascending
  <2> QED
    BY <1>1, <2>1, <2>2
<1>5. Ascending'
  <2> SUFFICES ASSUME ~behind
               PROVE  /\ \A p \in issued' : p[1] <= id
                      /\ \A p, q \in issued' : p[1] = q[1] => p[2] = q[2]
    BY <1>a, <1>1, Zenon DEF Ascending
  <2>1. ASSUME NEW p \in issued' PROVE p \in issued \/ (p = <<id, t>> /\ p[1] = id /\ p[2] = t)
    BY <1>1, <2>1
  <2>2. ASSUME NEW p \in issued' PROVE p[1] <= id
    BY <1>1, <1>4, <2>1, <2>2
  <2>3. ASSUME NEW p \in issued', NEW q \in issued', p[1] = q[1] PROVE p[2] = q[2]
    BY <1>4, <2>1, <2>3, Zenon DEF Inv, Ascending
  <2> QED
    BY <2>2, <2>3
<1> QED
  BY <1>a, <1>1, <1>2, <1>3, <1>5, Zenon DEF Inv, Typed

(* The start event of a transaction that is being started. *)
LEMMA StartEventType ==
    ASSUME Inv, NEW t \in Transactions, cp[t].status = "starting", NEW id \in Sessions
    PROVE  /\ StartEvent(t, id) \in Events /\ StartEvent(t, id).session_id = id
           /\ StartEvent(t, id).type = "STARTED"
           /\ StartEvent(t, id).register = cp[t].meter_start
<1>1. cp[t].started_at \in Nat /\ cp[t].meter_start \in Nat /\ ConnectorOf[t] \in Nat
  BY Bounds, Zenon DEF Inv, Known
<1> QED
  BY <1>1 DEF StartEvent, SessionEvent, Events

(* A start that is confirmed. *)
LEMMA StartStep == ASSUME Inv, NEW t \in Transactions, OnStartTransaction(t) PROVE Inv'
<1>a. PICK id : id = counter'
  BY Zenon
<1>b. PICK e : e = StartEvent(t, id)
  BY Zenon
<1>1. UNCHANGED <<clock, meter, charging_sessions, session_events>> /\ stream' = stream \cup {e}
  BY <1>a, <1>b DEF OnStartTransaction
<1>2. /\ counter' \in 0..MaxId /\ id \in Sessions /\ id # 0
      /\ mode' \in Modes /\ issued \subseteq issued'
      /\ <<id, t>> \in issued' /\ issued' \subseteq Sessions \X Transactions
      /\ Ascending'
  BY <1>a, NewId DEF OnStartTransaction
<1>3. cp[t] \in Records /\ cp[t].status = "starting" /\ Known(t) /\ At(t) \in Nat
  BY Kinds, Zenon DEF Inv, OnStartTransaction
<1>4. cp'[t] = [cp[t] EXCEPT !.status = "charging", !.id = id]
      /\ \A u \in Transactions : u # t => cp'[u] = cp[u]
  BY <1>a DEF OnStartTransaction, Inv, Typed
<1>5. e \in Events /\ e.session_id = id /\ e.type = "STARTED" /\ e.register = cp[t].meter_start
  BY <1>b, <1>2, <1>3, StartEventType
<1>6. /\ cp'[t].status = "charging" /\ cp'[t].id = id
      /\ cp'[t].started_at = cp[t].started_at /\ cp'[t].meter_start = cp[t].meter_start
      /\ cp'[t] \in Records
  BY <1>2, <1>3, <1>4, Zenon DEF Records
<1>7. StartEvent(t, id)' = e
  BY <1>b, <1>6 DEF StartEvent, SessionEvent
<1>8. Typed'
  <2>1. cp' \in [Transactions -> Records]
    BY <1>4, <1>6 DEF OnStartTransaction, Inv, Typed
  <2>2. stream' \subseteq Events /\ session_events' \subseteq stream'
    BY <1>1, <1>5 DEF Inv, Typed
  <2> QED
    BY <1>1, <1>2, <2>1, <2>2 DEF Inv, Typed
<1>9. AcceptedIsRecorded'
  <2> SUFFICES ASSUME NEW u \in Transactions
               PROVE  /\ cp'[u].id # 0 => StartEvent(u, cp[u].id)' \in stream'
                      /\ cp'[u].status = "stopped" => StopEvent(u)' \in stream'
    BY DEF AcceptedIsRecorded
  <2>1. CASE u = t
    <3>1. StartEvent(u, cp[u].id)' = e
      BY <1>6, <1>7, <2>1 DEF StartEvent, SessionEvent
    <3> QED
      BY <1>1, <1>6, <2>1, <3>1
  <2>2. CASE u # t
    BY <1>1, <1>4, <2>2 DEF Inv, AcceptedIsRecorded, StartEvent, StopEvent, SessionEvent
  <2> QED
    BY <2>1, <2>2
<1>10. ASSUME NEW u \in Transactions PROVE Known(u)'
  <2>1. CASE u = t
    BY <1>1, <1>2, <1>3, <1>6, <2>1, SMTT(30) DEF Known, At
  <2>2. CASE u # t
    <3>1. Known(u)
      BY DEF Inv
    <3> QED
      BY <1>1, <1>2, <1>4, <2>2, <3>1, Zenon DEF Known, At
  <2> QED
    BY <2>1, <2>2
<1>11. Truthful(e)'
  <2>1. Tells(e, t)'
    BY <1>1, <1>3, <1>5, <1>6 DEF Known, Tells, At
  <2> QED
    BY <1>2, <1>5, <2>1, Zenon DEF Truthful
<1>12. ASSUME NEW f \in stream PROVE Truthful(f)'
  <2>1. ASSUME NEW u \in Transactions, Tells(f, u) PROVE Tells(f, u)'
    <3>1. CASE u = t
      BY <1>1, <1>3, <1>6, <2>1, <3>1, SMTT(30) DEF Tells, At
    <3>2. CASE u # t
      BY <1>1, <1>4, <2>1, <3>2, Zenon DEF Tells, At
    <3> QED
      BY <3>1, <3>2
  <2> QED
    BY <1>2, <2>1, StillTruthful
<1>13. \A s \in Sessions : Supported(s)'
  BY <1>1, StillSupported
<1> QED
  BY <1>1, <1>2, <1>8, <1>9, <1>10, <1>11, <1>12, <1>13 DEF Inv

(* A start that is not: its event, if published, has an identifier the     *)
(* charge point never learns.                                              *)
LEMMA StartFailsStep == ASSUME Inv, NEW t \in Transactions, StartTransactionFails(t) PROVE Inv'
<1>a. PICK e : e = StartEvent(t, counter')
  BY Zenon
<1>1. UNCHANGED <<clock, meter, cp, charging_sessions, session_events>>
      /\ stream \subseteq stream' /\ stream' \subseteq stream \cup {e}
  BY <1>a DEF StartTransactionFails
<1>2. /\ counter' \in 0..MaxId /\ counter' \in Sessions
      /\ mode' \in Modes /\ issued \subseteq issued'
      /\ <<counter', t>> \in issued' /\ issued' \subseteq Sessions \X Transactions
      /\ Ascending'
  BY NewId DEF StartTransactionFails
<1>3. e \in Events /\ e.session_id = counter' /\ e.type = "STARTED" /\ e.register = cp[t].meter_start
  BY <1>a, <1>2, StartEventType DEF StartTransactionFails
<1>4. Typed'
  <2>1. stream' \subseteq Events /\ session_events' \subseteq stream'
    BY <1>1, <1>3 DEF Inv, Typed
  <2> QED
    BY <1>1, <1>2, <2>1 DEF Inv, Typed
<1>5. Truthful(e)'
  <2>1. cp[t].status = "starting" /\ Known(t)
    BY DEF Inv, StartTransactionFails
  <2>2. Tells(e, t)'
    BY <1>1, <1>3, <2>1 DEF Known, Tells, At
  <2> QED
    BY <1>2, <1>3, <2>2, Zenon DEF Truthful
<1>6. cp' = cp /\ meter' = meter /\ charging_sessions' = charging_sessions
  BY <1>1
<1>7. /\ AcceptedIsRecorded' /\ \A u \in Transactions : Known(u)'
      /\ \A f \in stream' : Truthful(f)'
      /\ \A s \in Sessions : Supported(s)'
  BY <1>1, <1>2, <1>5, <1>6, OneMoreEvent
<1> QED
  BY <1>2, <1>4, <1>7 DEF Inv

(* A start that is refused: nothing is recorded, the charge point waits.   *)
LEMMA RefusedStep == ASSUME Inv, NEW t \in Transactions, StartTransactionRefused(t) PROVE Inv'
<1>1. UNCHANGED <<clock, counter, mode, issued, behind, meter, stream, charging_sessions,
                  session_events>>
  BY DEF StartTransactionRefused, gateway, store
<1>2. cp[t] \in Records /\ cp[t].status = "starting" /\ Known(t)
  BY Kinds DEF Inv, StartTransactionRefused
<1>3. cp'[t] = [cp[t] EXCEPT !.status = "refused"]
      /\ \A u \in Transactions : u # t => cp'[u] = cp[u]
  BY DEF StartTransactionRefused, Inv, Typed
<1>4. /\ cp'[t].status = "refused" /\ cp'[t].id = cp[t].id
      /\ cp'[t].started_at = cp[t].started_at /\ cp'[t].meter_start = cp[t].meter_start
      /\ cp'[t] \in Records
  BY <1>2, <1>3, Zenon DEF Records
<1>5. Typed'
  <2>1. cp' \in [Transactions -> Records]
    BY <1>3, <1>4 DEF StartTransactionRefused, Inv, Typed
  <2> QED
    BY <1>1, <2>1 DEF Inv, Typed
<1>6. AcceptedIsRecorded'
  BY <1>1, <1>3, <1>4, Zenon DEF Inv, AcceptedIsRecorded, StartEvent, StopEvent, SessionEvent
<1>7. Ascending'
  BY <1>1, StillAscending
<1>8. ASSUME NEW u \in Transactions PROVE Known(u)'
  <2>1. CASE u = t
    BY <1>1, <1>2, <1>4, <2>1, Zenon DEF Known, At
  <2>2. CASE u # t
    BY <1>1, <1>3, <2>2, SMTT(30) DEF Inv, Known, At
  <2> QED
    BY <2>1, <2>2
<1>9. ASSUME NEW e \in stream PROVE Truthful(e)'
  <2>1. ASSUME NEW u \in Transactions, Tells(e, u) PROVE Tells(e, u)'
    <3>1. CASE u = t
      BY <1>2, <1>4, <2>1, <3>1, SMTT(30) DEF Tells
    <3>2. CASE u # t
      BY <1>1, <1>3, <2>1, <3>2, Zenon DEF Tells, At
    <3> QED
      BY <3>1, <3>2
  <2> QED
    BY <1>1, <2>1, StillTruthful
<1>10. \A s \in Sessions : Supported(s)'
  BY <1>1, StillSupported
<1> QED
  BY <1>1, <1>5, <1>6, <1>7, <1>8, <1>9, <1>10 DEF Inv

(* An update reports the register of its own transaction. *)
LEMMA UpdateStep == ASSUME Inv, NEW t \in Transactions, OnMeterValues(t) PROVE Inv'
<1>a. PICK e : e = SessionEvent(cp[t].id, ConnectorOf[t], "UPDATED", clock, At(t))
  BY Zenon
<1>1. UNCHANGED <<clock, counter, mode, issued, behind, meter, cp, charging_sessions, session_events>>
      /\ stream' = stream \cup {e}
  BY <1>a DEF OnMeterValues, gateway
<1>2. /\ cp[t].status = "charging" /\ cp[t].id # 0 /\ cp[t].id \in Sessions /\ Known(t)
      /\ At(t) \in Nat /\ clock \in Nat /\ ConnectorOf[t] \in Nat
      /\ <<cp[t].id, t>> \in issued
  BY Kinds, Bounds, SMTT(30) DEF Inv, Typed, Records, Known, OnMeterValues
<1>3. e \in Events /\ e.session_id = cp[t].id /\ e.type = "UPDATED" /\ e.register = At(t)
  BY <1>a, <1>2, SMTT(30) DEF SessionEvent, Events
<1>4. Typed'
  <2>1. stream' \subseteq Events /\ session_events' \subseteq stream'
    BY <1>1, <1>3 DEF Inv, Typed
  <2> QED
    BY <1>1, <2>1 DEF Inv, Typed
<1>5. Truthful(e)'
  <2>1. Tells(e, t)'
    BY <1>1, <1>2, <1>3 DEF Tells, At
  <2> QED
    BY <1>1, <1>2, <1>3, <2>1, Zenon DEF Truthful
<1>6. cp' = cp /\ meter' = meter /\ charging_sessions' = charging_sessions
  BY <1>1
<1>7. /\ AcceptedIsRecorded' /\ Ascending' /\ \A u \in Transactions : Known(u)'
      /\ \A f \in stream' : Truthful(f)'
      /\ \A s \in Sessions : Supported(s)'
  BY <1>1, <1>2, <1>5, <1>6, OneMoreEvent, StillAscending
<1> QED
  BY <1>4, <1>7 DEF Inv

(* The stop event of a transaction that is being stopped. *)
LEMMA StopEventFacts ==
    ASSUME Inv, NEW t \in Transactions, cp[t].status = "stopping"
    PROVE  /\ StopEvent(t) \in Events /\ StopEvent(t).session_id = cp[t].id
           /\ StopEvent(t).type = "STOPPED" /\ StopEvent(t).register = cp[t].meter_stop
           /\ Truthful(StopEvent(t))
<1> DEFINE e == StopEvent(t)
<1>1. /\ cp[t].id # 0 /\ cp[t].id \in Sessions /\ Known(t)
      /\ <<cp[t].id, t>> \in issued
      /\ cp[t].stopped_at \in Nat /\ cp[t].meter_stop \in Nat
  BY SMTT(30) DEF Inv, Typed, Records, Known
<1>2. e \in Events /\ e.session_id = cp[t].id /\ e.type = "STOPPED" /\ e.register = cp[t].meter_stop
  BY <1>1, SMTT(30) DEF StopEvent, SessionEvent, Events, connectorUnknown
<1> HIDE DEF e
<1>3. Tells(e, t)
  BY <1>1, <1>2 DEF Tells
<1>4. Truthful(e)
  BY <1>1, <1>2, <1>3, Zenon DEF Truthful
<1> QED
  BY <1>2, <1>4 DEF e

(* A stop that is confirmed: the transaction is forgotten once recorded. *)
LEMMA StopStep == ASSUME Inv, NEW t \in Transactions, OnStopTransaction(t) PROVE Inv'
<1>a. PICK e : e = StopEvent(t)
  BY Zenon
<1>1. UNCHANGED <<clock, counter, mode, issued, behind, meter, charging_sessions, session_events>>
      /\ stream' = stream \cup {e}
  BY <1>a DEF OnStopTransaction, gateway
<1>2. cp[t] \in Records /\ cp[t].status = "stopping"
  BY Kinds DEF OnStopTransaction
<1>3. e \in Events /\ Truthful(e)
  BY <1>a, <1>2, StopEventFacts
<1>4. cp'[t] = [cp[t] EXCEPT !.status = "stopped"]
      /\ \A u \in Transactions : u # t => cp'[u] = cp[u]
  BY DEF OnStopTransaction, Inv, Typed
<1>5. /\ cp'[t].status = "stopped" /\ cp'[t].id = cp[t].id
      /\ cp'[t].started_at = cp[t].started_at /\ cp'[t].meter_start = cp[t].meter_start
      /\ cp'[t].stopped_at = cp[t].stopped_at /\ cp'[t].meter_stop = cp[t].meter_stop
      /\ cp'[t] \in Records
  BY <1>2, <1>4, SMTT(30) DEF Records
<1>6. ASSUME NEW u \in Transactions
      PROVE  /\ StopEvent(u)' = StopEvent(u)
               /\ cp'[u].id = cp[u].id /\ cp'[u].meter_start = cp[u].meter_start
               /\ cp'[u].started_at = cp[u].started_at /\ cp'[u].meter_stop = cp[u].meter_stop
  BY <1>4, <1>5, Zenon DEF StopEvent, SessionEvent
<1>7. Typed'
  <2>1. cp' \in [Transactions -> Records]
    BY <1>4, <1>5 DEF OnStopTransaction, Inv, Typed
  <2>2. stream' \subseteq Events /\ session_events' \subseteq stream'
    BY <1>1, <1>3 DEF Inv, Typed
  <2> QED
    BY <1>1, <2>1, <2>2 DEF Inv, Typed
<1>8. AcceptedIsRecorded'
  <2> SUFFICES ASSUME NEW u \in Transactions
               PROVE  /\ cp'[u].id # 0 => StartEvent(u, cp[u].id)' \in stream'
                      /\ cp'[u].status = "stopped" => StopEvent(u)' \in stream'
    BY DEF AcceptedIsRecorded
  <2>1. StartEvent(u, cp[u].id)' = StartEvent(u, cp[u].id)
    BY <1>6 DEF StartEvent, SessionEvent
  <2>2. cp'[u].status = "stopped" => StopEvent(u) \in stream'
    BY <1>a, <1>1, <1>4 DEF Inv, AcceptedIsRecorded
  <2> QED
    BY <1>1, <1>6, <2>1, <2>2, SMTT(30) DEF Inv, AcceptedIsRecorded
<1>9. Ascending'
  BY <1>1, StillAscending
<1>10. ASSUME NEW u \in Transactions PROVE Known(u)'
  <2>1. Known(u)
    BY DEF Inv
  <2>2. CASE u = t
    BY <1>1, <1>2, <1>5, <2>1, <2>2, Zenon DEF Known
  <2>3. CASE u # t
    BY <1>1, <1>4, <2>1, <2>3, SMTT(30) DEF Known, At
  <2> QED
    BY <2>2, <2>3
<1>11. ASSUME NEW f, Truthful(f) PROVE Truthful(f)'
  <2>1. ASSUME NEW u \in Transactions, Tells(f, u) PROVE Tells(f, u)'
    <3>1. CASE u = t
      BY <1>2, <1>5, <2>1, <3>1 DEF Tells
    <3>2. CASE u # t
      BY <1>1, <1>4, <2>1, <3>2 DEF Tells, At
    <3> QED
      BY <3>1, <3>2
  <2> QED
    BY <1>1, <1>11, <2>1, Zenon DEF Truthful
<1>12. \A f \in stream' : Truthful(f)'
  BY <1>1, <1>3, <1>11 DEF Inv
<1>13. \A s \in Sessions : Supported(s)'
  BY <1>1, StillSupported
<1> QED
  BY <1>7, <1>8, <1>9, <1>10, <1>12, <1>13 DEF Inv

(* A stop that is not: it will be sent again. *)
LEMMA StopFailsStep == ASSUME Inv, NEW t \in Transactions, StopTransactionFails(t) PROVE Inv'
<1>a. PICK e : e = StopEvent(t)
  BY Zenon
<1>1. UNCHANGED <<clock, counter, mode, issued, behind, meter, cp, charging_sessions, session_events>>
      /\ stream' = stream \cup {e}
  BY <1>a DEF StopTransactionFails, gateway
<1>2. e \in Events /\ Truthful(e)
  BY <1>a, StopEventFacts DEF StopTransactionFails
<1>3. Typed'
  <2>1. stream' \subseteq Events /\ session_events' \subseteq stream'
    BY <1>1, <1>2 DEF Inv, Typed
  <2> QED
    BY <1>1, <2>1 DEF Inv, Typed
<1>4. Truthful(e)'
  BY <1>1, <1>2, Zenon DEF Truthful, Tells, At
<1>5. cp' = cp /\ meter' = meter /\ charging_sessions' = charging_sessions
  BY <1>1
<1>6. /\ AcceptedIsRecorded' /\ Ascending' /\ \A u \in Transactions : Known(u)'
      /\ \A f \in stream' : Truthful(f)'
      /\ \A s \in Sessions : Supported(s)'
  BY <1>1, <1>4, <1>5, OneMoreEvent, StillAscending
<1> QED
  BY <1>3, <1>6 DEF Inv

(* Time passes, or the process starts again: identifiers stay in order     *)
(* unless the clock is behind.                                             *)
LEMMA TimeStep == ASSUME Inv, tick \/ restart PROVE Inv'
<1>1. UNCHANGED <<mode, issued, meter, cp, stream, charging_sessions, session_events>>
  BY DEF tick, restart, gateway, store
<1>2. clock \in 0..MaxClock /\ counter \in 0..MaxId
  BY DEF Inv, Typed
<1>3. clock' \in 0..MaxClock /\ counter' \in 0..MaxId
  BY <1>2, Bounds DEF tick, restart, gateway
<1>4. Typed'
  BY <1>1, <1>3, Zenon DEF Inv, Typed
<1>5. Ascending'
  <2>1. CASE tick
    BY <2>1, StillAscending DEF tick, gateway
  <2>2. CASE restart
    <3>1. counter' = clock /\ (~behind' => ~behind /\ \A p \in issued : ~(p[1] > clock))
      BY <2>2, Zenon DEF restart
    <3>2. ASSUME NEW p \in issued PROVE ~(p[1] > clock) => p[1] <= clock
      <4>1. p[1] \in Nat /\ clock \in Nat
        BY <1>2, Bounds DEF Inv, Typed
      <4> QED
        BY <4>1
    <3> QED
      BY <1>1, <3>1, <3>2, Zenon DEF Inv, Ascending
  <2> QED
    BY <2>1, <2>2
<1>6. AcceptedIsRecorded'
  BY <1>1, SMTT(30) DEF Inv, AcceptedIsRecorded, StartEvent, StopEvent, SessionEvent
<1>7. ASSUME NEW t \in Transactions PROVE Known(t)'
  <2>1. Known(t)
    BY DEF Inv
  <2> QED
    BY <1>1, <2>1 DEF Known, At
<1>8. ASSUME NEW e \in stream PROVE Truthful(e)'
  <2>1. \A u \in Transactions : Tells(e, u) => Tells(e, u)'
    BY <1>1, Zenon DEF Tells, At
  <2> QED
    BY <1>1, <2>1, StillTruthful
<1>9. \A s \in Sessions : Supported(s)'
  BY <1>1, StillSupported
<1> QED
  BY <1>1, <1>4, <1>5, <1>6, <1>7, <1>8, <1>9 DEF Inv

-----------------------------------------------------------------------------
(* What upsertSession makes of a row, column by column. *)
LEMMA Upserted ==
    ASSUME NEW row \in Rows, NEW e \in Events
    PROVE  LET new == upsertSession(row, e)
           IN  /\ new \in Rows
               /\ new.started_at = IF row.started_at # NULL THEN row.started_at
                                   ELSE IF e.type = "STARTED" THEN e.occurred_at ELSE NULL
               /\ new.meter_start = IF row.meter_start # NULL THEN row.meter_start
                                    ELSE IF e.type = "STARTED" THEN e.register ELSE NULL
               /\ new.stopped_at = IF row.stopped_at # NULL THEN row.stopped_at
                                   ELSE IF e.type = "STOPPED" THEN e.occurred_at ELSE NULL
               /\ new.meter_stop = IF row.meter_stop # NULL THEN row.meter_stop
                                   ELSE IF e.type = "STOPPED" THEN e.register ELSE NULL
               /\ new.meter_last = IF row.meter_last >= e.register THEN row.meter_last
                                   ELSE e.register
<1> DEFINE new == upsertSession(row, e)
<1>1. /\ e.register \in Nat /\ e.occurred_at \in Nat /\ e.connector_id \in Nat
      /\ row.meter_last \in Registers /\ row.meter_last \in Int
      /\ NULL \notin Nat
  BY DEF Rows, Events, Registers, NULL
<1>2. Max({row.meter_last, e.register}) = IF row.meter_last >= e.register THEN row.meter_last
                                          ELSE e.register
  BY <1>1, MaxOfTwo, SMTT(30)
<1>3. new = [connector_id |-> e.connector_id,
             started_at |-> IF row.started_at # NULL THEN row.started_at
                            ELSE IF e.type = "STARTED" THEN e.occurred_at ELSE NULL,
             stopped_at |-> IF row.stopped_at # NULL THEN row.stopped_at
                            ELSE IF e.type = "STOPPED" THEN e.occurred_at ELSE NULL,
             meter_start |-> IF row.meter_start # NULL THEN row.meter_start
                             ELSE IF e.type = "STARTED" THEN e.register ELSE NULL,
             meter_last |-> Max({row.meter_last, e.register}),
             meter_stop |-> IF row.meter_stop # NULL THEN row.meter_stop
                            ELSE IF e.type = "STOPPED" THEN e.register ELSE NULL]
  BY <1>1, Zenon DEF upsertSession, sessionBoundaries, sessionMeters, COALESCE
<1> HIDE DEF new
<1>4. new \in Rows
  BY <1>1, <1>2, <1>3, SMTT(30) DEF Rows, Registers
<1>5. new.meter_last = IF row.meter_last >= e.register THEN row.meter_last ELSE e.register
  BY <1>2, <1>3
<1> QED
  BY <1>3, <1>4, <1>5 DEF new

(* The row of the event's session is merged, the others stay. *)
LEMMA PersistRows ==
    ASSUME Inv, NEW e \in stream, Persist(e)
    PROVE  /\ e \in Events /\ e.session_id \in Sessions
           /\ charging_sessions[e.session_id] \in Rows
           /\ charging_sessions'[e.session_id] = upsertSession(charging_sessions[e.session_id], e)
           /\ \A s \in Sessions : s # e.session_id => charging_sessions'[s] = charging_sessions[s]
           /\ charging_sessions' \in [Sessions -> Rows]
<1>1. e \in Events /\ e.session_id \in Sessions
  BY DEF Inv, Typed, Events
<1> DEFINE row == charging_sessions[e.session_id]
           new == upsertSession(row, e)
<1>2. row \in Rows /\ charging_sessions \in [Sessions -> Rows]
  BY <1>1 DEF Inv, Typed
<1>3. new \in Rows
  BY <1>1, <1>2, Upserted
<1>4. charging_sessions' = [charging_sessions EXCEPT ![e.session_id] = new]
  BY DEF Persist, PersistSessionEvent
<1> HIDE DEF new
<1>5. /\ charging_sessions'[e.session_id] = new
      /\ \A s \in Sessions : s # e.session_id => charging_sessions'[s] = charging_sessions[s]
      /\ charging_sessions' \in [Sessions -> Rows]
  BY <1>1, <1>2, <1>3, <1>4
<1> QED
  BY <1>1, <1>2, <1>5 DEF new

(* A stored event supports what it writes. *)
LEMMA PersistStep == ASSUME Inv, NEW e \in stream, Persist(e) PROVE Inv'
<1>1. UNCHANGED <<clock, counter, mode, issued, behind, meter, cp, stream>>
      /\ session_events' \subseteq session_events \cup {e}
  BY DEF Persist, PersistSessionEvent, insertSessionEvent, gateway
<1>2. Typed'
  <2>1. charging_sessions' \in [Sessions -> Rows]
    BY PersistRows
  <2>2. session_events' \subseteq stream'
    BY <1>1, Zenon DEF Inv, Typed
  <2> QED
    BY <1>1, <2>1, <2>2, Zenon DEF Inv, Typed
<1>3. AcceptedIsRecorded' /\ Ascending'
  BY <1>1, StillAscending, SMTT(30) DEF Inv, AcceptedIsRecorded, StartEvent, StopEvent, SessionEvent
<1>4. /\ \A t \in Transactions : Known(t)'
      /\ \A f \in stream' : Truthful(f)'
  <2>1. \A t \in Transactions : Known(t)'
    BY <1>1, Zenon DEF Inv, Known, At
  <2>2. ASSUME NEW f \in stream PROVE Truthful(f)'
    <3>1. \A t \in Transactions : Tells(f, t) => Tells(f, t)'
      BY <1>1, Zenon DEF Tells, At
    <3> QED
      BY <1>1, <3>1, StillTruthful
  <2> QED
    BY <1>1, <2>1, <2>2
<1>5. ASSUME NEW s \in Sessions, s # e.session_id PROVE Supported(s)'
  <2>1. Supported(s) /\ charging_sessions'[s] = charging_sessions[s]
    BY <1>5, PersistRows DEF Inv
  <2> QED
    BY <1>1, <2>1, SMTT(30) DEF Supported
<1>6. Supported(e.session_id)'
  <2> DEFINE s == e.session_id
             row == charging_sessions[s]
             new == charging_sessions'[s]
  <2>1. e \in Events /\ s \in Sessions /\ row \in Rows /\ new = upsertSession(row, e)
    BY PersistRows
  <2>2. /\ new.started_at = IF row.started_at # NULL THEN row.started_at
                            ELSE IF e.type = "STARTED" THEN e.occurred_at ELSE NULL
        /\ new.meter_start = IF row.meter_start # NULL THEN row.meter_start
                             ELSE IF e.type = "STARTED" THEN e.register ELSE NULL
        /\ new.stopped_at = IF row.stopped_at # NULL THEN row.stopped_at
                            ELSE IF e.type = "STOPPED" THEN e.occurred_at ELSE NULL
        /\ new.meter_stop = IF row.meter_stop # NULL THEN row.meter_stop
                            ELSE IF e.type = "STOPPED" THEN e.register ELSE NULL
        /\ new.meter_last = IF row.meter_last >= e.register THEN row.meter_last
                            ELSE e.register
    BY ONLY <2>1, Upserted, SMTT(30)
  <2>3. Supported(s)
    BY <2>1 DEF Inv
  <2>4. e.occurred_at # NULL /\ e.register # NULL
    BY <2>1 DEF Events, NULL
  <2> HIDE DEF s, row, new
  <2>5. /\ new.started_at # NULL <=> new.meter_start # NULL
        /\ new.stopped_at # NULL <=> new.meter_stop # NULL
    BY <2>2, <2>3, <2>4 DEF Supported, row
  <2>6. new.meter_start # NULL =>
          \E f \in stream : f.type = "STARTED" /\ f.session_id = s /\ f.register = new.meter_start
    BY <2>2, <2>3, SMTT(30) DEF Supported, row, s
  <2>7. new.meter_stop # NULL =>
          \E f \in stream : f.type = "STOPPED" /\ f.session_id = s /\ f.register = new.meter_stop
    BY <2>2, <2>3, SMTT(30) DEF Supported, row, s
  <2>8. new.meter_last # NULL =>
          \E f \in stream : f.session_id = s /\ f.register = new.meter_last
    BY <2>2, <2>3, SMTT(30) DEF Supported, row, s
  <2>9. Supported(s)'
    BY <1>1, <2>5, <2>6, <2>7, <2>8, SMTT(30) DEF Supported, new, s
  <2> QED
    BY <2>9 DEF s
<1> QED
  BY <1>2, <1>3, <1>4, <1>5, <1>6 DEF Inv

(* Every step of charge point, gateway and store keeps Inv. *)
LEMMA NextInv == ASSUME Inv, [Next]_vars PROVE Inv'
<1>1. CASE UNCHANGED vars
  <2>1. /\ UNCHANGED <<clock, counter, mode, issued, behind, meter, cp>>
        /\ UNCHANGED <<stream, charging_sessions, session_events>>
    BY <1>1 DEF vars
  <2>2. Typed'
    BY <2>1, Zenon DEF Inv, Typed
  <2>3. AcceptedIsRecorded' /\ Ascending'
    BY <2>1, StillAscending, SMTT(30) DEF Inv, AcceptedIsRecorded, StartEvent, StopEvent, SessionEvent
  <2>4. \A t \in Transactions : Known(t)'
    BY <2>1, Zenon DEF Inv, Known, At
  <2>5. \A e \in stream' : Truthful(e)'
    <3>1. \A e \in stream, t \in Transactions : Tells(e, t) => Tells(e, t)'
      BY <2>1, Zenon DEF Tells, At
    <3> QED
      BY <2>1, <3>1, StillTruthful
  <2> QED
    BY <2>1, <2>2, <2>3, <2>4, <2>5, StillSupported DEF Inv
<1>2. CASE \E t \in Transactions : plug_in(t) \/ deliver_energy(t) \/ unplug(t)
  BY <1>2, PlugInStep, EnergyStep, UnplugStep
<1>3. CASE \E t \in Transactions : Gateway(t)
  BY <1>3, StartStep, StartFailsStep, RefusedStep, UpdateStep, StopStep, StopFailsStep DEF Gateway
<1>4. CASE tick \/ restart
  BY <1>4, TimeStep
<1>5. CASE \E e \in stream : Persist(e)
  BY <1>5, PersistStep
<1> QED
  BY <1>1, <1>2, <1>3, <1>4, <1>5 DEF Next

(* The inductive invariant of transactions, stream and projection.         *)
THEOREM GatewayInvariant == Spec => []Inv
BY InitInv, NextInv, PTL DEF Spec

(* The types, and that a row is opened and closed together with its        *)
(* readings (sessionMeters, sessionBoundaries).                            *)
THEOREM GatewayTypes == Spec => []TypeOK
BY GatewayInvariant, Implied, PTL

(* What OnStartTransaction and OnStopTransaction confirm to the charge     *)
(* point is in the stream.                                                 *)
THEOREM ConfirmedIsRecorded == Spec => []AcceptedIsRecorded
BY GatewayInvariant, Implied, PTL

(* A closed session bills the energy of its own transaction, whatever the  *)
(* order and number of deliveries and the restarts of the gateway, unless  *)
(* a restart found the clock behind and its identifier was issued again.   *)
THEOREM BillsAreRight == Spec => []BillIsRight
BY GatewayInvariant, Implied, PTL

-----------------------------------------------------------------------------
(* No step takes back energy a row reports: the boundaries are written     *)
(* once, the last register only rises, and the closing one is at least as  *)
(* high as any before it.                                                  *)
LEMMA EnergyKept ==
    ASSUME Inv, [Next]_vars, NEW s \in Sessions, Distinct(s),
           energy_delivered(charging_sessions[s]) # NULL
    PROVE  energy_delivered(charging_sessions[s])' >= energy_delivered(charging_sessions[s])
<1> DEFINE row == charging_sessions[s]
           new == charging_sessions'[s]
           Close(r) == COALESCE(r.meter_stop, r.meter_last)
<1>1. row \in Rows
  BY DEF Inv, Typed
<1>2. /\ row.meter_start # NULL /\ Close(row) # NULL
      /\ row.meter_start \in Nat /\ Close(row) \in Nat
  BY <1>1, SMTT(30) DEF energy_delivered, COALESCE, Rows, Registers
<1>3. energy_delivered(row) = IF Close(row) - row.meter_start >= 0
                              THEN Close(row) - row.meter_start ELSE 0
  <2>1. Close(row) - row.meter_start \in Int /\ 0 \in Int
    BY <1>2
  <2>2. energy_delivered(row) = Max({Close(row) - row.meter_start, 0})
    BY <1>2 DEF energy_delivered
  <2> HIDE DEF Close
  <2> QED
    BY <2>1, <2>2, MaxOfTwo
<1>4. SUFFICES energy_delivered(new) >= energy_delivered(row)
  BY SMTT(30) DEF energy_delivered, COALESCE
<1>5. CASE new = row
  BY <1>2, <1>3, <1>5, SMTT(30)
<1>6. CASE new # row
  <2>1. PICK e \in stream : Persist(e) /\ e.session_id = s
    <3>1. PICK e \in stream : Persist(e)
      <4>1. charging_sessions' # charging_sessions
        BY <1>6
      <4>2. ~tick /\ ~restart /\ ~UNCHANGED vars
        BY <4>1 DEF tick, restart, store, vars
      <4>3. \A t \in Transactions : ~plug_in(t) /\ ~deliver_energy(t) /\ ~unplug(t)
        BY <4>1 DEF plug_in, deliver_energy, unplug, store
      <4>4. \A t \in Transactions : ~Gateway(t)
        BY <4>1 DEF Gateway, OnStartTransaction, StartTransactionFails,
              StartTransactionRefused, OnMeterValues, OnStopTransaction, StopTransactionFails,
              store
      <4> QED
        BY <4>2, <4>3, <4>4, Zenon DEF Next
    <3>2. e.session_id = s
      BY <1>6, <3>1, PersistRows
    <3> QED
      BY <3>1, <3>2
  <2>2. e \in Events /\ new = upsertSession(row, e) /\ e.register \in Nat
    BY <2>1, PersistRows DEF Events
  <2>3. /\ new.meter_start = row.meter_start
        /\ new.meter_stop = IF row.meter_stop # NULL THEN row.meter_stop
                            ELSE IF e.type = "STOPPED" THEN e.register ELSE NULL
        /\ new.meter_last = IF row.meter_last >= e.register THEN row.meter_last
                            ELSE e.register
    BY <1>1, <1>2, <2>2, Upserted, SMTT(30)
  <2>4. Close(new) \in Nat /\ Close(new) >= Close(row)
    <3>1. CASE row.meter_stop # NULL
      BY <1>2, <2>3, <3>1, SMTT(30) DEF COALESCE
    <3>2. CASE row.meter_stop = NULL /\ e.type # "STOPPED"
      BY <1>2, <2>2, <2>3, <3>2, SMTT(30) DEF COALESCE, NULL
    <3>3. CASE row.meter_stop = NULL /\ e.type = "STOPPED"
      <4>1. row.meter_last # NULL /\ Close(row) = row.meter_last
        BY <1>2, <3>3 DEF COALESCE
      <4>2. PICK f \in stream : f.session_id = s /\ f.register = row.meter_last
        BY <4>1, SMTT(30) DEF Inv, Supported
      <4>3. PICK t \in Transactions : <<s, t>> \in issued /\ Tells(e, t)
        BY <2>1, Zenon DEF Inv, Truthful
      <4>4. Tells(f, t)
        <5>1. PICK v \in Transactions : <<s, v>> \in issued /\ Tells(f, v)
          BY <4>2, Zenon DEF Inv, Truthful
        <5> QED
          BY <4>3, <5>1, OneTransaction
      <4>5. row.meter_last <= e.register
        BY <3>3, <4>2, <4>3, <4>4 DEF Tells
      <4>6. Close(new) = e.register
        BY <2>2, <2>3, <3>3, SMTT(30) DEF COALESCE, NULL
      <4> QED
        BY <1>2, <2>2, <4>1, <4>5, <4>6, SMTT(30)
    <3> QED
      BY <3>1, <3>2, <3>3, SMTT(30)
  <2>5. energy_delivered(new) = IF Close(new) - row.meter_start >= 0
                                THEN Close(new) - row.meter_start ELSE 0
    <3>1. Close(new) - row.meter_start \in Int /\ 0 \in Int /\ Close(new) # NULL
      BY <1>2, <2>4, SMTT(30) DEF NULL
    <3>2. energy_delivered(new) = Max({Close(new) - row.meter_start, 0})
      BY <1>2, <2>3, <3>1, SMTT(30) DEF energy_delivered
    <3> HIDE DEF Close
    <3> QED
      BY <3>1, <3>2, MaxOfTwo
  <2> HIDE DEF Close, row, new
  <2> QED
    BY <1>2, <1>3, <2>4, <2>5, SMTT(30)
<1> QED
  BY <1>5, <1>6

(* The energy a session reports is never taken back, as long as its events *)
(* are of one transaction.                                                 *)
THEOREM NoEnergyTakenBack == Spec => EnergyNeverDrops
<1>1. Inv /\ [Next]_vars =>
        [\A s \in Sessions :
           Distinct(s) /\ energy_delivered(charging_sessions[s]) # NULL =>
             energy_delivered(charging_sessions[s])' >= energy_delivered(charging_sessions[s])]_vars
  BY EnergyKept
<1> QED
  BY <1>1, GatewayInvariant, PTL DEF Spec, EnergyNeverDrops
=============================================================================
