------------------------------ MODULE EdgeAgent ------------------------------
(***************************************************************************)
(* The edge agent's process (edge-agent main.rs): how a reading gets from  *)
(* the site's MQTT broker to the spool while the main loop is also         *)
(* draining the spool to the cloud, being stopped or crashing.             *)
(*                                                                         *)
(* The spool is abstract here: what it keeps, replays and discards is      *)
(* module Spool.  A reading is its number in the order it was published.   *)
(***************************************************************************)
EXTENDS Integers, Sequences, FiniteSets, Functions

CONSTANTS
    MaxReadings,   \* bound: readings the site publishes
    Invalid,       \* the ones parse_payload or normalize refuses
    ChannelSize,   \* mpsc::channel(1024)
    ReadAhead,     \* packets rumqttc takes from the connection at once
    MaxFaults      \* bound: stops, crashes, lost connections, disk errors

ASSUME AgentAssumption ==
    /\ {MaxReadings, MaxFaults} \subseteq Nat
    /\ {ChannelSize, ReadAhead} \subseteq Nat \ {0}
    /\ Invalid \subseteq 1..MaxReadings

VARIABLES
    sent,       \* readings 1..sent were published at the site
    session,    \* the broker's persistent session: what it has no ack for
    inflight,   \* how many of them it delivered on this connection
    events,     \* packets rumqttc has read and poll() has not returned
    held,       \* what read_broker awaits room in the channel for, or 0
    channel,    \* sender -> receiver
    taken,      \* what the loop has received and not yet spooled, or 0
    main,       \* "select", "accept", "drain", "stopping" or "down"
    online,     \* the event bus can be reached
    spool,      \* the readings on disk
    delivered,  \* the readings the event bus acknowledged
    refused,    \* logged: rejected by accept, or enqueue failed
    lost,       \* gone with a process that held the only copy
    stops, faults

mqtt == <<sent, session, inflight>>
memory == <<events, held, channel, taken>>
settled == <<spool, delivered, refused>>
history == <<lost, stops, faults>>
vars == <<mqtt, memory, main, online, settled, history>>

Readings == 1..MaxReadings
Up == main # "down"
InMemory == (Range(events) \cup Range(channel) \cup {held, taken}) \ {0}
Settled == spool \cup delivered \cup refused

Init ==
    /\ sent = 0 /\ session = <<>> /\ inflight = 0
    /\ events = <<>> /\ held = 0 /\ channel = <<>> /\ taken = 0
    /\ main = "select" /\ online = FALSE
    /\ spool = {} /\ delivered = {} /\ refused = {}
    /\ lost = {} /\ stops = 0 /\ faults = 0

-----------------------------------------------------------------------------
(* The site's broker, which is not part of the repository. *)

publish ==
    /\ sent < MaxReadings
    /\ sent' = sent + 1
    /\ session' = Append(session, sent + 1)
    /\ UNCHANGED <<inflight, memory, main, online, settled, history>>

(* Mutant: the connection is read although packets are waiting. *)
read_on ==
    /\ Up
    /\ \E n \in 1..ReadAhead :
          /\ inflight + n <= Len(session)
          /\ events' = events \o SubSeq(session, inflight + 1, inflight + n)
          /\ inflight' = inflight + n
    /\ UNCHANGED <<sent, session, held, channel, taken, main, online, settled, history>>

(* poll() reads the connection once it has returned all it had read: with  *)
(* the task blocked on a full channel, nothing more is taken from it.      *)
read ==
    /\ Up /\ held = 0 /\ events = <<>>
    /\ \E n \in 1..ReadAhead :
          /\ inflight + n <= Len(session)
          /\ events' = SubSeq(session, inflight + 1, inflight + n)
          /\ inflight' = inflight + n
    /\ UNCHANGED <<sent, session, held, channel, taken, main, online, settled, history>>

(* rumqttc acknowledges a QoS 1 message when it reads it, whatever becomes *)
(* of it afterwards; the broker then forgets the message.                  *)
puback ==
    /\ Up /\ inflight > 0
    /\ session' = Tail(session)
    /\ inflight' = inflight - 1
    /\ UNCHANGED <<sent, memory, main, online, settled, history>>

(* poll() fails, which it does once it has returned all it had read, and   *)
(* the client is recreated under the same session: the broker delivers     *)
(* again what it has no acknowledgement for.                               *)
reconnect ==
    /\ Up /\ held = 0 /\ events = <<>> /\ inflight > 0
    /\ faults < MaxFaults
    /\ faults' = faults + 1
    /\ inflight' = 0
    /\ UNCHANGED <<sent, session, memory, main, online, settled, lost, stops>>

link_changes ==
    /\ online' = ~online
    /\ UNCHANGED <<mqtt, memory, main, settled, history>>

-----------------------------------------------------------------------------
(* The task read_broker. *)

poll ==
    /\ Up /\ held = 0
    /\ events # <<>>
    /\ held' = Head(events)
    /\ events' = Tail(events)
    /\ UNCHANGED <<mqtt, channel, taken, main, online, settled, history>>

(* Mutant: try_send, which drops the reading when the channel is full. *)
send_or_drop ==
    /\ Up /\ held # 0
    /\ channel' = IF Len(channel) < ChannelSize THEN Append(channel, held) ELSE channel
    /\ held' = 0
    /\ UNCHANGED <<mqtt, events, taken, main, online, settled, history>>

(* Mutant: an unbounded channel. *)
send_unbounded ==
    /\ Up /\ held # 0
    /\ channel' = Append(channel, held)
    /\ held' = 0
    /\ UNCHANGED <<mqtt, events, taken, main, online, settled, history>>

send ==
    /\ Up /\ held # 0
    /\ Len(channel) < ChannelSize
    /\ channel' = Append(channel, held)
    /\ held' = 0
    /\ UNCHANGED <<mqtt, events, taken, main, online, settled, history>>

-----------------------------------------------------------------------------
(* The branches of the select! loop of main. *)

recv ==
    /\ main = "select" /\ channel # <<>>
    /\ taken' = Head(channel)
    /\ channel' = Tail(channel)
    /\ main' = "accept"
    /\ UNCHANGED <<mqtt, events, held, online, settled, history>>

(* The handler of recv: nothing but the end of the process comes between   *)
(* the two steps in this loop, but the process may end there.              *)
accept ==
    /\ main = "accept"
    /\ IF taken \in Invalid
       THEN refused' = refused \cup {taken} /\ UNCHANGED spool
       ELSE spool' = spool \cup {taken} /\ UNCHANGED refused
    /\ taken' = 0
    /\ main' = "select"
    /\ UNCHANGED <<mqtt, events, held, channel, online, delivered, history>>

(* The disk refuses the record: an error is logged and the loop goes on. *)
enqueue_fails ==
    /\ main = "accept" /\ taken \notin Invalid
    /\ faults < MaxFaults
    /\ faults' = faults + 1
    /\ refused' = refused \cup {taken}
    /\ taken' = 0
    /\ main' = "select"
    /\ UNCHANGED <<mqtt, events, held, channel, online, spool, delivered, lost, stops>>

flush_tick ==
    /\ main = "select"
    /\ main' = "drain"
    /\ UNCHANGED <<mqtt, memory, online, settled, history>>

shutdown ==
    /\ main = "select"
    /\ faults < MaxFaults
    /\ faults' = faults + 1
    /\ main' = "stopping"
    /\ UNCHANGED <<mqtt, memory, online, settled, lost, stops>>

(* The outcome of drain: everything was acknowledged, or the bus refused   *)
(* and the records stay where they are.                                    *)
Drained ==
    IF online THEN delivered' = delivered \cup spool /\ spool' = {}
    ELSE UNCHANGED <<delivered, spool>>

(* Mutant: the drain waits for the bus instead of reporting it blocked. *)
drain_waits ==
    /\ main = "drain" /\ online
    /\ Drained
    /\ main' = "select"
    /\ UNCHANGED <<mqtt, memory, online, refused, history>>

drain ==
    /\ main = "drain"
    /\ Drained
    /\ main' = "select"
    /\ UNCHANGED <<mqtt, memory, online, refused, history>>

(* The runtime is dropped: what is in memory and was acknowledged to the   *)
(* broker is gone.                                                         *)
Ends ==
    /\ main' = "down"
    /\ events' = <<>> /\ held' = 0 /\ channel' = <<>> /\ taken' = 0 /\ inflight' = 0
    /\ lost' = lost \cup (InMemory \ (Range(session) \cup Settled))
    /\ stops' = stops + 1
    /\ UNCHANGED <<sent, session, online, refused>>

exit ==
    /\ main = "stopping"
    /\ Drained
    /\ Ends
    /\ UNCHANGED faults

crash ==
    /\ Up /\ faults < MaxFaults
    /\ faults' = faults + 1
    /\ Ends
    /\ UNCHANGED <<spool, delivered>>

start ==
    /\ main = "down"
    /\ main' = "select"
    /\ UNCHANGED <<mqtt, memory, online, settled, history>>

Agent == read \/ poll \/ send \/ recv \/ accept \/ flush_tick \/ drain \/ exit \/ start

Next == \/ publish \/ puback \/ reconnect \/ link_changes
        \/ Agent \/ enqueue_fails \/ shutdown \/ crash

Spec == Init /\ [][Next]_vars

(* The tasks of the runtime make progress, select! picks a ready branch at *)
(* random, so none is passed over forever, and whoever runs the agent      *)
(* starts it again.  Nothing is assumed of the broker or of the bus.       *)
FairSpec == /\ Spec
            /\ WF_vars(read) /\ WF_vars(poll) /\ WF_vars(send) /\ WF_vars(drain)
            /\ WF_vars(accept) /\ WF_vars(exit) /\ WF_vars(start) /\ SF_vars(recv)

-----------------------------------------------------------------------------
(* The channel holds no more than it has room for, and the broker waits    *)
(* for acknowledgements of messages it still has.                          *)
TypeOK ==
    /\ sent \in 0..MaxReadings
    /\ session \in Seq(Readings) /\ inflight \in 0..Len(session)
    /\ events \in Seq(Readings) /\ held \in {0} \cup Readings
    /\ channel \in Seq(Readings) /\ Len(channel) <= ChannelSize
    /\ taken \in {0} \cup Readings
    /\ main \in {"select", "accept", "drain", "stopping", "down"} /\ online \in BOOLEAN
    /\ \A S \in {spool, delivered, refused, lost} : S \subseteq 1..sent
    /\ stops \in 0..MaxFaults /\ faults \in 0..MaxFaults

(* "A full channel blocks this task rather than dropping the reading"      *)
(* (main.rs): while the process runs every reading is with the broker, in  *)
(* memory, on disk, delivered, or logged as refused, however far the main  *)
(* loop falls behind.  Refused includes a valid reading the disk did not   *)
(* take.  Only the end of a process makes one vanish.                      *)
NothingDropped ==
    1..sent = Range(session) \cup InMemory \cup Settled \cup lost

(* What the end of a process costs is bounded by the channel, what is read *)
(* from the connection at once, and the reading the loop has received and  *)
(* not yet spooled; the broker has the backlog.                            *)
LossIsBounded == Cardinality(lost) <= stops * (ChannelSize + ReadAhead + 1)

(* Readings are settled although the bus may be out of reach forever, a    *)
(* drain interrupts the loop at every tick, and the broker repeats itself. *)
EveryReadingSettles ==
    \A r \in Readings : r <= sent ~> r \in Settled \cup lost
=============================================================================
