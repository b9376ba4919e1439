------------------------------- MODULE Ingest -------------------------------
(***************************************************************************)
(* One durable JetStream consumer and the control-plane replicas that      *)
(* share it (ingest/consumer.go, deadletter.go): fetch a batch, decode it, *)
(* park what can never be valid, persist the rest in one transaction, and  *)
(* only then acknowledge.                                                  *)
(*                                                                         *)
(* Each runner's ProcessBatch is sequential but may end anywhere (crash,   *)
(* rollout), and a message may be redelivered while its first receiver is  *)
(* still at work on it (AckWait).  Parking, persisting, and every Ack, Nak *)
(* and Term are therefore steps of their own:                              *)
(*                                                                         *)
(*   fetch -> decode (-> term -> decode)* -> persist -> ack* | nak*        *)
(*                                                                         *)
(* The stream, the consumer's bookkeeping and the database transaction are *)
(* external: they do what the NewRunner configuration asks of JetStream    *)
(* and what inTransaction relies on.  The dead-letter stream is always     *)
(* configured, as in main.go.  Every decoder's errors are permanent ones,  *)
(* so the redelivery after a transient decode error never happens.         *)
(***************************************************************************)
EXTENDS Integers, FiniteSets, FiniteSetsExt

CONSTANTS
    Runners,      \* the replicas' runners for this stream
    MaxMessages,  \* bound: messages published in one behaviour
    Invalid,      \* the messages decode or verify rejects for good
    Refused,      \* the messages that decode but the database refuses
    BatchSize,    \* Runner.batchSize
    NoMessage

MaxAckPending == 4 * BatchSize
Messages == 1..MaxMessages

ASSUME IngestAssumption ==
    /\ MaxMessages \in Nat /\ BatchSize \in Nat \ {0}
    /\ Invalid \subseteq Messages /\ Refused \subseteq Messages \ Invalid
    /\ NoMessage \notin Messages

VARIABLES
    published,  \* messages 1..published have been stored in the stream
    stream,     \* those the stream still retains
    consumer,   \* message -> "ready", "pending", "delayed" or "done"
    pc,         \* where each runner is in ProcessBatch
    todo,       \* the fetched messages it has not decoded
    accepted,   \* the decoded ones it has not disposed of
    parking,    \* the message it has parked and not yet terminated
    database,   \* the messages whose transaction has committed
    parked      \* the messages in the dead-letter stream

broker == <<published, stream, consumer>>
runner == <<pc, todo, accepted, parking>>
vars == <<published, stream, consumer, pc, todo, accepted, parking, database, parked>>

Outstanding == {m \in Messages : consumer[m] \in {"pending", "delayed"}}
Ready == {m \in stream : consumer[m] = "ready"}

Init ==
    /\ published = 0 /\ stream = {}
    /\ consumer = [m \in Messages |-> "ready"]
    /\ pc = [r \in Runners |-> "fetch"]
    /\ todo = [r \in Runners |-> {}] /\ accepted = [r \in Runners |-> {}]
    /\ parking = [r \in Runners |-> NoMessage]
    /\ database = {} /\ parked = {}

-----------------------------------------------------------------------------
(* JetStream.  Publishing, and eviction of the oldest message (DiscardOld, *)
(* MaxAge) whether or not it has been consumed.                            *)
Publish ==
    /\ published < MaxMessages
    /\ published' = published + 1
    /\ stream' = stream \cup {published'}
    /\ UNCHANGED <<consumer, runner, database, parked>>

Evict ==
    /\ stream # {}
    /\ stream' = stream \ {Min(stream)}
    /\ UNCHANGED <<published, consumer, runner, database, parked>>

(* AckWait or the delay of a Nak has passed. *)
Redeliver(m) ==
    /\ consumer[m] \in {"pending", "delayed"}
    /\ consumer' = [consumer EXCEPT ![m] = "ready"]
    /\ UNCHANGED <<published, stream, runner, database, parked>>

Acknowledged(m) == consumer' = [consumer EXCEPT ![m] = "done"]
Delayed(m) == consumer' = [consumer EXCEPT ![m] = IF @ = "pending" THEN "delayed" ELSE @]

-----------------------------------------------------------------------------
(* Run: Fetch returns what the server has for this pull, up to the limits. *)
Fetch(r, S) ==
    /\ pc[r] = "fetch"
    /\ S # {} /\ S \subseteq Ready
    /\ Cardinality(S) <= BatchSize
    /\ Cardinality(Outstanding) + Cardinality(S) <= MaxAckPending
    /\ consumer' = [m \in Messages |-> IF m \in S THEN "pending" ELSE consumer[m]]
    /\ todo' = [todo EXCEPT ![r] = S]
    /\ pc' = [pc EXCEPT ![r] = "decode"]
    /\ UNCHANGED <<published, stream, accepted, parking, database, parked>>

(* Mutant: the decoder's verdict is ignored. *)
Decode_unchecked(r) ==
    /\ pc[r] = "decode"
    /\ \E m \in todo[r] :
        /\ todo' = [todo EXCEPT ![r] = @ \ {m}]
        /\ accepted' = [accepted EXCEPT ![r] = @ \cup {m}]
    /\ UNCHANGED <<broker, pc, parking, database, parked>>

(* ProcessBatch, the loop over the messages: decoded and verified. *)
Decode(r) ==
    /\ pc[r] = "decode"
    /\ \E m \in todo[r] \ Invalid :
        /\ todo' = [todo EXCEPT ![r] = @ \ {m}]
        /\ accepted' = [accepted EXCEPT ![r] = @ \cup {m}]
    /\ UNCHANGED <<broker, pc, parking, database, parked>>

(* Mutant: a parked message is not terminated. *)
Park_without_term(r) ==
    /\ pc[r] = "decode"
    /\ \E m \in todo[r] \cap Invalid :
        /\ todo' = [todo EXCEPT ![r] = @ \ {m}]
        /\ parked' = parked \cup {m}
    /\ UNCHANGED <<broker, pc, accepted, parking, database>>

(* park: stored in the dead-letter stream, then terminated. *)
Park(r) ==
    /\ pc[r] = "decode"
    /\ \E m \in todo[r] \cap Invalid :
        /\ todo' = [todo EXCEPT ![r] = @ \ {m}]
        /\ parking' = [parking EXCEPT ![r] = m]
        /\ parked' = parked \cup {m}
    /\ pc' = [pc EXCEPT ![r] = "term"]
    /\ UNCHANGED <<broker, accepted, database>>

(* Mutant: a message that could not be parked is terminated all the same. *)
ParkFails_term(r) ==
    /\ pc[r] = "decode"
    /\ \E m \in todo[r] \cap Invalid :
        /\ todo' = [todo EXCEPT ![r] = @ \ {m}]
        /\ parked' \in {parked, parked \cup {m}}
        /\ Acknowledged(m)
    /\ UNCHANGED <<published, stream, pc, accepted, parking, database>>

(* park: PublishMsg failed, perhaps after the broker had stored it. *)
ParkFails(r) ==
    /\ pc[r] = "decode"
    /\ \E m \in todo[r] \cap Invalid :
        /\ todo' = [todo EXCEPT ![r] = @ \ {m}]
        /\ parked' \in {parked, parked \cup {m}}
        /\ Delayed(m)
    /\ UNCHANGED <<published, stream, pc, accepted, parking, database>>

Term(r) ==
    /\ pc[r] = "term"
    /\ Acknowledged(parking[r])
    /\ parking' = [parking EXCEPT ![r] = NoMessage]
    /\ pc' = [pc EXCEPT ![r] = "decode"]
    /\ UNCHANGED <<published, stream, todo, accepted, database, parked>>

Decoded(r) ==
    /\ pc[r] = "decode" /\ todo[r] = {}
    /\ pc' = [pc EXCEPT ![r] = IF accepted[r] = {} THEN "fetch" ELSE "persist"]
    /\ UNCHANGED <<broker, todo, accepted, parking, database, parked>>

-----------------------------------------------------------------------------
Persist(r) ==
    /\ pc[r] = "persist"
    /\ accepted[r] \cap Refused = {}
    /\ database' = database \cup accepted[r]
    /\ pc' = [pc EXCEPT ![r] = "ack"]
    /\ UNCHANGED <<broker, todo, accepted, parking, parked>>

(* Mutant: a failed transaction is acknowledged. *)
PersistFails_acks(r) ==
    /\ pc[r] = "persist"
    /\ pc' = [pc EXCEPT ![r] = "ack"]
    /\ UNCHANGED <<broker, todo, accepted, parking, database, parked>>

(* The transaction failed, or its commit was not confirmed. *)
PersistFails(r) ==
    /\ pc[r] = "persist"
    /\ \/ database' = database
       \/ /\ accepted[r] \cap Refused = {}
          /\ database' = database \cup accepted[r]
    /\ pc' = [pc EXCEPT ![r] = "nak"]
    /\ UNCHANGED <<broker, todo, accepted, parking, parked>>

(* One Ack or one Nak; after the last one, the next fetch. *)
Disposed(r, m) ==
    /\ accepted' = [accepted EXCEPT ![r] = @ \ {m}]
    /\ pc' = [pc EXCEPT ![r] = IF accepted'[r] = {} THEN "fetch" ELSE @]

Settle(r) ==
    /\ \E m \in accepted[r] :
        /\ Disposed(r, m)
        /\ \/ pc[r] = "ack" /\ Acknowledged(m)
           \/ pc[r] = "nak" /\ Delayed(m)
    /\ UNCHANGED <<published, stream, todo, parking, database, parked>>

(* An Ack, Nak or Term whose error is ignored: the server never sees it. *)
AnswerLost(r) ==
    /\ \/ /\ pc[r] \in {"ack", "nak"}
          /\ \E m \in accepted[r] : Disposed(r, m)
          /\ UNCHANGED parking
       \/ /\ pc[r] = "term"
          /\ parking' = [parking EXCEPT ![r] = NoMessage]
          /\ pc' = [pc EXCEPT ![r] = "decode"]
          /\ UNCHANGED accepted
    /\ UNCHANGED <<broker, todo, database, parked>>

(* The replica dies or is replaced. *)
Crash(r) ==
    /\ pc[r] # "fetch"
    /\ pc' = [pc EXCEPT ![r] = "fetch"]
    /\ todo' = [todo EXCEPT ![r] = {}]
    /\ accepted' = [accepted EXCEPT ![r] = {}]
    /\ parking' = [parking EXCEPT ![r] = NoMessage]
    /\ UNCHANGED <<broker, database, parked>>

Works(r) ==
    Decode(r) \/ Park(r) \/ Term(r) \/ Decoded(r) \/ Persist(r) \/ Settle(r)

ProcessBatch(r) == Works(r) \/ ParkFails(r) \/ PersistFails(r) \/ AnswerLost(r)

Next ==
    \/ Publish \/ Evict
    \/ \E m \in Messages : Redeliver(m)
    \/ \E r \in Runners : ProcessBatch(r) \/ Crash(r) \/ \E S \in SUBSET Messages : Fetch(r, S)

Spec == Init /\ [][Next]_vars

-----------------------------------------------------------------------------
(* What the surroundings owe the runners.  A ready message is offered to a *)
(* pull again and again, an unanswered one becomes ready again, a runner   *)
(* that is processing a batch goes on, and the faults come to an end: they *)
(* are the crashes, the failures of broker and database, the lost answers. *)
Receives(m) == \E r \in Runners, S \in SUBSET Messages : m \in S /\ Fetch(r, S)

Fault ==
    \E r \in Runners :
        /\ \/ Crash(r) \/ ParkFails(r) \/ AnswerLost(r)
           \/ accepted[r] \cap Refused = {} /\ PersistFails(r)
        /\ ~Works(r)   \* a step that is both is no fault

FairSpec ==
    /\ Spec
    /\ \A m \in Messages : WF_vars(Redeliver(m)) /\ SF_vars(Receives(m))
    /\ \A r \in Runners : WF_vars(ProcessBatch(r))
    /\ <>[][~Fault]_vars

-----------------------------------------------------------------------------
Pc == {"fetch", "decode", "term", "persist", "ack", "nak"}

(* The types, with what each place of ProcessBatch says of its locals: the *)
(* message being terminated exists, and nothing undecoded is left behind.  *)
TypeOK ==
    /\ published \in 0..MaxMessages /\ stream \subseteq 1..published
    /\ consumer \in [Messages -> {"ready", "pending", "delayed", "done"}]
    /\ pc \in [Runners -> Pc]
    /\ todo \in [Runners -> SUBSET (1..published)]
    /\ accepted \in [Runners -> SUBSET ((1..published) \ Invalid)]
    /\ parking \in [Runners -> Messages \cup {NoMessage}]
    /\ database \subseteq (1..published) \ (Invalid \cup Refused)
    /\ parked \subseteq (1..published) \cap Invalid
    /\ \A r \in Runners :
        /\ pc[r] = "term" <=> parking[r] # NoMessage
        /\ pc[r] \in {"persist", "ack", "nak"} => todo[r] = {} /\ accepted[r] # {}
        /\ pc[r] = "fetch" => todo[r] \cup accepted[r] = {}

(* A message the consumer will not deliver again has reached its place:    *)
(* the database if it is valid, the dead-letter stream if not.  Holds      *)
(* across crashes, redeliveries to a second replica while the first is     *)
(* still at work, and answers that arrive late (ProcessBatch, park).       *)
NothingForgotten ==
    \A m \in Messages :
        consumer[m] = "done" => m \in IF m \in Invalid THEN parked ELSE database

(* Why NothingForgotten is preserved: an Ack is only ever sent for what    *)
(* the database holds, a Term for what the dead-letter stream holds.       *)
AnswersAreEarned ==
    \A r \in Runners :
        /\ pc[r] = "ack" => accepted[r] \subseteq database
        /\ pc[r] = "term" => parking[r] \in parked

(* Every message that neither ages out nor is itself refused by the        *)
(* database is in the end settled and leaves the consumer: neither an      *)
(* undecodable payload nor a crash can hold the others up ("A single       *)
(* corrupt device must not be able to stall a durable consumer",           *)
(* consumer.go).                                                           *)
NoStall ==
    \A m \in Messages \ Refused :
        m \in stream ~> (m \notin stream \/ consumer[m] = "done")
=============================================================================
