---------------------------- MODULE IngestProofs ----------------------------
(***************************************************************************)
(* No message is forgotten by the ingest consumer, for any number of       *)
(* replicas, messages, invalid and refused messages, and batch size.       *)
(***************************************************************************)
EXTENDS Ingest, TLAPS

USE IngestAssumption

(* TypeOK holds at the start. *)
LEMMA TypeInit == Init => TypeOK
BY DEF Init, TypeOK, Messages, Pc

(* Every step keeps the types: the runners' locals follow the place they   *)
(* have reached in ProcessBatch.                                           *)
LEMMA TypeStep == TypeOK /\ [Next]_vars => TypeOK'
<1> SUFFICES ASSUME TypeOK, [Next]_vars PROVE TypeOK'
  OBVIOUS
<1> USE DEF TypeOK, Messages, Pc, broker, runner
<1>1. CASE Publish
  BY <1>1 DEF Publish
<1>2. CASE Evict
  BY <1>2, Zenon DEF Evict
<1>3. CASE \E m \in Messages : Redeliver(m)
  BY <1>3 DEF Redeliver
<1>4. ASSUME NEW r \in Runners, NEW S \in SUBSET Messages, Fetch(r, S) PROVE TypeOK'
  BY <1>4 DEF Fetch, Ready
<1>5. ASSUME NEW r \in Runners, Decode(r) PROVE TypeOK'
  BY <1>5 DEF Decode
<1>6. ASSUME NEW r \in Runners, Park(r) PROVE TypeOK'
  BY <1>6 DEF Park
<1>7. ASSUME NEW r \in Runners, ParkFails(r) PROVE TypeOK'
  BY <1>7 DEF ParkFails, Delayed
<1>8. ASSUME NEW r \in Runners, Term(r) PROVE TypeOK'
  BY <1>8 DEF Term, Acknowledged
<1>9. ASSUME NEW r \in Runners, Decoded(r) PROVE TypeOK'
  BY <1>9 DEF Decoded
<1>10. ASSUME NEW r \in Runners, Persist(r) PROVE TypeOK'
  BY <1>10, Zenon DEF Persist
<1>11. ASSUME NEW r \in Runners, PersistFails(r) PROVE TypeOK'
  BY <1>11, Zenon DEF PersistFails
<1>12. ASSUME NEW r \in Runners, Settle(r) PROVE TypeOK'
  BY <1>12 DEF Settle, Disposed, Acknowledged, Delayed
<1>13. ASSUME NEW r \in Runners, AnswerLost(r) PROVE TypeOK'
  <2>1. CASE pc[r] = "term"
    BY <1>13, <2>1 DEF AnswerLost
  <2>2. ASSUME NEW m \in accepted[r], pc[r] \in {"ack", "nak"}, Disposed(r, m),
               UNCHANGED parking
        PROVE  TypeOK'
    <3>1. accepted' \in [Runners -> SUBSET ((1..published) \ Invalid)]
      BY <2>2 DEF Disposed
    <3>2. pc' \in [Runners -> Pc]
      BY <2>2 DEF Disposed
    <3>3. QED
      BY <1>13, <2>2, <3>1, <3>2 DEF AnswerLost, Disposed
  <2>3. QED
    BY <1>13, <2>1, <2>2 DEF AnswerLost
<1>14. ASSUME NEW r \in Runners, Crash(r) PROVE TypeOK'
  BY <1>14 DEF Crash
<1>15. CASE UNCHANGED vars
  BY <1>15 DEF vars
<1> HIDE DEF TypeOK, Messages, Pc, broker, runner
<1>16. QED
  BY <1>1, <1>2, <1>3, <1>4, <1>5, <1>6, <1>7, <1>8, <1>9, <1>10, <1>11, <1>12,
     <1>13, <1>14, <1>15 DEF Next, ProcessBatch, Works

(* Every step keeps the answers earned: what a runner has persisted or     *)
(* parked stays so, whatever the others do meanwhile.                      *)
LEMMA EarnedStep == TypeOK /\ AnswersAreEarned /\ [Next]_vars => AnswersAreEarned'
<1> SUFFICES ASSUME TypeOK, AnswersAreEarned, [Next]_vars PROVE AnswersAreEarned'
  OBVIOUS
<1> USE DEF TypeOK, AnswersAreEarned, Messages, Pc, broker, runner
<1>1. CASE Publish \/ Evict \/ \E m \in Messages : Redeliver(m)
  BY <1>1 DEF Publish, Evict, Redeliver
<1>2. ASSUME NEW r \in Runners, NEW S \in SUBSET Messages, Fetch(r, S) PROVE AnswersAreEarned'
  BY <1>2 DEF Fetch
<1>3. ASSUME NEW r \in Runners, Decode(r) PROVE AnswersAreEarned'
  BY <1>3 DEF Decode
<1>4. ASSUME NEW r \in Runners, Park(r) PROVE AnswersAreEarned'
  BY <1>4 DEF Park
<1>5. ASSUME NEW r \in Runners, ParkFails(r) PROVE AnswersAreEarned'
  BY <1>5 DEF ParkFails
<1>6. ASSUME NEW r \in Runners, Term(r) PROVE AnswersAreEarned'
  BY <1>6 DEF Term
<1>7. ASSUME NEW r \in Runners, Decoded(r) PROVE AnswersAreEarned'
  BY <1>7 DEF Decoded
<1>8. ASSUME NEW r \in Runners, Persist(r) PROVE AnswersAreEarned'
  BY <1>8 DEF Persist
<1>9. ASSUME NEW r \in Runners, PersistFails(r) PROVE AnswersAreEarned'
  BY <1>9 DEF PersistFails
<1>10. ASSUME NEW r \in Runners, Settle(r) PROVE AnswersAreEarned'
  BY <1>10 DEF Settle, Disposed
<1>11. ASSUME NEW r \in Runners, AnswerLost(r) PROVE AnswersAreEarned'
  BY <1>11 DEF AnswerLost, Disposed
<1>12. ASSUME NEW r \in Runners, Crash(r) PROVE AnswersAreEarned'
  BY <1>12 DEF Crash
<1>13. CASE UNCHANGED vars
  BY <1>13 DEF vars
<1> HIDE DEF TypeOK, AnswersAreEarned, Messages, Pc, broker, runner
<1>14. QED
  BY <1>1, <1>2, <1>3, <1>4, <1>5, <1>6, <1>7, <1>8, <1>9, <1>10, <1>11, <1>12, <1>13
  DEF Next, ProcessBatch, Works

(* Only a Term or an Ack marks a message done, and both are earned. *)
LEMMA ForgottenStep ==
    TypeOK /\ AnswersAreEarned /\ NothingForgotten /\ [Next]_vars => NothingForgotten'
<1> SUFFICES ASSUME TypeOK, AnswersAreEarned, NothingForgotten, [Next]_vars
             PROVE NothingForgotten'
  OBVIOUS
<1> USE DEF TypeOK, NothingForgotten, broker, runner
<1>1. CASE Publish \/ Evict \/ \E m \in Messages : Redeliver(m)
  BY <1>1 DEF Publish, Evict, Redeliver
<1>2. ASSUME NEW r \in Runners, NEW S \in SUBSET Messages, Fetch(r, S) PROVE NothingForgotten'
  BY <1>2 DEF Fetch
<1>3. ASSUME NEW r \in Runners, ParkFails(r) PROVE NothingForgotten'
  <2>1. parked \subseteq parked' /\ database' = database
    BY <1>3 DEF ParkFails
  <2>2. \A m \in Messages : consumer'[m] = "done" => consumer[m] = "done"
    BY <1>3 DEF ParkFails, Delayed
  <2>3. QED
    BY <2>1, <2>2, Zenon
<1>4. ASSUME NEW r \in Runners, Term(r) PROVE NothingForgotten'
  <2>1. parking[r] \in parked /\ parking[r] \in Invalid
    BY <1>4, Zenon DEF Term, AnswersAreEarned
  <2>2. \A m \in Messages : consumer'[m] = "done" => consumer[m] = "done" \/ m = parking[r]
    BY <1>4 DEF Term, Acknowledged
  <2>3. parked' = parked /\ database' = database
    BY <1>4 DEF Term
  <2>4. QED
    BY <2>1, <2>2, <2>3
<1>5. ASSUME NEW r \in Runners, Settle(r) PROVE NothingForgotten'
  <2>1. PICK n \in accepted[r] :
            \/ pc[r] = "ack" /\ Acknowledged(n)
            \/ pc[r] = "nak" /\ Delayed(n)
    BY <1>5 DEF Settle
  <2>2. pc[r] = "ack" => n \in database /\ n \notin Invalid
    BY <2>1 DEF AnswersAreEarned
  <2>3. \A m \in Messages :
            consumer'[m] = "done" => consumer[m] = "done" \/ (pc[r] = "ack" /\ m = n)
    <3>1. CASE pc[r] = "ack" /\ Acknowledged(n)
      BY <3>1 DEF Acknowledged
    <3>2. CASE pc[r] = "nak" /\ Delayed(n)
      BY <3>2 DEF Delayed
    <3>3. QED
      BY <2>1, <3>1, <3>2
  <2>4. parked' = parked /\ database' = database
    BY <1>5 DEF Settle
  <2>5. QED
    BY <2>2, <2>3, <2>4
<1>6. ASSUME NEW r \in Runners,
             Decode(r) \/ Park(r) \/ Decoded(r) \/ Persist(r) \/ PersistFails(r)
               \/ AnswerLost(r) \/ Crash(r)
      PROVE NothingForgotten'
  BY <1>6 DEF Decode, Park, Decoded, Persist, PersistFails, AnswerLost, Crash
<1>7. CASE UNCHANGED vars
  BY <1>7 DEF vars
<1>8. QED
  BY <1>1, <1>2, <1>3, <1>4, <1>5, <1>6, <1>7 DEF Next, ProcessBatch, Works

(* The ingest invariant: in every reachable state the types hold, every    *)
(* answer under way is earned (AnswersAreEarned) and a message that        *)
(* ProcessBatch has settled is in the database or the dead-letter stream.  *)
THEOREM IngestInvariant == Spec => [](TypeOK /\ AnswersAreEarned /\ NothingForgotten)
<1>1. Init => AnswersAreEarned /\ NothingForgotten
  BY DEF Init, AnswersAreEarned, NothingForgotten
<1>2. QED
  BY <1>1, TypeInit, TypeStep, EarnedStep, ForgottenStep, PTL DEF Spec

(* At-least-once ingest: ProcessBatch and park never lose a message, for   *)
(* every number of replicas, messages and faults.                          *)
THEOREM NoMessageForgotten == Spec => []NothingForgotten
BY IngestInvariant, PTL
=============================================================================
