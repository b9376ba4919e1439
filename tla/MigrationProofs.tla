--------------------------- MODULE MigrationProofs ---------------------------
(***************************************************************************)
(* Proofs about Migration, for any number of replicas and of migrations:   *)
(* each migration takes effect once and in order, and a replica serves     *)
(* only on the complete schema.                                            *)
(***************************************************************************)
EXTENDS Migration, TLAPS

(* A replica's loop has left behind only recorded migrations, stops at the *)
(* last one, and holds a migration's key between its INSERT and its COMMIT *)
(* alone and while the migration is not recorded.                          *)
Holds ==
    /\ \A r \in Replicas, m \in Migrations : m < at[r] => m \in schema_migrations
    /\ \A r \in Replicas : pc[r] \in {"exec", "record", "commit"} => at[r] <= MaxMigration
    /\ \A r \in Replicas : pc[r] = "run" => at[r] = MaxMigration + 1
    /\ \A r \in Replicas : pc[r] = "commit" => at[r] \notin schema_migrations
    /\ \A r, s \in Replicas :
        (pc[r] = "commit" /\ pc[s] = "commit" /\ at[r] = at[s]) => r = s

(* Recorded migrations have no gap. *)
InOrder ==
    \A m \in schema_migrations, k \in Migrations : k <= m => k \in schema_migrations

(* AppliedOnce and NoGap are not inductive: that a commit is the first of  *)
(* its migration follows from the key the replica holds, and that it       *)
(* leaves no gap from what its loop has passed.                            *)
Inv == TypeOK /\ AppliedOnce /\ InOrder /\ Holds

(* The empty database satisfies the invariant. *)
LEMMA InitInv == Init => Inv
BY MigrationAssumption
DEF Init, Inv, TypeOK, AppliedOnce, InOrder, Holds, Migrations

(* A step that changes only where one replica is: check, exec, fail,       *)
(* restart.                                                                *)
LEMMA LocalStep ==
    ASSUME Inv, NEW r \in Replicas, check(r) \/ exec(r) \/ fail(r) \/ restart(r)
    PROVE  Inv'
<1> USE MigrationAssumption DEF Inv, Goes, Advances, Migrations
<1>0. at[r] \in 1..(MaxMigration + 1)
  BY DEF TypeOK
<1>1. CASE check(r)
  <2>1. CASE at[r] > MaxMigration
    <3>1. /\ pc[r] = "check" /\ pc' = [pc EXCEPT ![r] = "run"]
          /\ at[r] = MaxMigration + 1
          /\ UNCHANGED <<schema_migrations, effects, at>>
      BY <1>0, <1>1, <2>1 DEF check
    <3> QED
      BY <3>1 DEF TypeOK, AppliedOnce, InOrder, Holds
  <2>2. CASE at[r] <= MaxMigration /\ at[r] \in schema_migrations
    <3>1. /\ pc[r] = "check" /\ at' = [at EXCEPT ![r] = @ + 1]
          /\ UNCHANGED <<schema_migrations, effects, pc>>
      BY <1>0, <1>1, <2>2 DEF check
    <3>2. at' \in [Replicas -> 1..(MaxMigration + 1)]
      BY <1>0, <2>2, <3>1 DEF TypeOK
    <3>3. \A q \in Replicas, m \in Migrations : m < at'[q] => m \in schema_migrations'
      BY <1>0, <2>2, <3>1 DEF TypeOK, Holds
    <3>4. \A q \in Replicas : q # r => at'[q] = at[q]
      BY <3>1 DEF TypeOK
    <3>5. TypeOK' /\ AppliedOnce' /\ InOrder'
      BY <3>1, <3>2 DEF TypeOK, AppliedOnce, InOrder
    <3>6. Holds'
      BY <3>1, <3>3, <3>4 DEF Holds
    <3> QED
      BY <3>5, <3>6
  <2>3. CASE at[r] <= MaxMigration /\ at[r] \notin schema_migrations
    <3>1. /\ pc[r] = "check" /\ pc' = [pc EXCEPT ![r] = "exec"]
          /\ UNCHANGED <<schema_migrations, effects, at>>
      BY <1>0, <1>1, <2>3 DEF check
    <3> QED
      BY <2>3, <3>1 DEF TypeOK, AppliedOnce, InOrder, Holds
  <2> QED
    BY <1>0, <2>1, <2>2, <2>3
<1>2. CASE exec(r)
  BY <1>2 DEF exec, TypeOK, AppliedOnce, InOrder, Holds
<1>3. CASE fail(r)
  BY <1>3 DEF fail, TypeOK, AppliedOnce, InOrder, Holds
<1>4. CASE restart(r)
  BY <1>4 DEF restart, TypeOK, AppliedOnce, InOrder, Holds
<1> QED
  BY <1>1, <1>2, <1>3, <1>4

(* The INSERT goes on only if no other replica holds the key and the       *)
(* migration is not recorded.                                              *)
LEMMA RecordStep ==
    ASSUME Inv, NEW r \in Replicas, record(r)
    PROVE  Inv'
BY MigrationAssumption
DEF Inv, record, Goes, TypeOK, AppliedOnce, InOrder, Holds, Migrations

(* A commit, confirmed or not, is the first of its migration, and all      *)
(* earlier ones are recorded.                                              *)
LEMMA CommitStep ==
    ASSUME Inv, NEW r \in Replicas, commit(r) \/ commit_unconfirmed(r)
    PROVE  Inv'
<1> USE MigrationAssumption DEF Inv, Goes, Advances, Migrations
<1> DEFINE m == at[r]
<1>1. /\ pc[r] = "commit" /\ m \in Migrations /\ m \notin schema_migrations
      /\ schema_migrations' = schema_migrations \cup {m}
      /\ effects' = [effects EXCEPT ![m] = @ + 1]
      /\ \A k \in Migrations : k < m => k \in schema_migrations
  BY DEF commit, commit_unconfirmed, TypeOK, Holds
<1>2. TypeOK'
  <2>1. effects' \in [Migrations -> Nat] /\ schema_migrations' \subseteq Migrations
    <3>1. effects \in [Migrations -> Nat] /\ schema_migrations \subseteq Migrations
      BY DEF TypeOK
    <3>2. effects' \in [Migrations -> Nat]
      <4> HIDE DEF Migrations, m
      <4> QED BY <1>1, <3>1
    <3> QED
      BY <1>1, <3>1, <3>2, Zenon
  <2>2. CASE commit(r)
    <3>1. at' = [at EXCEPT ![r] = @ + 1] /\ pc' = [pc EXCEPT ![r] = "check"]
      BY <2>2 DEF commit
    <3>2. at' \in [Replicas -> 1..(MaxMigration + 1)]
      BY <1>1, <3>1 DEF TypeOK
    <3> QED
      BY <2>1, <3>1, <3>2, SMTT(30) DEF TypeOK
  <2>3. CASE commit_unconfirmed(r)
    BY <2>1, <2>3 DEF commit_unconfirmed, TypeOK
  <2> QED
    BY <2>2, <2>3
<1>3. AppliedOnce'
  BY <1>1 DEF TypeOK, AppliedOnce
<1>4. InOrder'
  <2>1. \A k \in Migrations : k <= m => k \in schema_migrations'
    BY <1>1
  <2> QED
    BY <1>1, <2>1 DEF InOrder, TypeOK
<1>5. Holds'
  <2>1. \A q \in Replicas : at'[q] = at[q] \/ (q = r /\ at'[q] = m + 1)
    BY DEF commit, commit_unconfirmed, TypeOK
  <2>2. \A q \in Replicas : q # r => pc'[q] = pc[q] /\ at'[q] = at[q]
    BY DEF commit, commit_unconfirmed, TypeOK
  <2>3. pc'[r] \in {"check", "exited"}
    BY DEF commit, commit_unconfirmed, TypeOK
  <2>4. \A q \in Replicas, k \in Migrations : k < at'[q] => k \in schema_migrations'
    BY <1>1, <2>1, SMTT(30) DEF Holds, TypeOK
  <2> QED
    BY <1>1, <2>2, <2>3, <2>4 DEF Holds
<1> QED
  BY <1>2, <1>3, <1>4, <1>5

(* The invariant holds of every reachable state. *)
THEOREM MigrationInvariant == Spec => []Inv
<1>1. Inv /\ [Next]_vars => Inv'
  <2> SUFFICES ASSUME Inv, [Next]_vars PROVE Inv'
    OBVIOUS
  <2>1. CASE UNCHANGED vars
    BY <2>1 DEF vars, Inv, TypeOK, AppliedOnce, InOrder, Holds
  <2>2. ASSUME NEW r \in Replicas, Migrate(r) \/ restart(r) \/ Fault(r)
        PROVE  Inv'
    BY <2>2, LocalStep, RecordStep, CommitStep DEF Migrate, Fault
  <2> QED
    BY <2>1, <2>2 DEF Next
<1> QED
  BY <1>1, InitInv, PTL DEF Spec

(* However many replicas run Migrate at once, fail or lose the answer to a *)
(* COMMIT, every recorded migration took effect exactly once and no other  *)
(* took effect.                                                            *)
THEOREM EachAppliedOnce == Spec => []AppliedOnce
<1>1. Inv => AppliedOnce
  BY DEF Inv
<1> QED
  BY <1>1, MigrationInvariant, PTL

(* Migrations take effect in the order of their names, and a replica that  *)
(* serves does so on the complete schema.                                  *)
THEOREM SchemaHasNoGap == Spec => []NoGap
<1>1. Inv => NoGap
  <2> SUFFICES ASSUME Inv PROVE NoGap
    OBVIOUS
  <2>1. ASSUME NEW m \in schema_migrations PROVE 1..m \subseteq schema_migrations
    BY MigrationAssumption DEF Inv, InOrder, TypeOK, Migrations
  <2>2. ASSUME NEW r \in Replicas, pc[r] = "run" PROVE schema_migrations = Migrations
    <3>1. at[r] = MaxMigration + 1 /\ schema_migrations \subseteq Migrations
      BY <2>2 DEF Inv, Holds, TypeOK
    <3>2. \A m \in Migrations : m < at[r]
      BY <3>1, MigrationAssumption DEF Migrations
    <3>3. Migrations \subseteq schema_migrations
      BY <3>2 DEF Inv, Holds
    <3> QED
      BY <3>1, <3>3
  <2> QED
    BY <2>1, <2>2 DEF NoGap
<1> QED
  BY <1>1, MigrationInvariant, PTL

(* The types, and that no loop runs past the last migration. *)
THEOREM MigrationTypes == Spec => []TypeOK
<1>1. Inv => TypeOK
  BY DEF Inv
<1> QED
  BY <1>1, MigrationInvariant, PTL
=============================================================================
