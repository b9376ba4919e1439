------------------------------ MODULE Migration ------------------------------
(***************************************************************************)
(* Starting the replicas of the control plane: each runs Migrate           *)
(* (store/migrations.go) before it serves, all at the same time.           *)
(*                                                                         *)
(* A migration is its place in the order of the file names.  PostgreSQL is *)
(* external: a transaction's effects appear when it commits, and an INSERT *)
(* of a primary key waits for another transaction that has inserted it.    *)
(***************************************************************************)
EXTENDS Integers, FiniteSets

CONSTANTS Replicas, MaxMigration

ASSUME MigrationAssumption == MaxMigration \in Nat

VARIABLES
    schema_migrations,  \* the migrations recorded
    effects,            \* migration -> how often it took effect
    pc,                 \* "check", "exec", "record", "commit", "run" or "exited"
    at                  \* replica -> the migration its loop is at

vars == <<schema_migrations, effects, pc, at>>
Migrations == 1..MaxMigration

Init ==
    /\ schema_migrations = {}
    /\ effects = [m \in Migrations |-> 0]
    /\ pc = [r \in Replicas |-> "check"]
    /\ at = [r \in Replicas |-> 1]

Goes(r, to) == pc' = [pc EXCEPT ![r] = to]
Advances(r) == at' = [at EXCEPT ![r] = @ + 1]

(* Mutant: the tracking table is not consulted. *)
check_always(r) ==
    /\ pc[r] = "check"
    /\ IF at[r] > MaxMigration THEN Goes(r, "run") /\ UNCHANGED at
       ELSE Goes(r, "exec") /\ UNCHANGED at
    /\ UNCHANGED <<schema_migrations, effects>>

(* Mutant: the loop takes one step too many. *)
check_beyond(r) ==
    /\ pc[r] = "check"
    /\ IF at[r] > MaxMigration + 1 THEN Goes(r, "run") /\ UNCHANGED at
       ELSE IF at[r] \in schema_migrations THEN UNCHANGED pc /\ Advances(r)
       ELSE Goes(r, "exec") /\ UNCHANGED at
    /\ UNCHANGED <<schema_migrations, effects>>

(* SELECT EXISTS: an applied migration is passed over. *)
check(r) ==
    /\ pc[r] = "check"
    /\ IF at[r] > MaxMigration THEN Goes(r, "run") /\ UNCHANGED at
       ELSE IF at[r] \in schema_migrations THEN UNCHANGED pc /\ Advances(r)
       ELSE Goes(r, "exec") /\ UNCHANGED at
    /\ UNCHANGED <<schema_migrations, effects>>

exec(r) ==
    /\ pc[r] = "exec"
    /\ Goes(r, "record")
    /\ UNCHANGED <<schema_migrations, effects, at>>

(* Mutant: the name is not a primary key. *)
record_again(r) ==
    /\ pc[r] = "record"
    /\ Goes(r, "commit")
    /\ UNCHANGED <<schema_migrations, effects, at>>

(* INSERT INTO schema_migrations: the second of two replicas waits for the *)
(* first, and fails if that one commits; Migrate's error ends the process. *)
record(r) ==
    /\ pc[r] = "record"
    /\ ~\E s \in Replicas : pc[s] = "commit" /\ at[s] = at[r]
    /\ Goes(r, IF at[r] \in schema_migrations THEN "exited" ELSE "commit")
    /\ UNCHANGED <<schema_migrations, effects, at>>

commit(r) ==
    /\ pc[r] = "commit"
    /\ schema_migrations' = schema_migrations \cup {at[r]}
    /\ effects' = [effects EXCEPT ![at[r]] = @ + 1]
    /\ Goes(r, "check") /\ Advances(r)

(* Mutant: a migration that fails is skipped. *)
fail_and_go_on(r) ==
    /\ pc[r] \in {"exec", "record", "commit"}
    /\ Goes(r, "check") /\ Advances(r)
    /\ UNCHANGED <<schema_migrations, effects>>

(* An error of the database, a conflict with a concurrent DDL statement,   *)
(* or the end of the process: the transaction is rolled back.              *)
fail(r) ==
    /\ pc[r] # "exited"
    /\ Goes(r, "exited")
    /\ UNCHANGED <<schema_migrations, effects, at>>

(* The commit took effect but was not confirmed. *)
commit_unconfirmed(r) ==
    /\ pc[r] = "commit"
    /\ schema_migrations' = schema_migrations \cup {at[r]}
    /\ effects' = [effects EXCEPT ![at[r]] = @ + 1]
    /\ Goes(r, "exited")
    /\ UNCHANGED at

restart(r) ==
    /\ pc[r] = "exited"
    /\ Goes(r, "check")
    /\ at' = [at EXCEPT ![r] = 1]
    /\ UNCHANGED <<schema_migrations, effects>>

Migrate(r) == check(r) \/ exec(r) \/ record(r) \/ commit(r)
Fault(r) == fail(r) \/ commit_unconfirmed(r)

Next == \E r \in Replicas : Migrate(r) \/ restart(r) \/ Fault(r)

Spec == Init /\ [][Next]_vars

(* The container is restarted, its process goes on, and faults end; losing *)
(* the race for a migration is none.                                       *)
FairSpec == /\ Spec
            /\ \A r \in Replicas : WF_vars(Migrate(r)) /\ WF_vars(restart(r))
            /\ <>[][\A r \in Replicas : Fault(r) => Migrate(r)]_vars

-----------------------------------------------------------------------------
(* Types; a loop never runs past the last migration. *)
TypeOK ==
    /\ schema_migrations \subseteq Migrations
    /\ effects \in [Migrations -> Nat]
    /\ pc \in [Replicas -> {"check", "exec", "record", "commit", "run", "exited"}]
    /\ at \in [Replicas -> 1..(MaxMigration + 1)]

(* No migration takes effect twice, although both replicas may find it     *)
(* missing and run it at the same time, and one that took effect is        *)
(* recorded even if the replica died over it.                              *)
AppliedOnce ==
    \A m \in Migrations : effects[m] = IF m \in schema_migrations THEN 1 ELSE 0

(* Migrations take effect in order, and a replica serves on a schema that  *)
(* has them all.                                                           *)
NoGap ==
    /\ \A m \in schema_migrations : 1..m \subseteq schema_migrations
    /\ \A r \in Replicas : pc[r] = "run" => schema_migrations = Migrations

(* However the replicas fall over each other's transactions, all of them   *)
(* serve in the end.                                                       *)
EveryReplicaStarts == <>[](\A r \in Replicas : pc[r] = "run")
=============================================================================
