------------------------------ MODULE Migrator ------------------------------
(***************************************************************************)
(* The schema of the control plane's database: any number of `harbourmaster*)
(* migrate` processes, possibly of different releases, that bring it       *)
(* forward under one session-level advisory lock, and `harbourmaster serve`*)
(* processes that verify it once and then serve.  A process may die at any *)
(* step; its database session may outlive it, with the lock and a COMMIT   *)
(* already sent.                                                           *)
(***************************************************************************)
EXTENDS Naturals, Sequences, SequencesExt

CONSTANTS Migrators, Servers,
          Names, Digests,  \* what a migration is called, and its bytes
          Embedded,        \* Embedded[p]: the migrations in p's binary, in order
          SelfCommitting,  \* the migrations with a COMMIT in their body
          RuntimeRole,     \* the migrators started as marque_runtime by mistake
          None

Migrations == [name : Names, digest : Digests]

Processes == Migrators \cup Servers

VARIABLES history,   \* the rows of schema_migrations, in order of number
          schema,    \* the migrations whose DDL is in effect, in this order; one
                     \* that commits itself is here from its COMMIT on
          owner,     \* who owns schema_migrations: None before it exists
          advisory,  \* the migrator whose session holds the advisory lock
          at,        \* at[p]: where process p is
          read,      \* read[m]: the rows m has read, and appended since
          tx         \* tx[m]: what m's open transaction holds

database == <<history, schema, owner>>
vars == <<history, schema, owner, advisory, at, read, tx>>

Exited == {"done", "failed", "killed"}

Init == /\ history = <<>>
        /\ schema = <<>>
        /\ owner = None
        /\ advisory = None
        /\ at = [p \in Processes |-> "start"]
        /\ read = [m \in Migrators |-> <<>>]
        /\ tx = [m \in Migrators |-> {}]

Goto(p, l) == at' = [at EXCEPT ![p] = l]

\* A binary against the database's history: the same, behind it, or neither.
Compare(embedded, applied) ==
  CASE Len(applied) > Len(embedded) -> "mismatch"
    [] Len(applied) <= Len(embedded) ->
         IF \E i \in DOMAIN applied : applied[i] # embedded[i]
         THEN "mismatch"
         ELSE IF Len(applied) < Len(embedded) THEN "pending" ELSE "same"

\* The next migration m has to apply, or is applying.
Pending(m) == Embedded[m][Len(read[m]) + 1]

\* The migration's statements, or its row, or both come into effect.
TakesEffect(m, parts) ==
  /\ schema' = IF "ddl" \in parts THEN Append(schema, Pending(m)) ELSE schema
  /\ history' = IF "row" \in parts THEN Append(history, Pending(m)) ELSE history

Held(m, parts) == tx' = [tx EXCEPT ![m] = parts]

-----------------------------------------------------------------------------
(* Migrate.                                                                *)

\* The database is opened and the session's search_path and lock_timeout set.
Connect(m) ==
  /\ at[m] = "start"
  /\ Goto(m, "lock") \/ Goto(m, "failed")
  /\ UNCHANGED <<database, advisory, read, tx>>

TakeLock(m) ==
  /\ at[m] = "lock"
  /\ advisory = None
  /\ advisory' = m
  /\ Goto(m, "role")
  /\ UNCHANGED <<database, read, tx>>

\* Mutation: the wait for the lock is not bounded.
LockTimeoutNever(m) == FALSE /\ UNCHANGED vars

\* lock_timeout bounds the wait: the migrator says so and exits.
LockTimeout(m) ==
  /\ at[m] = "lock"
  /\ advisory # None
  /\ Goto(m, "failed")
  /\ UNCHANGED <<database, advisory, read, tx>>

\* Mutation: the role is left to the first migration's own check.
CheckRoleLater(m) ==
  /\ at[m] = "role"
  /\ Goto(m, "create")
  /\ UNCHANGED <<database, advisory, read, tx>>

\* Before anything is created: the runtime role must not own these tables.
CheckRole(m) ==
  /\ at[m] = "role"
  /\ Goto(m, IF m \in RuntimeRole THEN "giveup" ELSE "create")
  /\ UNCHANGED <<database, advisory, read, tx>>

\* Mutation: the table is created anew, without IF NOT EXISTS.
CreateTableAnew(m) ==
  /\ at[m] = "create"
  /\ owner' = IF m \in RuntimeRole THEN "runtime" ELSE "migrator"
  /\ history' = <<>>
  /\ Goto(m, "read")
  /\ UNCHANGED <<schema, advisory, read, tx>>

\* CREATE TABLE IF NOT EXISTS schema_migrations, in a transaction of its own.
CreateTable(m) ==
  /\ at[m] = "create"
  /\ owner' = IF owner # None THEN owner
              ELSE IF m \in RuntimeRole THEN "runtime" ELSE "migrator"
  /\ Goto(m, "read")
  /\ UNCHANGED <<history, schema, advisory, read, tx>>

ReadHistory(m) ==
  /\ at[m] = "read"
  /\ read' = [read EXCEPT ![m] = history]
  /\ Goto(m, CASE Compare(Embedded[m], history) = "mismatch" -> "giveup"
               [] Compare(Embedded[m], history) = "same"     -> "unlock"
               [] Compare(Embedded[m], history) = "pending"  -> "apply")
  /\ UNCHANGED <<database, advisory, tx>>

\* Mutation: the row is inserted before the migration's statements.
ApplyRecordsFirst(m) ==
  /\ at[m] = "apply"
  /\ Held(m, {"row"})
  /\ Goto(m, "record")
  /\ UNCHANGED <<database, advisory, read>>

\* BEGIN, and the migration's statements, sent without arguments and so by the
\* simple protocol.  A COMMIT among them ends the transaction, with what came
\* before it in effect whether the rest succeeds or not.
Apply(m) ==
  /\ at[m] = "apply"
  /\ IF Pending(m) \in SelfCommitting
     THEN TakesEffect(m, {"ddl"}) /\ UNCHANGED tx
     ELSE Held(m, {"ddl"}) /\ UNCHANGED <<history, schema>>
  /\ Goto(m, "record")
  /\ UNCHANGED <<owner, advisory, read>>

\* Mutation: the row is inserted on a connection of the pool.
RecordOutside(m) ==
  /\ at[m] = "record" /\ Len(history) = Len(read[m])
  /\ TakesEffect(m, {"row"})
  /\ Goto(m, "commit")
  /\ UNCHANGED <<owner, advisory, read, tx>>

\* INSERT into schema_migrations, whose primary key is the number: in the
\* transaction or, if the body has ended it, committed by itself.  (If the number
\* is taken it can only fail.)
Record(m) ==
  /\ at[m] = "record" /\ Len(history) = Len(read[m])
  /\ IF tx[m] = {} THEN TakesEffect(m, {"row"}) /\ UNCHANGED tx
                   ELSE Held(m, tx[m] \cup {"row"}) /\ UNCHANGED <<history, schema>>
  /\ Goto(m, "commit")
  /\ UNCHANGED <<owner, advisory, read>>

\* Mutation: a transaction-scoped lock, which the COMMIT releases.
CommitUnlocks(m) ==
  /\ at[m] = "commit"
  /\ TakesEffect(m, tx[m]) /\ Held(m, {})
  /\ read' = [read EXCEPT ![m] = Append(@, Pending(m))]
  /\ advisory' = None
  /\ Goto(m, IF Len(read[m]) + 1 = Len(Embedded[m]) THEN "unlock" ELSE "apply")
  /\ UNCHANGED owner

\* The record commits with the DDL; then the next migration, or the end.
\* Where no transaction is open any more, COMMIT is a warning.
Commit(m) ==
  /\ at[m] = "commit"
  /\ TakesEffect(m, tx[m]) /\ Held(m, {})
  /\ read' = [read EXCEPT ![m] = Append(@, Pending(m))]
  /\ Goto(m, IF Len(read[m]) + 1 = Len(Embedded[m]) THEN "unlock" ELSE "apply")
  /\ UNCHANGED <<owner, advisory>>

\* Mutation: an error of applyOne is dropped and the loop goes on.
FailSkips(m) ==
  /\ at[m] \in {"role", "create", "read", "apply", "record", "commit"}
  /\ Held(m, {})
  /\ Goto(m, IF at[m] \in {"apply", "record", "commit"} THEN "unlock" ELSE "giveup")
  /\ UNCHANGED <<database, advisory, read>>

\* A statement fails or the context is cancelled: the open transaction rolls
\* back and Migrate returns the error.
Fail(m) ==
  /\ at[m] \in {"role", "create", "read", "apply", "record", "commit"}
  /\ Held(m, {})
  /\ Goto(m, "giveup")
  /\ UNCHANGED <<database, advisory, read>>

\* The deferred unlock, on the way out with an error or without.
Unlock(m) ==
  /\ at[m] \in {"unlock", "giveup"}
  /\ advisory' = IF advisory = m THEN None ELSE advisory
  /\ Held(m, {})
  /\ Goto(m, IF at[m] = "unlock" THEN "done" ELSE "failed")
  /\ UNCHANGED <<database, read>>

-----------------------------------------------------------------------------
(* Processes that die, and the sessions they leave.                        *)

\* The process dies, or loses its connection: of an open transaction only the
\* COMMIT already sent can still take effect.  (A statement that commits by
\* itself and takes effect afterwards might as well have done so before.)  The
\* session keeps the advisory lock until it ends.
Kill(m) ==
  /\ at[m] \notin Exited
  /\ Held(m, IF at[m] = "commit" THEN tx[m] ELSE {})
  /\ Goto(m, "killed")
  /\ UNCHANGED <<database, advisory, read>>

LateCommit(m) ==
  /\ at[m] = "killed" /\ tx[m] # {}
  /\ TakesEffect(m, tx[m]) /\ Held(m, {})
  /\ UNCHANGED <<owner, advisory, at, read>>

\* The server notices that the client has gone and ends the session.
EndSession(m) ==
  /\ at[m] = "killed"
  /\ advisory = m \/ tx[m] # {}
  /\ advisory' = IF advisory = m THEN None ELSE advisory
  /\ Held(m, {})
  /\ UNCHANGED <<database, at, read>>

-----------------------------------------------------------------------------
(* serve.                                                                  *)

\* Mutation: a database behind the binary is served too.
VerifyPending(s) ==
  /\ at[s] = "start"
  /\ \/ Compare(Embedded[s], history) # "mismatch" /\ Goto(s, "listen")
     \/ Goto(s, "failed")
  /\ UNCHANGED <<database, advisory, read, tx>>

\* Verify reads without any lock; anything but "same" refuses, as an error does.
Verify(s) ==
  /\ at[s] = "start"
  /\ \/ Compare(Embedded[s], history) = "same" /\ Goto(s, "listen")
     \/ Goto(s, "failed")
  /\ UNCHANGED <<database, advisory, read, tx>>

Listen(s) ==
  /\ at[s] = "listen"
  /\ Goto(s, "serving") \/ Goto(s, "failed")
  /\ UNCHANGED <<database, advisory, read, tx>>

\* A signal, and Shutdown; or Serve fails.
Stop(s) ==
  /\ at[s] = "serving"
  /\ Goto(s, "done") \/ Goto(s, "failed")
  /\ UNCHANGED <<database, advisory, read, tx>>

-----------------------------------------------------------------------------
Step(m) == \/ Connect(m) \/ TakeLock(m) \/ LockTimeout(m) \/ CheckRole(m)
           \/ CreateTable(m) \/ ReadHistory(m) \/ Apply(m) \/ Record(m)
           \/ Commit(m) \/ Fail(m) \/ Unlock(m)

Next == \/ \E m \in Migrators : \/ Step(m) \/ Kill(m)
                                \/ LateCommit(m) \/ EndSession(m)
        \/ \E s \in Servers : Verify(s) \/ Listen(s) \/ Stop(s)

Spec == Init /\ [][Next]_vars

\* A migrator goes on as long as it lives, and waits lockWait at most.  That
\* a dead migrator's session ends is NOT assumed: the server may never notice.
FairSpec == Spec /\ \A m \in Migrators : WF_vars(Step(m))

-----------------------------------------------------------------------------
(* Properties.                                                             *)

\* Every variable has its type; no transaction records a migration whose
\* statements it does not hold.
TypeOK ==
  /\ history \in Seq(Migrations)
  /\ schema \in Seq(Migrations)
  /\ owner \in {None, "runtime", "migrator"}
  /\ advisory \in Migrators \cup {None}
  /\ at \in [Processes -> {"start", "lock", "role", "create", "read", "apply",
                           "record", "commit", "unlock", "giveup", "listen",
                           "serving"} \cup Exited]
  /\ read \in [Migrators -> Seq(Migrations)]
  /\ tx \in [Migrators -> {{}, {"ddl"}, {"ddl", "row"}}]

NoneSelfCommitted == \A i \in DOMAIN schema : schema[i] \notin SelfCommitting

\* What schema_migrations says was applied is the beginning of what ONE release
\* carries: no two diverging releases are mixed.  It is what is in effect, no
\* migration half-applied, until one that commits itself is.  All this whoever
\* raced, whatever failed and whichever process died.
SchemaIsOneRelease ==
  /\ \E m \in Migrators : IsPrefix(history, Embedded[m])
  /\ NoneSelfCommitted => schema = history

\* What a comment of applyOne says of any migration: "a half-applied migration
\* is not a state this design has", not when nobody is migrating any more.
NoMigrationIsHalfApplied == advisory = None => schema = history

\* Migrations are forward-only: no run rewrites or removes what is applied.
HistoryOnlyGrows == [][IsPrefix(history, history')]_vars

\* Migrators do not race: until one has recorded its migration for good, nobody
\* else takes its number, though each migration is a transaction of its own.
NumberIsFree ==
  \A m \in Migrators : at[m] = "record" \/ "row" \in tx[m] => history = read[m]

\* The runtime role never owns the migration table, even if somebody runs the
\* first migration as that role: an owner could grant itself anything.
RuntimeRoleOwnsNothing == owner # "runtime"

\* A migrator that reports success leaves every one of its migrations applied,
\* in its order and with its digests.
DoneMeansApplied ==
  \A m \in Migrators : at[m] = "done" => IsPrefix(Embedded[m], history)

\* A process serves only if every migration it knows is applied as it knows
\* it, and goes on being so while newer migrators move the schema forward.
\* (That the schema is not NEWER is verified at startup and not kept true.)
ServedSchemaIsApplied ==
  \A s \in Servers : at[s] = "serving" => IsPrefix(Embedded[s], history)

\* A migrator exits, also while the session of a dead one holds the lock.
MigratorsExit == \A m \in Migrators : <>(at[m] \in Exited)

-----------------------------------------------------------------------------
ASSUME MigratorAssumption ==
  /\ Migrators # {} /\ Migrators \cap Servers = {}
  /\ Embedded \in [Processes -> Seq(Migrations)]
  /\ \A p \in Processes : Embedded[p] # <<>>
  /\ RuntimeRole \subseteq Migrators
  /\ SelfCommitting \subseteq Migrations
  /\ None \notin Migrators
  /\ None # "runtime"
=============================================================================
