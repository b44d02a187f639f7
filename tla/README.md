# A verification of Marque M1 in TLA+

Marque turns "please run this statement against production" into a request that is
submitted, approved, run once by a *Pilot* and recorded. At this commit the repository
holds milestone M1, the walking skeleton: a control plane (the *Harbourmaster*) on
PostgreSQL, an operator CLI, the Pilot, a schema migrator, and the checks of its build.
These modules model that code, TLC checks them on small instances, and TLAPS proves what
matters most of the control plane, the pilots, the migrators, the migration loader, the
schema gate and the conformance vectors for every number of handlers, tenants, requests,
attempts, releases, files, methods, vectors and changes.

## 1. The system

### Components, their state and what makes them correct

| Component | Code | State it keeps | Operations | What is hard, and what makes it correct |
|---|---|---|---|---|
| Store | `internal/harbourmaster/store/queries.go`, `migrations/0001_initial.sql` | tables `requests`, `approvals`, `executions`; the row locks and open transactions of PostgreSQL | `Submit`, `Request`, `Approve`, `RecordExecution` | Handlers interleave between statements under READ COMMITTED, and each may fail anywhere. `requests.state` is read, judged and then overwritten by an UPDATE that has no condition of its own: it must stay what the append-only tables say. One approval must not cover two executions. A repeat must not rewrite history. |
| API service | `internal/harbourmaster/api/api.go`, `vocabulary.go` | none; a pool of 16 connections | the four RPCs, `GetVersion` | Approve and RecordExecution commit and then read the request back in a second transaction on a second connection: the answer must still be true, and handlers must not wait for each other's connections forever. |
| Pilot | `cmd/pilot/main.go`, `internal/pilot/execute.go`, `internal/pilot/postgres/postgres.go` | one process per attempt; a transaction at the target | fetch, open, BEGIN, statement, COMMIT or ROLLBACK, classify, report once, exit | The answer to COMMIT may be lost or never come; the report may be lost; a signal or a kill may come between the two. An attempt called clean must not have applied, exit status 0 must mean applied and recorded. |
| `marque` CLI | `cmd/marque/main.go` | none | submit, approve, status | The operators whose care decides whether a statement may be applied twice. |
| Migrator | `internal/harbourmaster/store/migrate.go` | `schema_migrations`, the DDL in effect, a session-level advisory lock | `Migrate`, `applyOne`, `compare`, `Verify`, `loadMigrations` | Several migrators, of several releases, race and die between steps; every migration is a transaction of its own. No half-applied migration, no mixture of two releases, no wait without end. |
| `harbourmaster` command | `cmd/harbourmaster/main.go` | one process | `migrate`, `serve` | `serve` verifies the schema once and then serves for days. |
| Migration loader | `internal/harbourmaster/store/migrate.go` (`loadMigrationsFrom` and below) | the embedded files | name and number, sort, search for statements no transaction runs | A hand-written lexer must not be talked out of seeing a statement by the comments, literals and dollar quotes around it; the list must be the files in the order of their numbers. |
| Schema checks | `internal/schema/*.go`, `schemacheck` | the API description on the base branch, and in clients the one they were built against | coverage, annotation rules, the strengthen-only comparison | Each change is compared with its predecessor only, while a client may be many changes old: promises must not weaken over several steps. |
| Conformance vectors | `internal/conformance/vectors.go` | a file; the corpus loaded from it | load (escapes, keys, envelope, vectors), marshal | The same bytes must mean the same to readers that pick, fold, replace and round differently; nothing an author wrote may be dropped; what is written back must load. |
| Skeleton gate, version | `internal/skeleton`, `internal/version` | none | one comparison; reading build information | Sequential and stateless. |
| Generated code, website | `gen/`, `proto/`, `website/` | none | - | Data, and a site generator. |

The EDRs describe much that is not built yet (signed marques, rehearsal, delegations,
the Logbook, the Relay, agents). There is no code for it, so there is no model of it.

### How they interact

An operator's `marque submit` and `marque approve` are RPCs to the service, which calls one
store method each; every store method is a transaction on a connection of the service's
pool. `pilot execute` fetches the request over the same API, runs its statement in one
transaction at the target database, which the control plane never touches, and reports the
outcome with `RecordExecution`, once, under a context no signal cancels and with a deadline of
its own (nothing before it has one). Nothing holds the
request while an attempt runs. `harbourmaster migrate` and `harbourmaster serve` share only
the database. The schema checks and the conformance loader stand apart: what they guard are
files that people change, and programs of other builds that go on reading them.

The shared state of the running system is therefore the control plane's tables, and
everything that is hard about it is an interleaving of transactions, a lost answer or a
dead process.

## 2. The modules

| Module | Models | Composes |
|---|---|---|
| `Vocabulary` | the closed sets both sides share: states, outcomes, reports, `NextState` | |
| `ControlPlane` | the abstract control plane: an append-only record, each operation one step, a request's status a *function* of the record | `Vocabulary` |
| `RequestStore` | the service on the store: one step per SQL statement, with row locks, the unique index, the pool, failures, lost answers and the read-back | implements `ControlPlane` |
| `Pilot` | operators, pilots and the target around the control plane | uses `ControlPlane` for the record |
| `Migrator` | migrators and servers of several releases on one database | |
| `MigrationLoader` | the files a release embeds, the loader, and PostgreSQL's lexer as the reference | |
| `RetryContract` | what the API description owes its clients: a harmless way of repeating a call stays harmless | |
| `SchemaGate` | the description, the two make targets a change passes, and a client that is never rebuilt | implements `RetryContract` |
| `Conformance` | a vector file, its authors, the loader, marshalling, and readers in other languages | |
| `MC...` | small instances of these for TLC | |
| `RequestStore_proofs`, `Answers_proofs`, `Pilot_proofs`, `Migrator_proofs`, `MigrationLoader_proofs`, `SchemaGate_proofs`, `Conformance_proofs` | TLAPS proofs | |
| `Induction` | induction over numbers, for sets of them, as the proofs need it | |

`Pilot` uses the atomic operations of `ControlPlane` where the code makes RPCs. That is
what the refinement is for: `RequestStore` implements `ControlPlane` (checked by TLC and
proved), so what a pilot can see of the real store it can see of the abstract one. That
operators and pilots ask nothing of it that it does not offer is proved too
(`UsesControlPlane`).

Definitions whose comment begins with `Mutation:` are not part of the model. Each is a
plausible bug in the definition below it, and the project records which property it
breaks; it is how a reader can see that the property says something about the code.

### RequestStore

The tables are functions of `<<tenant, reference>>`, which is the primary key; a missing
row is `None`. `state` is the column and is kept apart from the rest of the row because
the code writes it apart. A *handler* is one RPC in progress:

| Variable | In the code |
|---|---|
| `call[h]` | the request message. Texts are members of small sets; `Blank` is one the service's `TrimSpace` check rejects, `Oversized` one that only the column's CHECK rejects, and negative counts likewise |
| `pc[h]` | the statement the handler sends next |
| `tx[h]` | what its transaction has read (`seen`, `reference`), what RETURNING yielded (`report`) and the state it has written and not committed (`state`) |
| `rowLock[row]` | who holds the row lock: `FOR UPDATE`, the `ON CONFLICT DO UPDATE` of Submit, or the UPDATE |
| `answer[h]` | the Connect code, and for OK the reference, state and execution of the response; for a repeat refused, the outcome and count its message names |
| `link[h]` | its connection: `up`, or cut, with the statement sent last still to be carried out (`sent`) or not (`cut`) |

Actions follow the methods: `Start` (validation in `api.go`), `Acquire` (a connection and
BEGIN), `UpsertExisting`/`UpsertNew`/`UpsertRefused`/`CommitSubmit` (Submit's one
statement), `Select` (GetRequest), `LockForApprove`/`InsertApproval`/`Update`/
`CommitApproval`, `LockForRecord`/`CheckNonce`/`InsertExecution`/`Update`/
`CommitExecution`, then `Reacquire`/`Readback`. `InsertRefused` is a CHECK that fails,
`Contradicted` the refusal of a repeat that contradicts what is stored: its text says what that
is, and `asConnectError` passes the text on.

Modelling decisions, each made to have more behaviours than the database, not fewer:

- READ COMMITTED: a plain SELECT sees what is committed when it runs; uncommitted writes
  live in `tx` and reach the tables at COMMIT. A row somebody else has inserted and not
  committed is not there for anyone else, but its key is: a second insertion of the key
  waits (`KeyInFlight`).
- `Fail` may happen at every control point: a database error, or a cancelled context whose
  ROLLBACK is carried out. It ends the transaction, so its locks go.
- `Cut` is a handler that cannot send its ROLLBACK: its process dies, or a context cancelled in
  the middle of a statement makes it drop the connection. The session stays in the database. The
  statement sent last may still be carried out (`CarryOut`: the COMMIT, or a Submit, which is a
  transaction by itself), a row it has locked stays locked, and a statement that waits for a row
  goes on waiting for it, until the server notices (`EndSession`), which may never happen. The pool
  counts such a connection no longer. The handler's name serves a new call after that. A process
  that dies is each of its handlers being cut, in any order. `Mortal` bounds who may be.
- A COMMIT may take effect and its answer be lost: `Committed` and `CommitSubmit` may end
  in an error with the change made.
- A random reference may collide with one in use; the INSERT then fails.

### Pilot

`at[p]` is where `cmd/pilot` is, `session[p]` its transaction *as the target has it*,
`result[p]` the classification, `wire[p]` the report in flight. The target processes a COMMIT
independently of the pilot (`TargetSettles`), possibly after the pilot has stopped waiting; the
report may be processed after the pilot is gone (`Deliver`). `Kill` may come at every step, and
so may `Interrupt`, the SIGINT or SIGTERM that cancels the context of the run: what is sent and
awaited under it ends with an error from then on (`Cancelled`), the report does not.
`Interruptible` bounds whom it reaches: it takes outcomes away from a pilot and adds none, so
only the liveness property needs it. `Careful` is an assumption about *operators*, set per run:
the code does not enforce it, and AppliedAtMostOnce is false without it. Operators are never
assumed to take a fresh nonce. A body in `Scripts` is several commands with a COMMIT among them:
the extended protocol refuses it whole, which is why `Exec` has no step that runs it. (A single
statement that ends the transaction by itself, `ROLLBACK` or `PREPARE TRANSACTION`, has nothing
to apply, so calling it committed says nothing false about rows.)

### Migrator

`history` is `schema_migrations`, `schema` the DDL in effect, `advisory` the session lock,
`read[m]` what a migrator has read and appended. `Kill` leaves the session: it keeps the lock
until `EndSession`, which may never happen, and a COMMIT already sent may still take effect
(`LateCommit`). `tx[m]` is what its open transaction holds, the migration's statements (`"ddl"`)
and its row (`"row"`), which take effect together at COMMIT. A migration in `SelfCommitting` has
a COMMIT in its body. The body is sent without arguments, by the simple protocol, so that COMMIT
ends the transaction: the statements are in effect at once (`Apply`) and the INSERT commits by
itself (`Record`). (Statements behind the COMMIT are a transaction of their own; that they may
fail while those before it stand is `Fail` after `Apply`.) `Embedded[p]` is the list of
migrations in a process's binary, so processes of different and of diverging releases run
against each other.

### MigrationLoader

A body is a sequence of symbols, a character that means something to a lexer or a word, and
`StripSQLComments`, `DollarTag`, `CollapseSpace`, `ContainsPhrase` and `ReindexNonTransactional`
are the functions of the same names. A loop of the code is a pair of definitions: one turn of it
on its variables (`StripTurn`, `BlockTurn`, `QuotedTurn`, `CollapseTurn`), and the function from
the number of turns to the variables' values (`StripTurns`, ...), which takes as many turns as
the body has symbols; turns past the end change nothing. Developers add files (`AddFile`) and
write them fragment by fragment (`Write`); `LoadMigrations` reads the directory, and `Sortings`
holds every order in which `sort.Slice` may leave files of one number. The reference they are
compared with is `Lexed`, PostgreSQL's lexer symbol by symbol (`LexTurn`), which shares no
definition with the loader. One of the twelve phrases (and one target of REINDEX) stands for
all: the code treats them alike.

The lexer says which bodies it takes to be `plain`. What is not plain, and what else is outside
the comparison:

- a `$` that continues an identifier, escape strings (`E'...'`; the symbol set has no `E`) and
  dollar tags that are not ASCII words: limits the source has or names;
- a `$` that opens no dollar quote: PostgreSQL's parser refuses a body with one before it runs any
  of it, so there is nothing to find there;
- a closing parenthesis inside the option list of a REINDEX, where the list ends for the regular
  expression (`[^)]*`, migrate.go:356) although it is quoted: `NonTransactional` takes an option
  list to be free of them. The proof failed at that place until it did;
- anything but blanks between a carriage return that ended a line comment and the end of that line
  (`InReturn`). For PostgreSQL the comment is over, for `stripSQLComments` it is not: this one is a
  disagreement, the finding `carriage_return`.

### SchemaGate

`schema[m]` is a method's declaration (`safe`, `idempotency`, `field`, and the standard
`level`), `client` one client with the declaration compiled into it. `Merge` is a change that
passes `make lint` (`Covered`, `CheckAnnotations`) and `make breaking` (`BufAccepts` when
buf runs first, then `CheckCompatibility`). `Repeats` and `Harmless` say what a declaration
means at the two ends of a call: which repeats a client makes by itself, by the declaration
and by the standard option its generator reads; and which the server can stand. They are
taken from the comments of `CheckCompatibility` and `checkIdempotencyLevel`.

The base branch may hold a value an earlier build knew and this one does not. Without buf a
method may be removed, and come back weaker under its name in a later change, because
methods are compared by name with the immediate predecessor: `PromisesKept` excepts a client
whose method was ever away (`orphaned`), and with `BufBreaking` shows there is none.

### Conformance

JSON values are records told apart by their field, so a file is a tree; `Tokens` and
`Spelled` give the token stream and the symbols that `checkKeys` and `checkEscapes` see.
Authors edit a good file anywhere in its tree (`Edited`): drop, add, respell or repeat a
member, overwrite a value, append a document. `Load` is the loader with all its refusals in
their order, `Save` marshals what was loaded. `Readers` are the other programs: they take the
first or the last of two keys or documents, fold case or not, replace half a surrogate or
not, and hold numbers as doubles or not.

What walks a tree (`Tokens`, `Edited`, `Read`) is a recursive function on `Values`, the JSON
values nested at most `Nesting` deep; a value deeper than the format's five levels is refused
whatever is in it. The two loops of the loader are again one turn each (`EscapeTurn`,
`KeysTurn`) and a function of the number of turns. In the text a string stands between two
`"quote"` symbols and every other token is one `","`: no escape reaches across either.

## 3. What TLC checks

| Run | Instance | Shows |
|---|---|---|
| `executions` | 2 handlers, 1 request, 2 nonces, counts 0, 3, stages 1, 2, both handlers mortal (924 k states) | `StateMatchesLedger`, `AtMostOneSettlement`, `HistoryImmutable`, `AnswersHold` through every interleaving of approvals, reports, repeats, failures and sessions left behind; `ImplementsControlPlane`; `AnswerInv`, the invariant of the proofs |
| `submissions` | 2 handlers, 2 keys, 2 references, 2 bodies, reports with a count of -1 (1.2 M) | `KeyNamesOneRequest`, `AnswersHold`: racing Submits, reuse of a key, colliding references, Submits carried out for nobody; `AnswerInv` again |
| `pool` | 3 handlers, 2 connections, one row, reports of an unknown outcome (267 k) | `DrainedServiceAnswers`: once calls stop nobody waits forever for a connection, read-back included, or for a row; `WaitsEnd`: there is no circle of waiting handlers for it to break on |
| `attempts` | 3 pilots that share one nonce (1.5 M) | `RecordIsTruthful`, `ExitZeroMeansApplied` |
| `careful` | 3 pilots, two of them interruptible, careful operators, a body that is a script (1.2 M) | `AppliedAtMostOnce`, `CleanMeansNotApplied`, `AttemptsAreReported` |
| `migrate` | 4 migrators: two releases that diverge, one with an edited migration, one started as the runtime role; 3 servers; one migration commits itself (547 k) | `SchemaIsOneRelease`, `NumberIsFree`, `DoneMeansApplied`, `ServedSchemaIsApplied`, `RuntimeRoleOwnsNothing`, `HistoryOnlyGrows`, `MigratorsExit` |
| `schemas` | 2 methods, 19 declarations right and wrong, schemacheck without buf (1.6 k) | `PromisesKept`, `ImplementsContract` over every sequence of changes |
| `loader` | bodies of 5 of 16 fragments, directories of 3 of 6 files (2.2 M) | `LoadedRunsInTransaction`, `LoadedByNumber` |
| `vectors` | files 2 edits away from 5 good ones (241 k) | `ReadersAgree`, `NothingIsDropped`, `RoundTrips` |
| `rerun`, `half_applied`, `carriage_return` | as `careful`, `migrate` and `loader` | the three findings below |

Each module also has its type invariant checked in one run.

### Bounds, and why they are enough

- Two handlers: every hazard of the store is between a handler and one rival (a lock, a key,
  a lost update), and handlers have no identity. The proofs remove this bound. `pool` takes
  three, one more than its connections.
- One request where only one is at stake; two references and two keys where keys race and
  references collide. One tenant: that no statement of one moves a row of another is left to the
  proof (`StateIsLedger`), which is of any number. Two nonces are enough for a second
  settlement, one of them to be repeated.
- Counts: zero and a positive number, and in `submissions` one the schema refuses; which number it
  is matters nowhere in the code.
- `Mortal`: every handler. One session left behind and one handler that meets its locks is the
  least; with two of two both may be left behind at once.
- Three attempts: one recorded, one racing with it and one still to come. In `attempts` they
  share a nonce, which is where they meet; in `careful` each may have its own. The proofs
  remove this bound. `Interruptible`: two of the three in `careful`, where a signal is what
  the liveness property is about; none in `attempts`, which has only safety properties (above).
- Migrators: two diverge after the first migration and race for the same number, one has
  other bytes under an applied name, one has the wrong role. Every process may die at every
  step. The migration that commits itself is the one after which two releases diverge.
- Loader: five fragments are a context that is opened, a statement in two words with
  something between them, and the close; three files are a gap, a duplicate and an order that
  is not the lexical one.
- Vectors: two edits reach every pair of mistakes, such as a member repeated and its value
  changed, which is the least that makes two readers differ. Integers are exact up to 3. `Nesting` is
  6, the depth of a good file and one for what an edit adds.
- Schemas: two methods, so that a comparison may match one and lose the other; one
  declaration for every rule it can break. TLC runs schemacheck alone, the weaker gate; the
  proofs cover both.

Handlers (and attempts) are interchangeable in the instances that use symmetry; symmetry
is never used with a liveness property. `CHECK_DEADLOCK FALSE` is set for the instances of
Pilot and Migrator, which end when every process has exited, and for those of the loader and
the vectors, which end with a verdict; RequestStore and SchemaGate never end.

### Fairness

- `RequestStore`: weak fairness of the steps of a handler that is there (`Progress`). A free
  connection is handed out, but to whom is open: `database/sql` picks a waiter at random. The
  database answers a statement that waits for nobody, with an error at worst; no handler has a
  deadline or a `lock_timeout`. New calls, failures and the end of a dead session are not fair.
  That is not enough for every call to be answered: one may lose to newer calls each time, or wait
  for a row whose dead session the server never gives up. `DrainedServiceAnswers` therefore says
  what is left: if calls stop coming and every session left behind is ended, all are answered.
- `Pilot`: the context of the run (`signal.NotifyContext` of `Background`) has no deadline, nor
  has its HTTP client, so a pilot may wait for the target or the control plane for ever; only the
  report has thirty seconds. Weakly fair are therefore the steps of the report (`Reporting`), and
  those of a pilot whose context a signal has cancelled, since every wait under it ends. The
  target, the delivery of reports and the operators are not fair. `AttemptsAreReported` speaks of
  just these pilots.
- `Migrator`: weak fairness of a living migrator's steps. That the server notices a dead
  session is not assumed, so `MigratorsExit` rests on `lock_timeout` alone.

### Findings

All are divergences between a comment and the code; none makes another checked property fail.

1. `rerun`: the header of `cmd/pilot/main.go` (lines 17-18) says a re-run under a recorded
   nonce is refused by the control plane after the statement has run. It is refused only if
   it contradicts the stored outcome: a second clean failure is acknowledged, and leaves no
   record of its own.
2. `half_applied`: `applyOne` says that "a half-applied migration is not a state this design has"
   (migrate.go:722-723). The body is sent by the simple protocol (719) and nothing refuses a
   COMMIT in one, so a migration with a COMMIT is in effect without its row when the INSERT fails or the
   migrator dies in between; the next migrator applies it again. No embedded migration has one.
3. `carriage_return`: `stripSQLComments` is there to keep a statement from failing "part-way through
   a production migration" (275-277). It ends a line comment at a newline only (284), PostgreSQL at a
   carriage return too: `-- x<CR>CREATE/**/DATABASE d;` loads, and fails in production.

(The schema's comment that M1 produces three states, `0001_initial.sql:38`, is also behind
the code, which produces four.)

## 4. What is proved

The theorems hold for all values of the constants of their module. For `RequestStore` they
assume `StoreAssumption` and `VocabularyAssumption`, which say only that `TenantOf` is a
function, the pool is not empty, stages and counts are numbers, and `None`, `Blank` and
`Oversized` are none of the values they stand beside; for `SchemaGate`, `SchemaAssumption`:
`None` is none of the values it stands beside, shapes and declarations are of their types,
and a single string or bytes field outside a real oneof reaches the server with a retry; for
`Pilot`, `PilotAssumption` (zero is a count, a script is a body, no job is `None`); for
`Migrator`, `MigratorAssumption` (somebody migrates, migrators are not servers, every binary
embeds a sequence of migrations, not an empty one, those that commit themselves are migrations, and
`None` is no migrator and no owner); for `MigrationLoader`, `LoaderAssumption`
(fragments are sequences of symbols, of which there may be any; the names are finitely many;
`None` is no name, body or verdict); for `Conformance`, `ConformanceAssumption` (the nesting
allowed is at least that of the format; its keys and keywords can be spelled; a key has no
backslash; no field folds to another field; `None` is none of the values it stands beside).
TLC evaluates the assumptions in every run.

| Theorem | Statement |
|---|---|
| `Invariance`, `AnswerInvariance` | `Spec => []IndInv`, `Spec => []AnswerInv` |
| `Typed` | `Spec => []TypeOK` |
| `StateIsLedger` | `Spec => []StateMatchesLedger` |
| `OneSettlement` | `Spec => []AtMostOneSettlement` |
| `OneRequestPerKey` | `Spec => []KeyNamesOneRequest` |
| `Refinement` | `Spec => ImplementsControlPlane` |
| `Immutability` | `Spec => HistoryImmutable` |
| `NoDeadlock` | `Spec => []WaitsEnd` |
| `TrueAnswers` | `Spec => []AnswersHold` |
| `TypeCorrect`, `PromisesAreKept` | of `SchemaGate`: `Spec => []TypeOK`, `Spec => []PromisesKept` |
| `GateImplementsContract` | of `SchemaGate`: `Spec => ImplementsContract` |
| `TypeCorrect`, `CleanIsClean`, `TruthfulRecord`, `ExitZero` | of `Pilot`: `Spec => []TypeOK`, `[]CleanMeansNotApplied`, `[]RecordIsTruthful`, `[]ExitZeroMeansApplied` |
| `AtMostOnce` | of `Pilot`: `Careful => (Spec => []AppliedAtMostOnce)` |
| `UsesControlPlane` | of `Pilot`: `Spec => Plane!Spec` |
| `TypeCorrect`, `OneRelease`, `NumberStaysFree`, `DoneIsApplied`, `ServedIsApplied`, `RuntimeOwnsNothing` | of `Migrator`: `Spec => []TypeOK`, `[]SchemaIsOneRelease`, `[]NumberIsFree`, `[]DoneMeansApplied`, `[]ServedSchemaIsApplied`, `[]RuntimeRoleOwnsNothing` |
| `ForwardOnly` | of `Migrator`: `Spec => HistoryOnlyGrows` |
| `TypeCorrect`, `ByNumber`, `RunsInTransaction` | of `MigrationLoader`: `Spec => []TypeOK`, `[]LoadedByNumber`, `[]LoadedRunsInTransaction` |
| `TypeCorrect`, `OneMeaning`, `NothingDropped` | of `Conformance`: `Spec => []TypeOK`, `[]ReadersAgree`, `[]NothingIsDropped` |
| `WritesBack` | of `Conformance`: `Spec => RoundTrips` |

The argument for the store. None of these invariants is inductive: `StateMatchesLedger`
says nothing of a transaction that is about to write a state. `IndInv` adds, for every handler,

- `OwnsRow`: from its `FOR UPDATE` to its end a transaction holds its row's lock;
- `ApprovalStaged`, `ExecutionStaged`: what it read of that row is still so, and the state it
  is about to commit is the one this row's record calls for;
- `SubmitStaged`: a Submit about to commit found the key's row, or no row has the key and no
  other handler is about to commit it;
- `CallAgrees`, `WritesLast`: a handler is where its call takes it; and of the tables, the
  foreign keys (`NoOrphans`).

Two handlers past their SELECT own different rows (lemma `OneOwner`), so a commit disturbs
nothing another transaction has read: this is where `FOR UPDATE` is used, and a SELECT
without it breaks the invariant. A commit is then an operation `ControlPlane` allows in
that state (`CommitApprovalAllowed`, `CommitExecutionAllowed`, `CommitSubmitAllowed`), every
other step leaves the tables alone, and the refinement follows; immutability follows from
the refinement. The proof has a lemma per action; a step that only moves one handler goes
through `QuietQED`.

That handlers do not wait in a circle is the part of `DrainedServiceAnswers` that is a safety
property, and `NoDeadlock` proves it for any number of handlers and any size of the pool.
`LocksInUse` says that only open transactions have rows, however the others ended, and a
session left behind is one that is open; whoever has
a row, or is about to commit a key, waits for nobody (`OwnerWaitsForNobody`), because a
transaction takes one row and has given it back before it asks for another connection. So a
handler waits for a connection, its owner for a row or a key, and there it ends.

`AnswerInv` adds that between commit and read-back what was committed still stands
(`CommitStands`) and that an answer OK names what it answers (`AnswerFits`). Because nothing
recorded changes and a finished request keeps its state (`StepKeeps`), the later read cannot
contradict the commit. That an acknowledged repeat of `committed` or `indeterminate` answers
the state its outcome calls for needs `AtMostOneSettlement`. What a refused repeat was told stands
for the same reason as an answer OK does (`RefusalHolds`). Sessions that outlive their handler add no
invariant: a statement carried out for nobody is one of `Transaction`, with an error for an answer.

The argument for the schema gate. A declaration that passed the rules agrees with itself
(`AnnotatedAgrees`: what clients built against it repeat is what its server can stand), and
one accepted change takes nothing away from what a server can stand (`CompatibleExtends`).
Inclusion is transitive, so what holds of neighbours holds over any number of changes; the
invariant adds that the client's method is still there unless it was orphaned, which is
what links a comparison of neighbours to a client many changes old. A value no build knows
is why `Compatible` must refuse it: nothing is known of what it promised.

The argument for the pilots. `PilotInv` says, for one pilot, what its transaction can be at
the place it is (`SessionFits`), how far its report has come (`ReportFits`) and that the
report is true of the target (`ReportIsTrue`). No other pilot can disturb that
(`OthersKeepTheirs`, `Untouched`): pilots meet only in the record, and the record only grows.
Signals only take steps away, so every step is one of `Moves` or changes nothing (`NextMoves`).
`Sourced` links the two: whatever is recorded was reported by a pilot launched under that
nonce, and a job and a report are final (`ReportsAreFinal`). `RecordIsTruthful` follows.
For `AppliedAtMostOnce` it must be shown that of two attempts of one request at most one may
still apply (`CarefulInv`). Only the answer "approved" lets a transaction come into question
(`FetchDecides`), and an attempt that is accounted for and may have applied is on record as
committed or indeterminate, so its request is not approved any more (`AccountedIsSettled`).

The argument for the migrators. Everything rests on the advisory lock: `Within` is where a
session must hold it, a dead one with a COMMIT on its way included, and only that session
changes what is applied or lets go of the lock (`LockProtects`). So what the holder has read
is what is recorded (`UpToDate`), and the next migration of its own release continues it
(`NextIsCarried`, by `PrefixNext`). What migrators and servers have concluded is that their list is a
prefix of what is recorded, which outlasts the lock because the history only grows (`HistoryGrows`,
`PrefixTransitive`). None of this needs the DDL and the row to be one transaction; that what is
recorded is also what is in effect does. `Together` says that, until a migration that commits itself
is in effect (and it stays so, `SchemaGrows`), a migrator about to insert the row or to commit is in a
transaction, which at COMMIT holds both (`TogetherStep`).

The argument for the loader. `LoadedRunsInTransaction` is a statement about one body, of any
length, so its induction is over the turns of the scan, not over steps of `Next`. The library's
induction theorems cannot be used, so `Induction` proves the principle for *sets* of numbers,
and `Loop` that a recursive function over turns exists and does what its definition says.
`stripSQLComments` and PostgreSQL's lexer go through the body side by side (`Together`): at
every turn of the scan the lexer is in text at the same place, or has read a `$` that opens
nothing and is one symbol on, or the end of the body comes first in something that is never
closed. `ScanStep` shows that every turn keeps this, one lemma for each thing a turn may meet
(`LineMet`, `BlockMet`, `QuoteMet`, `DollarMet`, `SymbolMet`), each with the loop inside it
(`BlockEnds` for nested comments, `QuotedEnds` for doubled quotes, `DollarEnds`). What is kept
with it is `Placed`: whatever the scan has written that is no blank belongs to one token of the
lexer, in order, and two identifiers never touch (`StrippedPlaced`). Collapsing blanks keeps the
order (`Collapsed`). So a statement among the tokens is found in the collapsed text with a word
boundary on both sides (`CreateFound`, `ReindexFound`, `ReindexOptionsFound`), and the file is
refused (`Rejected`). A line that PostgreSQL's lexer leaves at a carriage return holds only
blanks up to its end, or the body is not plain (`LineTurn`, `LineRun`). The proof uses the
stripped text alone: within the limits above the scan is never derailed, and searching the raw
text as well, as the code does, is a second net for what lies beyond them.

The argument for the vectors. The induction is over the depth of a value (`AllLevels`), and
again over sets of numbers only. `checkKeys` sees tokens and no tree: `Neutral` says that the
tokens of one value, scanned without an error, leave the stack as they found it but for the
key they answer, so a scan that passes has seen the members of each object on a level of their
own, and each object names documented fields, each once (`Sound`). `checkEscapes` sees symbols
and no strings: after every turn the surrogates before it are paired (`EscapeStep`), and no
escape reaches over a quote (`EscapesWithin`), so no string of a file that loads holds half a
pair. What is left to differ between readers is then gone: they pick among members of which
there is one, fold keys that are all exact, replace nothing, and hold an exact number.
`SayTheSame` goes further: any reader of the file reads what any reader of the marshalled
corpus reads. Validation is why: a field that is there and that marshalling would leave out
because it is empty was refused (`ScopeSays`, `VectorSays`, `CorpusSays`). `OneMeaning` and
`NothingDropped` are both instances of it. `WritesBack` needs the other direction, of every
check: strings without half a pair get past `checkEscapes` whatever is around them
(`TextPasses`), values that do not repeat a field get past `checkKeys` wherever a value may
come (`Clean`, `CleanArray`, `CleanObject`), and each validation accepts what marshalling makes
of what it once accepted, which is then decoded as what was marshalled (`ScopeLoads`,
`VectorLoads`, `CorpusLoads`). `Inv` carries what this takes from one Load to the next: a
corpus in memory is one that validation lets through (`GoodCorpus`), and after Save it is what
the file holds.

Every invariant and action property of a passing run is thus a theorem. Only model-checked is
liveness (`DrainedServiceAnswers`, `AttemptsAreReported`, `MigratorsExit`), which the proof system
does not handle.

## 5. Not modelled

- JSON syntax errors and SQL beyond what a lexer sees: the decoder and the database refuse
  them before, or after, anything these components decide.
- What the loader does not see and the comparison leaves out (section 2): escape strings, `$`
  inside identifiers, dollar tags beyond ASCII words, quoted closing parentheses in the options of a
  REINDEX, and the statements its list of phrases leaves out.
- `buf breaking` is external; only the rule the checks rely on (no method is deleted) is
  there. The shapes of the fields are constants, so that a key's number and type stay what they
  are, which buf sees to, holds of every instance.
- A method that is deleted and later added again is not protected by schemacheck; the source
  leaves that to buf.
- Flags, formatting, logging, `GetVersion`, the skeleton gate: no state.
- Generated code, the website, and what exists only as a decision record.

## 6. Plan

Done: `ControlPlane`, `RequestStore`, `Pilot`, `Migrator`, `MigrationLoader`, `SchemaGate` and
`Conformance` with their proofs. What is left is `Serve`: listener, drain and the ten seconds of
Shutdown, composed with `RequestStore`'s handlers, if the code of later milestones gives them
state.
