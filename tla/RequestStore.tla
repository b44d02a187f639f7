---------------------------- MODULE RequestStore ----------------------------
(***************************************************************************)
(* The Harbourmaster: the API handlers of internal/harbourmaster/api on    *)
(* the store of internal/harbourmaster/store, over PostgreSQL at READ      *)
(* COMMITTED.  A handler is one RPC in progress; each SQL statement it     *)
(* sends is a step, so handlers interleave between statements, a statement *)
(* that needs a row lock waits for it, uncommitted writes are visible to   *)
(* their own transaction alone, and a failure may come at any step.  A      *)
(* handler that dies, or gives up and drops its connection, leaves its      *)
(* session behind in the database, locks and all, until the server notices. *)
(***************************************************************************)
EXTENDS Vocabulary, FiniteSets

CONSTANTS Tenants, References, Keys, Bodies, Approvers, Nonces,
          Stages,     \* stages a wire call may name; the service takes only 1
          Blank,      \* a wire string that is empty once trimmed
          Oversized,  \* a wire string longer than the column's CHECK allows
          Handlers,   \* the RPCs the services can have in progress
          TenantOf,   \* the tenant each handler's service is configured with
          PoolSize,   \* connections in a service's pool (configurePool: 16)
          Mortal      \* (bound) the handlers whose connection may be cut

VARIABLES requests,    \* requests[row]: key and body of a row, or None
          state,       \* state[row]: the state column of that row, or None
          approvals,   \* approvals[row]: rows of the approvals table
          executions,  \* executions[row][nonce]: its report, or None
          rowLock,     \* rowLock[row]: the handler whose transaction holds it
          pc,          \* pc[h]: what the handler does next
          call,        \* call[h]: the call in progress, or the last one if
                       \* it was answered with something to hold it to
          tx,          \* tx[h]: what its transaction read and has written
          answer,      \* answer[h]: what the last call was answered
          link         \* link[h]: its connection: up; cut, with the statement
                       \* it sent last still to be carried out; or just cut

tables == <<requests, state, approvals, executions>>
store == <<requests, state, approvals, executions, rowLock, pc, call, tx, answer>>
vars == <<requests, state, approvals, executions, rowLock, pc, call, tx, answer, link>>

Rows == Tenants \X References

-----------------------------------------------------------------------------
(* The calls a client can send.                                            *)

SubmitCalls == [op : {"submit"}, key : Keys \cup {Blank, Oversized}, body : Bodies]

GetCalls == [op : {"get"}, reference : References]

ApproveCalls == [op : {"approve"}, reference : References,
                 approver : Approvers \cup {Blank, Oversized}, stage : Stages]

RecordCalls == [op : {"record"}, reference : References,
                nonce : Nonces \cup {Blank, Oversized}, report : WireReports]

Calls == SubmitCalls \cup GetCalls \cup ApproveCalls \cup RecordCalls

\* What the service checks before it touches the store.
WellFormed(c) ==
  CASE c.op = "submit"  -> c.key # Blank
    [] c.op = "get"     -> TRUE
    [] c.op = "approve" -> c.approver # Blank /\ c.stage = 1
    [] c.op = "record"  -> /\ c.nonce # Blank
                           /\ c.report.outcome \in Outcomes
                           /\ RowsMatchOutcome(c.report)

\* Mutation: no CHECK on the sign of rows_affected.
FitsSchemaAnySign(c) ==
  CASE c.op = "submit"  -> c.key # Oversized
    [] c.op = "approve" -> c.approver # Oversized
    [] c.op = "record"  -> c.nonce # Oversized /\ RowsMatchOutcome(c.report)

\* The CHECKs of the tables: a row that breaks one fails its statement.
FitsSchema(c) ==
  CASE c.op = "submit"  -> c.key # Oversized
    [] c.op = "approve" -> c.approver # Oversized
    [] c.op = "record"  -> /\ c.nonce # Oversized
                           /\ RowsMatchOutcome(c.report)
                           /\ c.report.rows # None => c.report.rows >= 0

Codes == {"OK", "InvalidArgument", "NotFound", "FailedPrecondition", "Internal"}

Answer(code, ref, st, rep) ==
  [code |-> code, reference |-> ref, state |-> st, report |-> rep]

NoAnswer == Answer(None, None, None, None)

Error(code) == Answer(code, None, None, None)

NoTx == [seen |-> None, reference |-> None, report |-> None, state |-> None]

-----------------------------------------------------------------------------
(* Connections, locks and the row a handler works on.                      *)

\* Mutation: the read-back is asked for before the transaction is closed.
HoldsConnAwaiting(h) ==
  /\ link[h] = "up"
  /\ pc[h] \in {"upsert", "select", "lock", "check", "insert", "update", "commit",
               "reacquire", "readback"}

\* A handler has a connection checked out.  One that is cut counts no longer:
\* the pool discards it, or is gone with the process.
HoldsConn(h) ==
  /\ link[h] = "up"
  /\ pc[h] \in {"upsert", "select", "lock", "check", "insert", "update", "commit",
               "readback"}

FreeConn(h) ==
  Cardinality({g \in Handlers : TenantOf[g] = TenantOf[h] /\ HoldsConn(g)}) < PoolSize

\* The row a transaction works on: every statement names tenant and reference.
Row(h) == <<TenantOf[h], IF call[h].op = "submit" THEN tx[h].reference
                                                  ELSE call[h].reference>>

Exists(row) == requests[row] # None

Unlocked(row) == rowLock[row] = None

Released(h) == [row \in Rows |-> IF rowLock[row] = h THEN None ELSE rowLock[row]]

At(h, label) == pc[h] = label

Goto(h, label) == pc' = [pc EXCEPT ![h] = label]

\* The handler answers.  Its transaction, if open, is over: its locks go.
Return(h, ans) ==
  /\ answer' = [answer EXCEPT ![h] = ans]
  /\ call' = [call EXCEPT ![h] = IF ans.code = "OK" \/ ans.report # None THEN @ ELSE None]
  /\ tx' = [tx EXCEPT ![h] = NoTx]
  /\ rowLock' = Released(h)
  /\ Goto(h, "idle")

-----------------------------------------------------------------------------
Init == /\ requests = [row \in Rows |-> None]
        /\ state = [row \in Rows |-> None]
        /\ approvals = [row \in Rows |-> {}]
        /\ executions = [row \in Rows |-> [n \in Nonces |-> None]]
        /\ rowLock = [row \in Rows |-> None]
        /\ pc = [h \in Handlers |-> "idle"]
        /\ call = [h \in Handlers |-> None]
        /\ tx = [h \in Handlers |-> NoTx]
        /\ answer = [h \in Handlers |-> NoAnswer]
        /\ link = [h \in Handlers |-> "up"]

\* A call arrives.  A malformed one is answered without touching the store.
Start(h, c) ==
  /\ At(h, "idle")
  /\ UNCHANGED <<tables, rowLock, tx>>
  /\ \/ /\ WellFormed(c)
        /\ call' = [call EXCEPT ![h] = c]
        /\ answer' = [answer EXCEPT ![h] = NoAnswer]
        /\ Goto(h, "acquire")
     \/ /\ ~WellFormed(c)
        /\ call' = [call EXCEPT ![h] = None]
        /\ answer' = [answer EXCEPT ![h] = Error("InvalidArgument")]
        /\ UNCHANGED pc

\* The pool hands out a connection; a transaction also sends its BEGIN on it.
Acquire(h) ==
  /\ At(h, "acquire")
  /\ FreeConn(h)
  /\ Goto(h, CASE call[h].op = "submit" -> "upsert"
               [] call[h].op = "get"    -> "select"
               [] call[h].op \in {"approve", "record"} -> "lock")
  /\ UNCHANGED <<tables, rowLock, call, tx, answer>>

-----------------------------------------------------------------------------
(* Submit: one INSERT ... ON CONFLICT (tenant, key) DO UPDATE, in a        *)
(* transaction of its own.                                                 *)

\* Mutation: the key is looked up first and a row inserted if there is none,
\* with no unique index to wait in.
KeyInFlightNot(h) == FALSE

\* Another insertion of this tenant and key has not committed yet; a second
\* one waits for it in the unique index.
KeyInFlight(h) ==
  \E g \in Handlers \ {h} :
    /\ TenantOf[g] = TenantOf[h]
    /\ At(g, "commit") /\ call[g].op = "submit" /\ call[g].key = call[h].key

\* Mutation: ON CONFLICT names the reference, so a colliding row is taken for
\* the caller's own.
HasKeyByReference(h, ref) == Exists(<<TenantOf[h], ref>>)

\* The row of this tenant that holds the key.
HasKey(h, ref) ==
  /\ Exists(<<TenantOf[h], ref>>)
  /\ requests[<<TenantOf[h], ref>>].key = call[h].key

\* The key is taken: the statement locks that row and returns its reference.
UpsertExisting(h) ==
  /\ At(h, "upsert")
  /\ FitsSchema(call[h])
  /\ \E ref \in References :
       /\ HasKey(h, ref)
       /\ Unlocked(<<TenantOf[h], ref>>)
       /\ tx' = [tx EXCEPT ![h].reference = ref]
       /\ rowLock' = [rowLock EXCEPT ![<<TenantOf[h], ref>>] = h]
  /\ Goto(h, "commit")
  /\ UNCHANGED <<tables, call, answer>>

\* The key is free: a row under the random reference, unless it is taken.
UpsertNew(h) ==
  /\ At(h, "upsert")
  /\ FitsSchema(call[h])
  /\ \A ref \in References : ~HasKey(h, ref)
  /\ ~KeyInFlight(h)
  /\ \E ref \in References :
       \/ /\ ~Exists(<<TenantOf[h], ref>>)
          /\ Unlocked(<<TenantOf[h], ref>>)
          /\ tx' = [tx EXCEPT ![h].reference = ref]
          /\ rowLock' = [rowLock EXCEPT ![<<TenantOf[h], ref>>] = h]
          /\ Goto(h, "commit")
          /\ UNCHANGED <<call, answer>>
       \/ /\ Exists(<<TenantOf[h], ref>>)
          /\ Return(h, Error("Internal"))
  /\ UNCHANGED tables

\* A CHECK fails the statement.
UpsertRefused(h) ==
  /\ At(h, "upsert")
  /\ ~FitsSchema(call[h])
  /\ Return(h, Error("Internal"))
  /\ UNCHANGED tables

\* The statement's own transaction commits; the answer may be lost on the way.
CommitSubmit(h) ==
  /\ At(h, "commit") /\ call[h].op = "submit"
  /\ IF Exists(Row(h))
     THEN UNCHANGED <<requests, state>>
     ELSE /\ requests' = [requests EXCEPT ![Row(h)] =
                            [key |-> call[h].key, body |-> call[h].body]]
          /\ state' = [state EXCEPT ![Row(h)] = "pending"]
  /\ UNCHANGED <<approvals, executions>>
  /\ \/ Return(h, Answer("OK", tx[h].reference, None, None))
     \/ Return(h, Error("Internal"))

-----------------------------------------------------------------------------
(* GetRequest, and the read-back that ends Approve and RecordExecution.    *)

\* A plain SELECT: it takes no lock and sees what is committed.
Select(h) ==
  /\ At(h, "select")
  /\ Return(h, IF Exists(Row(h))
               THEN Answer("OK", call[h].reference, state[Row(h)], None)
               ELSE Error("NotFound"))
  /\ UNCHANGED tables

Reacquire(h) ==
  /\ At(h, "reacquire")
  /\ FreeConn(h)
  /\ Goto(h, "readback")
  /\ UNCHANGED <<tables, rowLock, call, tx, answer>>

\* The request as it is NOW, which is later than the commit it reports on.
Readback(h) ==
  /\ At(h, "readback")
  /\ Return(h, IF Exists(Row(h))
               THEN Answer("OK", call[h].reference, state[Row(h)], tx[h].report)
               ELSE Error("NotFound"))
  /\ UNCHANGED tables

-----------------------------------------------------------------------------
(* The transactions of Approve and RecordExecution.                        *)

\* SELECT ... FOR UPDATE finds nothing.
NoSuchRequest(h) ==
  /\ At(h, "lock")
  /\ ~Exists(Row(h))
  /\ Return(h, Error("NotFound"))
  /\ UNCHANGED tables

\* Mutation: the same SELECT without FOR UPDATE.
TakeRowNoLock(h, label) ==
  /\ tx' = [tx EXCEPT ![h].seen = state[Row(h)]]
  /\ Goto(h, label)
  /\ UNCHANGED <<tables, rowLock, call, answer>>

\* SELECT ... FOR UPDATE has the row: this transaction keeps it to its end.
TakeRow(h, label) ==
  /\ Unlocked(Row(h))
  /\ rowLock' = [rowLock EXCEPT ![Row(h)] = h]
  /\ tx' = [tx EXCEPT ![h].seen = state[Row(h)]]
  /\ Goto(h, label)
  /\ UNCHANGED <<tables, call, answer>>

\* The state read forbids the operation; the deferred Rollback ends it.
WrongState(h) ==
  /\ Unlocked(Row(h))
  /\ Return(h, Error("FailedPrecondition"))
  /\ UNCHANGED tables

LockForApprove(h) ==
  /\ At(h, "lock") /\ call[h].op = "approve"
  /\ Exists(Row(h))
  /\ IF state[Row(h)] \in {"pending", "approved"}
     THEN TakeRow(h, "insert")
     ELSE WrongState(h)

\* Mutation: no look at the recorded nonces of a finished request.
LockForRecordUnchecked(h) ==
  /\ At(h, "lock") /\ call[h].op = "record"
  /\ Exists(Row(h))
  /\ IF state[Row(h)] = "pending" THEN WrongState(h) ELSE TakeRow(h, "insert")

LockForRecord(h) ==
  /\ At(h, "lock") /\ call[h].op = "record"
  /\ Exists(Row(h))
  /\ CASE state[Row(h)] = "approved"   -> TakeRow(h, "insert")
       [] state[Row(h)] \in Terminal   -> TakeRow(h, "check")
       [] state[Row(h)] = "pending"    -> WrongState(h)

Stored(h) == executions[Row(h)][call[h].nonce]

\* Mutation: this refusal returns without the deferred Rollback.
CheckNonceKeepsRow(h) ==
  /\ At(h, "check")
  /\ IF call[h].nonce \in Nonces /\ Stored(h) # None
     THEN /\ Goto(h, "insert")
          /\ UNCHANGED <<call, tx, answer>>
     ELSE /\ answer' = [answer EXCEPT ![h] = Error("FailedPrecondition")]
          /\ call' = [call EXCEPT ![h] = None]
          /\ tx' = [tx EXCEPT ![h] = NoTx]
          /\ Goto(h, "idle")
  /\ UNCHANGED <<tables, rowLock>>

\* The request is finished: only a nonce already recorded may be reported.
CheckNonce(h) ==
  /\ At(h, "check")
  /\ IF call[h].nonce \in Nonces /\ Stored(h) # None
     THEN /\ Goto(h, "insert")
          /\ UNCHANGED <<rowLock, call, tx, answer>>
     ELSE Return(h, Error("FailedPrecondition"))
  /\ UNCHANGED tables

\* A row lock the statement needs is not held by another transaction: the
\* foreign key of an INSERT and the UPDATE itself both need it.
MayTouch(h) == rowLock[Row(h)] \in {None, h}

InsertRefused(h) ==
  /\ At(h, "insert")
  /\ ~FitsSchema(call[h])
  /\ Return(h, Error("Internal"))
  /\ UNCHANGED tables

InsertApproval(h) ==
  /\ At(h, "insert") /\ call[h].op = "approve"
  /\ FitsSchema(call[h])
  /\ MayTouch(h)
  /\ Goto(h, "update")
  /\ UNCHANGED <<tables, rowLock, call, tx, answer>>

\* What RETURNING yields: the row already there, or the one just inserted.
Returned(h) == IF Stored(h) # None THEN Stored(h) ELSE call[h].report

\* The refusal of a repeat: it says which outcome and count are recorded.
Contradicted(h) == Answer("FailedPrecondition", None, None, Returned(h))

\* Mutation: an agreeing repeat moves the state of a finished request too.
InsertExecutionAckMoves(h) ==
  /\ At(h, "insert") /\ call[h].op = "record"
  /\ FitsSchema(call[h])
  /\ MayTouch(h)
  /\ IF Returned(h) # call[h].report
     THEN Return(h, Contradicted(h))
     ELSE /\ tx' = [tx EXCEPT ![h].report = Returned(h)]
          /\ Goto(h, "update")
          /\ UNCHANGED <<rowLock, call, answer>>
  /\ UNCHANGED tables

\* Mutation: a repeat that contradicts what is stored is acknowledged.
InsertExecutionAnyRepeat(h) ==
  /\ At(h, "insert") /\ call[h].op = "record"
  /\ FitsSchema(call[h])
  /\ MayTouch(h)
  /\ tx' = [tx EXCEPT ![h].report = Returned(h)]
  /\ Goto(h, IF tx[h].seen = "approved" THEN "update" ELSE "commit")
  /\ UNCHANGED <<tables, rowLock, call, answer>>

\* Mutation: ON CONFLICT DO UPDATE overwrites the outcome with the new one.
InsertExecutionOverwrites(h) ==
  /\ At(h, "insert") /\ call[h].op = "record"
  /\ FitsSchema(call[h])
  /\ MayTouch(h)
  /\ tx' = [tx EXCEPT ![h].report = call[h].report]
  /\ Goto(h, IF tx[h].seen = "approved" THEN "update" ELSE "commit")
  /\ UNCHANGED <<tables, rowLock, call, answer>>

\* A repeat that contradicts the stored report is refused and told what that
\* says; one that agrees on a finished request is acknowledged without moving its state.
InsertExecution(h) ==
  /\ At(h, "insert") /\ call[h].op = "record"
  /\ FitsSchema(call[h])
  /\ MayTouch(h)
  /\ IF Returned(h) # call[h].report
     THEN Return(h, Contradicted(h))
     ELSE /\ tx' = [tx EXCEPT ![h].report = Returned(h)]
          /\ Goto(h, IF tx[h].seen = "approved" THEN "update" ELSE "commit")
          /\ UNCHANGED <<rowLock, call, answer>>
  /\ UNCHANGED tables

\* UPDATE requests SET state: unconditional, it relies on the lock.
Update(h) ==
  /\ At(h, "update")
  /\ MayTouch(h)
  /\ rowLock' = [rowLock EXCEPT ![Row(h)] = h]
  /\ tx' = [tx EXCEPT ![h].state = IF call[h].op = "approve" THEN "approved"
                                   ELSE NextState(tx[h].report.outcome)]
  /\ Goto(h, "commit")
  /\ UNCHANGED <<tables, call, answer>>

\* The COMMIT took effect: locks and connection go.  The handler hears of it
\* and goes on to the read-back, or does not and answers an error.
Committed(h) ==
  \/ /\ rowLock' = Released(h)
     /\ tx' = [tx EXCEPT ![h].seen = None, ![h].state = None]
     /\ Goto(h, "reacquire")
     /\ UNCHANGED <<call, answer>>
  \/ Return(h, Error("Internal"))

CommitApproval(h) ==
  /\ At(h, "commit") /\ call[h].op = "approve"
  /\ approvals' = [approvals EXCEPT ![Row(h)] =
                     @ \cup {<<call[h].stage, call[h].approver>>}]
  /\ state' = [state EXCEPT ![Row(h)] = tx[h].state]
  /\ UNCHANGED <<requests, executions>>
  /\ Committed(h)

CommitExecution(h) ==
  /\ At(h, "commit") /\ call[h].op = "record"
  /\ executions' = [executions EXCEPT ![Row(h)][call[h].nonce] = tx[h].report]
  /\ state' = [state EXCEPT ![Row(h)] = IF tx[h].state = None THEN @ ELSE tx[h].state]
  /\ UNCHANGED <<requests, approvals>>
  /\ Committed(h)

-----------------------------------------------------------------------------
\* Mutation: the error of a COMMIT is dropped (`_ = tx.Commit()`), so a
\* transaction that rolled back goes on to its read-back.
FailCommitIgnored(h) ==
  /\ pc[h] # "idle"
  /\ IF At(h, "commit") /\ call[h].op # "submit"
     THEN /\ rowLock' = Released(h)
          /\ Goto(h, "reacquire")
          /\ UNCHANGED <<call, tx, answer>>
     ELSE Return(h, Error("Internal"))
  /\ UNCHANGED tables

\* Wherever it is, the call fails and its transaction is over: the database
\* errs, or the handler gives up and its ROLLBACK is carried out.
Fail(h) ==
  /\ pc[h] # "idle"
  /\ Return(h, Error("Internal"))
  /\ UNCHANGED tables

\* The statements of the transactions that take locks and write.
Transaction(h) ==
  \/ UpsertExisting(h) \/ UpsertNew(h) \/ UpsertRefused(h) \/ CommitSubmit(h)
  \/ NoSuchRequest(h) \/ LockForApprove(h) \/ LockForRecord(h) \/ CheckNonce(h)
  \/ InsertRefused(h) \/ InsertApproval(h) \/ InsertExecution(h) \/ Update(h)
  \/ CommitApproval(h) \/ CommitExecution(h)

\* What handler h does on its own once a call has arrived.
Progress(h) ==
  \/ Acquire(h) \/ Select(h) \/ Transaction(h) \/ Reacquire(h) \/ Readback(h)

Step(h) == (\E c \in Calls : Start(h, c)) \/ Progress(h) \/ Fail(h)

\* The process of a handler dies in a transaction, or a cancelled context makes
\* it drop its connection there: the session stays behind in the database, with
\* its locks and perhaps a statement still to be carried out.
Cut(h) ==
  /\ h \in Mortal /\ link[h] = "up"
  /\ pc[h] \in {"upsert", "lock", "check", "insert", "update", "commit"}
  /\ link' = [link EXCEPT ![h] = "sent"]
  /\ UNCHANGED store

\* The statement sent last is carried out all the same (the COMMIT, or a Submit,
\* which is a transaction by itself); nobody hears of it, none follows it.
CarryOut(h) ==
  /\ link[h] = "sent"
  /\ Transaction(h)
  /\ pc'[h] # "reacquire" /\ (pc'[h] = "idle" => answer'[h] = Error("Internal"))
  /\ link' = [link EXCEPT ![h] = IF pc'[h] = "idle" THEN "up"
                                 ELSE IF call[h].op = "submit" THEN "sent" ELSE "cut"]

\* The server notices that the client is gone, and ends the session.
EndSession(h) ==
  /\ link[h] # "up"
  /\ Fail(h)
  /\ link' = [link EXCEPT ![h] = "up"]

Next == \E h \in Handlers :
          \/ link[h] = "up" /\ Step(h) /\ UNCHANGED link
          \/ Cut(h) \/ CarryOut(h) \/ EndSession(h)

Spec == Init /\ [][Next]_vars

\* A handler that is there takes its next step if that stays possible: a free
\* connection is handed out, and the database answers a statement that waits for
\* nobody.  No more is assumed of the queues: database/sql picks any waiter.
Fairness == \A h \in Handlers : WF_vars(link[h] = "up" /\ Progress(h) /\ UNCHANGED link)

FairSpec == Spec /\ Fairness

-----------------------------------------------------------------------------
(* Properties.                                                             *)

Plane == INSTANCE ControlPlane WITH
  requests <- requests, approvals <- approvals, executions <- executions

Labels == {"idle", "acquire", "upsert", "select", "lock", "check", "insert",
           "update", "commit", "reacquire", "readback"}

Transactions == [seen : States \cup {None}, reference : References \cup {None},
                 report : Reports \cup {None}, state : States \cup {None}]

Answers == [code : Codes \cup {None}, reference : References \cup {None},
            state : States \cup {None}, report : Reports \cup {None}]

Links == {"up", "sent", "cut"}

StoreOK ==
  /\ requests \in [Rows -> [key : Keys, body : Bodies] \cup {None}]
  /\ state \in [Rows -> States \cup {None}]
  /\ approvals \in [Rows -> SUBSET ({1} \X Approvers)]
  /\ executions \in [Rows -> [Nonces -> Reports \cup {None}]]
  /\ rowLock \in [Rows -> Handlers \cup {None}]
  /\ pc \in [Handlers -> Labels]
  /\ call \in [Handlers -> Calls \cup {None}]
  /\ tx \in [Handlers -> Transactions]
  /\ answer \in [Handlers -> Answers]

\* Every variable has its type; in particular no stored report breaks the
\* biconditional on rows_affected or carries a negative count.
TypeOK == StoreOK /\ link \in [Handlers -> Links]

\* The state column, which Approve and RecordExecution write unconditionally
\* after reading it under a lock, is at all times what the recorded approvals
\* and executions say it is: no lost update, no un-executing a request.
StateMatchesLedger == \A row \in Rows : state[row] = Plane!Status(row)

Settling(row) == {n \in Nonces : /\ executions[row][n] # None
                                 /\ executions[row][n].outcome \notin Clean}

\* At most one attempt of a request is ever recorded as committed or of
\* unknown outcome, whatever the Pilots report and in whatever order: one
\* approval does not cover a second execution.
AtMostOneSettlement ==
  \A row \in Rows : \A m, n \in Settling(row) : m = n

\* In one tenant an idempotency key names one request, also when two Submits
\* of it race before either has inserted.
KeyNamesOneRequest ==
  \A t \in Tenants : \A r1, r2 \in References :
    /\ Exists(<<t, r1>>) /\ Exists(<<t, r2>>)
    /\ requests[<<t, r1>>].key = requests[<<t, r2>>].key
    => r1 = r2

\* What is recorded stays as it is: no request, approval or execution is
\* altered or removed, and a finished request keeps its state.
HistoryImmutable ==
  [][\A row \in Rows :
       /\ requests[row] # None => requests'[row] = requests[row]
       /\ approvals[row] \subseteq approvals'[row]
       /\ \A n \in Nonces :
            executions[row][n] # None => executions'[row][n] = executions[row][n]
       /\ state[row] \in Terminal => state'[row] = state[row]]_vars

\* A state answered is one the request has passed through.
Reached(row, st) ==
  CASE st = "pending"  -> Exists(row)
    [] st = "approved" -> state[row] \in {"approved"} \cup Terminal
    [] st \in Terminal -> state[row] = st

SubmitHolds(h, ans) ==
  /\ Exists(<<TenantOf[h], ans.reference>>)
  /\ requests[<<TenantOf[h], ans.reference>>].key = call[h].key

ApproveHolds(h, ans) ==
  /\ <<call[h].stage, call[h].approver>> \in approvals[Row(h)]
  /\ ans.state # "pending" /\ Reached(Row(h), ans.state)

RecordHolds(h, ans) ==
  /\ ans.report = call[h].report
  /\ Stored(h) = call[h].report
  /\ IF ans.report.outcome \in Clean
     THEN ans.state # "pending" /\ Reached(Row(h), ans.state)
     ELSE ans.state = NextState(ans.report.outcome) /\ state[Row(h)] = ans.state

AnswerHolds(h) ==
  CASE call[h].op = "submit"  -> SubmitHolds(h, answer[h])
    [] call[h].op = "get"     -> Reached(Row(h), answer[h].state)
    [] call[h].op = "approve" -> ApproveHolds(h, answer[h])
    [] call[h].op = "record"  -> RecordHolds(h, answer[h])

\* What a refusal says of the record: this nonce is stored, with that report,
\* and it is not the one sent.
RefusalHolds(h) == Stored(h) = answer[h].report /\ answer[h].report # call[h].report

IsContradiction(h) == answer[h].code = "FailedPrecondition" /\ answer[h].report # None

\* An answer is the truth and stays it, though commit and read-back are
\* different transactions: OK, and the request submitted is there under its key,
\* the approval is recorded, the report is stored as sent and the state answered
\* has been reached; a repeat refused, and what it was told is recorded of its
\* nonce is.  (A handler keeps its answer until its next call.)
AnswersHold == \A h \in Handlers :
                 /\ answer[h].code = "OK" => AnswerHolds(h)
                 /\ IsContradiction(h) => RefusalHolds(h)

\* No step starts a call.
NoCallStarts == \A h \in Handlers : At(h, "idle") => At(h, "idle")'

\* A service that takes no more calls answers all it has: once no call comes in
\* any more, and if the server ends every session whose client is gone, no
\* handler waits forever for a connection or for a row.  (While calls keep
\* coming one may lose to them each time; a session the server never gives up
\* keeps its row.  No handler has a deadline or a lock_timeout.)
DrainedServiceAnswers ==
  <>[][NoCallStarts]_vars /\ (\A h \in Handlers : []<>(link[h] = "up"))
  => \A h \in Handlers : pc[h] # "idle" ~> pc[h] = "idle"

\* Handler h waits for a connection, and g has one of its pool.
WaitsForConn(h, g) ==
  /\ pc[h] \in {"acquire", "reacquire"} /\ ~FreeConn(h)
  /\ TenantOf[g] = TenantOf[h] /\ HoldsConn(g)

\* It waits for a row that the transaction of g has locked: the one its call
\* names, or, for a Submit, the one with its key or under its new reference.
WaitsForRow(h, g) ==
  /\ g # h
  /\ \/ /\ pc[h] \in {"lock", "insert", "update"}
        /\ Exists(Row(h)) /\ rowLock[Row(h)] = g
     \/ /\ At(h, "upsert") /\ FitsSchema(call[h])
        /\ \E ref \in References :
             /\ HasKey(h, ref) \/ ~Exists(<<TenantOf[h], ref>>)
             /\ rowLock[<<TenantOf[h], ref>>] = g

\* It waits in the unique index for g to commit or roll back the same key.
WaitsForKey(h, g) ==
  /\ At(h, "upsert") /\ FitsSchema(call[h])
  /\ g # h /\ TenantOf[g] = TenantOf[h]
  /\ At(g, "commit") /\ call[g].op = "submit" /\ call[g].key = call[h].key

Waits(h, g) == WaitsForConn(h, g) \/ WaitsForRow(h, g) \/ WaitsForKey(h, g)

\* Handlers never wait for each other in a circle, nor for one that is done: a
\* handler may wait for a connection, its owner for a row or a key, and who has
\* that waits for nobody.  (One connection at a time, one row per transaction,
\* and the transaction is over before the read-back asks for a connection.)
WaitsEnd ==
  \A h, g \in Handlers : Waits(h, g) =>
    /\ pc[g] # "idle"
    /\ \A k \in Handlers : Waits(g, k) => \A m \in Handlers : ~Waits(k, m)

\* The handlers implement the record of ControlPlane: each commit is one of
\* its operations, allowed when it happens, and nothing else changes it.
ImplementsControlPlane == Plane!Spec

-----------------------------------------------------------------------------
(* Why the properties hold: what is true of the tables and of every open   *)
(* transaction between any two statements.  This is the inductive          *)
(* invariant of RequestStore_proofs and Answers_proofs, checked here too.  *)

\* The control points of a transaction that owns its row.
Owning == {"check", "insert", "update", "commit"}

OwnsRow(h) == pc[h] \in Owning => rowLock[Row(h)] = h

\* And nobody else does: a lock is never left behind by a transaction that is
\* over, however it ended.
LocksInUse == \A row \in Rows : rowLock[row] # None => pc[rowLock[row]] \in Owning

\* A handler is at a control point of the call it is working on, and past the
\* INSERT only with a row the schema takes.
CallAgrees(h) ==
  pc[h] # "idle" =>
    /\ call[h] \in Calls /\ WellFormed(call[h])
    /\ pc[h] = "upsert" => call[h].op = "submit"
    /\ pc[h] = "select" => call[h].op = "get"
    /\ pc[h] = "check" => call[h].op = "record"
    /\ pc[h] \in {"lock", "insert", "update", "reacquire", "readback"} =>
         call[h].op \in {"approve", "record"}
    /\ pc[h] = "commit" => call[h].op \in {"submit", "approve", "record"}
    /\ pc[h] \in {"update", "commit"} => FitsSchema(call[h])

\* An INSERT of a request found the key's row, or nobody else has the key.
SubmitStaged(h) ==
  At(h, "commit") /\ call[h].op = "submit" =>
    /\ tx[h].reference \in References
    /\ \/ HasKey(h, tx[h].reference)
       \/ /\ ~Exists(Row(h))
          /\ \A ref \in References : ~HasKey(h, ref)
          /\ ~KeyInFlight(h)

\* The state an approval found is still the row's.
ApprovalStaged(h) ==
  pc[h] \in Owning /\ call[h].op = "approve" =>
    /\ state[Row(h)] \in {"pending", "approved"}
    /\ pc[h] = "commit" => tx[h].state = "approved"

\* So is the state a report found, and what RETURNING yielded; a finished
\* request gets here only with a nonce it has, and will not be moved.
ExecutionStaged(h) ==
  pc[h] \in Owning /\ call[h].op = "record" =>
    /\ tx[h].seen = state[Row(h)]
    /\ state[Row(h)] \in {"approved"} \cup Terminal
    /\ pc[h] = "check" => state[Row(h)] \in Terminal
    /\ pc[h] # "check" /\ state[Row(h)] \in Terminal =>
         call[h].nonce \in Nonces /\ Stored(h) # None
    /\ pc[h] = "update" => state[Row(h)] = "approved"
    /\ pc[h] \in {"update", "commit"} =>
         tx[h].report = call[h].report /\ Returned(h) = call[h].report
    /\ pc[h] = "commit" =>
         tx[h].state = IF state[Row(h)] = "approved"
                       THEN NextState(call[h].report.outcome) ELSE None

\* Only a transaction about to commit has written a state.
WritesLast(h) == pc[h] # "commit" => tx[h].state = None

\* Approvals and executions are of requests: the foreign keys.
NoOrphans ==
  \A row \in Rows : requests[row] = None =>
    approvals[row] = {} /\ \A n \in Nonces : executions[row][n] = None

HandlerInv(h) == /\ OwnsRow(h) /\ CallAgrees(h) /\ WritesLast(h)
                 /\ SubmitStaged(h) /\ ApprovalStaged(h) /\ ExecutionStaged(h)

TableInv == StateMatchesLedger /\ AtMostOneSettlement /\ KeyNamesOneRequest /\ NoOrphans

\* Every open transaction owns its row, what it read of the row is still so,
\* and what it is about to commit is what ControlPlane allows in that state.
IndInv == StoreOK /\ TableInv /\ \A h \in Handlers : HandlerInv(h)

\* Between the commit and the read-back, what was committed stays.
CommitStands(h) ==
  pc[h] \in {"reacquire", "readback"} =>
    /\ FitsSchema(call[h])
    /\ call[h].op = "approve" =>
         /\ <<call[h].stage, call[h].approver>> \in approvals[Row(h)]
         /\ state[Row(h)] \in {"approved"} \cup Terminal
    /\ call[h].op = "record" =>
         /\ tx[h].report = call[h].report /\ Stored(h) = call[h].report
         /\ state[Row(h)] \in {"approved"} \cup Terminal
         /\ call[h].report.outcome \notin Clean =>
              state[Row(h)] = NextState(call[h].report.outcome)

\* An answer is to a call that is over, and names what it answers.
AnswerFits(h) ==
  /\ answer[h].code = "OK" =>
       /\ pc[h] = "idle" /\ call[h] \in Calls /\ WellFormed(call[h])
       /\ call[h].op # "get" => FitsSchema(call[h])
       /\ IF call[h].op = "submit" THEN answer[h].reference \in References
                                   ELSE answer[h].state \in States
  /\ IsContradiction(h) =>
       /\ pc[h] = "idle" /\ call[h] \in Calls /\ WellFormed(call[h])
       /\ call[h].op = "record" /\ FitsSchema(call[h])

\* The whole inductive invariant.  While a transaction is open its row is its
\* own and what it read of it is still so; between its commit and its read-back,
\* which are different transactions, what it committed still stands; and an
\* answer stays true.
AnswerInv ==
  IndInv /\ AnswersHold /\ \A h \in Handlers : CommitStands(h) /\ AnswerFits(h)

-----------------------------------------------------------------------------
ASSUME StoreAssumption ==
  /\ TenantOf \in [Handlers -> Tenants]
  /\ PoolSize \in Nat \ {0}
  /\ Stages \subseteq Nat
  /\ Blank # Oversized
  /\ {Blank, Oversized} \cap (Keys \cup Approvers \cup Nonces) = {}
  /\ None \notin Handlers
  /\ None \notin [key : Keys, body : Bodies]
  /\ None \notin Codes
=============================================================================
