------------------------ MODULE RequestStore_proofs -------------------------
(***************************************************************************)
(* Proofs about RequestStore: IndInv is an inductive invariant, for every  *)
(* number of tenants, references, handlers and connections, and the record *)
(* it keeps is right.                                                      *)
(***************************************************************************)
EXTENDS RequestStore, TLAPS

-----------------------------------------------------------------------------
(* The data.                                                               *)

\* What the fields of a call of each kind are.
LEMMA CallFields ==
  ASSUME NEW c \in Calls
  PROVE  /\ c.op \in {"submit", "get", "approve", "record"}
         /\ c.op = "submit"  => /\ c.key \in Keys \cup {Blank, Oversized}
                                /\ c.body \in Bodies
         /\ c.op = "get"     => c.reference \in References
         /\ c.op = "approve" => /\ c.reference \in References
                                /\ c.approver \in Approvers \cup {Blank, Oversized}
                                /\ c.stage \in Stages
         /\ c.op = "record"  => /\ c.reference \in References
                                /\ c.nonce \in Nonces \cup {Blank, Oversized}
                                /\ c.report \in WireReports
  BY DEF Calls, SubmitCalls, GetCalls, ApproveCalls, RecordCalls

\* A call the service takes and the schema fits has fields the tables can hold.
LEMMA StorableCall ==
  ASSUME NEW c \in Calls, WellFormed(c), c.op # "get", FitsSchema(c)
  PROVE  /\ c.op = "submit"  => c.key \in Keys
         /\ c.op = "approve" => c.stage = 1 /\ c.approver \in Approvers
         /\ c.op = "record"  => c.nonce \in Nonces /\ c.report \in Reports
  BY CallFields DEF WellFormed, FitsSchema, Reports

\* A stored report is a record, with an outcome that has a state of its own.
LEMMA StorableReport ==
  ASSUME NEW r \in Reports
  PROVE  /\ r # None
         /\ r.outcome \in Outcomes
         /\ NextState(r.outcome) \in {"approved"} \cup Terminal
         /\ NextState(r.outcome) = "approved" <=> r.outcome \in Clean
  BY VocabularyAssumption DEF Reports, NextState, Outcomes, Clean, Terminal

\* What a transaction notes down keeps it one.
LEMMA TransactionFields ==
  ASSUME NEW t \in Transactions, NEW st \in States \cup {None},
         NEW rep \in Reports \cup {None}
  PROVE  /\ [t EXCEPT !.seen = st] \in Transactions
         /\ [t EXCEPT !.state = st] \in Transactions
         /\ [t EXCEPT !.report = rep] \in Transactions
  BY DEF Transactions

\* The row a handler works on.
LEMMA RowOfHandler ==
  ASSUME NEW h \in Handlers, call[h] \in Calls,
         call[h].op = "submit" => tx[h].reference \in References
  PROVE  Row(h) \in Rows
  BY CallFields, StoreAssumption DEF Row, Rows

-----------------------------------------------------------------------------
(* Dead sessions.  Whether the client of a session is still there changes   *)
(* nothing of what its steps do to the rest, so what follows is about steps *)
(* of handlers, connections aside.                                          *)

Moves == \E h \in Handlers : Step(h)

\* A session without its client does what a handler may do: the statement it
\* was sent last, or a failure.
LEMMA NextMoves ==
  [Next]_vars => [Moves]_store
<1> SUFFICES ASSUME [Next]_vars PROVE Moves \/ UNCHANGED store
  OBVIOUS
<1>1. CASE UNCHANGED vars
  BY <1>1 DEF vars, store
<1>2. ASSUME NEW h \in Handlers, Step(h) \/ Cut(h) \/ CarryOut(h) \/ EndSession(h)
      PROVE  Moves \/ UNCHANGED store
  BY <1>2 DEF Moves, Step, Progress, Cut, CarryOut, EndSession
<1> QED
  BY <1>1, <1>2 DEF Next

-----------------------------------------------------------------------------
(* Steps of one handler, seen by the others.                               *)

\* Nothing of the handlers but h changes.
OthersKeep(h) ==
  \A g \in Handlers \ {h} : pc'[g] = pc[g] /\ call'[g] = call[g] /\ tx'[g] = tx[g]

\* A lock another handler holds stays with it.
LocksKeep(h) ==
  \A row \in Rows, g \in Handlers \ {h} : rowLock[row] = g => rowLock'[row] = g

\* Handler h begins to commit a submission only if no other handler is about
\* to insert a row for the same key.
NoRivalSubmission(h) ==
  /\ pc'[h] = "commit" /\ call'[h].op = "submit"
  => /\ call'[h] = call[h]
     /\ \/ pc[h] = "commit"
        \/ \A g \in Handlers \ {h} :
             /\ TenantOf[g] = TenantOf[h] /\ At(g, "commit") /\ call[g].op = "submit"
             /\ call[g].key = call[h].key
             => HasKey(g, tx[g].reference)

\* A transaction owns a row of the table.
LEMMA OwnedRow ==
  ASSUME StoreOK, NEW h \in Handlers, HandlerInv(h), pc[h] \in Owning
  PROVE  Row(h) \in Rows /\ rowLock[Row(h)] = h /\ call[h] \in Calls
<1>1. call[h] \in Calls
  BY DEF HandlerInv, CallAgrees, Owning
<1>2. call[h].op = "submit" => tx[h].reference \in References
  BY DEF HandlerInv, CallAgrees, SubmitStaged, Owning, At
<1>3. QED
  BY <1>1, <1>2, RowOfHandler DEF HandlerInv, OwnsRow

\* A step that writes no table leaves the invariants of the others alone.
LEMMA QuietStep ==
  ASSUME IndInv, NEW h \in Handlers, UNCHANGED tables,
         OthersKeep(h), LocksKeep(h), NoRivalSubmission(h),
         NEW g \in Handlers \ {h}
  PROVE  HandlerInv(g)'
<1>1. HandlerInv(g) /\ StoreOK
  BY DEF IndInv
<1>2. pc'[g] = pc[g] /\ call'[g] = call[g] /\ tx'[g] = tx[g]
  BY DEF OthersKeep
<1>3. Row(g)' = Row(g)
  BY <1>2 DEF Row
<1>4. OwnsRow(g)'
  BY <1>1, <1>2, <1>3, OwnedRow DEF OwnsRow, LocksKeep
<1>5. CallAgrees(g)' /\ WritesLast(g)'
  BY <1>1, <1>2 DEF HandlerInv, CallAgrees, WritesLast
<1>6. ASSUME At(g, "commit"), call[g].op = "submit", ~HasKey(g, tx[g].reference),
             KeyInFlight(g)'
      PROVE  KeyInFlight(g)
  BY <1>2, <1>6 DEF KeyInFlight, At, OthersKeep, NoRivalSubmission
<1>7. SubmitStaged(g)'
  BY <1>1, <1>2, <1>3, <1>6 DEF HandlerInv, SubmitStaged, At, HasKey, Exists, tables
<1>8. ApprovalStaged(g)'
  BY <1>1, <1>2, <1>3 DEF HandlerInv, ApprovalStaged, tables
<1>9. ExecutionStaged(g)'
  BY <1>1, <1>2, <1>3 DEF HandlerInv, ExecutionStaged, Returned, Stored, tables
<1>10. QED
  BY <1>4, <1>5, <1>7, <1>8, <1>9 DEF HandlerInv

\* What TableInv says is about the tables alone.
LEMMA QuietTables ==
  ASSUME TableInv, UNCHANGED tables
  PROVE  TableInv'
  BY DEF TableInv, StateMatchesLedger, AtMostOneSettlement, KeyNamesOneRequest,
         NoOrphans, Settling, Exists, tables, Plane!Status, Plane!Recorded

\* So a step that writes no table has to be looked at for its own handler only.
LEMMA QuietQED ==
  ASSUME IndInv, NEW h \in Handlers, UNCHANGED tables,
         OthersKeep(h), LocksKeep(h), NoRivalSubmission(h),
         StoreOK', HandlerInv(h)'
  PROVE  IndInv'
<1>1. TableInv'
  BY QuietTables DEF IndInv
<1>2. ASSUME NEW g \in Handlers PROVE HandlerInv(g)'
  BY QuietStep
<1>3. QED
  BY <1>1, <1>2 DEF IndInv

-----------------------------------------------------------------------------
(* Answering a call, whatever the tables do.                               *)

LEMMA ReturnLocal ==
  ASSUME StoreOK, NEW h \in Handlers, NEW ans \in Answers, Return(h, ans)
  PROVE  /\ HandlerInv(h)'
         /\ OthersKeep(h) /\ LocksKeep(h) /\ NoRivalSubmission(h)
         /\ rowLock' \in [Rows -> Handlers \cup {None}]
         /\ pc' \in [Handlers -> Labels]
         /\ call' \in [Handlers -> Calls \cup {None}]
         /\ tx' \in [Handlers -> Transactions]
         /\ answer' \in [Handlers -> Answers]
<1>1. pc'[h] = "idle" /\ tx'[h] = NoTx
  BY DEF StoreOK, Return, Goto
<1>2. HandlerInv(h)'
  BY <1>1 DEF HandlerInv, OwnsRow, CallAgrees, WritesLast, SubmitStaged, ApprovalStaged,
              ExecutionStaged, Owning, At, NoTx
<1>3. OthersKeep(h) /\ NoRivalSubmission(h)
  BY <1>1 DEF StoreOK, Return, Goto, OthersKeep, NoRivalSubmission
<1>4. LocksKeep(h)
  BY StoreAssumption DEF StoreOK, Return, Released, LocksKeep
<1>5. /\ rowLock' \in [Rows -> Handlers \cup {None}]
      /\ answer' \in [Handlers -> Answers]
  BY DEF StoreOK, Return, Released
<1>6. pc' \in [Handlers -> Labels]
  BY DEF StoreOK, Return, Goto, Labels
<1>7. call' \in [Handlers -> Calls \cup {None}]
  BY DEF StoreOK, Return
<1>8. tx' \in [Handlers -> Transactions]
  BY DEF StoreOK, Return, NoTx, Transactions
<1>9. QED
  BY <1>2, <1>3, <1>4, <1>5, <1>6, <1>7, <1>8

LEMMA ReturnQuiet ==
  ASSUME IndInv, NEW h \in Handlers, NEW ans \in Answers,
         Return(h, ans), UNCHANGED tables
  PROVE  IndInv'
<1>1. StoreOK
  BY DEF IndInv
<1>2. StoreOK'
  BY <1>1, ReturnLocal DEF StoreOK, tables
<1>3. QED
  BY <1>1, <1>2, ReturnLocal, QuietQED

LEMMA ErrorAnswer ==
  ASSUME NEW code \in Codes
  PROVE  Error(code) \in Answers
  BY DEF Error, Answer, Answers

-----------------------------------------------------------------------------
(* One lemma per operation: it preserves the inductive invariant.          *)

LEMMA FailStep ==
  ASSUME IndInv, NEW h \in Handlers, Fail(h)
  PROVE  IndInv'
<1>1. "Internal" \in Codes
  BY DEF Codes
<1>2. QED
  BY <1>1, ErrorAnswer, ReturnQuiet DEF Fail

LEMMA StartStep ==
  ASSUME IndInv, NEW h \in Handlers, NEW c \in Calls, Start(h, c)
  PROVE  IndInv'
<1>1. StoreOK /\ HandlerInv(h) /\ pc[h] = "idle" /\ UNCHANGED <<tables, rowLock, tx>>
  BY DEF IndInv, Start, At
<1>2. CASE ~WellFormed(c)
  <2>1. Error("InvalidArgument") \in Answers
    BY ErrorAnswer DEF Codes
  <2>2. StoreOK'
    BY <1>1, <1>2, <2>1 DEF StoreOK, Start, tables
  <2>3. pc'[h] = "idle"
    BY <1>1, <1>2 DEF Start
  <2>4. HandlerInv(h)'
    BY <1>1, <2>3 DEF HandlerInv, OwnsRow, CallAgrees, WritesLast, SubmitStaged,
                      ApprovalStaged, ExecutionStaged, Owning, At
  <2>5. OthersKeep(h) /\ LocksKeep(h) /\ NoRivalSubmission(h)
    BY <1>1, <1>2, <2>3 DEF StoreOK, Start, OthersKeep, LocksKeep, NoRivalSubmission
  <2>6. QED
    BY <1>1, <2>2, <2>4, <2>5, QuietQED
<1>3. CASE WellFormed(c)
  <2>1. NoAnswer \in Answers
    BY DEF NoAnswer, Answer, Answers
  <2>2. /\ call' = [call EXCEPT ![h] = c]
        /\ answer' = [answer EXCEPT ![h] = NoAnswer]
        /\ pc' = [pc EXCEPT ![h] = "acquire"]
    BY <1>3 DEF Start, Goto
  <2>3. StoreOK'
    BY <1>1, <2>1, <2>2 DEF StoreOK, tables, Labels
  <2>4. pc'[h] = "acquire" /\ call'[h] = c
    BY <1>1, <2>2 DEF StoreOK
  <2>5. HandlerInv(h)'
    BY <1>1, <1>3, <2>4 DEF HandlerInv, OwnsRow, CallAgrees, WritesLast, SubmitStaged,
                      ApprovalStaged, ExecutionStaged, Owning, At
  <2>6. OthersKeep(h) /\ LocksKeep(h) /\ NoRivalSubmission(h)
    BY <1>1, <2>2, <2>4 DEF StoreOK, OthersKeep, LocksKeep, NoRivalSubmission
  <2>7. QED
    BY <1>1, <2>3, <2>5, <2>6, QuietQED
<1>4. QED
  BY <1>2, <1>3

\* A step that moves the handler to a place where its transaction owns nothing.
LEMMA AcquireStep ==
  ASSUME IndInv, NEW h \in Handlers, Acquire(h)
  PROVE  IndInv'
<1>1. StoreOK /\ HandlerInv(h) /\ pc[h] = "acquire"
  BY DEF IndInv, Acquire, At
<1>2. call[h] \in Calls /\ call[h].op \in {"submit", "get", "approve", "record"}
  BY <1>1, CallFields DEF HandlerInv, CallAgrees
<1>3. pc'[h] = CASE call[h].op = "submit" -> "upsert"
                 [] call[h].op = "get"    -> "select"
                 [] call[h].op \in {"approve", "record"} -> "lock"
  BY <1>1 DEF Acquire, Goto, StoreOK
<1>4. /\ pc'[h] \in {"upsert", "select", "lock"}
      /\ pc'[h] = "upsert" => call[h].op = "submit"
      /\ pc'[h] = "select" => call[h].op = "get"
      /\ pc'[h] = "lock" => call[h].op \in {"approve", "record"}
  BY <1>2, <1>3
<1>5. StoreOK'
  BY <1>1, <1>3, <1>4 DEF StoreOK, Acquire, Goto, tables, Labels
<1>6. HandlerInv(h)'
  BY <1>1, <1>4 DEF Acquire, HandlerInv, OwnsRow, CallAgrees, WritesLast, SubmitStaged,
                    ApprovalStaged, ExecutionStaged, Owning, At
<1>7. OthersKeep(h) /\ LocksKeep(h) /\ NoRivalSubmission(h) /\ UNCHANGED tables
  BY <1>1, <1>4 DEF StoreOK, Acquire, Goto, OthersKeep, LocksKeep, NoRivalSubmission
<1>8. QED
  BY <1>5, <1>6, <1>7, QuietQED

LEMMA UpsertExistingStep ==
  ASSUME IndInv, NEW h \in Handlers, UpsertExisting(h)
  PROVE  IndInv'
<1>1. StoreOK /\ HandlerInv(h) /\ pc[h] = "upsert" /\ UNCHANGED <<tables, call, answer>>
  BY DEF IndInv, UpsertExisting, At
<1>2. call[h] \in Calls /\ call[h].op = "submit" /\ WellFormed(call[h]) /\ FitsSchema(call[h])
  BY <1>1 DEF HandlerInv, CallAgrees, UpsertExisting
<1>3. PICK ref \in References :
        /\ HasKey(h, ref)
        /\ Unlocked(<<TenantOf[h], ref>>)
        /\ tx' = [tx EXCEPT ![h].reference = ref]
        /\ rowLock' = [rowLock EXCEPT ![<<TenantOf[h], ref>>] = h]
  BY DEF UpsertExisting
<1>4. <<TenantOf[h], ref>> \in Rows
  BY StoreAssumption DEF Rows
<1>5. pc' = [pc EXCEPT ![h] = "commit"]
  BY DEF UpsertExisting, Goto
<1>6. StoreOK'
  BY <1>1, <1>3, <1>4, <1>5, ZenonT(60) DEF StoreOK, tables, Labels, Transactions
<1>7. Row(h)' = <<TenantOf[h], ref>> /\ tx'[h].reference = ref /\ pc'[h] = "commit"
  BY <1>1, <1>2, <1>3, <1>5 DEF Row, StoreOK, Transactions
<1>8. HandlerInv(h)'
  <2>1. OwnsRow(h)'
    BY <1>1, <1>3, <1>4, <1>7 DEF OwnsRow, StoreOK
  <2>2. CallAgrees(h)' /\ WritesLast(h)'
    BY <1>1, <1>2, <1>7 DEF CallAgrees, WritesLast
  <2>3. SubmitStaged(h)'
    BY <1>1, <1>3, <1>7 DEF SubmitStaged, HasKey, Exists, tables
  <2>4. ApprovalStaged(h)' /\ ExecutionStaged(h)'
    BY <1>1, <1>2 DEF ApprovalStaged, ExecutionStaged
  <2>5. QED
    BY <2>1, <2>2, <2>3, <2>4 DEF HandlerInv
<1>9. OthersKeep(h) /\ LocksKeep(h)
  BY <1>1, <1>3, <1>4, <1>5, StoreAssumption
     DEF StoreOK, OthersKeep, LocksKeep, Unlocked
<1>10. NoRivalSubmission(h)
  <2>1. ASSUME NEW g \in Handlers \ {h}, TenantOf[g] = TenantOf[h], At(g, "commit"),
               call[g].op = "submit", call[g].key = call[h].key
        PROVE  HasKey(g, tx[g].reference)
    <3>1. HasKey(g, ref)
      BY <1>3, <2>1 DEF HasKey
    <3>2. SubmitStaged(g)
      BY DEF IndInv, HandlerInv
    <3>3. QED
      BY <2>1, <3>1, <3>2 DEF SubmitStaged
  <2>2. QED
    BY <1>1, <2>1 DEF NoRivalSubmission
<1>11. QED
  BY <1>1, <1>6, <1>8, <1>9, <1>10, QuietQED

LEMMA UpsertNewStep ==
  ASSUME IndInv, NEW h \in Handlers, UpsertNew(h)
  PROVE  IndInv'
<1>1. StoreOK /\ HandlerInv(h) /\ pc[h] = "upsert" /\ UNCHANGED tables
  BY DEF IndInv, UpsertNew, At
<1>2. call[h] \in Calls /\ call[h].op = "submit" /\ WellFormed(call[h]) /\ FitsSchema(call[h])
  BY <1>1 DEF HandlerInv, CallAgrees, UpsertNew
<1>3. PICK ref \in References :
        \/ /\ ~Exists(<<TenantOf[h], ref>>)
           /\ Unlocked(<<TenantOf[h], ref>>)
           /\ tx' = [tx EXCEPT ![h].reference = ref]
           /\ rowLock' = [rowLock EXCEPT ![<<TenantOf[h], ref>>] = h]
           /\ Goto(h, "commit")
           /\ UNCHANGED <<call, answer>>
        \/ /\ Exists(<<TenantOf[h], ref>>)
           /\ Return(h, Error("Internal"))
  BY DEF UpsertNew
<1>4. CASE Return(h, Error("Internal"))
  BY <1>1, <1>4, ErrorAnswer, ReturnQuiet DEF Codes
<1>5. CASE /\ ~Exists(<<TenantOf[h], ref>>)
           /\ Unlocked(<<TenantOf[h], ref>>)
           /\ tx' = [tx EXCEPT ![h].reference = ref]
           /\ rowLock' = [rowLock EXCEPT ![<<TenantOf[h], ref>>] = h]
           /\ Goto(h, "commit")
           /\ UNCHANGED <<call, answer>>
  <2>1. <<TenantOf[h], ref>> \in Rows
    BY StoreAssumption DEF Rows
  <2>2. StoreOK'
    BY <1>1, <1>5, <2>1, ZenonT(60) DEF StoreOK, Goto, tables, Labels, Transactions
  <2>3. Row(h)' = <<TenantOf[h], ref>> /\ tx'[h].reference = ref /\ pc'[h] = "commit"
    BY <1>1, <1>2, <1>5 DEF Row, StoreOK, Transactions, Goto
  <2>4. OthersKeep(h) /\ LocksKeep(h)
    BY <1>1, <1>5, <2>1, StoreAssumption
       DEF StoreOK, OthersKeep, LocksKeep, Unlocked, Goto
  <2>5. NoRivalSubmission(h)
    BY <1>5 DEF UpsertNew, KeyInFlight, NoRivalSubmission
  <2>6. HandlerInv(h)'
    <3>1. OwnsRow(h)'
      BY <1>1, <1>5, <2>1, <2>3 DEF OwnsRow, StoreOK
    <3>2. CallAgrees(h)' /\ WritesLast(h)'
      BY <1>2, <1>5, <2>3 DEF CallAgrees, WritesLast
    <3>3. ~KeyInFlight(h)'
      BY <1>5, <2>4 DEF UpsertNew, KeyInFlight, At, OthersKeep
    <3>4. \A r \in References : ~HasKey(h, r)'
      BY <1>1, <1>5 DEF UpsertNew, HasKey, Exists, tables
    <3>5. SubmitStaged(h)'
      BY <1>1, <1>5, <2>3, <3>3, <3>4 DEF SubmitStaged, Exists, tables
    <3>6. ApprovalStaged(h)' /\ ExecutionStaged(h)'
      BY <1>2, <1>5 DEF ApprovalStaged, ExecutionStaged
    <3>7. QED
      BY <3>1, <3>2, <3>5, <3>6 DEF HandlerInv
  <2>7. QED
    BY <1>1, <2>2, <2>4, <2>5, <2>6, QuietQED
<1>6. QED
  BY <1>3, <1>4, <1>5

LEMMA RefusalStep ==
  ASSUME IndInv, NEW h \in Handlers,
         UpsertRefused(h) \/ NoSuchRequest(h) \/ InsertRefused(h) \/ WrongState(h)
  PROVE  IndInv'
<1>1. PICK code \in Codes : Return(h, Error(code)) /\ UNCHANGED tables
  BY DEF UpsertRefused, NoSuchRequest, InsertRefused, WrongState, Codes
<1>2. QED
  BY <1>1, ErrorAnswer, ReturnQuiet

\* A handler that reads its row answers with a state of the vocabulary.
LEMMA ReadRow ==
  ASSUME IndInv, NEW h \in Handlers, pc[h] \in {"select", "readback"},
         NEW report \in Reports \cup {None},
         Return(h, IF Exists(Row(h))
                   THEN Answer("OK", call[h].reference, state[Row(h)], report)
                   ELSE Error("NotFound")),
         UNCHANGED tables
  PROVE  IndInv'
<1>1. StoreOK /\ HandlerInv(h)
  BY DEF IndInv
<1>2. call[h] \in Calls /\ call[h].op \in {"get", "approve", "record"}
  BY <1>1 DEF HandlerInv, CallAgrees
<1>3. Row(h) \in Rows /\ call[h].reference \in References
  BY <1>2, RowOfHandler, CallFields
<1>4. Answer("OK", call[h].reference, state[Row(h)], report) \in Answers
  BY <1>1, <1>3 DEF StoreOK, Answer, Answers, Codes
<1>5. Error("NotFound") \in Answers
  BY ErrorAnswer DEF Codes
<1>6. QED
  BY <1>4, <1>5, ReturnQuiet

LEMMA SelectStep ==
  ASSUME IndInv, NEW h \in Handlers, Select(h)
  PROVE  IndInv'
BY ReadRow DEF Select, At

LEMMA ReadbackStep ==
  ASSUME IndInv, NEW h \in Handlers, Readback(h)
  PROVE  IndInv'
<1>1. tx[h].report \in Reports \cup {None}
  BY DEF IndInv, StoreOK, Transactions
<1>2. QED
  BY <1>1, ReadRow DEF Readback, At

LEMMA ReacquireStep ==
  ASSUME IndInv, NEW h \in Handlers, Reacquire(h)
  PROVE  IndInv'
<1>1. StoreOK /\ HandlerInv(h) /\ pc[h] = "reacquire"
  BY DEF IndInv, Reacquire, At
<1>2. pc' = [pc EXCEPT ![h] = "readback"] /\ UNCHANGED <<tables, rowLock, call, tx, answer>>
  BY DEF Reacquire, Goto
<1>3. StoreOK'
  BY <1>1, <1>2 DEF StoreOK, tables, Labels
<1>4. pc'[h] = "readback"
  BY <1>1, <1>2 DEF StoreOK
<1>5. HandlerInv(h)'
  BY <1>1, <1>2, <1>4 DEF HandlerInv, OwnsRow, CallAgrees, WritesLast, SubmitStaged,
                          ApprovalStaged, ExecutionStaged, Owning, At
<1>6. OthersKeep(h) /\ LocksKeep(h) /\ NoRivalSubmission(h)
  BY <1>1, <1>2, <1>4 DEF StoreOK, OthersKeep, LocksKeep, NoRivalSubmission
<1>7. QED
  BY <1>2, <1>3, <1>5, <1>6, QuietQED

\* SELECT ... FOR UPDATE establishes what the transaction relies on.
LEMMA TakeRowStep ==
  ASSUME IndInv, NEW h \in Handlers, pc[h] = "lock", NEW label \in {"insert", "check"},
         TakeRow(h, label),
         call[h].op = "approve" => /\ label = "insert"
                                   /\ state[Row(h)] \in {"pending", "approved"},
         call[h].op = "record"  => \/ label = "insert" /\ state[Row(h)] = "approved"
                                   \/ label = "check" /\ state[Row(h)] \in Terminal
  PROVE  IndInv'
<1>1. StoreOK /\ HandlerInv(h)
  BY DEF IndInv
<1>2. /\ call[h] \in Calls /\ WellFormed(call[h]) /\ call[h].op \in {"approve", "record"}
      /\ tx[h].state = None
  BY <1>1 DEF HandlerInv, CallAgrees, WritesLast
<1>3. Row(h) \in Rows
  BY <1>2, RowOfHandler
<1>4. /\ rowLock' = [rowLock EXCEPT ![Row(h)] = h]
      /\ tx' = [tx EXCEPT ![h].seen = state[Row(h)]]
      /\ pc' = [pc EXCEPT ![h] = label]
      /\ UNCHANGED <<tables, call, answer>>
      /\ rowLock[Row(h)] = None
  BY DEF TakeRow, Goto, Unlocked
<1>5. /\ pc'[h] = label /\ Row(h)' = Row(h) /\ rowLock'[Row(h)] = h
      /\ tx'[h].seen = state[Row(h)] /\ tx'[h].state = None
  BY <1>1, <1>2, <1>3, <1>4 DEF StoreOK, Row, Transactions
<1>6. StoreOK'
  <2>1. state[Row(h)] \in States \cup {None}
    BY <1>1, <1>3 DEF StoreOK
  <2>2. tx' \in [Handlers -> Transactions]
    BY <1>1, <1>4, <2>1, TransactionFields DEF StoreOK
  <2>3. pc' \in [Handlers -> Labels] /\ rowLock' \in [Rows -> Handlers \cup {None}]
    BY <1>1, <1>4 DEF StoreOK, Labels
  <2>4. QED
    BY <1>1, <1>4, <2>2, <2>3 DEF StoreOK, tables
<1>7. OwnsRow(h)' /\ CallAgrees(h)' /\ WritesLast(h)' /\ SubmitStaged(h)'
  BY <1>2, <1>4, <1>5 DEF OwnsRow, CallAgrees, WritesLast, SubmitStaged, At
<1>8. ApprovalStaged(h)'
  BY <1>2, <1>4, <1>5 DEF ApprovalStaged, tables
<1>9. ExecutionStaged(h)'
  BY <1>2, <1>4, <1>5 DEF ExecutionStaged, tables, Terminal
<1>10. OthersKeep(h) /\ LocksKeep(h) /\ NoRivalSubmission(h)
  BY <1>1, <1>3, <1>4, <1>5, StoreAssumption
     DEF StoreOK, OthersKeep, LocksKeep, NoRivalSubmission
<1>11. QED
  BY <1>4, <1>6, <1>7, <1>8, <1>9, <1>10, QuietQED DEF HandlerInv

LEMMA LockForApproveStep ==
  ASSUME IndInv, NEW h \in Handlers, LockForApprove(h)
  PROVE  IndInv'
<1>1. pc[h] = "lock" /\ call[h].op = "approve"
  BY DEF LockForApprove, At
<1>2. CASE state[Row(h)] \in {"pending", "approved"}
  <2>1. TakeRow(h, "insert")
    BY <1>2 DEF LockForApprove
  <2>2. QED
    BY <1>1, <1>2, <2>1, TakeRowStep
<1>3. CASE state[Row(h)] \notin {"pending", "approved"}
  BY <1>3, RefusalStep DEF LockForApprove
<1>4. QED
  BY <1>2, <1>3

\* The state of a row that is there is one of the four the CASE names.
LEMMA LockForRecordCases ==
  ASSUME IndInv, NEW h \in Handlers, LockForRecord(h)
  PROVE  /\ pc[h] = "lock" /\ call[h].op = "record"
         /\ \/ state[Row(h)] = "approved" /\ TakeRow(h, "insert")
            \/ state[Row(h)] \in Terminal /\ TakeRow(h, "check")
            \/ WrongState(h)
<1>1. pc[h] = "lock" /\ call[h].op = "record" /\ Exists(Row(h))
  BY DEF LockForRecord, At
<1>2. call[h] \in Calls
  BY <1>1 DEF IndInv, HandlerInv, CallAgrees
<1>3. Row(h) \in Rows
  BY <1>1, <1>2, RowOfHandler
<1>4. state[Row(h)] \in States
  BY <1>1, <1>3, VocabularyAssumption
     DEF IndInv, TableInv, StateMatchesLedger, Plane!Status, Plane!Rows, Rows, Exists, States
<1>5. QED
  BY <1>1, <1>4 DEF LockForRecord, States, Terminal

LEMMA LockForRecordStep ==
  ASSUME IndInv, NEW h \in Handlers, LockForRecord(h)
  PROVE  IndInv'
<1>1. ASSUME state[Row(h)] = "approved" /\ TakeRow(h, "insert") PROVE IndInv'
  BY <1>1, LockForRecordCases, TakeRowStep
<1>2. ASSUME state[Row(h)] \in Terminal /\ TakeRow(h, "check") PROVE IndInv'
  BY <1>2, LockForRecordCases, TakeRowStep
<1>3. QED
  BY <1>1, <1>2, LockForRecordCases, RefusalStep

\* Past its SELECT a transaction works on a row it owns, of a request there is.
LEMMA OpenTransaction ==
  ASSUME IndInv, NEW h \in Handlers, pc[h] \in {"check", "insert", "update"}
  PROVE  /\ StoreOK /\ HandlerInv(h)
         /\ call[h] \in Calls /\ WellFormed(call[h])
         /\ call[h].op \in {"approve", "record"}
         /\ Row(h) \in Rows /\ rowLock[Row(h)] = h
         /\ tx[h].state = None
<1>1. StoreOK /\ HandlerInv(h)
  BY DEF IndInv
<1>2. /\ call[h] \in Calls /\ WellFormed(call[h])
      /\ call[h].op \in {"approve", "record"}
      /\ tx[h].state = None
  BY <1>1 DEF HandlerInv, CallAgrees, WritesLast
<1>3. Row(h) \in Rows /\ rowLock[Row(h)] = h
  BY <1>1, OwnedRow DEF Owning
<1>4. QED
  BY <1>1, <1>2, <1>3

LEMMA CheckNonceStep ==
  ASSUME IndInv, NEW h \in Handlers, CheckNonce(h)
  PROVE  IndInv'
<1>1. pc[h] = "check" /\ UNCHANGED tables
  BY DEF CheckNonce, At
<1>2. CASE ~(call[h].nonce \in Nonces /\ Stored(h) # None)
  <2>1. Return(h, Error("FailedPrecondition"))
    BY <1>2 DEF CheckNonce
  <2>2. QED
    BY <1>1, <2>1, ErrorAnswer, ReturnQuiet DEF Codes
<1>3. CASE call[h].nonce \in Nonces /\ Stored(h) # None
  <2>1. pc' = [pc EXCEPT ![h] = "insert"] /\ UNCHANGED <<rowLock, call, tx, answer>>
    BY <1>3 DEF CheckNonce, Goto
  <2>2. StoreOK /\ HandlerInv(h) /\ rowLock[Row(h)] = h /\ call[h].op = "record"
    BY <1>1, OpenTransaction DEF HandlerInv, CallAgrees
  <2>3. pc'[h] = "insert" /\ Row(h)' = Row(h) /\ Stored(h)' = Stored(h)
    BY <1>1, <2>1, <2>2 DEF StoreOK, Row, Stored, tables
  <2>4. StoreOK'
    BY <1>1, <2>1, <2>2 DEF StoreOK, tables, Labels
  <2>5. OwnsRow(h)' /\ CallAgrees(h)' /\ WritesLast(h)' /\ SubmitStaged(h)' /\ ApprovalStaged(h)'
    BY <1>1, <2>1, <2>2, <2>3
       DEF HandlerInv, OwnsRow, CallAgrees, WritesLast, SubmitStaged, ApprovalStaged, At
  <2>6. ExecutionStaged(h)'
    BY <1>1, <1>3, <2>1, <2>2, <2>3 DEF HandlerInv, ExecutionStaged, Owning, tables
  <2>7. OthersKeep(h) /\ LocksKeep(h) /\ NoRivalSubmission(h)
    BY <2>1, <2>2, <2>3 DEF StoreOK, OthersKeep, LocksKeep, NoRivalSubmission
  <2>8. QED
    BY <1>1, <2>4, <2>5, <2>6, <2>7, QuietQED DEF HandlerInv
<1>4. QED
  BY <1>2, <1>3

LEMMA InsertApprovalStep ==
  ASSUME IndInv, NEW h \in Handlers, InsertApproval(h)
  PROVE  IndInv'
<1>1. /\ pc[h] = "insert" /\ call[h].op = "approve" /\ FitsSchema(call[h])
      /\ pc' = [pc EXCEPT ![h] = "update"] /\ UNCHANGED <<tables, rowLock, call, tx, answer>>
  BY DEF InsertApproval, At, Goto
<1>2. StoreOK /\ HandlerInv(h) /\ rowLock[Row(h)] = h
  BY <1>1, OpenTransaction
<1>3. pc'[h] = "update" /\ Row(h)' = Row(h)
  BY <1>1, <1>2 DEF StoreOK, Row
<1>4. StoreOK'
  BY <1>1, <1>2 DEF StoreOK, tables, Labels
<1>5. HandlerInv(h)'
  BY <1>1, <1>2, <1>3 DEF HandlerInv, OwnsRow, CallAgrees, WritesLast, SubmitStaged,
                          ApprovalStaged, ExecutionStaged, Owning, At, tables
<1>6. OthersKeep(h) /\ LocksKeep(h) /\ NoRivalSubmission(h)
  BY <1>1, <1>2, <1>3 DEF StoreOK, OthersKeep, LocksKeep, NoRivalSubmission
<1>7. QED
  BY <1>1, <1>4, <1>5, <1>6, QuietQED

\* RETURNING yields what was reported, or the report is refused.
LEMMA InsertExecutionStep ==
  ASSUME IndInv, NEW h \in Handlers, InsertExecution(h)
  PROVE  IndInv'
<1>1. pc[h] = "insert" /\ call[h].op = "record" /\ FitsSchema(call[h]) /\ UNCHANGED tables
  BY DEF InsertExecution, At
<1>2. CASE Returned(h) # call[h].report
  <2>1. Return(h, Contradicted(h))
    BY <1>2 DEF InsertExecution
  <2>2. Contradicted(h) \in Answers
    <3>1. /\ StoreOK /\ HandlerInv(h) /\ Row(h) \in Rows
          /\ call[h] \in Calls /\ WellFormed(call[h])
      BY <1>1, OpenTransaction
    <3>2. call[h].nonce \in Nonces /\ call[h].report \in Reports
      BY <1>1, <3>1, StorableCall
    <3>3. Returned(h) \in Reports
      BY <3>1, <3>2 DEF Returned, Stored, StoreOK
    <3>4. QED
      BY <3>3 DEF Contradicted, Answer, Answers, Codes
  <2>3. QED
    BY <1>1, <2>1, <2>2, ReturnQuiet
<1>3. CASE Returned(h) = call[h].report
  <2> DEFINE next == IF tx[h].seen = "approved" THEN "update" ELSE "commit"
  <2>1. /\ tx' = [tx EXCEPT ![h].report = Returned(h)]
        /\ pc' = [pc EXCEPT ![h] = next]
        /\ UNCHANGED <<rowLock, call, answer>>
    BY <1>3 DEF InsertExecution, Goto
  <2>2. /\ StoreOK /\ HandlerInv(h) /\ Row(h) \in Rows /\ rowLock[Row(h)] = h
        /\ tx[h].state = None /\ call[h] \in Calls /\ WellFormed(call[h])
    BY <1>1, OpenTransaction
  <2>3. call[h].nonce \in Nonces /\ call[h].report \in Reports
    BY <1>1, <2>2, StorableCall
  <2>4. tx[h] \in Transactions /\ [tx[h] EXCEPT !.report = Returned(h)] \in Transactions
    BY <1>3, <2>2, <2>3, TransactionFields DEF StoreOK
  <2>5. /\ pc'[h] = next /\ next \in {"update", "commit"}
        /\ Row(h)' = Row(h) /\ Returned(h)' = Returned(h) /\ Stored(h)' = Stored(h)
        /\ tx'[h].report = Returned(h) /\ tx'[h].seen = tx[h].seen /\ tx'[h].state = None
    BY <1>1, <2>1, <2>2, <2>4 DEF StoreOK, Transactions, Row, Returned, Stored, tables
  <2>6. StoreOK'
    <3>1. tx' \in [Handlers -> Transactions]
      BY <2>1, <2>2, <2>4 DEF StoreOK
    <3>2. pc' \in [Handlers -> Labels]
      BY <2>1, <2>2 DEF StoreOK, Labels
    <3>3. QED
      BY <1>1, <2>1, <2>2, <3>1, <3>2 DEF StoreOK, tables
  <2>7. OwnsRow(h)' /\ CallAgrees(h)' /\ WritesLast(h)' /\ SubmitStaged(h)' /\ ApprovalStaged(h)'
    BY <1>1, <2>1, <2>2, <2>5
       DEF OwnsRow, CallAgrees, WritesLast, SubmitStaged, ApprovalStaged, At
  <2>8. ExecutionStaged(h)'
    <3>1. /\ tx[h].seen = state[Row(h)] /\ state[Row(h)] \in {"approved"} \cup Terminal
          /\ state[Row(h)] \in Terminal => Stored(h) # None
      BY <1>1, <2>2 DEF HandlerInv, ExecutionStaged, Owning
    <3>2. "approved" \notin Terminal
      BY DEF Terminal
    <3>3. QED
      BY <1>1, <1>3, <2>1, <2>3, <2>5, <3>1, <3>2 DEF ExecutionStaged, tables
  <2>9. OthersKeep(h) /\ LocksKeep(h) /\ NoRivalSubmission(h)
    BY <1>1, <2>1, <2>2, <2>5 DEF StoreOK, OthersKeep, LocksKeep, NoRivalSubmission
  <2>10. QED
    BY <1>1, <2>6, <2>7, <2>8, <2>9, QuietQED DEF HandlerInv
<1>4. QED
  BY <1>2, <1>3

LEMMA UpdateStep ==
  ASSUME IndInv, NEW h \in Handlers, Update(h)
  PROVE  IndInv'
<1> DEFINE next == IF call[h].op = "approve" THEN "approved"
                   ELSE NextState(tx[h].report.outcome)
<1>1. /\ pc[h] = "update"
      /\ rowLock' = [rowLock EXCEPT ![Row(h)] = h]
      /\ tx' = [tx EXCEPT ![h].state = next]
      /\ pc' = [pc EXCEPT ![h] = "commit"]
      /\ UNCHANGED <<tables, call, answer>>
  BY DEF Update, At, Goto
<1>2. /\ StoreOK /\ HandlerInv(h) /\ call[h] \in Calls /\ WellFormed(call[h])
      /\ call[h].op \in {"approve", "record"}
      /\ Row(h) \in Rows /\ rowLock[Row(h)] = h
  BY <1>1, OpenTransaction
<1>3. FitsSchema(call[h])
  BY <1>1, <1>2 DEF HandlerInv, CallAgrees
<1>4. call[h].op = "record" => /\ call[h].report \in Reports
                               /\ tx[h].report = call[h].report
                               /\ Returned(h) = call[h].report
                               /\ tx[h].seen = state[Row(h)]
                               /\ state[Row(h)] = "approved"
  BY <1>1, <1>2, <1>3, StorableCall DEF HandlerInv, ExecutionStaged, Owning
<1>5. next \in States
  BY <1>2, <1>4, StorableReport DEF States, Terminal
<1>6. tx[h] \in Transactions /\ [tx[h] EXCEPT !.state = next] \in Transactions
  BY <1>2, <1>5, TransactionFields DEF StoreOK
<1>7. /\ pc'[h] = "commit" /\ Row(h)' = Row(h) /\ Returned(h)' = Returned(h)
      /\ Stored(h)' = Stored(h)
      /\ tx'[h].report = tx[h].report /\ tx'[h].seen = tx[h].seen /\ tx'[h].state = next
  BY <1>1, <1>2, <1>6 DEF StoreOK, Transactions, Row, Returned, Stored, tables
<1>8. StoreOK'
  <2>1. tx' \in [Handlers -> Transactions]
    BY <1>1, <1>2, <1>6 DEF StoreOK
  <2>2. pc' \in [Handlers -> Labels] /\ rowLock' \in [Rows -> Handlers \cup {None}]
    BY <1>1, <1>2 DEF StoreOK, Labels
  <2>3. QED
    BY <1>1, <1>2, <2>1, <2>2 DEF StoreOK, tables
<1>9. OwnsRow(h)' /\ CallAgrees(h)' /\ WritesLast(h)' /\ SubmitStaged(h)'
  BY <1>1, <1>2, <1>3, <1>7 DEF StoreOK, OwnsRow, CallAgrees, WritesLast, SubmitStaged, At
<1>10. ApprovalStaged(h)'
  BY <1>1, <1>2, <1>7 DEF HandlerInv, ApprovalStaged, Owning, tables
<1>11. ExecutionStaged(h)'
  <2>1. "approved" \notin Terminal
    BY DEF Terminal
  <2>2. QED
    BY <1>1, <1>2, <1>4, <1>7, <2>1 DEF ExecutionStaged, tables
<1>12. OthersKeep(h) /\ LocksKeep(h) /\ NoRivalSubmission(h)
  BY <1>1, <1>2, <1>7, StoreAssumption DEF StoreOK, OthersKeep, LocksKeep, NoRivalSubmission
<1>13. QED
  BY <1>1, <1>8, <1>9, <1>10, <1>11, <1>12, QuietQED DEF HandlerInv

-----------------------------------------------------------------------------
(* The commits.                                                            *)

\* No table changes but in one row.
RowsKeep(row) ==
  \A r \in Rows \ {row} : /\ requests'[r] = requests[r] /\ state'[r] = state[r]
                          /\ approvals'[r] = approvals[r] /\ executions'[r] = executions[r]

\* Two open transactions do not own the same row.
LEMMA OneOwner ==
  ASSUME IndInv, NEW h \in Handlers, NEW g \in Handlers \ {h},
         pc[h] \in Owning, pc[g] \in Owning
  PROVE  Row(g) \in Rows \ {Row(h)}
<1>1. rowLock[Row(h)] = h /\ rowLock[Row(g)] = g /\ Row(g) \in Rows
  BY OwnedRow DEF IndInv
<1>2. QED
  BY <1>1

\* A commit of approvals or executions, seen by another handler.
LEMMA CommitSeenByOthers ==
  ASSUME IndInv, NEW h \in Handlers, pc[h] \in Owning, RowsKeep(Row(h)),
         requests' = requests, OthersKeep(h), LocksKeep(h), pc'[h] # "commit",
         NEW g \in Handlers \ {h}
  PROVE  HandlerInv(g)'
<1>1. HandlerInv(g) /\ StoreOK
  BY DEF IndInv
<1>2. pc'[g] = pc[g] /\ call'[g] = call[g] /\ tx'[g] = tx[g] /\ Row(g)' = Row(g)
  BY DEF OthersKeep, Row
<1>3. pc[g] \in Owning => /\ state'[Row(g)] = state[Row(g)]
                          /\ executions'[Row(g)] = executions[Row(g)]
  BY OneOwner DEF RowsKeep
<1>4. OwnsRow(g)'
  BY <1>1, <1>2, OwnedRow DEF OwnsRow, LocksKeep
<1>5. CallAgrees(g)' /\ WritesLast(g)'
  BY <1>1, <1>2 DEF HandlerInv, CallAgrees, WritesLast
<1>6. KeyInFlight(g)' => KeyInFlight(g)
  BY <1>2 DEF KeyInFlight, At, OthersKeep
<1>7. SubmitStaged(g)'
  BY <1>1, <1>2, <1>6 DEF HandlerInv, SubmitStaged, At, HasKey, Exists
<1>8. ApprovalStaged(g)'
  BY <1>1, <1>2, <1>3 DEF HandlerInv, ApprovalStaged
<1>9. ExecutionStaged(g)'
  BY <1>1, <1>2, <1>3 DEF HandlerInv, ExecutionStaged, Returned, Stored
<1>10. QED
  BY <1>4, <1>5, <1>7, <1>8, <1>9 DEF HandlerInv

\* What a COMMIT does to the handler itself, whether or not it hears of it.
LEMMA CommittedLocal ==
  ASSUME StoreOK, NEW h \in Handlers, HandlerInv(h), pc[h] = "commit",
         call[h].op \in {"approve", "record"}, Committed(h)
  PROVE  /\ HandlerInv(h)' /\ OthersKeep(h) /\ LocksKeep(h) /\ pc'[h] # "commit"
         /\ rowLock' \in [Rows -> Handlers \cup {None}]
         /\ pc' \in [Handlers -> Labels]
         /\ call' \in [Handlers -> Calls \cup {None}]
         /\ tx' \in [Handlers -> Transactions]
         /\ answer' \in [Handlers -> Answers]
<1>1. CASE Return(h, Error("Internal"))
  <2>1. Error("Internal") \in Answers
    BY ErrorAnswer DEF Codes
  <2>2. pc'[h] # "commit"
    BY <1>1 DEF Return, Goto, StoreOK
  <2>3. QED
    BY <1>1, <2>1, <2>2, ReturnLocal
<1>2. CASE /\ rowLock' = Released(h)
           /\ tx' = [tx EXCEPT ![h].seen = None, ![h].state = None]
           /\ Goto(h, "reacquire")
           /\ UNCHANGED <<call, answer>>
  <2>1. pc'[h] = "reacquire" /\ tx'[h].state = None
    BY <1>2 DEF StoreOK, Goto, Transactions
  <2>2. HandlerInv(h)'
    BY <1>2, <2>1 DEF HandlerInv, OwnsRow, CallAgrees, WritesLast, SubmitStaged,
                      ApprovalStaged, ExecutionStaged, Owning, At
  <2>3. OthersKeep(h) /\ LocksKeep(h)
    BY <1>2, StoreAssumption DEF StoreOK, Goto, Released, OthersKeep, LocksKeep
  <2>4. pc' \in [Handlers -> Labels] /\ rowLock' \in [Rows -> Handlers \cup {None}]
    BY <1>2 DEF StoreOK, Goto, Released, Labels
  <2>5. tx' \in [Handlers -> Transactions]
    <3>1. tx[h] \in Transactions /\ tx \in [Handlers -> Transactions]
      BY DEF StoreOK
    <3>2. [tx[h] EXCEPT !.seen = None, !.state = None] \in Transactions
      BY <3>1 DEF Transactions
    <3>3. tx' = [tx EXCEPT ![h] = [tx[h] EXCEPT !.seen = None, !.state = None]]
      BY <1>2, <3>1 DEF Transactions
    <3> QED
      BY <3>1, <3>2, <3>3
  <2>6. QED
    BY <1>2, <2>1, <2>2, <2>3, <2>4, <2>5 DEF StoreOK
<1>3. QED
  BY <1>1, <1>2 DEF Committed

\* A request whose status is known is there, and its history says why.
LEMMA StatusOf ==
  ASSUME IndInv, NEW row \in Rows
  PROVE  /\ state[row] \in States => Exists(row)
         /\ state[row] \in {"pending", "approved"} =>
              ~Plane!Recorded(row, "committed") /\ ~Plane!Recorded(row, "indeterminate")
         /\ state[row] = "approved" => approvals[row] # {}
         /\ state[row] = Plane!Status(row)
  BY VocabularyAssumption
     DEF IndInv, TableInv, StateMatchesLedger, Plane!Status, Plane!Rows, Rows, Exists, States

\* An approval that commits is one ControlPlane allows.
LEMMA CommitApprovalAllowed ==
  ASSUME IndInv, NEW h \in Handlers, CommitApproval(h)
  PROVE  /\ Row(h) \in Rows /\ HandlerInv(h) /\ pc[h] = "commit" /\ call[h].op = "approve"
         /\ state[Row(h)] \in {"pending", "approved"} /\ tx[h].state = "approved"
         /\ <<call[h].stage, call[h].approver>> \in {1} \X Approvers
         /\ Plane!Approve(Row(h), <<call[h].stage, call[h].approver>>)
<1>1. StoreOK /\ HandlerInv(h) /\ pc[h] = "commit" /\ call[h].op = "approve"
  BY DEF IndInv, CommitApproval, At
<1>2. call[h] \in Calls /\ WellFormed(call[h]) /\ FitsSchema(call[h])
  BY <1>1 DEF HandlerInv, CallAgrees
<1>3. Row(h) \in Rows
  BY <1>1, OwnedRow DEF Owning
<1>4. state[Row(h)] \in {"pending", "approved"} /\ tx[h].state = "approved"
  BY <1>1 DEF HandlerInv, ApprovalStaged, Owning
<1>5. <<call[h].stage, call[h].approver>> \in {1} \X Approvers
  BY <1>1, <1>2, StorableCall
<1>6. Plane!Approve(Row(h), <<call[h].stage, call[h].approver>>)
  BY <1>3, <1>4, StatusOf DEF CommitApproval, Plane!Approve
<1>7. QED
  BY <1>1, <1>3, <1>4, <1>5, <1>6

LEMMA CommitApprovalStep ==
  ASSUME IndInv, NEW h \in Handlers, CommitApproval(h)
  PROVE  IndInv'
<1> DEFINE row == Row(h)
<1>1. StoreOK /\ TableInv /\ HandlerInv(h)
  BY DEF IndInv
<1>2. /\ row \in Rows /\ pc[h] = "commit" /\ call[h].op = "approve"
      /\ state[row] \in {"pending", "approved"}
      /\ <<call[h].stage, call[h].approver>> \in {1} \X Approvers
  BY CommitApprovalAllowed
<1>3. /\ approvals' = [approvals EXCEPT ![row] = @ \cup {<<call[h].stage, call[h].approver>>}]
      /\ state' = [state EXCEPT ![row] = "approved"]
      /\ UNCHANGED <<requests, executions>>
  BY CommitApprovalAllowed DEF CommitApproval
<1>4. /\ HandlerInv(h)' /\ OthersKeep(h) /\ LocksKeep(h) /\ pc'[h] # "commit"
      /\ rowLock' \in [Rows -> Handlers \cup {None}]
      /\ pc' \in [Handlers -> Labels]
      /\ call' \in [Handlers -> Calls \cup {None}]
      /\ tx' \in [Handlers -> Transactions]
      /\ answer' \in [Handlers -> Answers]
  BY <1>1, <1>2, CommittedLocal DEF CommitApproval
<1>5. StoreOK'
  BY <1>1, <1>2, <1>3, <1>4 DEF StoreOK, States
<1>6. RowsKeep(row)
  BY <1>1, <1>2, <1>3 DEF StoreOK, RowsKeep
<1>7. ASSUME NEW g \in Handlers PROVE HandlerInv(g)'
  BY <1>2, <1>3, <1>4, <1>6, CommitSeenByOthers DEF Owning
<1>8. StateMatchesLedger'
  <2>1. ASSUME NEW r \in Rows PROVE state'[r] = Plane!Status(r)'
    <3>1. CASE r = row
      <4>1. Exists(r) /\ ~Plane!Recorded(r, "committed") /\ ~Plane!Recorded(r, "indeterminate")
        BY <1>2, <3>1, StatusOf DEF States
      <4>2. state'[r] = "approved" /\ approvals'[r] # {}
        BY <1>1, <1>2, <1>3, <3>1 DEF StoreOK
      <4>3. QED
        BY <1>3, <4>1, <4>2 DEF Plane!Status, Plane!Recorded, Exists
    <3>2. CASE r # row
      <4>1. state[r] = Plane!Status(r)
        BY StatusOf
      <4>2. state'[r] = state[r] /\ approvals'[r] = approvals[r]
        BY <1>6, <3>2 DEF RowsKeep
      <4>3. QED
        BY <1>3, <4>1, <4>2 DEF Plane!Status, Plane!Recorded
    <3>3. QED
      BY <3>1, <3>2
  <2>2. QED
    BY <2>1 DEF StateMatchesLedger
<1>9. AtMostOneSettlement' /\ KeyNamesOneRequest'
  BY <1>1, <1>3 DEF TableInv, AtMostOneSettlement, Settling, KeyNamesOneRequest, Exists
<1>10. NoOrphans'
  <2>1. requests[row] # None
    BY <1>2, StatusOf DEF States, Exists
  <2>2. QED
    BY <1>1, <1>3, <1>6, <2>1 DEF TableInv, NoOrphans, RowsKeep
<1>11. QED
  BY <1>5, <1>7, <1>8, <1>9, <1>10 DEF IndInv, TableInv

\* A report that commits is one ControlPlane records, or changes nothing.
LEMMA CommitExecutionAllowed ==
  ASSUME IndInv, NEW h \in Handlers, CommitExecution(h)
  PROVE  /\ Row(h) \in Rows /\ HandlerInv(h) /\ pc[h] = "commit" /\ call[h].op = "record"
         /\ call[h].nonce \in Nonces /\ call[h].report \in Reports
         /\ Exists(Row(h))
         /\ \/ /\ state[Row(h)] = "approved" /\ Stored(h) = None
               /\ executions' = [executions EXCEPT ![Row(h)][call[h].nonce] = call[h].report]
               /\ state' = [state EXCEPT ![Row(h)] = NextState(call[h].report.outcome)]
               /\ Plane!RecordExecution(Row(h), call[h].nonce, call[h].report)
            \/ UNCHANGED tables
<1>1. StoreOK /\ HandlerInv(h) /\ pc[h] = "commit" /\ call[h].op = "record"
  BY DEF IndInv, CommitExecution, At
<1>2. call[h] \in Calls /\ WellFormed(call[h]) /\ FitsSchema(call[h])
  BY <1>1 DEF HandlerInv, CallAgrees
<1>3. Row(h) \in Rows
  BY <1>1, OwnedRow DEF Owning
<1>4. call[h].nonce \in Nonces /\ call[h].report \in Reports
  BY <1>1, <1>2, StorableCall
<1>5. /\ state[Row(h)] \in {"approved"} \cup Terminal
      /\ state[Row(h)] \in Terminal => Stored(h) # None
      /\ tx[h].report = call[h].report /\ Returned(h) = call[h].report
      /\ tx[h].state = IF state[Row(h)] = "approved"
                       THEN NextState(call[h].report.outcome) ELSE None
  BY <1>1 DEF HandlerInv, ExecutionStaged, Owning
<1>6. Exists(Row(h))
  BY <1>3, <1>5, StatusOf DEF States, Terminal
<1>7. NextState(call[h].report.outcome) # None
  BY <1>4, StorableReport, VocabularyAssumption DEF States, Terminal
<1>8. /\ executions' = [executions EXCEPT ![Row(h)][call[h].nonce] = call[h].report]
      /\ state' = [state EXCEPT ![Row(h)] = IF state[Row(h)] = "approved"
                                             THEN NextState(call[h].report.outcome)
                                             ELSE state[Row(h)]]
      /\ UNCHANGED <<requests, approvals>>
  BY <1>5, <1>7 DEF CommitExecution
<1>9. CASE Stored(h) = None
  <2>1. state[Row(h)] = "approved"
    BY <1>5, <1>9
  <2>2. state' = [state EXCEPT ![Row(h)] = NextState(call[h].report.outcome)]
    BY <1>8, <2>1
  <2>3. Plane!RecordExecution(Row(h), call[h].nonce, call[h].report)
    BY <1>3, <1>8, <1>9, <2>1, StatusOf DEF Plane!RecordExecution, Stored
  <2>4. QED
    BY <1>1, <1>3, <1>4, <1>6, <1>8, <1>9, <2>1, <2>2, <2>3
<1>10. CASE Stored(h) # None
  <2>1. executions[Row(h)][call[h].nonce] = call[h].report
    BY <1>5, <1>10 DEF Returned, Stored
  <2>2. executions' = executions
    BY <1>1, <1>3, <1>4, <1>8, <2>1 DEF StoreOK
  <2>3. state[Row(h)] = "approved" => NextState(call[h].report.outcome) = "approved"
    <3>1. HAVE state[Row(h)] = "approved"
    <3>2. ~Plane!Recorded(Row(h), "committed") /\ ~Plane!Recorded(Row(h), "indeterminate")
      BY <1>3, <3>1, StatusOf
    <3>3. call[h].report.outcome \notin {"committed", "indeterminate"}
      BY <1>4, <1>10, <2>1, <3>2 DEF Plane!Recorded, Stored
    <3>4. QED
      BY <1>4, <3>3, StorableReport DEF Outcomes, Clean
  <2>4. state' = state
    BY <1>1, <1>3, <1>8, <2>3 DEF StoreOK
  <2>5. QED
    BY <1>1, <1>3, <1>4, <1>6, <1>8, <2>2, <2>4 DEF tables
<1>11. QED
  BY <1>9, <1>10

\* What a newly recorded report does to the status and to the settlements.
LEMMA RecordedStatus ==
  ASSUME IndInv, NEW row \in Rows, NEW n \in Nonces, NEW r \in Reports,
         Exists(row), state[row] = "approved", executions[row][n] = None,
         executions' = [executions EXCEPT ![row][n] = r], UNCHANGED <<requests, approvals>>
  PROVE  /\ Plane!Status(row)' = NextState(r.outcome)
         /\ \A m, k \in Settling(row)' : m = k
<1>1. StoreOK /\ approvals[row] # {}
  BY StatusOf DEF IndInv
<1>2. ~Plane!Recorded(row, "committed") /\ ~Plane!Recorded(row, "indeterminate")
  BY StatusOf
<1>3. /\ executions'[row][n] = r
      /\ \A m \in Nonces \ {n} : executions'[row][m] = executions[row][m]
  BY <1>1 DEF StoreOK
<1>4. r # None /\ r.outcome \in Outcomes
  BY StorableReport
<1>5. /\ Plane!Recorded(row, "committed")' <=> r.outcome = "committed"
      /\ Plane!Recorded(row, "indeterminate")' <=> r.outcome = "indeterminate"
  BY <1>2, <1>3, <1>4 DEF Plane!Recorded
<1>6. Plane!Status(row)' = NextState(r.outcome)
  BY <1>1, <1>4, <1>5 DEF Plane!Status, NextState, Outcomes, Clean, Exists
<1>7. ASSUME NEW m \in Nonces, m # n, executions[row][m] # None
      PROVE  executions[row][m].outcome \in Clean
  <2>1. executions[row][m] \in Reports
    BY <1>1, <1>7 DEF StoreOK
  <2>2. executions[row][m].outcome \notin {"committed", "indeterminate"}
    BY <1>2, <1>7 DEF Plane!Recorded
  <2>3. QED
    BY <2>1, <2>2, StorableReport DEF Outcomes, Clean
<1>8. \A m \in Settling(row)' : m = n
  BY <1>3, <1>7 DEF Settling
<1>9. QED
  BY <1>6, <1>8

LEMMA CommitExecutionStep ==
  ASSUME IndInv, NEW h \in Handlers, CommitExecution(h)
  PROVE  IndInv'
<1> PICK row \in Rows : row = Row(h)
  BY CommitExecutionAllowed
<1>1. StoreOK /\ TableInv /\ HandlerInv(h)
  BY DEF IndInv
<1>2. /\ row \in Rows /\ pc[h] = "commit" /\ call[h].op = "record" /\ Exists(row)
      /\ call[h].nonce \in Nonces /\ call[h].report \in Reports
  BY CommitExecutionAllowed
<1>3. /\ HandlerInv(h)' /\ OthersKeep(h) /\ LocksKeep(h) /\ pc'[h] # "commit"
      /\ rowLock' \in [Rows -> Handlers \cup {None}]
      /\ pc' \in [Handlers -> Labels]
      /\ call' \in [Handlers -> Calls \cup {None}]
      /\ tx' \in [Handlers -> Transactions]
      /\ answer' \in [Handlers -> Answers]
  BY <1>1, <1>2, CommittedLocal DEF CommitExecution
<1>4. CASE UNCHANGED tables
  <2>1. StoreOK'
    BY <1>1, <1>3, <1>4 DEF StoreOK, tables
  <2>2. NoRivalSubmission(h)
    BY <1>3 DEF NoRivalSubmission
  <2>3. QED
    BY <1>3, <1>4, <2>1, <2>2, QuietQED
<1>5. CASE /\ state[row] = "approved" /\ executions[row][call[h].nonce] = None
           /\ executions' = [executions EXCEPT ![row][call[h].nonce] = call[h].report]
           /\ state' = [state EXCEPT ![row] = NextState(call[h].report.outcome)]
  <2>1. UNCHANGED <<requests, approvals>>
    BY DEF CommitExecution
  <2>2. NextState(call[h].report.outcome) \in States
    BY <1>2, StorableReport DEF States, Terminal
  <2>3. StoreOK'
    BY <1>1, <1>2, <1>3, <1>5, <2>1, <2>2 DEF StoreOK
  <2>4. RowsKeep(row)
    BY <1>1, <1>2, <1>5, <2>1 DEF StoreOK, RowsKeep
  <2>5. ASSUME NEW g \in Handlers PROVE HandlerInv(g)'
    BY <1>2, <1>3, <2>1, <2>4, CommitSeenByOthers DEF Owning
  <2>6. /\ Plane!Status(row)' = NextState(call[h].report.outcome)
        /\ \A m, k \in Settling(row)' : m = k
    BY <1>2, <1>5, <2>1, RecordedStatus
  <2>7. ASSUME NEW r \in Rows
        PROVE  state'[r] = Plane!Status(r)' /\ \A m, k \in Settling(r)' : m = k
    <3>1. CASE r = row
      BY <1>1, <1>2, <1>5, <2>6, <3>1 DEF StoreOK
    <3>2. CASE r # row
      <4>1. state'[r] = state[r] /\ executions'[r] = executions[r]
        BY <2>4, <3>2 DEF RowsKeep
      <4>2. Settling(r)' = Settling(r) /\ Plane!Status(r)' = Plane!Status(r)
        BY <2>1, <4>1 DEF Settling, Plane!Status, Plane!Recorded
      <4>3. QED
        BY <1>1, <4>1, <4>2, StatusOf DEF TableInv, AtMostOneSettlement
    <3>3. QED
      BY <3>1, <3>2
  <2>8. StateMatchesLedger' /\ AtMostOneSettlement'
    BY <2>7 DEF StateMatchesLedger, AtMostOneSettlement
  <2>9. KeyNamesOneRequest'
    BY <1>1, <2>1 DEF TableInv, KeyNamesOneRequest, Exists
  <2>10. NoOrphans'
    BY <1>1, <1>2, <2>1, <2>4 DEF TableInv, NoOrphans, RowsKeep, Exists
  <2>11. QED
    BY <2>3, <2>5, <2>8, <2>9, <2>10 DEF IndInv, TableInv
<1>6. QED
  BY <1>4, <1>5, CommitExecutionAllowed DEF Stored

\* A submission that commits inserts a request under a free key, or nothing.
LEMMA CommitSubmitAllowed ==
  ASSUME IndInv, NEW h \in Handlers, CommitSubmit(h)
  PROVE  /\ Row(h) \in Rows /\ Row(h) = <<TenantOf[h], tx[h].reference>>
         /\ TenantOf[h] \in Tenants /\ tx[h].reference \in References
         /\ HandlerInv(h) /\ pc[h] = "commit" /\ call[h].op = "submit"
         /\ call[h].key \in Keys /\ call[h].body \in Bodies
         /\ \/ UNCHANGED tables
            \/ /\ requests[Row(h)] = None
               /\ \A ref \in References : ~HasKey(h, ref)
               /\ ~KeyInFlight(h)
               /\ requests' = [requests EXCEPT ![Row(h)] =
                                 [key |-> call[h].key, body |-> call[h].body]]
               /\ state' = [state EXCEPT ![Row(h)] = "pending"]
               /\ UNCHANGED <<approvals, executions>>
<1>1. StoreOK /\ HandlerInv(h) /\ pc[h] = "commit" /\ call[h].op = "submit"
  BY DEF IndInv, CommitSubmit, At
<1>2. call[h] \in Calls /\ WellFormed(call[h]) /\ FitsSchema(call[h])
  BY <1>1 DEF HandlerInv, CallAgrees
<1>3. call[h].key \in Keys /\ call[h].body \in Bodies
  BY <1>1, <1>2, StorableCall, CallFields
<1>4. /\ Row(h) = <<TenantOf[h], tx[h].reference>>
      /\ TenantOf[h] \in Tenants /\ tx[h].reference \in References
      /\ Row(h) \in Rows
  BY <1>1, StoreAssumption DEF Row, Rows, HandlerInv, SubmitStaged, At
<1>5. CASE Exists(Row(h))
  BY <1>1, <1>3, <1>4, <1>5 DEF CommitSubmit, tables
<1>6. CASE ~Exists(Row(h))
  <2>1. (\A ref \in References : ~HasKey(h, ref)) /\ ~KeyInFlight(h)
    BY <1>1, <1>4, <1>6 DEF HandlerInv, SubmitStaged, HasKey, At
  <2>2. QED
    BY <1>1, <1>3, <1>4, <1>6, <2>1 DEF CommitSubmit, Exists
<1>7. QED
  BY <1>5, <1>6

LEMMA CommitSubmitStep ==
  ASSUME IndInv, NEW h \in Handlers, CommitSubmit(h)
  PROVE  IndInv'
<1> PICK row \in Rows : row = Row(h)
  BY CommitSubmitAllowed
<1>1. StoreOK /\ TableInv /\ HandlerInv(h)
  BY DEF IndInv
<1>2. /\ pc[h] = "commit" /\ call[h].op = "submit"
      /\ row = <<TenantOf[h], tx[h].reference>>
      /\ TenantOf[h] \in Tenants /\ tx[h].reference \in References
      /\ [key |-> call[h].key, body |-> call[h].body] \in [key : Keys, body : Bodies]
  BY CommitSubmitAllowed
<1>3. PICK ans \in Answers : Return(h, ans)
  <2>1. Answer("OK", tx[h].reference, None, None) \in Answers
    BY <1>2 DEF Answer, Answers, Codes
  <2>2. Error("Internal") \in Answers
    BY ErrorAnswer DEF Codes
  <2>3. QED
    BY <2>1, <2>2 DEF CommitSubmit
<1>4. CASE UNCHANGED tables
  BY <1>3, <1>4, ReturnQuiet
<1>5. CASE /\ requests[row] = None
           /\ \A ref \in References : ~HasKey(h, ref)
           /\ ~KeyInFlight(h)
           /\ requests' = [requests EXCEPT ![row] =
                             [key |-> call[h].key, body |-> call[h].body]]
           /\ state' = [state EXCEPT ![row] = "pending"]
           /\ UNCHANGED <<approvals, executions>>
  <2>1. /\ HandlerInv(h)' /\ OthersKeep(h) /\ LocksKeep(h)
        /\ rowLock' \in [Rows -> Handlers \cup {None}]
        /\ pc' \in [Handlers -> Labels]
        /\ call' \in [Handlers -> Calls \cup {None}]
        /\ tx' \in [Handlers -> Transactions]
        /\ answer' \in [Handlers -> Answers]
    BY <1>1, <1>3, ReturnLocal
  <2>2. pc'[h] # "commit"
    BY <1>1, <1>3 DEF StoreOK, Return, Goto
  <2>3. StoreOK'
    BY <1>1, <1>2, <1>5, <2>1 DEF StoreOK, States
  <2>4. RowsKeep(row)
    BY <1>1, <1>5 DEF StoreOK, RowsKeep
  <2>5. /\ requests'[row] = [key |-> call[h].key, body |-> call[h].body]
        /\ requests'[row] # None /\ state'[row] = "pending"
    BY <1>1, <1>2, <1>5, StoreAssumption DEF StoreOK
  <2>6. ASSUME NEW g \in Handlers \ {h}, At(g, "commit"), call[g].op = "submit"
        PROVE  SubmitStaged(g)'
    <3>1. SubmitStaged(g) /\ pc'[g] = pc[g] /\ call'[g] = call[g] /\ tx'[g] = tx[g]
      BY <2>1 DEF IndInv, HandlerInv, OthersKeep
    <3>2. Row(g)' = Row(g) /\ Row(g) # row /\ Row(g) \in Rows
          /\ Row(g) = <<TenantOf[g], tx[g].reference>>
      BY <1>2, <2>6, <3>1, OneOwner DEF Row, Owning, At
    <3>3. requests'[Row(g)] = requests[Row(g)]
      BY <2>4, <3>2 DEF RowsKeep
    <3>4. CASE HasKey(g, tx[g].reference)
      <4>1. HasKey(g, tx[g].reference)'
        BY <3>1, <3>2, <3>3, <3>4 DEF HasKey, Exists
      <4>2. QED
        BY <3>1, <4>1, <2>6 DEF SubmitStaged
    <3>5. CASE ~HasKey(g, tx[g].reference)
      <4>1. /\ tx[g].reference \in References
            /\ ~Exists(Row(g)) /\ \A ref \in References : ~HasKey(g, ref)
            /\ ~KeyInFlight(g)
        BY <2>6, <3>1, <3>5 DEF SubmitStaged
      <4>2. TenantOf[g] = TenantOf[h] => call[g].key # call[h].key
        BY <1>2, <4>1 DEF KeyInFlight, At
      <4>3. ASSUME NEW ref \in References PROVE ~HasKey(g, ref)'
        <5>1. <<TenantOf[g], ref>> \in Rows
          BY StoreAssumption DEF Rows
        <5>2. CASE <<TenantOf[g], ref>> = row
          BY <1>2, <2>5, <3>1, <4>2, <5>2 DEF HasKey
        <5>3. CASE <<TenantOf[g], ref>> # row
          BY <2>4, <3>1, <4>1, <5>1, <5>3 DEF HasKey, Exists, RowsKeep
        <5>4. QED
          BY <5>2, <5>3
      <4>4. ~KeyInFlight(g)'
        BY <2>1, <2>2, <3>1, <4>1 DEF KeyInFlight, At, OthersKeep
      <4>5. QED
        BY <3>1, <3>2, <3>3, <4>1, <4>3, <4>4 DEF SubmitStaged, Exists
    <3>6. QED
      BY <3>4, <3>5
  <2>7. ASSUME NEW g \in Handlers \ {h} PROVE HandlerInv(g)'
    <3>1. HandlerInv(g) /\ pc'[g] = pc[g] /\ call'[g] = call[g] /\ tx'[g] = tx[g]
      BY <2>1 DEF IndInv, OthersKeep
    <3>2. Row(g)' = Row(g)
      BY <3>1 DEF Row
    <3>3. pc[g] \in Owning => /\ state'[Row(g)] = state[Row(g)]
                              /\ executions'[Row(g)] = executions[Row(g)]
      BY <1>2, <2>4, OneOwner DEF RowsKeep, Owning
    <3>4. OwnsRow(g)'
      BY <1>1, <2>1, <3>1, <3>2, OwnedRow DEF OwnsRow, LocksKeep
    <3>5. CallAgrees(g)' /\ WritesLast(g)'
      BY <3>1 DEF HandlerInv, CallAgrees, WritesLast
    <3>6. SubmitStaged(g)'
      BY <2>6, <3>1 DEF SubmitStaged, At
    <3>7. ApprovalStaged(g)'
      BY <3>1, <3>2, <3>3 DEF HandlerInv, ApprovalStaged
    <3>8. ExecutionStaged(g)'
      BY <3>1, <3>2, <3>3 DEF HandlerInv, ExecutionStaged, Returned, Stored
    <3>9. QED
      BY <3>4, <3>5, <3>6, <3>7, <3>8 DEF HandlerInv
  <2>8. StateMatchesLedger'
    <3>1. ASSUME NEW r \in Rows PROVE state'[r] = Plane!Status(r)'
      <4>1. CASE r = row
        <5>1. approvals[r] = {} /\ \A n \in Nonces : executions[r][n] = None
          BY <1>1, <1>5, <4>1 DEF TableInv, NoOrphans
        <5>2. QED
          BY <1>5, <2>5, <4>1, <5>1 DEF Plane!Status, Plane!Recorded
      <4>2. CASE r # row
        <5>1. state'[r] = state[r] /\ requests'[r] = requests[r]
          BY <2>4, <4>2 DEF RowsKeep
        <5>2. QED
          BY <1>5, <5>1, StatusOf DEF Plane!Status, Plane!Recorded
      <4>3. QED
        BY <4>1, <4>2
    <3>2. QED
      BY <3>1 DEF StateMatchesLedger
  <2>9. AtMostOneSettlement'
    BY <1>1, <1>5 DEF TableInv, AtMostOneSettlement, Settling
  <2>10. KeyNamesOneRequest'
    <3>1. ASSUME NEW t \in Tenants, NEW r1 \in References, NEW r2 \in References,
                 <<t, r1>> = row, <<t, r2>> # row, Exists(<<t, r2>>)'
          PROVE  requests'[<<t, r2>>].key # requests'[row].key
      <4>1. t = TenantOf[h] /\ <<t, r2>> \in Rows
        BY <1>2, <3>1 DEF Rows
      <4>2. requests'[<<t, r2>>] = requests[<<t, r2>>]
        BY <2>4, <3>1, <4>1 DEF RowsKeep
      <4>3. ~HasKey(h, r2)
        BY <1>5
      <4>4. QED
        BY <2>5, <3>1, <4>1, <4>2, <4>3 DEF HasKey, Exists
    <3>2. ASSUME NEW t \in Tenants, NEW r1 \in References, NEW r2 \in References,
                 Exists(<<t, r1>>)', Exists(<<t, r2>>)',
                 requests'[<<t, r1>>].key = requests'[<<t, r2>>].key
          PROVE  r1 = r2
      <4>1. <<t, r1>> \in Rows /\ <<t, r2>> \in Rows
        BY DEF Rows
      <4>2. CASE <<t, r1>> # row /\ <<t, r2>> # row
        BY <1>1, <2>4, <3>2, <4>1, <4>2 DEF TableInv, KeyNamesOneRequest, Exists, RowsKeep
      <4>3. CASE <<t, r1>> = row \/ <<t, r2>> = row
        BY <3>1, <3>2, <4>3
      <4>4. QED
        BY <4>2, <4>3
    <3>3. QED
      BY <3>2 DEF KeyNamesOneRequest, Exists
  <2>11. NoOrphans'
    BY <1>1, <1>5, <2>4, <2>5 DEF TableInv, NoOrphans, RowsKeep
  <2>12. QED
    BY <2>1, <2>3, <2>7, <2>8, <2>9, <2>10, <2>11 DEF IndInv, TableInv
<1>6. QED
  BY <1>4, <1>5, CommitSubmitAllowed

-----------------------------------------------------------------------------
(* The invariant, and what follows from it.                                *)

LEMMA InitInv ==
  Init => IndInv
<1> SUFFICES ASSUME Init PROVE IndInv
  OBVIOUS
<1>1. StoreOK
  <2>1. NoTx \in Transactions
    BY DEF NoTx, Transactions
  <2>2. NoAnswer \in Answers
    BY DEF NoAnswer, Answer, Answers
  <2>3. QED
    BY <2>1, <2>2 DEF Init, StoreOK, Labels
<1>2. TableInv
  <2>1. \A row \in Rows : /\ requests[row] = None /\ state[row] = None
                          /\ approvals[row] = {}
                          /\ \A n \in Nonces : executions[row][n] = None
    BY DEF Init
  <2>2. StateMatchesLedger
    BY <2>1 DEF StateMatchesLedger, Plane!Status
  <2>3. AtMostOneSettlement
    BY <2>1 DEF AtMostOneSettlement, Settling
  <2>4. KeyNamesOneRequest
    BY <2>1 DEF KeyNamesOneRequest, Exists, Rows
  <2>5. QED
    BY <2>1, <2>2, <2>3, <2>4 DEF TableInv, NoOrphans
<1>3. ASSUME NEW h \in Handlers PROVE HandlerInv(h)
  <2>1. pc[h] = "idle" /\ tx[h].state = None
    BY DEF Init, NoTx
  <2>2. QED
    BY <2>1 DEF HandlerInv, OwnsRow, CallAgrees, WritesLast, SubmitStaged, ApprovalStaged,
                ExecutionStaged, Owning, At
<1>4. QED
  BY <1>1, <1>2, <1>3 DEF IndInv

LEMMA NextInv ==
  IndInv /\ [Moves]_store => IndInv'
<1> SUFFICES ASSUME IndInv, [Moves]_store PROVE IndInv'
  OBVIOUS
<1>1. CASE UNCHANGED store
  <2>1. UNCHANGED <<tables, rowLock, pc, call, tx, answer>>
    BY <1>1 DEF store, tables
  <2>2. StoreOK'
    BY <2>1 DEF IndInv, StoreOK, tables
  <2>3. TableInv'
    BY <2>1, QuietTables DEF IndInv
  <2>4. ASSUME NEW h \in Handlers PROVE HandlerInv(h)'
    BY <2>1 DEF IndInv, HandlerInv, OwnsRow, CallAgrees, WritesLast, SubmitStaged,
                ApprovalStaged, ExecutionStaged, Row, Exists, HasKey, KeyInFlight, At,
                Stored, Returned, tables
  <2>5. QED
    BY <2>2, <2>3, <2>4 DEF IndInv
<1>2. ASSUME NEW h \in Handlers, Progress(h) PROVE IndInv'
  <2>1. CASE Acquire(h) \/ Reacquire(h)
    BY <2>1, AcquireStep, ReacquireStep
  <2>2. CASE UpsertExisting(h) \/ UpsertNew(h) \/ CommitSubmit(h)
    BY <2>2, UpsertExistingStep, UpsertNewStep, CommitSubmitStep
  <2>3. CASE UpsertRefused(h) \/ NoSuchRequest(h) \/ InsertRefused(h)
    BY <2>3, RefusalStep
  <2>4. CASE Select(h) \/ Readback(h)
    BY <2>4, SelectStep, ReadbackStep
  <2>5. CASE LockForApprove(h) \/ LockForRecord(h) \/ CheckNonce(h)
    BY <2>5, LockForApproveStep, LockForRecordStep, CheckNonceStep
  <2>6. CASE InsertApproval(h) \/ InsertExecution(h) \/ Update(h)
    BY <2>6, InsertApprovalStep, InsertExecutionStep, UpdateStep
  <2>7. CASE CommitApproval(h) \/ CommitExecution(h)
    BY <2>7, CommitApprovalStep, CommitExecutionStep
  <2>8. QED
    BY <1>2, <2>1, <2>2, <2>3, <2>4, <2>5, <2>6, <2>7 DEF Progress, Transaction
<1>3. QED
  BY <1>1, <1>2, StartStep, FailStep DEF Moves, Step

\* The invariant of RequestStore is inductive: it holds in every reachable
\* state, for any number of handlers, services, tenants, requests and nonces.
THEOREM Invariance == Spec => []IndInv
BY InitInv, NextInv, NextMoves, PTL DEF Spec

\* Every variable keeps its type; the executions table never holds a report
\* that breaks the biconditional on rows_affected.
THEOREM Typed == Spec => []TypeOK
<1> DEFINE LinkOK == link \in [Handlers -> Links]
<1>1. Init => LinkOK
  BY DEF Init, Links
<1>2. LinkOK /\ [Next]_vars => LinkOK'
  BY DEF Next, Cut, CarryOut, EndSession, Links, vars
<1>3. IndInv /\ LinkOK => TypeOK
  BY DEF IndInv, TypeOK
<1>4. QED
  BY <1>1, <1>2, <1>3, Invariance, PTL DEF Spec

\* The state column, which the handlers overwrite after reading it under a row
\* lock, always is what the approvals and executions recorded say it is.
THEOREM StateIsLedger == Spec => []StateMatchesLedger
<1>1. IndInv => StateMatchesLedger
  BY DEF IndInv, TableInv
<1>2. QED
  BY <1>1, Invariance, PTL

\* No request ever has two attempts recorded as committed or indeterminate:
\* an approval covers one execution.
THEOREM OneSettlement == Spec => []AtMostOneSettlement
<1>1. IndInv => AtMostOneSettlement
  BY DEF IndInv, TableInv
<1>2. QED
  BY <1>1, Invariance, PTL

\* In a tenant an idempotency key names one request, however Submits race.
THEOREM OneRequestPerKey == Spec => []KeyNamesOneRequest
<1>1. IndInv => KeyNamesOneRequest
  BY DEF IndInv, TableInv
<1>2. QED
  BY <1>1, Invariance, PTL

-----------------------------------------------------------------------------
(* The handlers implement the record of ControlPlane.                      *)

LEMMA PlaneApproval ==
  ASSUME IndInv, NEW h \in Handlers, CommitApproval(h)
  PROVE  Plane!Next
BY CommitApprovalAllowed DEF Plane!Next, Plane!Approvals, Plane!Rows, Rows

LEMMA PlaneExecution ==
  ASSUME IndInv, NEW h \in Handlers, CommitExecution(h)
  PROVE  Plane!Next \/ UNCHANGED tables
<1>1. Reports = Plane!Reports
  BY DEF Reports, Plane!Reports, WireReports, Plane!WireReports, Outcomes, Plane!Outcomes,
         RowsMatchOutcome, Plane!RowsMatchOutcome
<1>2. QED
  BY <1>1, CommitExecutionAllowed DEF Plane!Next, Plane!Rows, Rows

LEMMA PlaneSubmission ==
  ASSUME IndInv, NEW h \in Handlers, CommitSubmit(h)
  PROVE  Plane!Next \/ UNCHANGED tables
<1> DEFINE content == [key |-> call[h].key, body |-> call[h].body]
<1>1. CASE UNCHANGED tables
  BY <1>1
<1>2. CASE /\ requests[Row(h)] = None
           /\ \A ref \in References : ~HasKey(h, ref)
           /\ requests' = [requests EXCEPT ![Row(h)] = content]
           /\ UNCHANGED <<approvals, executions>>
  <2>1. content \in Plane!Contents
    BY CommitSubmitAllowed DEF Plane!Contents
  <2>2. Plane!KeyIsFree(Row(h)[1], content.key)
    BY <1>2, CommitSubmitAllowed DEF Plane!KeyIsFree, HasKey, Exists
  <2>3. Plane!Submit(Row(h), content)
    BY <1>2, <2>2 DEF Plane!Submit
  <2>4. QED
    BY <2>1, <2>3, CommitSubmitAllowed DEF Plane!Next, Plane!Rows, Rows
<1>3. QED
  BY <1>1, <1>2, CommitSubmitAllowed

\* Between commits nothing of the record changes.
LEMMA OnlyCommitsWrite ==
  ASSUME IndInv, [Moves]_store,
         ~\E h \in Handlers : CommitSubmit(h) \/ CommitApproval(h) \/ CommitExecution(h)
  PROVE  UNCHANGED tables
<1>1. CASE UNCHANGED store
  BY <1>1 DEF store, tables
<1>2. ASSUME NEW h \in Handlers, NEW c \in Calls, Start(h, c) PROVE UNCHANGED tables
  BY <1>2 DEF Start
<1>3. ASSUME NEW h \in Handlers, Fail(h) PROVE UNCHANGED tables
  BY <1>3 DEF Fail
<1>4. ASSUME NEW h \in Handlers, Progress(h) PROVE UNCHANGED tables
  <2>1. CASE Acquire(h) \/ Reacquire(h) \/ UpsertRefused(h) \/ Select(h) \/ Readback(h)
    BY <2>1 DEF Acquire, Reacquire, UpsertRefused, Select, Readback
  <2>2. CASE UpsertExisting(h) \/ UpsertNew(h)
    BY <2>2 DEF UpsertExisting, UpsertNew
  <2>3. CASE NoSuchRequest(h) \/ InsertRefused(h) \/ CheckNonce(h)
    BY <2>3 DEF NoSuchRequest, InsertRefused, CheckNonce
  <2>4. CASE LockForApprove(h)
    BY <2>4 DEF LockForApprove, TakeRow, WrongState
  <2>5. CASE LockForRecord(h)
    BY <2>5, LockForRecordCases DEF TakeRow, WrongState
  <2>6. CASE InsertApproval(h) \/ InsertExecution(h) \/ Update(h)
    BY <2>6 DEF InsertApproval, InsertExecution, Update
  <2>7. QED
    BY <1>4, <2>1, <2>2, <2>3, <2>4, <2>5, <2>6 DEF Progress, Transaction
<1>5. QED
  BY <1>1, <1>2, <1>3, <1>4 DEF Moves, Step

LEMMA PlaneStep ==
  IndInv /\ [Moves]_store => [Plane!Next]_(Plane!vars)
<1> SUFFICES ASSUME IndInv, [Moves]_store PROVE Plane!Next \/ UNCHANGED tables
  BY DEF tables, Plane!vars
<1>1. QED
  BY PlaneSubmission, PlaneApproval, PlaneExecution, OnlyCommitsWrite

\* Every behaviour of the handlers, however they interleave and fail, is one of
\* ControlPlane: each commit is an operation it allows at that moment.
THEOREM Refinement == Spec => ImplementsControlPlane
<1>1. Init => Plane!Init
  BY DEF Init, Plane!Init, Rows, Plane!Rows
<1>2. QED
  BY <1>1, PlaneStep, NextMoves, Invariance, PTL DEF Spec, ImplementsControlPlane, Plane!Spec

-----------------------------------------------------------------------------
(* What is recorded stays.                                                 *)

\* What a step may not do to what is recorded of a request, or to a finished one.
Kept(row) ==
  /\ requests[row] # None => requests'[row] = requests[row]
  /\ approvals[row] \subseteq approvals'[row]
  /\ \A n \in Nonces :
       executions[row][n] # None => executions'[row][n] = executions[row][n]
  /\ state[row] \in Terminal => state'[row] = state[row]

\* No operation of ControlPlane alters or removes what is recorded.
LEMMA PlaneKeeps ==
  ASSUME IndInv, Plane!Next, NEW row \in Rows
  PROVE  /\ requests[row] # None => requests'[row] = requests[row]
         /\ approvals[row] \subseteq approvals'[row]
         /\ \A n \in Nonces :
              executions[row][n] # None => executions'[row][n] = executions[row][n]
         /\ Plane!Status(row) \in Terminal => executions'[row] = executions[row]
<1>1. StoreOK
  BY DEF IndInv
<1>2. ASSUME NEW r \in Rows, NEW c \in Plane!Contents, Plane!Submit(r, c)
      PROVE  /\ requests[row] # None => requests'[row] = requests[row]
             /\ UNCHANGED <<approvals, executions>>
  BY <1>1, <1>2 DEF StoreOK, Plane!Submit
<1>3. ASSUME NEW r \in Rows, NEW a \in Plane!Approvals, Plane!Approve(r, a)
      PROVE  /\ approvals[row] \subseteq approvals'[row]
             /\ UNCHANGED <<requests, executions>>
  BY <1>1, <1>3 DEF StoreOK, Plane!Approve
<1>4. ASSUME NEW r \in Rows, NEW n \in Nonces, NEW rep \in Plane!Reports,
             Plane!RecordExecution(r, n, rep)
      PROVE  /\ \A m \in Nonces :
                  executions[row][m] # None => executions'[row][m] = executions[row][m]
             /\ Plane!Status(row) \in Terminal => executions'[row] = executions[row]
             /\ UNCHANGED <<requests, approvals>>
  <2>1. Plane!Status(r) = "approved" /\ executions[r][n] = None
        /\ executions' = [executions EXCEPT ![r][n] = rep] /\ UNCHANGED <<requests, approvals>>
    BY <1>4 DEF Plane!RecordExecution
  <2>2. QED
    BY <1>1, <2>1 DEF StoreOK, Terminal
<1>5. QED
  BY <1>2, <1>3, <1>4 DEF Plane!Next, Plane!Rows, Rows

\* A step keeps what is recorded, and no request returns to pending.
LEMMA StepKeeps ==
  ASSUME IndInv, [Moves]_store, NEW row \in Rows
  PROVE  /\ Kept(row)
         /\ state[row] \in {"approved"} \cup Terminal =>
              state'[row] \in {"approved"} \cup Terminal
<1>1. IndInv'
  BY NextInv
<1>2. state[row] = Plane!Status(row) /\ state'[row] = Plane!Status(row)'
  BY <1>1 DEF IndInv, TableInv, StateMatchesLedger
<1>3. /\ requests[row] # None => requests'[row] = requests[row]
      /\ approvals[row] \subseteq approvals'[row]
      /\ \A n \in Nonces :
           executions[row][n] # None => executions'[row][n] = executions[row][n]
      /\ Plane!Status(row) \in Terminal => executions'[row] = executions[row]
  BY PlaneStep, PlaneKeeps DEF Plane!vars
<1>4. ASSUME state[row] \in {"approved"} \cup Terminal
      PROVE  requests[row] # None /\ requests'[row] # None
  BY <1>2, <1>3, <1>4, VocabularyAssumption DEF Plane!Status, Terminal, States
<1>5. ASSUME state[row] \in Terminal PROVE state'[row] = state[row]
  <2>1. requests[row] # None /\ requests'[row] # None /\ executions'[row] = executions[row]
    BY <1>2, <1>3, <1>4, <1>5
  <2>2. Plane!Recorded(row, "committed") \/ Plane!Recorded(row, "indeterminate")
    BY <1>2, <1>5, <2>1 DEF Plane!Status, Terminal
  <2>3. QED
    BY <1>2, <2>1, <2>2 DEF Plane!Status, Plane!Recorded
<1>6. ASSUME state[row] = "approved" PROVE state'[row] \in {"approved"} \cup Terminal
  <2>1. requests'[row] # None /\ approvals'[row] # {}
    BY <1>3, <1>4, <1>6, StatusOf
  <2>2. QED
    BY <1>2, <2>1 DEF Plane!Status, Terminal
<1>7. QED
  BY <1>3, <1>5, <1>6 DEF Kept

\* No request, approval or execution is ever altered or removed by a step of
\* the handlers, and a finished request keeps the state in its column.
THEOREM Immutability == Spec => HistoryImmutable
<1>1. IndInv /\ [Moves]_store => [\A row \in Rows : Kept(row)]_vars
  BY StepKeeps
<1>2. QED
  BY <1>1, NextMoves, Invariance, PTL DEF Spec, HistoryImmutable, Kept
-----------------------------------------------------------------------------
(* Nobody waits in a circle.                                               *)

\* A step of one handler leaves locks with open transactions alone, if the
\* handler has one afterwards or holds no row.
LEMMA LocksFollow ==
  ASSUME StoreOK, LocksInUse, NEW h \in Handlers,
         \A g \in Handlers \ {h} : pc'[g] = pc[g],
         \A row \in Rows : rowLock'[row] \in {None, h, rowLock[row]},
         pc'[h] \in Owning \/ \A row \in Rows : rowLock'[row] # h
  PROVE  LocksInUse'
<1> SUFFICES ASSUME NEW row \in Rows, rowLock'[row] # None
             PROVE  pc'[rowLock'[row]] \in Owning
  BY DEF LocksInUse
<1>1. CASE rowLock'[row] = h
  BY <1>1
<1>2. CASE rowLock'[row] # h
  <2>1. rowLock'[row] = rowLock[row] /\ rowLock[row] \in Handlers \ {h}
    BY <1>2 DEF StoreOK
  <2>2. pc[rowLock[row]] \in Owning
    BY <2>1, StoreAssumption DEF LocksInUse
  <2> QED
    BY <2>1, <2>2
<1> QED
  BY <1>1, <1>2

\* An answer lets go of every row.
LEMMA ReturnUnlocks ==
  ASSUME StoreOK, LocksInUse, NEW h \in Handlers, NEW ans, Return(h, ans)
  PROVE  LocksInUse'
<1>1. \A g \in Handlers \ {h} : pc'[g] = pc[g]
  BY DEF StoreOK, Return, Goto
<1>2. \A row \in Rows : rowLock'[row] = IF rowLock[row] = h THEN None ELSE rowLock[row]
  BY DEF Return, Released
<1>3. \A row \in Rows : rowLock'[row] \in {None, h, rowLock[row]} /\ rowLock'[row] # h
  BY <1>2, StoreAssumption
<1> QED
  BY <1>1, <1>3, LocksFollow

\* A commit does so too, whether the handler hears of it or not.
LEMMA CommittedUnlocks ==
  ASSUME StoreOK, LocksInUse, NEW h \in Handlers, Committed(h)
  PROVE  LocksInUse'
<1>1. CASE Return(h, Error("Internal"))
  BY <1>1, ReturnUnlocks
<1>2. CASE rowLock' = Released(h) /\ Goto(h, "reacquire")
  <2>1. \A g \in Handlers \ {h} : pc'[g] = pc[g]
    BY <1>2 DEF StoreOK, Goto
  <2>2. \A row \in Rows : rowLock'[row] = IF rowLock[row] = h THEN None ELSE rowLock[row]
    BY <1>2 DEF Released
  <2>3. \A row \in Rows : rowLock'[row] \in {None, h, rowLock[row]} /\ rowLock'[row] # h
    BY <2>2, StoreAssumption
  <2> QED
    BY <2>1, <2>3, LocksFollow
<1> QED
  BY <1>1, <1>2 DEF Committed

\* A step that takes no row and goes to a control point behind the lock, or
\* comes from one before it.
LEMMA MoveKeepsLocks ==
  ASSUME StoreOK, LocksInUse, NEW h \in Handlers, NEW label, Goto(h, label),
         UNCHANGED rowLock, label \in Owning \/ pc[h] \notin Owning
  PROVE  LocksInUse'
<1>1. \A g \in Handlers \ {h} : pc'[g] = pc[g]
  BY DEF StoreOK, Goto
<1>2. pc'[h] = label
  BY DEF StoreOK, Goto
<1>3. pc[h] \notin Owning => \A row \in Rows : rowLock[row] # h
  BY StoreAssumption DEF LocksInUse
<1> QED
  BY <1>1, <1>2, <1>3, LocksFollow

\* A step that locks a row is in a transaction that stays open.
LEMMA TakeKeepsLocks ==
  ASSUME StoreOK, LocksInUse, NEW h \in Handlers, NEW label \in Owning, Goto(h, label),
         NEW row, rowLock' = [rowLock EXCEPT ![row] = h]
  PROVE  LocksInUse'
<1>1. \A g \in Handlers \ {h} : pc'[g] = pc[g]
  BY DEF StoreOK, Goto
<1>2. pc'[h] = label
  BY DEF StoreOK, Goto
<1>3. \A r \in Rows : rowLock'[r] \in {None, h, rowLock[r]}
  BY DEF StoreOK
<1> QED
  BY <1>1, <1>2, <1>3, LocksFollow

LEMMA LocksStep ==
  ASSUME IndInv, LocksInUse, [Moves]_store
  PROVE  LocksInUse'
<1>0. StoreOK
  BY DEF IndInv
<1>1. CASE UNCHANGED store
  BY <1>1 DEF LocksInUse, store
<1>2. ASSUME NEW h \in Handlers, NEW c \in Calls, Start(h, c)
      PROVE  LocksInUse'
  <2>1. UNCHANGED rowLock /\ pc[h] \notin Owning /\ (UNCHANGED pc \/ Goto(h, "acquire"))
    BY <1>2 DEF Start, At, Owning
  <2>2. CASE UNCHANGED pc
    BY <2>1, <2>2 DEF LocksInUse
  <2>3. CASE Goto(h, "acquire")
    BY <1>0, <2>1, <2>3, MoveKeepsLocks
  <2> QED
    BY <2>1, <2>2, <2>3
<1>3. ASSUME NEW h \in Handlers, Fail(h)
      PROVE  LocksInUse'
  BY <1>0, <1>3, ReturnUnlocks DEF Fail
<1>4. ASSUME NEW h \in Handlers, Progress(h)
      PROVE  LocksInUse'
  <2> DEFINE reads == CASE call[h].op = "submit" -> "upsert"
                        [] call[h].op = "get"    -> "select"
                        [] call[h].op \in {"approve", "record"} -> "lock"
  <2>1. CASE Acquire(h) \/ Reacquire(h)
    <3>1. UNCHANGED rowLock /\ pc[h] \notin Owning /\ (Goto(h, reads) \/ Goto(h, "readback"))
      BY <2>1 DEF Acquire, Reacquire, At, Owning
    <3> HIDE DEF reads
    <3> QED
      BY <1>0, <3>1, MoveKeepsLocks
  <2>2. CASE UpsertRefused(h) \/ Select(h) \/ NoSuchRequest(h) \/ InsertRefused(h) \/ Readback(h)
    <3>1. \E ans : Return(h, ans)
      BY <2>2 DEF UpsertRefused, Select, NoSuchRequest, InsertRefused, Readback
    <3> QED
      BY <1>0, <3>1, ReturnUnlocks
  <2>3. CASE UpsertExisting(h) \/ UpsertNew(h)
    <3>1. \/ \E ans : Return(h, ans)
          \/ /\ Goto(h, "commit")
             /\ \E row : rowLock' = [rowLock EXCEPT ![row] = h]
      BY <2>3 DEF UpsertExisting, UpsertNew
    <3>2. "commit" \in Owning
      BY DEF Owning
    <3> QED
      BY <1>0, <3>1, <3>2, ReturnUnlocks, TakeKeepsLocks
  <2>4. CASE LockForApprove(h) \/ LockForRecord(h)
    <3>1. \/ WrongState(h)
          \/ \E label \in Owning : TakeRow(h, label)
      <4>1. "insert" \in Owning /\ "check" \in Owning
        BY DEF Owning
      <4>2. CASE LockForApprove(h)
        BY <4>1, <4>2 DEF LockForApprove
      <4>3. CASE LockForRecord(h)
        BY <4>1, <4>3, LockForRecordCases
      <4> QED
        BY <2>4, <4>2, <4>3
    <3>2. CASE WrongState(h)
      BY <1>0, <3>2, ReturnUnlocks DEF WrongState
    <3>3. ASSUME NEW label \in Owning, TakeRow(h, label)
          PROVE  LocksInUse'
      BY <1>0, <3>3, TakeKeepsLocks DEF TakeRow
    <3> QED
      BY <3>1, <3>2, <3>3
  <2>5. CASE CheckNonce(h) \/ InsertApproval(h) \/ InsertExecution(h)
    <3>1. \/ \E ans : Return(h, ans)
          \/ UNCHANGED rowLock /\ \E label \in Owning : Goto(h, label)
      BY <2>5 DEF CheckNonce, InsertApproval, InsertExecution, Owning
    <3> QED
      BY <1>0, <3>1, ReturnUnlocks, MoveKeepsLocks
  <2>6. CASE Update(h)
    <3>1. "commit" \in Owning
      BY DEF Owning
    <3> QED
      BY <1>0, <2>6, <3>1, TakeKeepsLocks DEF Update
  <2>7. CASE CommitSubmit(h)
    BY <1>0, <2>7, ReturnUnlocks DEF CommitSubmit
  <2>8. CASE CommitApproval(h) \/ CommitExecution(h)
    BY <1>0, <2>8, CommittedUnlocks DEF CommitApproval, CommitExecution
  <2> QED
    BY <1>4, <2>1, <2>2, <2>3, <2>4, <2>5, <2>6, <2>7, <2>8 DEF Progress, Transaction
<1> QED
  BY <1>1, <1>2, <1>3, <1>4 DEF Moves, Step

\* A transaction that is over, by an answer, a failure or a commit, holds no row.
LEMMA LocksAreInUse == Spec => []LocksInUse
<1>1. Init => LocksInUse
  BY DEF Init, LocksInUse
<1>2. IndInv /\ LocksInUse /\ [Moves]_store => LocksInUse'
  BY LocksStep
<1> QED
  BY <1>1, <1>2, NextMoves, Invariance, PTL DEF Spec

\* Who has a row, or is about to commit, waits for nobody.
LEMMA OwnerWaitsForNobody ==
  ASSUME IndInv, NEW h \in Handlers, pc[h] \in Owning, NEW g \in Handlers
  PROVE  ~Waits(h, g)
<1>1. rowLock[Row(h)] = h /\ pc[h] \in {"check", "insert", "update", "commit"}
  BY DEF IndInv, HandlerInv, OwnsRow, Owning
<1> QED
  BY <1>1 DEF Waits, WaitsForConn, WaitsForRow, WaitsForKey, At

\* Waiting for a row or a key is waiting for the owner of one.
LEMMA WaitsForOwner ==
  ASSUME IndInv, LocksInUse, NEW h \in Handlers, NEW g \in Handlers,
         WaitsForRow(h, g) \/ WaitsForKey(h, g)
  PROVE  pc[g] \in Owning
<1>1. CASE WaitsForRow(h, g)
  <2>1. PICK row \in Rows : rowLock[row] = g
    <3>1. CASE pc[h] \in {"lock", "insert", "update"} /\ rowLock[Row(h)] = g
      <4>1. call[h] \in Calls /\ call[h].op \in {"approve", "record"}
        BY <3>1 DEF IndInv, HandlerInv, CallAgrees
      <4>2. Row(h) \in Rows
        BY <4>1, RowOfHandler
      <4> QED
        BY <3>1, <4>2
    <3>2. ASSUME NEW ref \in References, rowLock[<<TenantOf[h], ref>>] = g
          PROVE  \E row \in Rows : rowLock[row] = g
      BY <3>2, StoreAssumption DEF Rows
    <3> QED
      BY <1>1, <3>1, <3>2 DEF WaitsForRow
  <2> QED
    BY <2>1, StoreAssumption DEF LocksInUse
<1>2. CASE WaitsForKey(h, g)
  BY <1>2 DEF WaitsForKey, At, Owning
<1> QED
  BY <1>1, <1>2

\* However many handlers and however small the pool: nobody waits in a circle,
\* and nobody waits for a handler that is done.
THEOREM NoDeadlock == Spec => []WaitsEnd
<1>1. ASSUME IndInv, LocksInUse
      PROVE  WaitsEnd
  <2> SUFFICES ASSUME NEW h \in Handlers, NEW g \in Handlers, Waits(h, g)
               PROVE  /\ pc[g] # "idle"
                      /\ \A k \in Handlers : Waits(g, k) => \A m \in Handlers : ~Waits(k, m)
    BY DEF WaitsEnd
  <2>1. CASE pc[g] \in Owning
    BY <1>1, <2>1, OwnerWaitsForNobody DEF Owning
  <2>2. CASE WaitsForConn(h, g)
    <3>1. pc[g] \notin {"idle", "acquire", "reacquire"}
      BY <2>2 DEF WaitsForConn, HoldsConn
    <3>2. ASSUME NEW k \in Handlers, Waits(g, k), NEW m \in Handlers
          PROVE  ~Waits(k, m)
      <4>1. WaitsForRow(g, k) \/ WaitsForKey(g, k)
        BY <3>1, <3>2 DEF Waits, WaitsForConn
      <4>2. pc[k] \in Owning
        BY <1>1, <4>1, WaitsForOwner
      <4> QED
        BY <1>1, <4>2, OwnerWaitsForNobody
    <3> QED
      BY <3>1, <3>2
  <2>3. CASE WaitsForRow(h, g) \/ WaitsForKey(h, g)
    BY <1>1, <2>1, <2>3, WaitsForOwner
  <2> QED
    BY <2>2, <2>3 DEF Waits
<1> QED
  BY <1>1, Invariance, LocksAreInUse, PTL
=============================================================================
