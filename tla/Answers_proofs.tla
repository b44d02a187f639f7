--------------------------- MODULE Answers_proofs ---------------------------
(***************************************************************************)
(* An answer is the truth and stays it: the proof of AnswersHold.  It      *)
(* rests on the invariant and the refinement of RequestStore_proofs: what  *)
(* a handler commits is recorded, what is recorded is never altered, and a *)
(* finished request keeps its state, so the read-back, though a later      *)
(* transaction, cannot contradict the commit it reports on.                *)
(***************************************************************************)
EXTENDS RequestStore_proofs

\* What AnswerInv says of one handler.
AnswerInvOf(h) == /\ answer[h].code = "OK" => AnswerHolds(h)
                  /\ IsContradiction(h) => RefusalHolds(h)
                  /\ CommitStands(h) /\ AnswerFits(h)

\* The handler has not said anything of the record.
Silent(h) == answer[h].code # "OK" /\ ~IsContradiction(h)

\* Nothing of handler g changes.
Untouched(g) ==
  pc'[g] = pc[g] /\ call'[g] = call[g] /\ tx'[g] = tx[g] /\ answer'[g] = answer[g]

LEMMA UntouchedByOthers ==
  ASSUME IndInv, NEW h \in Handlers, Progress(h) \/ Fail(h) \/ \E c \in Calls : Start(h, c),
         NEW g \in Handlers \ {h}
  PROVE  Untouched(g)
<1>1. CASE Fail(h) \/ \E c \in Calls : Start(h, c)
  BY <1>1 DEF IndInv, StoreOK, Untouched, Fail, Start, Return, Goto
<1>2. CASE Acquire(h) \/ Reacquire(h) \/ Select(h) \/ Readback(h)
  BY <1>2 DEF IndInv, StoreOK, Untouched, Acquire, Reacquire, Select, Readback, Return, Goto
<1>3. CASE UpsertExisting(h) \/ UpsertNew(h) \/ UpsertRefused(h) \/ CommitSubmit(h)
  BY <1>3 DEF IndInv, StoreOK, Untouched, UpsertExisting, UpsertNew, UpsertRefused, CommitSubmit,
              Return, Goto
<1>4. CASE NoSuchRequest(h) \/ InsertRefused(h) \/ CheckNonce(h)
  BY <1>4 DEF IndInv, StoreOK, Untouched, NoSuchRequest, InsertRefused, CheckNonce, Return, Goto
<1>5. CASE InsertApproval(h) \/ InsertExecution(h) \/ Update(h)
  BY <1>5 DEF IndInv, StoreOK, Untouched, InsertApproval, InsertExecution, Update, Return, Goto
<1>6. CASE CommitApproval(h) \/ CommitExecution(h)
  BY <1>6 DEF IndInv, StoreOK, Untouched, CommitApproval, CommitExecution, Committed, Return, Goto
<1>7. ASSUME NEW label \in Labels, TakeRow(h, label) PROVE Untouched(g)
  BY <1>7 DEF IndInv, StoreOK, Untouched, TakeRow, Goto
<1>8. CASE WrongState(h)
  BY <1>8 DEF IndInv, StoreOK, Untouched, WrongState, Return, Goto
<1>9. CASE LockForApprove(h)
  BY <1>7, <1>8, <1>9 DEF LockForApprove, Labels
<1>10. CASE LockForRecord(h)
  BY <1>7, <1>8, <1>10, LockForRecordCases DEF Labels
<1>11. QED
  BY <1>1, <1>2, <1>3, <1>4, <1>5, <1>6, <1>9, <1>10 DEF Progress, Transaction

-----------------------------------------------------------------------------
(* What is true of a handler's commit and answer stays true.               *)

LEMMA ReachedStays ==
  ASSUME IndInv, [Moves]_store, NEW row \in Rows, NEW st \in States, Reached(row, st)
  PROVE  Reached(row, st)'
<1>1. /\ Exists(row) => Exists(row)'
      /\ state[row] \in Terminal => state'[row] = state[row]
      /\ state[row] \in {"approved"} \cup Terminal => state'[row] \in {"approved"} \cup Terminal
  BY StepKeeps DEF Kept, Exists
<1>2. CASE st = "pending"
  BY <1>1, <1>2 DEF Reached, Terminal
<1>3. CASE st = "approved"
  BY <1>1, <1>3 DEF Reached, Terminal
<1>4. CASE st \in Terminal
  BY <1>1, <1>4 DEF Reached, Terminal
<1>5. QED
  BY <1>2, <1>3, <1>4 DEF States, Terminal

LEMMA StoredStays ==
  ASSUME IndInv, [Moves]_store, NEW g \in Handlers, Row(g) \in Rows,
         call[g].nonce \in Nonces, call[g].report \in Reports,
         Stored(g) = call[g].report, Untouched(g)
  PROVE  Stored(g)' = call[g].report
<1>1. Row(g)' = Row(g) /\ call'[g] = call[g]
  BY DEF Row, Untouched
<1>2. call[g].report # None
  BY StorableReport
<1>3. executions'[Row(g)][call[g].nonce] = executions[Row(g)][call[g].nonce]
  BY <1>2, StepKeeps DEF Kept, Stored
<1>4. QED
  BY <1>1, <1>3 DEF Stored

LEMMA CommitStays ==
  ASSUME IndInv, [Moves]_store, NEW g \in Handlers, CommitStands(g), Untouched(g)
  PROVE  CommitStands(g)'
<1> SUFFICES ASSUME pc'[g] \in {"reacquire", "readback"} PROVE CommitStands(g)'
  BY DEF CommitStands
<1>1. /\ Row(g)' = Row(g) /\ call'[g] = call[g] /\ tx'[g] = tx[g]
      /\ pc[g] \in {"reacquire", "readback"}
  BY DEF Row, Untouched
<1>2. call[g] \in Calls /\ WellFormed(call[g]) /\ call[g].op \in {"approve", "record"}
  BY <1>1 DEF IndInv, HandlerInv, CallAgrees
<1>3. Row(g) \in Rows
  BY <1>2, RowOfHandler
<1>4. FitsSchema(call[g])
  BY <1>1 DEF CommitStands
<1>5. approvals[Row(g)] \subseteq approvals'[Row(g)]
  BY <1>3, StepKeeps DEF Kept
<1>6. /\ state[Row(g)] \in Terminal => state'[Row(g)] = state[Row(g)]
      /\ state[Row(g)] \in {"approved"} \cup Terminal
         => state'[Row(g)] \in {"approved"} \cup Terminal
  BY <1>3, StepKeeps DEF Kept
<1>7. CASE call[g].op = "approve"
  BY <1>1, <1>4, <1>5, <1>6, <1>7 DEF CommitStands
<1>8. CASE call[g].op = "record"
  <2>1. call[g].nonce \in Nonces /\ call[g].report \in Reports
    BY <1>2, <1>4, <1>8, StorableCall
  <2>2. Stored(g)' = call[g].report
    BY <1>1, <1>3, <1>8, <2>1, StoredStays DEF CommitStands
  <2>3. call[g].report.outcome \notin Clean => NextState(call[g].report.outcome) \in Terminal
    BY <2>1, StorableReport DEF Outcomes, Clean, NextState, Terminal
  <2>4. QED
    BY <1>1, <1>4, <1>6, <1>8, <2>2, <2>3 DEF CommitStands
<1>9. QED
  BY <1>2, <1>7, <1>8

LEMMA AnswerStays ==
  ASSUME IndInv, [Moves]_store, NEW g \in Handlers, answer[g].code = "OK",
         AnswerHolds(g), AnswerFits(g), Untouched(g)
  PROVE  AnswerHolds(g)'
<1>1. /\ Row(g)' = Row(g) /\ call'[g] = call[g] /\ answer'[g] = answer[g]
  BY DEF Row, Untouched
<1>2. /\ call[g] \in Calls /\ WellFormed(call[g])
      /\ call[g].op # "get" => FitsSchema(call[g])
      /\ IF call[g].op = "submit" THEN answer[g].reference \in References
                                  ELSE answer[g].state \in States
  BY DEF AnswerFits
<1>3. CASE call[g].op = "submit"
  <2>1. SubmitHolds(g, answer[g]) /\ <<TenantOf[g], answer[g].reference>> \in Rows
    BY <1>2, <1>3, StoreAssumption DEF AnswerHolds, Rows
  <2>2. requests'[<<TenantOf[g], answer[g].reference>>]
        = requests[<<TenantOf[g], answer[g].reference>>]
    BY <2>1, StepKeeps DEF Kept, SubmitHolds, Exists
  <2>3. QED
    BY <1>1, <1>3, <2>1, <2>2 DEF AnswerHolds, SubmitHolds, Exists
<1>4. CASE call[g].op # "submit"
  <2>1. Row(g) \in Rows /\ answer[g].state \in States
    BY <1>2, <1>4, RowOfHandler
  <2> PICK row \in Rows, st \in States : row = Row(g) /\ st = answer[g].state
    BY <2>1
  <2>2. Reached(row, st) => Reached(row, st)'
    BY ReachedStays
  <2>3. CASE call[g].op = "get"
    BY <1>1, <2>2, <2>3 DEF AnswerHolds, Reached, Exists
  <2>4. CASE call[g].op = "approve"
    <3>1. approvals[Row(g)] \subseteq approvals'[Row(g)]
      BY <2>1, StepKeeps DEF Kept
    <3>2. QED
      BY <1>1, <2>2, <2>4, <3>1 DEF AnswerHolds, ApproveHolds, Reached, Exists
  <2>5. CASE call[g].op = "record"
    <3>1. call[g].nonce \in Nonces /\ call[g].report \in Reports
      BY <1>2, <2>5, StorableCall
    <3>2. RecordHolds(g, answer[g])
      BY <2>5 DEF AnswerHolds
    <3>3. Stored(g)' = call[g].report
      BY <2>1, <3>1, <3>2, StoredStays DEF RecordHolds
    <3>4. state[Row(g)] \in Terminal => state'[Row(g)] = state[Row(g)]
      BY <2>1, StepKeeps DEF Kept
    <3>5. call[g].report.outcome \notin Clean => NextState(call[g].report.outcome) \in Terminal
      BY <3>1, StorableReport DEF Outcomes, Clean, NextState, Terminal
    <3>6. RecordHolds(g, answer[g])'
      BY <1>1, <2>2, <3>2, <3>3, <3>4, <3>5 DEF RecordHolds, Reached, Exists
    <3>7. QED
      BY <1>1, <2>5, <3>6 DEF AnswerHolds
  <2>6. QED
    BY <1>2, <1>4, <2>3, <2>4, <2>5, CallFields
<1>5. QED
  BY <1>3, <1>4

\* What a refusal said is recorded stays recorded.
LEMMA RefusalStays ==
  ASSUME IndInv, [Moves]_store, NEW g \in Handlers, IsContradiction(g),
         RefusalHolds(g), AnswerFits(g), Untouched(g)
  PROVE  RefusalHolds(g)'
<1>1. Row(g)' = Row(g) /\ call'[g] = call[g] /\ answer'[g] = answer[g]
  BY DEF Row, Untouched
<1>2. /\ call[g] \in Calls /\ WellFormed(call[g]) /\ FitsSchema(call[g])
      /\ call[g].op = "record"
  BY DEF AnswerFits
<1>3. Row(g) \in Rows /\ call[g].nonce \in Nonces
  BY <1>2, RowOfHandler, StorableCall
<1>4. executions[Row(g)][call[g].nonce] # None
  BY DEF IsContradiction, RefusalHolds, Stored
<1>5. executions'[Row(g)][call[g].nonce] = executions[Row(g)][call[g].nonce]
  BY <1>3, <1>4, StepKeeps DEF Kept
<1>6. QED
  BY <1>1, <1>5 DEF RefusalHolds, Stored

LEMMA UntouchedKeeps ==
  ASSUME IndInv, [Moves]_store, NEW g \in Handlers, AnswerInvOf(g), Untouched(g)
  PROVE  AnswerInvOf(g)'
<1>1. AnswerFits(g)'
  BY DEF AnswerInvOf, AnswerFits, IsContradiction, Untouched
<1>2. answer'[g].code = "OK" => AnswerHolds(g)'
  BY AnswerStays DEF AnswerInvOf, Untouched
<1>3. IsContradiction(g)' => RefusalHolds(g)'
  BY RefusalStays DEF AnswerInvOf, IsContradiction, Untouched
<1>4. QED
  BY <1>1, <1>2, <1>3, CommitStays DEF AnswerInvOf

-----------------------------------------------------------------------------
(* The handler that moves.                                                 *)

\* A handler that is neither past its commit nor has answered OK owes nothing.
LEMMA OwesNothing ==
  ASSUME NEW h \in Handlers, pc'[h] \notin {"reacquire", "readback"}, Silent(h)'
  PROVE  AnswerInvOf(h)'
BY DEF AnswerInvOf, CommitStands, AnswerFits, Silent

LEMMA RefusedOwesNothing ==
  ASSUME StoreOK, NEW h \in Handlers, NEW code \in Codes \ {"OK"}, Return(h, Error(code))
  PROVE  AnswerInvOf(h)'
<1>1. pc'[h] = "idle" /\ answer'[h].code = code /\ answer'[h].report = None
  BY DEF StoreOK, Return, Goto, Error, Answer
<1>2. QED
  BY <1>1, OwesNothing DEF Silent, IsContradiction

\* On its way to the commit a handler has no answer yet.
LEMMA NoAnswerYet ==
  ASSUME StoreOK, NEW h \in Handlers, AnswerFits(h), pc[h] # "idle", UNCHANGED answer,
         NEW label \in Labels \ {"reacquire", "readback"}, Goto(h, label)
  PROVE  AnswerInvOf(h)'
<1>1. pc'[h] = label /\ Silent(h)'
  BY DEF StoreOK, Goto, AnswerFits, Silent, IsContradiction
<1>2. QED
  BY <1>1, OwesNothing

LEMMA SubmitAnswered ==
  ASSUME IndInv, NEW h \in Handlers, CommitSubmit(h)
  PROVE  AnswerInvOf(h)'
<1>1. CASE Return(h, Error("Internal"))
  BY <1>1, RefusedOwesNothing DEF IndInv, Codes
<1>2. CASE Return(h, Answer("OK", tx[h].reference, None, None))
  <2> PICK row \in Rows : row = Row(h)
    BY CommitSubmitAllowed
  <2>1. StoreOK /\ HandlerInv(h) /\ pc[h] = "commit" /\ call[h].op = "submit"
        /\ row = <<TenantOf[h], tx[h].reference>> /\ tx[h].reference \in References
    BY CommitSubmitAllowed DEF IndInv
  <2>2. call[h] \in Calls /\ WellFormed(call[h]) /\ FitsSchema(call[h])
    BY <2>1 DEF HandlerInv, CallAgrees
  <2>3. /\ pc'[h] = "idle" /\ call'[h] = call[h]
        /\ answer'[h] = Answer("OK", tx[h].reference, None, None)
    BY <1>2, <2>1 DEF StoreOK, Return, Goto, Answer
  <2>4. requests'[row] # None /\ requests'[row].key = call[h].key
    <3>1. CASE Exists(row)
      BY <2>1, <3>1 DEF CommitSubmit, Exists, HandlerInv, SubmitStaged, HasKey, At
    <3>2. CASE ~Exists(row)
      <4>1. requests' = [requests EXCEPT ![row] = [key |-> call[h].key, body |-> call[h].body]]
        BY <3>2 DEF CommitSubmit
      <4>2. [key |-> call[h].key, body |-> call[h].body] # None
        BY CommitSubmitAllowed, StoreAssumption
      <4>3. QED
        BY <2>1, <4>1, <4>2 DEF StoreOK
    <3>3. QED
      BY <3>1, <3>2
  <2>5. AnswerHolds(h)'
    <3>1. answer'[h].reference = tx[h].reference
      BY <2>3 DEF Answer
    <3>2. SubmitHolds(h, answer[h])'
      BY <2>1, <2>3, <2>4, <3>1 DEF SubmitHolds, Exists
    <3>3. QED
      BY <2>1, <2>3, <3>2 DEF AnswerHolds
  <2>6. AnswerFits(h)' /\ CommitStands(h)' /\ ~IsContradiction(h)'
    BY <2>1, <2>2, <2>3
       DEF AnswerFits, CommitStands, IsContradiction, Answer
  <2>7. QED
    BY <2>5, <2>6 DEF AnswerInvOf
<1>3. QED
  BY <1>1, <1>2 DEF CommitSubmit

\* The state a read finds is one the request has reached.
LEMMA ReadReached ==
  ASSUME IndInv, NEW row \in Rows, Exists(row), UNCHANGED tables, NEW st, st = state[row]
  PROVE  st \in States /\ Reached(row, st)'
<1>1. st \in States
  BY VocabularyAssumption
     DEF IndInv, TableInv, StateMatchesLedger, Plane!Status, Plane!Rows, Rows, Exists, States
<1>2. QED
  BY <1>1 DEF Reached, States, Terminal, Exists, tables

LEMMA SelectAnswered ==
  ASSUME IndInv, NEW h \in Handlers, Select(h)
  PROVE  AnswerInvOf(h)'
<1>1. StoreOK /\ HandlerInv(h) /\ pc[h] = "select" /\ UNCHANGED tables
  BY DEF IndInv, Select, At
<1>2. call[h] \in Calls /\ WellFormed(call[h]) /\ call[h].op = "get"
  BY <1>1 DEF HandlerInv, CallAgrees
<1> PICK row \in Rows : row = Row(h)
  BY <1>2, RowOfHandler
<1>3. CASE ~Exists(row)
  BY <1>1, <1>3, RefusedOwesNothing DEF Select, Codes
<1>4. CASE Exists(row)
  <2>1. /\ pc'[h] = "idle" /\ call'[h] = call[h]
        /\ answer'[h] = Answer("OK", call[h].reference, state[row], None)
    BY <1>1, <1>4 DEF Select, StoreOK, Return, Goto, Answer
  <2> PICK st : st = state[row]
    OBVIOUS
  <2>2. st \in States /\ Reached(row, st)'
    BY <1>1, <1>4, ReadReached
  <2>3. Row(h)' = row /\ answer'[h].state = st
    BY <1>2, <2>1 DEF Row, Answer
  <2>4. AnswerHolds(h)'
    BY <1>2, <2>1, <2>2, <2>3 DEF AnswerHolds, Reached, Exists
  <2>5. AnswerFits(h)' /\ CommitStands(h)' /\ ~IsContradiction(h)'
    BY <1>2, <2>1, <2>2, <2>3
       DEF AnswerFits, CommitStands, IsContradiction, Answer
  <2>6. QED
    BY <2>4, <2>5 DEF AnswerInvOf
<1>5. QED
  BY <1>3, <1>4

\* What both commits do to the handler.
LEMMA CommittedAnswered ==
  ASSUME IndInv, NEW h \in Handlers, AnswerFits(h), pc[h] = "commit",
         call[h].op \in {"approve", "record"}, Committed(h)
  PROVE  \/ AnswerInvOf(h)'
         \/ /\ pc'[h] = "reacquire" /\ call'[h] = call[h] /\ tx'[h].report = tx[h].report
            /\ Silent(h)' /\ Row(h)' = Row(h)
<1>1. CASE Return(h, Error("Internal"))
  BY <1>1, RefusedOwesNothing DEF IndInv, Codes
<1>2. CASE /\ tx' = [tx EXCEPT ![h].seen = None, ![h].state = None]
           /\ Goto(h, "reacquire") /\ UNCHANGED <<call, answer>>
  <2>1. tx[h] \in Transactions
    BY DEF IndInv, StoreOK
  <2>2. pc'[h] = "reacquire" /\ tx'[h].report = tx[h].report
    BY <1>2, <2>1 DEF IndInv, StoreOK, Goto, Transactions
  <2>3. Silent(h)'
    BY <1>2 DEF AnswerFits, Silent, IsContradiction
  <2>4. QED
    BY <1>2, <2>2, <2>3 DEF Row
<1>3. QED
  BY <1>1, <1>2 DEF Committed

LEMMA ApprovalCommits ==
  ASSUME IndInv, NEW h \in Handlers, AnswerFits(h), CommitApproval(h)
  PROVE  AnswerInvOf(h)'
<1> PICK row \in Rows : row = Row(h)
  BY CommitApprovalAllowed
<1>1. /\ StoreOK /\ HandlerInv(h) /\ pc[h] = "commit" /\ call[h].op = "approve"
      /\ tx[h].state = "approved" /\ Committed(h)
      /\ state' = [state EXCEPT ![row] = tx[h].state]
      /\ approvals' = [approvals EXCEPT ![row] = @ \cup {<<call[h].stage, call[h].approver>>}]
  BY CommitApprovalAllowed DEF IndInv, CommitApproval
<1>2. FitsSchema(call[h])
  BY <1>1 DEF HandlerInv, CallAgrees
<1>3. state'[row] = "approved" /\ <<call[h].stage, call[h].approver>> \in approvals'[row]
  BY <1>1 DEF StoreOK
<1>4. CASE pc'[h] = "reacquire" /\ call'[h] = call[h] /\ Silent(h)'
           /\ Row(h)' = Row(h)
  BY <1>1, <1>2, <1>3, <1>4 DEF AnswerInvOf, AnswerFits, Silent, CommitStands
<1>5. QED
  BY <1>1, <1>4, CommittedAnswered

LEMMA ExecutionCommits ==
  ASSUME IndInv, NEW h \in Handlers, AnswerFits(h), CommitExecution(h)
  PROVE  AnswerInvOf(h)'
<1> PICK row \in Rows : row = Row(h)
  BY CommitExecutionAllowed
<1> DEFINE rep == call[h].report
<1>1. /\ StoreOK /\ HandlerInv(h) /\ pc[h] = "commit" /\ call[h].op = "record"
      /\ call[h].nonce \in Nonces /\ rep \in Reports /\ Committed(h)
  BY CommitExecutionAllowed DEF IndInv, CommitExecution
<1>2. FitsSchema(call[h]) /\ tx[h].report = rep
      /\ state[row] \in {"approved"} \cup Terminal
  BY <1>1 DEF HandlerInv, CallAgrees, ExecutionStaged, Owning
<1>3. executions'[row][call[h].nonce] = rep
  BY <1>1, <1>2 DEF CommitExecution, StoreOK
<1>4. executions'[row] \in [Nonces -> Reports \cup {None}] /\ rep # None
  BY <1>1, NextInv, StorableReport DEF IndInv, StoreOK, Moves, Step, Progress, Transaction
<1>5. state'[row] \in {"approved"} \cup Terminal
  BY <1>2, StepKeeps DEF Moves, Step, Progress, Transaction
<1>6. rep.outcome \notin Clean => state'[row] = NextState(rep.outcome)
  <2>1. HAVE rep.outcome \notin Clean
  <2>2. rep.outcome \in {"committed", "indeterminate"}
    BY <1>1, <2>1, StorableReport DEF Outcomes, Clean
  <2>3. CASE state[row] = "approved"
    <3>1. tx[h].state = NextState(rep.outcome) /\ NextState(rep.outcome) # None
      BY <1>1, <2>3, StorableReport, VocabularyAssumption
         DEF HandlerInv, ExecutionStaged, Owning, States, Terminal
    <3>2. QED
      BY <1>1, <3>1 DEF CommitExecution, StoreOK
  <2>4. CASE state[row] # "approved"
    <3>1. Stored(h) = rep
      BY <1>1, <1>2, <2>4 DEF HandlerInv, ExecutionStaged, Owning, Returned
    <3>2. Plane!Recorded(row, rep.outcome) /\ state'[row] = state[row]
      BY <1>1, <1>2, <1>4, <2>4, <3>1, StepKeeps
         DEF Kept, Moves, Step, Progress, Transaction, Plane!Recorded, Stored
    <3>3. ~(Plane!Recorded(row, "committed") /\ Plane!Recorded(row, "indeterminate"))
      BY DEF IndInv, TableInv, AtMostOneSettlement, Settling, Clean, Plane!Recorded
    <3>4. state[row] = Plane!Status(row) /\ state[row] \in Terminal
      BY <1>2, <2>4, StatusOf
    <3>5. CASE rep.outcome = "committed"
      <4>1. Plane!Recorded(row, "committed") /\ NextState(rep.outcome) = "executed"
        BY <3>2, <3>5 DEF NextState, Clean, Plane!Recorded
      <4>2. QED
        BY <3>2, <3>4, <4>1, VocabularyAssumption DEF Plane!Status, Terminal, States
    <3>6. CASE rep.outcome = "indeterminate"
      <4>1. Plane!Recorded(row, "indeterminate") /\ NextState(rep.outcome) = "indeterminate"
        BY <3>2, <3>6 DEF NextState, Clean, Plane!Recorded
      <4>2. QED
        BY <3>2, <3>3, <3>4, <4>1, VocabularyAssumption DEF Plane!Status, Terminal, States
    <3>7. state'[row] = NextState(rep.outcome)
      BY <2>2, <3>2, <3>5, <3>6
    <3>8. QED
      BY <3>7
  <2>5. QED
    BY <2>3, <2>4
<1>7. CASE pc'[h] = "reacquire" /\ call'[h] = call[h] /\ Silent(h)'
           /\ tx'[h].report = tx[h].report /\ Row(h)' = Row(h)
  BY <1>1, <1>2, <1>3, <1>5, <1>6, <1>7
     DEF AnswerInvOf, AnswerFits, Silent, CommitStands, Stored
<1>8. QED
  BY <1>1, <1>7, CommittedAnswered

LEMMA ReadbackAnswered ==
  ASSUME IndInv, NEW h \in Handlers, CommitStands(h), Readback(h)
  PROVE  AnswerInvOf(h)'
<1>1. StoreOK /\ HandlerInv(h) /\ pc[h] = "readback" /\ UNCHANGED tables
  BY DEF IndInv, Readback, At
<1>2. /\ call[h] \in Calls /\ WellFormed(call[h]) /\ call[h].op \in {"approve", "record"}
      /\ FitsSchema(call[h])
  BY <1>1 DEF HandlerInv, CallAgrees, CommitStands
<1> PICK row \in Rows : row = Row(h)
  BY <1>2, RowOfHandler
<1> PICK st : st = state[row]
  OBVIOUS
<1>3. CASE ~Exists(row)
  BY <1>1, <1>3, RefusedOwesNothing DEF Readback, Codes
<1>4. CASE Exists(row)
  <2>1. /\ pc'[h] = "idle" /\ call'[h] = call[h]
        /\ answer'[h] = Answer("OK", call[h].reference, st, tx[h].report)
    BY <1>1, <1>4 DEF Readback, StoreOK, Return, Goto, Answer
  <2>2. st \in States /\ Reached(row, st)'
    BY <1>1, <1>4, ReadReached
  <2>3. /\ Row(h)' = row /\ answer'[h].state = st /\ answer'[h].report = tx[h].report
        /\ st \in {"approved"} \cup Terminal /\ state'[row] = st
    BY <1>1, <1>2, <2>1 DEF Row, Answer, CommitStands, tables
  <2>4. ASSUME call[h].op = "approve" PROVE AnswerHolds(h)'
    <3>1. <<call[h].stage, call[h].approver>> \in approvals'[row]
      BY <1>1, <2>4 DEF CommitStands, tables
    <3>2. ApproveHolds(h, answer[h])'
      BY <2>1, <2>2, <2>3, <3>1 DEF ApproveHolds, Reached, Exists, Terminal
    <3>3. QED
      BY <2>1, <2>4, <3>2 DEF AnswerHolds
  <2>5. ASSUME call[h].op = "record" PROVE AnswerHolds(h)'
    <3>1. /\ tx[h].report = call[h].report /\ Stored(h) = call[h].report
          /\ call[h].report.outcome \notin Clean => st = NextState(call[h].report.outcome)
      BY <1>1, <2>5 DEF CommitStands
    <3>2. Stored(h)' = call[h].report
      BY <1>1, <2>1, <2>3, <3>1 DEF Stored, tables
    <3>3. RecordHolds(h, answer[h])'
      BY <2>1, <2>2, <2>3, <3>1, <3>2 DEF RecordHolds, Reached, Exists, Terminal
    <3>4. QED
      BY <2>1, <2>5, <3>3 DEF AnswerHolds
  <2>6. AnswerHolds(h)'
    BY <1>2, <2>4, <2>5
  <2>7. AnswerFits(h)' /\ CommitStands(h)' /\ ~IsContradiction(h)'
    BY <1>2, <2>1, <2>2, <2>3
       DEF AnswerFits, CommitStands, IsContradiction, Answer
  <2>8. QED
    BY <2>6, <2>7 DEF AnswerInvOf
<1>5. QED
  BY <1>3, <1>4

LEMMA ReacquireKeeps ==
  ASSUME IndInv, NEW h \in Handlers, AnswerInvOf(h), Reacquire(h)
  PROVE  AnswerInvOf(h)'
<1>1. /\ pc[h] = "reacquire" /\ pc'[h] = "readback"
      /\ UNCHANGED <<tables, rowLock, call, tx, answer>>
  BY DEF IndInv, StoreOK, Reacquire, At, Goto
<1>2. Silent(h)'
  BY <1>1 DEF AnswerInvOf, AnswerFits, Silent, IsContradiction
<1>3. CommitStands(h)'
  BY <1>1 DEF AnswerInvOf, CommitStands, Row, Stored, tables
<1>4. QED
  BY <1>2, <1>3 DEF AnswerInvOf, AnswerFits, Silent

LEMMA StartAnswered ==
  ASSUME IndInv, NEW h \in Handlers, NEW c \in Calls, Start(h, c)
  PROVE  AnswerInvOf(h)'
<1>1. pc'[h] \in {"idle", "acquire"} /\ Silent(h)'
  BY StoreAssumption DEF IndInv, StoreOK, Start, At, Goto, NoAnswer, Error, Answer, Codes,
                         Silent, IsContradiction
<1>2. QED
  BY <1>1, OwesNothing

\* A refusal tells the repeat what is stored: it differs from what was sent only
\* if something was stored.
LEMMA RepeatAnswered ==
  ASSUME IndInv, NEW h \in Handlers, AnswerFits(h), InsertExecution(h)
  PROVE  AnswerInvOf(h)'
<1>1. /\ pc[h] = "insert" /\ call[h].op = "record" /\ FitsSchema(call[h]) /\ UNCHANGED tables
      /\ StoreOK
  BY DEF IndInv, InsertExecution, At
<1>2. call[h] \in Calls /\ WellFormed(call[h])
  BY <1>1, OpenTransaction
<1>3. CASE Returned(h) # call[h].report
  <2>1. Return(h, Contradicted(h)) /\ Stored(h) # None /\ Stored(h) = Returned(h)
    BY <1>3 DEF InsertExecution, Returned
  <2>2. /\ pc'[h] = "idle" /\ call'[h] = call[h]
        /\ answer'[h].code = "FailedPrecondition" /\ answer'[h].report = Stored(h)
    BY <1>1, <2>1 DEF StoreOK, Return, Goto, Contradicted, Answer
  <2>3. Stored(h)' = Stored(h)
    BY <1>1, <2>2 DEF Stored, Row, tables
  <2>4. RefusalHolds(h)'
    BY <1>3, <2>1, <2>2, <2>3 DEF RefusalHolds
  <2>5. AnswerFits(h)' /\ CommitStands(h)'
    BY <1>1, <1>2, <2>2 DEF AnswerFits, CommitStands
  <2>6. QED
    BY <2>2, <2>4, <2>5 DEF AnswerInvOf
<1>4. CASE Returned(h) = call[h].report
  <2>1. /\ UNCHANGED answer
        /\ \E label \in Labels \ {"reacquire", "readback"} : Goto(h, label)
    BY <1>4 DEF InsertExecution, Labels
  <2>2. QED
    BY <1>1, <2>1, NoAnswerYet
<1>5. QED
  BY <1>3, <1>4

\* Every other step of a handler refuses or goes on towards its commit.
LEMMA OnItsWay ==
  ASSUME IndInv, NEW h \in Handlers, AnswerFits(h),
         \/ Acquire(h) \/ UpsertExisting(h) \/ UpsertNew(h) \/ UpsertRefused(h)
         \/ NoSuchRequest(h) \/ LockForApprove(h) \/ LockForRecord(h) \/ CheckNonce(h)
         \/ InsertRefused(h) \/ InsertApproval(h) \/ Update(h)
         \/ Fail(h)
  PROVE  AnswerInvOf(h)'
<1> DEFINE Refuses == \E code \in Codes \ {"OK"} : Return(h, Error(code))
           GoesOn == /\ pc[h] # "idle" /\ UNCHANGED answer
                     /\ \E label \in Labels \ {"reacquire", "readback"} : Goto(h, label)
<1>1. Refuses \/ GoesOn => AnswerInvOf(h)'
  BY RefusedOwesNothing, NoAnswerYet DEF IndInv
<1>2. CASE Acquire(h)
  <2>1. call[h].op \in {"submit", "get", "approve", "record"}
    BY <1>2, CallFields DEF IndInv, HandlerInv, CallAgrees, Acquire, At
  <2>2. GoesOn
    BY <1>2, <2>1 DEF Acquire, At, Labels
  <2>3. QED
    BY <1>1, <2>2
<1>3. CASE UpsertExisting(h) \/ UpsertNew(h) \/ UpsertRefused(h)
  <2>1. Refuses \/ GoesOn
    BY <1>3 DEF UpsertExisting, UpsertNew, UpsertRefused, At, Labels, Codes
  <2>2. QED
    BY <1>1, <2>1
<1>4. CASE NoSuchRequest(h) \/ InsertRefused(h) \/ CheckNonce(h) \/ Fail(h)
  <2>1. Refuses \/ GoesOn
    BY <1>4 DEF NoSuchRequest, InsertRefused, CheckNonce, Fail, At, Labels, Codes
  <2>2. QED
    BY <1>1, <2>1
<1>5. CASE InsertApproval(h) \/ Update(h)
  <2>1. Refuses \/ GoesOn
    BY <1>5 DEF InsertApproval, Update, At, Labels, Codes
  <2>2. QED
    BY <1>1, <2>1
<1>6. CASE LockForApprove(h) \/ LockForRecord(h)
  <2>1. /\ pc[h] = "lock"
        /\ \/ \E label \in {"insert", "check"} : TakeRow(h, label)
           \/ WrongState(h)
    BY <1>6, LockForRecordCases DEF LockForApprove, At
  <2>2. Refuses \/ GoesOn
    BY <2>1 DEF TakeRow, WrongState, Labels, Codes
  <2>3. QED
    BY <1>1, <2>2
<1>7. QED
  BY <1>2, <1>3, <1>4, <1>5, <1>6

LEMMA MoverKeeps ==
  ASSUME IndInv, NEW h \in Handlers, AnswerInvOf(h),
         Progress(h) \/ Fail(h) \/ \E c \in Calls : Start(h, c)
  PROVE  AnswerInvOf(h)'
<1>1. AnswerFits(h) /\ CommitStands(h)
  BY DEF AnswerInvOf
<1>2. CASE CommitSubmit(h) \/ CommitApproval(h) \/ CommitExecution(h)
  BY <1>1, <1>2, SubmitAnswered, ApprovalCommits, ExecutionCommits
<1>3. CASE Select(h) \/ Readback(h) \/ Reacquire(h) \/ InsertExecution(h)
  BY <1>1, <1>3, SelectAnswered, ReadbackAnswered, ReacquireKeeps, RepeatAnswered
<1>4. QED
  BY <1>1, <1>2, <1>3, OnItsWay, StartAnswered DEF Progress, Transaction

-----------------------------------------------------------------------------
LEMMA InitAnswers ==
  Init => AnswerInv
<1> SUFFICES ASSUME Init PROVE AnswerInv
  OBVIOUS
<1>1. \A h \in Handlers : Silent(h) /\ pc[h] = "idle"
  BY StoreAssumption DEF Init, NoAnswer, Answer, Codes, Silent, IsContradiction
<1>2. QED
  BY <1>1, InitInv DEF AnswerInv, AnswersHold, CommitStands, AnswerFits, Silent

LEMMA NextAnswers ==
  AnswerInv /\ [Moves]_store => AnswerInv'
<1> SUFFICES ASSUME AnswerInv, [Moves]_store PROVE AnswerInv'
  OBVIOUS
<1>1. IndInv /\ \A h \in Handlers : AnswerInvOf(h)
  BY DEF AnswerInv, AnswersHold, AnswerInvOf
<1>2. ASSUME NEW h \in Handlers, Progress(h) \/ Fail(h) \/ \E c \in Calls : Start(h, c)
      PROVE  \A g \in Handlers : AnswerInvOf(g)'
  BY <1>1, <1>2, MoverKeeps, UntouchedByOthers, UntouchedKeeps
<1>3. \A g \in Handlers : AnswerInvOf(g)'
  <2>1. CASE UNCHANGED store
    BY <1>1, <2>1, UntouchedKeeps DEF Untouched, store
  <2>2. QED
    BY <1>2, <2>1 DEF Moves, Step
<1>4. QED
  BY <1>1, <1>3, NextInv DEF AnswerInv, AnswersHold, AnswerInvOf

\* The invariant the runs check is inductive: commits stand until they are read
\* back and answers stay true, on top of IndInv.
THEOREM AnswerInvariance == Spec => []AnswerInv
BY InitAnswers, NextAnswers, NextMoves, PTL DEF Spec

\* Whatever other handlers do, whichever step fails and whoever dies, an answer
\* OK tells the truth when it is given and ever after, and so does the refusal of
\* a repeat, for any number of handlers.
THEOREM TrueAnswers == Spec => []AnswersHold
<1>1. AnswerInv => AnswersHold
  BY DEF AnswerInv
<1>2. QED
  BY <1>1, AnswerInvariance, PTL
=============================================================================
