------------------------------- MODULE Pilot --------------------------------
(***************************************************************************)
(* The system around the control plane: operators who submit, approve and  *)
(* launch attempts with the marque and pilot commands, one pilot process   *)
(* per attempt, and the target database it runs the statement on.  The     *)
(* control plane is the record of ControlPlane, which RequestStore         *)
(* implements.  A pilot may be interrupted (SIGINT, SIGTERM: its context   *)
(* is cancelled) or killed at any step, an answer of the target or of the  *)
(* control plane may be lost or never come, and a COMMIT or a report       *)
(* already sent may take effect after its sender has gone.                 *)
(***************************************************************************)
EXTENDS Vocabulary, FiniteSets

CONSTANTS Tenants, References, Keys, Bodies, Approvers, Nonces,
          Scripts,  \* the bodies that are several commands, a COMMIT among them
          Pilots,   \* the attempts: invocations of `pilot execute`
          Interruptible,  \* (bound) the pilots a signal may interrupt
          Careful   \* operators launch an attempt only if all earlier ones of
                    \* the request reported or never touched the target

VARIABLES requests, approvals, executions,  \* the control plane's record
          at,        \* at[p]: where the pilot is
          job,       \* job[p]: the row and the nonce it was launched with
          session,   \* session[p]: its transaction, as the target has it
          affected,  \* affected[p]: rows its statement affected
          result,    \* result[p]: the report the pilot makes of it
          wire,      \* wire[p]: that report on its way to the control plane
          interrupted  \* the pilots whose context a signal has cancelled

plane == <<requests, approvals, executions>>
work == <<requests, approvals, executions, at, job, session, affected, result, wire>>
vars == <<requests, approvals, executions, at, job, session, affected, result, wire,
          interrupted>>

Plane == INSTANCE ControlPlane

\* The pilot has exited: before it touched the target, with its report
\* acknowledged, with its report failed, or without a chance to do anything.
Exited == {"refused", "reported", "unreported", "killed"}

Locations == {"ready", "fetch", "open", "begin", "exec", "rollback", "commit",
              "settle", "report", "await"} \cup Exited

\* The transaction has not begun, is open, has run the statement, can only
\* roll back, has been sent COMMIT; it is applied, refused or rolled back.
Sessions == {"none", "open", "ran", "failed", "committing",
             "applied", "refused", "ended"}

Counts == {n \in RowCounts : n >= 0}

Jobs == Plane!Rows \X Nonces

Launched(row) == {p \in Pilots : job[p] # None /\ job[p][1] = row}

Init == /\ Plane!Init
        /\ at = [p \in Pilots |-> "ready"]
        /\ job = [p \in Pilots |-> None]
        /\ session = [p \in Pilots |-> "none"]
        /\ affected = [p \in Pilots |-> None]
        /\ result = [p \in Pilots |-> None]
        /\ wire = [p \in Pilots |-> "none"]
        /\ interrupted = {}

Goto(p, l) == at' = [at EXCEPT ![p] = l]

Becomes(p, s) == session' = [session EXCEPT ![p] = s]

\* The context of the run is cancelled: a wait under it ends with an error, and
\* nothing more is sent under it.
Cancelled(p) == p \in interrupted

\* The transaction, if one is still open, is rolled back.
RollsBack(p) == IF session[p] \in {"open", "ran", "failed"} THEN Becomes(p, "ended")
                                                         ELSE UNCHANGED session

\* The attempt is classified: the pilot goes on to report it.
Classify(p, outcome, rows) ==
  /\ result' = [result EXCEPT ![p] = Report(outcome, rows)]
  /\ Goto(p, "report")

-----------------------------------------------------------------------------
(* Operators.                                                              *)

SubmitRequest(row, c) ==
  Plane!Submit(row, c) /\ UNCHANGED <<at, job, session, affected, result, wire>>

ApproveRequest(row, a) ==
  /\ Plane!Approve(row, a)
  /\ UNCHANGED <<at, job, session, affected, result, wire>>

Launch(p, row, n) ==
  /\ at[p] = "ready"
  /\ Careful => \A q \in Launched(row) : at[q] \in {"refused", "reported"}
  /\ job' = [job EXCEPT ![p] = <<row, n>>]
  /\ Goto(p, "fetch")
  /\ UNCHANGED <<plane, session, affected, result, wire>>

-----------------------------------------------------------------------------
(* The pilot up to the COMMIT.                                             *)

\* Mutation: the request is run whatever state it is in.
FetchAnyState(p) ==
  /\ at[p] = "fetch"
  /\ \/ Plane!Status(job[p][1]) # None /\ ~Cancelled(p) /\ Goto(p, "open")
     \/ Goto(p, "refused")
  /\ UNCHANGED <<plane, job, session, affected, result, wire>>

\* GetRequest: not approved, unknown, or no answer, and the pilot exits.
Fetch(p) ==
  /\ at[p] = "fetch"
  /\ \/ Plane!Status(job[p][1]) = "approved" /\ ~Cancelled(p) /\ Goto(p, "open")
     \/ Goto(p, "refused")
  /\ UNCHANGED <<plane, job, session, affected, result, wire>>

OpenTarget(p) ==
  /\ at[p] = "open"
  /\ \/ ~Cancelled(p) /\ Goto(p, "begin")
     \/ Goto(p, "refused")
  /\ UNCHANGED <<plane, job, session, affected, result, wire>>

Begin(p) ==
  /\ at[p] = "begin"
  /\ \/ ~Cancelled(p) /\ Becomes(p, "open") /\ Goto(p, "exec") /\ UNCHANGED result
     \/ Becomes(p, "ended") /\ Classify(p, "aborted_not_applied", 0)
  /\ UNCHANGED <<plane, job, affected, wire>>

RunsScript(p) == requests[job[p][1]].body \in Scripts

\* Mutation: the simple protocol, which runs a script command by command: the
\* COMMIT in it applies what came before, whatever happens to the rest.
ExecSimpleProtocol(p) ==
  /\ at[p] = "exec"
  /\ \/ /\ \E n \in Counts : affected' = [affected EXCEPT ![p] = n]
        /\ Becomes(p, IF RunsScript(p) THEN "applied" ELSE "ran") /\ Goto(p, "commit")
     \/ /\ UNCHANGED affected
        /\ Becomes(p, IF RunsScript(p) THEN "applied" ELSE "failed") /\ Goto(p, "rollback")
  /\ UNCHANGED <<plane, job, result, wire>>

\* The statement runs, or the server refuses it or its answer is lost: then no
\* COMMIT will be sent and the transaction can only roll back.  The extended
\* protocol refuses a script before any of it runs.
Exec(p) ==
  /\ at[p] = "exec"
  /\ \/ /\ ~RunsScript(p) /\ ~Cancelled(p)
        /\ \E n \in Counts : affected' = [affected EXCEPT ![p] = n]
        /\ Becomes(p, "ran") /\ Goto(p, "commit")
     \/ /\ UNCHANGED affected
        /\ Becomes(p, "failed") /\ Goto(p, "rollback")
  /\ UNCHANGED <<plane, job, result, wire>>

\* Mutation: an outcome nobody knows is reported with a count.
RollbackCounts(p) ==
  /\ at[p] = "rollback"
  /\ RollsBack(p)
  /\ Classify(p, "aborted_not_applied", 0) \/ Classify(p, "indeterminate", 0)
  /\ UNCHANGED <<plane, job, affected, wire>>

\* The statement failed.  If ROLLBACK fails too nothing definite is reported.
Rollback(p) ==
  /\ at[p] = "rollback"
  /\ RollsBack(p)
  /\ \/ ~Cancelled(p) /\ Classify(p, "aborted_not_applied", 0)
     \/ Classify(p, "indeterminate", None)
  /\ UNCHANGED <<plane, job, affected, wire>>

\* COMMIT is sent, or a cancelled context keeps it from being sent.
Commit(p) ==
  /\ at[p] = "commit"
  /\ \/ ~Cancelled(p) /\ Becomes(p, "committing") /\ Goto(p, "settle") /\ UNCHANGED result
     \/ Becomes(p, "ended") /\ Classify(p, "indeterminate", None)
  /\ UNCHANGED <<plane, job, affected, wire>>

\* The target, which does not depend on the pilot being there, processes the
\* COMMIT, declines it with an ERROR, or loses the session before either.
TargetSettles(p) ==
  /\ session[p] = "committing"
  /\ \E s \in {"applied", "refused", "ended"} : Becomes(p, s)
  /\ UNCHANGED <<plane, at, job, affected, result, wire>>

-----------------------------------------------------------------------------
(* The classification of the COMMIT, and the report.                       *)

\* Mutation: a COMMIT with no answer is taken for a successful one.
SettleNoAnswerIsSuccess(p) ==
  /\ at[p] = "settle"
  /\ \/ session[p] = "refused" /\ Classify(p, "rolled_back", 0)
     \/ Classify(p, "committed", affected[p])
  /\ UNCHANGED <<plane, job, session, affected, wire>>

\* The answer to COMMIT arrives, success or ERROR; or the connection or the
\* context ends before it does (a FATAL one is none), and then it may have been
\* applied, or may yet be.  While neither ends, the pilot waits without a bound.
Settle(p) ==
  /\ at[p] = "settle"
  /\ \/ session[p] = "applied" /\ ~Cancelled(p) /\ Classify(p, "committed", affected[p])
     \/ session[p] = "refused" /\ ~Cancelled(p) /\ Classify(p, "rolled_back", 0)
     \/ Classify(p, "indeterminate", None)
  /\ UNCHANGED <<plane, job, session, affected, wire>>

\* Mutation: the report goes out under the context of the run.
SendReportUnderSignal(p) ==
  /\ at[p] = "report"
  /\ IF Cancelled(p) THEN Goto(p, "unreported") /\ UNCHANGED wire
                     ELSE Goto(p, "await") /\ wire' = [wire EXCEPT ![p] = "sent"]
  /\ UNCHANGED <<plane, job, session, affected, result>>

\* Sent under a context no signal cancels.
SendReport(p) ==
  /\ at[p] = "report"
  /\ wire' = [wire EXCEPT ![p] = "sent"]
  /\ Goto(p, "await")
  /\ UNCHANGED <<plane, job, session, affected, result>>

Answered(p, a) == wire' = [wire EXCEPT ![p] = a]

\* The report is of a nonce already recorded, and agrees with what is stored.
Repeats(p) == executions[job[p][1]][job[p][2]] = result[p]

Recordable(p) == /\ Plane!Status(job[p][1]) = "approved"
                 /\ executions[job[p][1]][job[p][2]] = None

\* The control plane processes the report: records it, acknowledges a repeat,
\* refuses it or fails; or the report never arrives.  It may fail to answer a
\* report it has recorded.
Deliver(p) ==
  /\ wire[p] = "sent"
  /\ \/ /\ Plane!RecordExecution(job[p][1], job[p][2], result[p])
        /\ Answered(p, "ok") \/ Answered(p, "failed")
     \/ UNCHANGED plane /\ Repeats(p) /\ Answered(p, "ok")
     \/ UNCHANGED plane /\ ~Repeats(p) /\ ~Recordable(p) /\ Answered(p, "failed")
     \/ UNCHANGED plane /\ Answered(p, "failed")
  /\ UNCHANGED <<at, job, session, affected, result>>

\* Mutation: whatever the control plane answers, the attempt counts as reported.
HearAnyAnswer(p) ==
  /\ at[p] = "await"
  /\ \/ wire[p] \in {"ok", "failed"} /\ Goto(p, "reported")
     \/ Goto(p, "unreported")
  /\ UNCHANGED <<plane, job, session, affected, result, wire>>

\* One report and no retry: an error, or thirty seconds without an answer, and
\* the pilot exits saying that the control plane does not know.
Hear(p) ==
  /\ at[p] = "await"
  /\ \/ wire[p] = "ok" /\ Goto(p, "reported")
     \/ Goto(p, "unreported")
  /\ UNCHANGED <<plane, job, session, affected, result, wire>>

\* The process dies.  A transaction that was not sent COMMIT rolls back.
Kill(p) ==
  /\ at[p] \notin {"ready"} \cup Exited
  /\ Goto(p, "killed")
  /\ RollsBack(p)
  /\ UNCHANGED <<plane, job, affected, result, wire>>

\* SIGINT or SIGTERM: the process goes on under a cancelled context.
Interrupt(p) ==
  /\ p \in Interruptible /\ at[p] \notin {"ready"} \cup Exited
  /\ interrupted' = interrupted \cup {p}
  /\ UNCHANGED work

\* The report, which waits for thirty seconds at most.
Reporting(p) == SendReport(p) \/ Hear(p)

\* What a pilot does unless it is killed.
Step(p) == \/ Fetch(p) \/ OpenTarget(p) \/ Begin(p) \/ Exec(p) \/ Rollback(p)
           \/ Commit(p) \/ Settle(p) \/ Reporting(p)

\* All that happens but for the signals.
Moves == \/ \E row \in Plane!Rows :
              \/ \E c \in Plane!Contents : SubmitRequest(row, c)
              \/ \E a \in Plane!Approvals : ApproveRequest(row, a)
         \/ \E p \in Pilots :
              \/ \E row \in Plane!Rows, n \in Nonces : Launch(p, row, n)
              \/ Step(p) \/ TargetSettles(p) \/ Deliver(p) \/ Kill(p)

Next == \/ Moves /\ UNCHANGED interrupted
        \/ \E p \in Pilots : Interrupt(p)

Spec == Init /\ [][Next]_vars

\* The run has no deadline: a pilot waits for the control plane and the target as
\* long as they take, unless a signal cancels its context.  Only the report has
\* one.  So a pilot is certain to go on when it reports and when it is interrupted.
Fairness == \A p \in Pilots :
  /\ WF_vars(Reporting(p) /\ UNCHANGED interrupted)
  /\ WF_vars(Cancelled(p) /\ Step(p) /\ UNCHANGED interrupted)

FairSpec == Spec /\ Fairness

-----------------------------------------------------------------------------
(* Properties.                                                             *)

WorkOK ==
  /\ requests \in [Plane!Rows -> Plane!Contents \cup {None}]
  /\ approvals \in [Plane!Rows -> SUBSET Plane!Approvals]
  /\ executions \in [Plane!Rows -> [Nonces -> Reports \cup {None}]]
  /\ at \in [Pilots -> Locations]
  /\ job \in [Pilots -> Jobs \cup {None}]
  /\ session \in [Pilots -> Sessions]
  /\ affected \in [Pilots -> Counts \cup {None}]
  /\ result \in [Pilots -> Reports \cup {None}]
  /\ wire \in [Pilots -> {"none", "sent", "ok", "failed"}]

\* Every variable has its type; in particular every report a pilot makes is
\* one the control plane accepts: a count exactly when the outcome is known.
TypeOK == WorkOK /\ interrupted \subseteq Pilots

IsClean(r) == r # None /\ r.outcome \in Clean

\* An attempt a pilot calls aborted or rolled back changed nothing at the
\* target and never will, not even through a COMMIT still on its way.
CleanMeansNotApplied ==
  \A p \in Pilots : IsClean(result[p]) => session[p] \in {"refused", "ended"}

Applied(p, row, n) == job[p] = <<row, n>> /\ session[p] = "applied"

\* What the control plane records is what happened at the target: committed
\* with a count only if an attempt under that nonce applied with that count,
\* and a clean failure only if the attempt under that nonce, as long as there
\* is but one, did not.
RecordIsTruthful ==
  \A row \in Plane!Rows, n \in Nonces :
    LET r == executions[row][n] IN
    /\ r # None /\ r.outcome = "committed" =>
         \E p \in Pilots : Applied(p, row, n) /\ affected[p] = r.rows
    /\ IsClean(r) =>
         \A p \in Pilots :
           {q \in Pilots : job[q] = <<row, n>>} = {p} =>
             session[p] \notin {"committing", "applied"}

\* With careful operators one approval applies the statement at most once,
\* though nothing holds the request while an attempt runs: a report that was
\* acknowledged either settles the request or proves nothing was applied.
AppliedAtMostOnce ==
  \A p, q \in Pilots :
    /\ session[p] \in {"applied", "committing"}
    /\ session[q] \in {"applied", "committing"}
    /\ job[p][1] = job[q][1]
    => p = q

\* Exit status 0 means this very attempt applied the statement and its commit
\* is what the control plane has recorded under its nonce.
ExitZeroMeansApplied ==
  \A p \in Pilots :
    at[p] = "reported" /\ result[p].outcome = "committed" =>
      /\ session[p] = "applied"
      /\ executions[job[p][1]][job[p][2]] = result[p]

\* The pilot has begun to work on the target, and has not reported yet.
OwesReport(p) == at[p] \in {"begin", "exec", "rollback", "commit", "settle", "report"}

\* A signal does not keep the control plane from hearing of an attempt: one that
\* is interrupted after it reached the target sends its report all the same,
\* and so does every attempt once its outcome is known, unless the process is
\* killed.  (An attempt that is not interrupted may wait for the target for ever.)
AttemptsAreReported ==
  \A p \in Pilots :
    OwesReport(p) /\ (Cancelled(p) \/ result[p] # None)
    ~> wire[p] # "none" \/ at[p] = "killed"

\* What the header of cmd/pilot says of a re-run under a nonce that is already
\* recorded: it is refused, after the statement has run.
RerunUnderRecordedNonceIsRefused ==
  \A p, q \in Pilots :
    p # q /\ job[p] = job[q] /\ at[p] = "reported" => at[q] # "reported"

-----------------------------------------------------------------------------
ASSUME PilotAssumption ==
  /\ Scripts \subseteq Bodies
  /\ Careful \in BOOLEAN
  /\ 0 \in RowCounts
  /\ None \notin Jobs
=============================================================================
