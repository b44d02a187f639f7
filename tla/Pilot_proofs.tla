---------------------------- MODULE Pilot_proofs ----------------------------
(***************************************************************************)
(* For any number of attempts, requests and nonces: what a pilot reports   *)
(* is true of the target, what the control plane records of an attempt is  *)
(* what its pilot reported, and with careful operators one approval        *)
(* applies the statement at most once.                                     *)
(***************************************************************************)
EXTENDS Pilot, TLAPS

\* The pilot has had its answer to COMMIT, or has given up waiting for it.
Settled == {"report", "await", "reported", "unreported"}

\* The transaction while the pilot is at one of its locations.
SessionFits(p) ==
  /\ at[p] \in {"ready", "fetch", "open", "begin", "refused"} => session[p] = "none"
  /\ at[p] = "exec" => session[p] = "open"
  /\ at[p] = "rollback" => session[p] = "failed"
  /\ at[p] = "commit" => session[p] = "ran"
  /\ at[p] \in Settled \cup {"settle", "killed"} =>
       session[p] \notin {"open", "ran", "failed"}
  /\ session[p] \in {"ran", "committing", "applied", "refused"} => affected[p] \in Counts

\* The report a pilot has made, and how far it has come.
ReportFits(p) ==
  /\ at[p] \notin Settled \cup {"killed"} => result[p] = None
  /\ at[p] \in Settled => result[p] # None
  /\ at[p] \notin Settled \cup {"killed"} \/ at[p] = "report" => wire[p] = "none"
  /\ at[p] = "reported" => wire[p] = "ok"
  /\ wire[p] # "none" => result[p] # None
  /\ wire[p] = "ok" => executions[job[p][1]][job[p][2]] = result[p]

\* What the report says is so at the target, and stays so.
ReportIsTrue(p) ==
  /\ IsClean(result[p]) => session[p] \in {"refused", "ended"}
  /\ result[p] # None /\ result[p].outcome = "committed" =>
       session[p] = "applied" /\ affected[p] = result[p].rows

PilotInv(p) ==
  /\ (at[p] = "ready") <=> (job[p] = None)
  /\ SessionFits(p)
  /\ ReportFits(p)
  /\ ReportIsTrue(p)

\* Everything recorded was reported by some pilot under that very nonce.
Sourced ==
  \A row \in Plane!Rows, n \in Nonces :
    executions[row][n] # None =>
      \E p \in Pilots : job[p] = <<row, n>> /\ result[p] = executions[row][n]

IInv == WorkOK /\ (\A p \in Pilots : PilotInv(p)) /\ Sourced

OfOneRequest(p, q) ==
  p # q /\ job[p] # None /\ job[q] # None /\ job[p][1] = job[q][1]

\* The pilot has been told to go on and its transaction may yet be applied.
MayApply(p) == \/ at[p] \in {"open", "begin"}
               \/ session[p] \in {"open", "ran", "committing", "applied"}

CarefulInv ==
  \A p, q \in Pilots : OfOneRequest(p, q) =>
    /\ at[p] \in {"refused", "reported"} \/ at[q] \in {"refused", "reported"}
    /\ ~MayApply(p) \/ ~MayApply(q)

-----------------------------------------------------------------------------
(* The data.                                                               *)

\* A wire report with one of the outcomes and a count that goes with it is a
\* report the control plane accepts.
LEMMA ReportType ==
  /\ Report("indeterminate", None) \in Reports
  /\ Report("aborted_not_applied", 0) \in Reports
  /\ Report("rolled_back", 0) \in Reports
  /\ \A n \in Counts : Report("committed", n) \in Reports
BY PilotAssumption, VocabularyAssumption
DEF Report, Reports, WireReports, Outcomes, RowsMatchOutcome, Counts

\* The fields of a report, and whether it is clean.
LEMMA ReportFields ==
  \A o, n : /\ Report(o, n).outcome = o
            /\ Report(o, n).rows = n
BY DEF Report

\* Which of the reports a pilot makes are clean.
LEMMA CleanReports ==
  /\ Report("indeterminate", None) # None
  /\ ~IsClean(Report("indeterminate", None))
  /\ Report("aborted_not_applied", 0) # None
  /\ Report("rolled_back", 0) # None
  /\ \A n \in Counts : /\ Report("committed", n) # None
                       /\ ~IsClean(Report("committed", n))
BY ReportType, ReportFields, VocabularyAssumption DEF IsClean, Clean, Reports

\* None is not a report, and every report has an outcome.
LEMMA ReportsHaveOutcomes ==
  /\ None \notin Reports
  /\ \A r \in Reports : r.outcome \in Outcomes
BY VocabularyAssumption DEF Reports

\* A job is a row and a nonce, and is not None.
LEMMA JobsArePairs ==
  \A j \in Jobs :
    j[1] \in Plane!Rows /\ j[2] \in Nonces /\ j = <<j[1], j[2]>> /\ j # None
BY PilotAssumption DEF Jobs

-----------------------------------------------------------------------------
(* Types.                                                                  *)

\* The initial values have their types.
LEMMA InitTyped == Init => WorkOK
BY DEF Init, Plane!Init, WorkOK, Locations, Sessions, Exited

\* A step keeps every type: a pilot that settles with a count has one.
LEMMA StepTyped == IInv /\ [Moves]_work => WorkOK'
<1> SUFFICES ASSUME IInv, [Moves]_work PROVE WorkOK'
  OBVIOUS
<1> USE DEF WorkOK, Goto, Becomes
<1>0. WorkOK
  BY DEF IInv
<1>1. CASE UNCHANGED work
  BY <1>0, <1>1 DEF work, plane
<1>2. ASSUME NEW row \in Plane!Rows, NEW c \in Plane!Contents, SubmitRequest(row, c)
      PROVE WorkOK'
  BY <1>0, <1>2 DEF SubmitRequest, Plane!Submit
<1>3. ASSUME NEW row \in Plane!Rows, NEW a \in Plane!Approvals, ApproveRequest(row, a)
      PROVE WorkOK'
  BY <1>0, <1>3 DEF ApproveRequest, Plane!Approve
<1>4. ASSUME NEW p \in Pilots, NEW row \in Plane!Rows, NEW n \in Nonces, Launch(p, row, n)
      PROVE WorkOK'
  BY <1>0, <1>4 DEF Launch, plane, Locations, Jobs
<1>5. ASSUME NEW p \in Pilots, Fetch(p) \/ OpenTarget(p) \/ SendReport(p) \/ Hear(p)
      PROVE WorkOK'
  BY <1>0, <1>5 DEF Fetch, OpenTarget, SendReport, Hear, plane, Locations, Exited
<1>6. ASSUME NEW p \in Pilots, Exec(p) PROVE WorkOK'
  <2>1. /\ requests' = requests /\ approvals' = approvals /\ executions' = executions
        /\ job' = job /\ result' = result /\ wire' = wire
    BY <1>6 DEF Exec, plane
  <2>2. at' \in [Pilots -> Locations] /\ session' \in [Pilots -> Sessions]
    BY <1>0, <1>6 DEF Exec, Locations, Sessions
  <2>3. affected' \in [Pilots -> Counts \cup {None}]
    BY <1>0, <1>6 DEF Exec
  <2> QED
    BY <1>0, <2>1, <2>2, <2>3
<1>7. ASSUME NEW p \in Pilots, Begin(p) \/ Rollback(p) \/ Commit(p) PROVE WorkOK'
  <2>1. result' \in [Pilots -> Reports \cup {None}]
    BY <1>0, <1>7, ReportType DEF Begin, Rollback, Commit, Classify
  <2> QED
    BY <1>0, <1>7, <2>1
    DEF Begin, Rollback, Commit, Classify, RollsBack, plane, Locations, Sessions
<1>8. ASSUME NEW p \in Pilots, Settle(p) PROVE WorkOK'
  <2>1. session[p] = "applied" => affected[p] \in Counts
    BY DEF IInv, PilotInv, SessionFits
  <2>2. session[p] = "applied" => Report("committed", affected[p]) \in Reports
    BY <2>1, ReportType
  <2>3. result' \in [Pilots -> Reports \cup {None}]
    BY <1>0, <1>8, <2>2, ReportType DEF Settle, Classify
  <2> QED
    BY <1>0, <1>8, <2>3 DEF Settle, Classify, plane, Locations
<1>9. ASSUME NEW p \in Pilots, TargetSettles(p) \/ Kill(p) PROVE WorkOK'
  BY <1>0, <1>9
  DEF TargetSettles, Kill, RollsBack, plane, Locations, Sessions, Exited
<1>10. ASSUME NEW p \in Pilots, Deliver(p) PROVE WorkOK'
  <2>1. job[p] \in Jobs /\ result[p] \in Reports
    BY <1>0, <1>10 DEF IInv, PilotInv, ReportFits, Deliver, Settled
  <2>2. CASE UNCHANGED plane
    BY <1>0, <1>10, <2>2 DEF Deliver, Answered, plane
  <2>3. CASE Plane!RecordExecution(job[p][1], job[p][2], result[p])
    <3>1. executions' \in [Plane!Rows -> [Nonces -> Reports \cup {None}]]
      BY <1>0, <2>1, <2>3, JobsArePairs DEF Plane!RecordExecution
    <3>2. UNCHANGED <<requests, approvals>>
      BY <2>3 DEF Plane!RecordExecution
    <3>3. wire' \in [Pilots -> {"none", "sent", "ok", "failed"}]
      BY <1>0, <1>10 DEF Deliver, Answered
    <3> QED
      BY <1>0, <1>10, <3>1, <3>2, <3>3 DEF Deliver
  <2> QED
    BY <1>10, <2>2, <2>3 DEF Deliver
<1> QED
  BY <1>1, <1>2, <1>3, <1>4, <1>5, <1>6, <1>7, <1>8, <1>9, <1>10 DEF Moves, Step, Reporting

-----------------------------------------------------------------------------
(* What a step leaves alone.                                               *)

Keeps(q) == /\ at'[q] = at[q] /\ job'[q] = job[q] /\ session'[q] = session[q]
            /\ affected'[q] = affected[q] /\ result'[q] = result[q]
            /\ wire'[q] = wire[q]

ExecutionsGrow ==
  \A row \in Plane!Rows, n \in Nonces :
    executions[row][n] # None => executions'[row][n] = executions[row][n]

\* What pilot p does, and what is done with what it sent.
PilotActs(p) ==
  \/ \E row \in Plane!Rows, n \in Nonces : Launch(p, row, n)
  \/ Step(p) \/ TargetSettles(p) \/ Deliver(p) \/ Kill(p)

\* No step alters or removes a recorded execution.
LEMMA RecordOnlyGrows == WorkOK /\ [Moves]_work => ExecutionsGrow
<1> SUFFICES ASSUME WorkOK, [Moves]_work PROVE ExecutionsGrow
  OBVIOUS
<1>1. CASE executions' = executions
  BY <1>1 DEF ExecutionsGrow
<1>2. ASSUME NEW p \in Pilots, Deliver(p), executions' # executions
      PROVE  ExecutionsGrow
  <2>1. Plane!RecordExecution(job[p][1], job[p][2], result[p])
    BY <1>2 DEF Deliver, plane
  <2> QED
    BY <2>1 DEF Plane!RecordExecution, ExecutionsGrow, WorkOK
<1>3. executions' = executions \/ \E p \in Pilots : Deliver(p)
  BY DEF Moves, work, plane, SubmitRequest, ApproveRequest, Plane!Submit,
         Plane!Approve, Launch, Step, Reporting, Fetch, OpenTarget, Begin, Exec, Rollback,
         Commit, Settle, SendReport, Hear, TargetSettles, Kill
<1> QED
  BY <1>1, <1>2, <1>3

\* A pilot acts on its own variables only.
LEMMA OthersKeepTheirs ==
  ASSUME WorkOK, NEW p \in Pilots, PilotActs(p), NEW q \in Pilots \ {p}
  PROVE  Keeps(q)
<1> USE DEF Keeps, WorkOK, Goto, Becomes, Classify
<1>1. ASSUME NEW row \in Plane!Rows, NEW n \in Nonces, Launch(p, row, n)
      PROVE  Keeps(q)
  BY <1>1 DEF Launch, plane
<1>2. CASE Fetch(p) \/ OpenTarget(p) \/ SendReport(p) \/ Hear(p) \/ Settle(p)
  BY <1>2 DEF Fetch, OpenTarget, SendReport, Hear, Settle, plane
<1>3. CASE Begin(p) \/ Exec(p) \/ Rollback(p) \/ Commit(p)
  BY <1>3 DEF Begin, Exec, Rollback, Commit, RollsBack, plane
<1>4. CASE TargetSettles(p) \/ Deliver(p) \/ Kill(p)
  BY <1>4 DEF TargetSettles, Deliver, Kill, RollsBack, Answered, plane
<1> QED
  BY <1>1, <1>2, <1>3, <1>4 DEF PilotActs, Step, Reporting

\* A pilot nobody touches keeps its invariant, whatever else is recorded.
LEMMA Untouched ==
  ASSUME WorkOK, NEW q \in Pilots, PilotInv(q), Keeps(q), ExecutionsGrow
  PROVE  PilotInv(q)'
<1>1. wire[q] = "ok" => executions'[job[q][1]][job[q][2]] = result[q]
  <2> SUFFICES ASSUME wire[q] = "ok"
               PROVE  executions'[job[q][1]][job[q][2]] = result[q]
    OBVIOUS
  <2>1. at[q] # "ready" /\ result[q] # None
    BY DEF PilotInv, ReportFits, Settled
  <2>2. job[q] \in Jobs
    BY <2>1 DEF PilotInv, WorkOK
  <2> QED
    BY <2>1, <2>2, JobsArePairs DEF PilotInv, ReportFits, ExecutionsGrow
<1>2. ReportFits(q)'
  BY <1>1 DEF PilotInv, ReportFits, Keeps
<1>3. SessionFits(q)' /\ ReportIsTrue(q)'
  BY DEF PilotInv, SessionFits, ReportIsTrue, IsClean, Keeps
<1> QED
  BY <1>2, <1>3 DEF PilotInv, Keeps

-----------------------------------------------------------------------------
(* What the pilot that acts does to its own invariant.                     *)

\* It keeps it at every step, a step of the target or of the control plane on
\* its behalf included.
LEMMA ActorKeepsInv ==
  ASSUME IInv, NEW p \in Pilots, PilotActs(p), ExecutionsGrow
  PROVE  PilotInv(p)'
<1> USE DEF Goto, Becomes, Classify
<1>0. WorkOK /\ PilotInv(p)
  BY DEF IInv
<1>1. ASSUME NEW row \in Plane!Rows, NEW n \in Nonces, Launch(p, row, n)
      PROVE  PilotInv(p)'
  <2>1. <<row, n>> # None
    BY PilotAssumption DEF Jobs
  <2> QED
    BY <1>0, <1>1, <2>1
    DEF Launch, plane, WorkOK, PilotInv, SessionFits, ReportFits, ReportIsTrue,
        Settled, IsClean
<1>2. CASE Fetch(p) \/ OpenTarget(p)
  BY <1>0, <1>2
  DEF Fetch, OpenTarget, plane, WorkOK, PilotInv, SessionFits, ReportFits,
      ReportIsTrue, Settled, IsClean
<1>3. CASE Begin(p)
  BY <1>0, <1>3, CleanReports, ReportFields
  DEF Begin, plane, WorkOK, PilotInv, SessionFits, ReportFits,
      ReportIsTrue, Settled
<1>4. CASE Exec(p)
  BY <1>0, <1>4
  DEF Exec, plane, WorkOK, PilotInv, SessionFits, ReportFits,
      ReportIsTrue, Settled, IsClean
<1>5. CASE Rollback(p)
  BY <1>0, <1>5, CleanReports, ReportFields
  DEF Rollback, RollsBack, plane, WorkOK, PilotInv, SessionFits, ReportFits,
      ReportIsTrue, Settled
<1>6. CASE Commit(p)
  BY <1>0, <1>6, CleanReports, ReportFields
  DEF Commit, plane, WorkOK, PilotInv, SessionFits, ReportFits,
      ReportIsTrue, Settled
<1>7. CASE Settle(p)
  BY <1>0, <1>7, CleanReports, ReportFields
  DEF Settle, plane, WorkOK, PilotInv, SessionFits, ReportFits,
      ReportIsTrue, Settled
<1>8. CASE SendReport(p) \/ Hear(p)
  BY <1>0, <1>8
  DEF SendReport, Hear, plane, WorkOK, PilotInv, SessionFits, ReportFits,
      ReportIsTrue, Settled, IsClean
<1>9. CASE TargetSettles(p)
  BY <1>0, <1>9
  DEF TargetSettles, plane, WorkOK, PilotInv, SessionFits, ReportFits,
      ReportIsTrue, Settled, IsClean
<1>10. CASE Deliver(p)
  <2>1. job[p] \in Jobs /\ result[p] # None
    BY <1>0, <1>10 DEF Deliver, WorkOK, PilotInv, ReportFits, Settled
  <2>2. wire'[p] = "ok" => executions'[job[p][1]][job[p][2]] = result[p]
    BY <1>0, <1>10, <2>1, JobsArePairs
    DEF Deliver, Answered, Repeats, Plane!RecordExecution, plane, WorkOK
  <2> QED
    BY <1>0, <1>10, <2>1, <2>2
    DEF Deliver, Answered, plane, WorkOK, PilotInv, SessionFits, ReportFits,
        ReportIsTrue, Settled, IsClean
<1>11. CASE Kill(p)
  BY <1>0, <1>11
  DEF Kill, RollsBack, plane, WorkOK, PilotInv, SessionFits, ReportFits,
      ReportIsTrue, Settled, IsClean, Exited
<1> QED
  BY <1>1, <1>2, <1>3, <1>4, <1>5, <1>6, <1>7, <1>8, <1>9, <1>10, <1>11
  DEF PilotActs, Step, Reporting

\* A pilot's job and report are final once it has reported.
LEMMA ReportsAreFinal ==
  ASSUME IInv, NEW p \in Pilots, PilotActs(p), result[p] # None
  PROVE  job'[p] = job[p] /\ result'[p] = result[p]
<1>1. WorkOK /\ PilotInv(p)
  BY DEF IInv
<1>2. at[p] \in Settled \cup {"killed"}
  BY <1>1 DEF PilotInv, ReportFits
<1> QED
  BY <1>1, <1>2
  DEF WorkOK, Goto, Settled, PilotActs, Step, Reporting, Launch, Fetch, OpenTarget, Begin, Exec,
      Rollback, Commit, Settle, SendReport, Hear, TargetSettles, Deliver, Kill

\* A step takes effect on the record, or a pilot acts and records at most its
\* own report under its own nonce.
LEMMA SourcedStep ==
  ASSUME IInv, [Moves]_work,
         \A q \in Pilots : result[q] # None =>
           job'[q] = job[q] /\ result'[q] = result[q]
  PROVE  Sourced'
<1>0. WorkOK /\ Sourced
  BY DEF IInv
<1>1. CASE executions' = executions
  BY <1>0, <1>1 DEF Sourced
<1>2. ASSUME NEW p \in Pilots, Deliver(p), executions' # executions
      PROVE  Sourced'
  <2>1. Plane!RecordExecution(job[p][1], job[p][2], result[p])
    BY <1>2 DEF Deliver, plane
  <2>2. job[p] \in Jobs /\ result[p] # None
    BY <1>0, <1>2 DEF IInv, WorkOK, PilotInv, ReportFits, Settled, Deliver
  <2> SUFFICES ASSUME NEW row \in Plane!Rows, NEW n \in Nonces,
                      executions'[row][n] # None
               PROVE  \E q \in Pilots : /\ job'[q] = <<row, n>>
                                        /\ result'[q] = executions'[row][n]
    BY DEF Sourced
  <2>3. CASE job[p] = <<row, n>>
    <3>1. executions'[row][n] = result[p]
      BY <1>0, <2>1, <2>2, <2>3 DEF Plane!RecordExecution, WorkOK
    <3> QED
      BY <2>2, <2>3, <3>1
  <2>4. CASE job[p] # <<row, n>>
    <3>1. executions'[row][n] = executions[row][n]
      BY <1>0, <2>1, <2>2, <2>4, JobsArePairs DEF Plane!RecordExecution, WorkOK
    <3>2. PICK q \in Pilots : job[q] = <<row, n>> /\ result[q] = executions[row][n]
      BY <1>0, <3>1 DEF Sourced
    <3> QED
      BY <3>1, <3>2
  <2> QED
    BY <2>3, <2>4
<1>3. executions' = executions \/ \E p \in Pilots : Deliver(p)
  BY DEF Moves, work, plane, SubmitRequest, ApproveRequest, Plane!Submit,
         Plane!Approve, Launch, Step, Reporting, Fetch, OpenTarget, Begin, Exec, Rollback,
         Commit, Settle, SendReport, Hear, TargetSettles, Kill
<1> QED
  BY <1>1, <1>2, <1>3

-----------------------------------------------------------------------------
(* The inductive invariant.                                                *)

\* No pilot has been launched and nothing is recorded.
LEMMA InitIInv == Init => IInv
<1> SUFFICES ASSUME Init PROVE IInv
  OBVIOUS
<1>1. \A p \in Pilots : PilotInv(p)
  BY DEF Init, PilotInv, SessionFits, ReportFits, ReportIsTrue, Settled, IsClean
<1>2. Sourced
  BY DEF Init, Plane!Init, Sourced
<1> QED
  BY <1>1, <1>2, InitTyped DEF IInv

\* Every step keeps it: the pilot that acts, the others, and the record.
LEMMA StepIInv == IInv /\ [Moves]_work => IInv'
<1> SUFFICES ASSUME IInv, [Moves]_work PROVE IInv'
  OBVIOUS
<1>1. WorkOK /\ WorkOK' /\ ExecutionsGrow
  BY StepTyped, RecordOnlyGrows DEF IInv
<1>2. ASSUME NEW p \in Pilots, PilotActs(p) PROVE IInv'
  <2>1. \A q \in Pilots \ {p} : Keeps(q)
    BY <1>1, <1>2, OthersKeepTheirs
  <2>2. \A q \in Pilots \ {p} : PilotInv(q)'
    BY <1>1, <2>1, Untouched DEF IInv
  <2>3. PilotInv(p)'
    BY <1>1, <1>2, ActorKeepsInv
  <2>4. \A q \in Pilots : result[q] # None =>
          job'[q] = job[q] /\ result'[q] = result[q]
    BY <1>2, <2>1, ReportsAreFinal DEF Keeps
  <2> QED
    BY <1>1, <2>2, <2>3, <2>4, SourcedStep DEF IInv
<1>3. CASE \A q \in Pilots : Keeps(q)
  <2>1. \A q \in Pilots : PilotInv(q)'
    BY <1>1, <1>3, Untouched DEF IInv
  <2> QED
    BY <1>1, <1>3, <2>1, SourcedStep DEF IInv, Keeps
<1>4. (\E p \in Pilots : PilotActs(p)) \/ \A q \in Pilots : Keeps(q)
  BY DEF Moves, PilotActs, work, plane, SubmitRequest, ApproveRequest, Keeps
<1> QED
  BY <1>2, <1>3, <1>4

\* A signal changes nothing the invariant is about.
LEMMA NextMoves == [Next]_vars => [Moves]_work
BY DEF Next, Interrupt, vars, work

\* It holds in every state of every behaviour.
LEMMA SpecIInv == Spec => []IInv
BY InitIInv, StepIInv, NextMoves, PTL DEF Spec

-----------------------------------------------------------------------------
(* What follows from it.                                                   *)

\* Every report a pilot makes is one the control plane accepts, and no
\* variable leaves its type.
THEOREM TypeCorrect == Spec => []TypeOK
<1> DEFINE Signals == interrupted \subseteq Pilots
<1>1. Init => Signals
  BY DEF Init
<1>2. Signals /\ [Next]_vars => Signals'
  BY DEF Next, Interrupt, vars
<1>3. IInv /\ Signals => TypeOK
  BY DEF IInv, TypeOK
<1> QED
  BY <1>1, <1>2, <1>3, SpecIInv, PTL DEF Spec

\* An attempt called aborted or rolled back changed nothing at the target and
\* never will, whatever is still on its way.
THEOREM CleanIsClean == Spec => []CleanMeansNotApplied
<1>1. IInv => CleanMeansNotApplied
  BY DEF IInv, PilotInv, ReportIsTrue, CleanMeansNotApplied
<1> QED
  BY <1>1, SpecIInv, PTL

\* What the control plane has recorded of an attempt is what happened.
THEOREM TruthfulRecord == Spec => []RecordIsTruthful
<1>1. ASSUME IInv PROVE RecordIsTruthful
  <2> SUFFICES ASSUME NEW row \in Plane!Rows, NEW n \in Nonces,
                      executions[row][n] # None
               PROVE
                 /\ executions[row][n].outcome = "committed" =>
                      \E p \in Pilots : /\ Applied(p, row, n)
                                        /\ affected[p] = executions[row][n].rows
                 /\ IsClean(executions[row][n]) =>
                      \A p \in Pilots :
                        {q \in Pilots : job[q] = <<row, n>>} = {p} =>
                          session[p] \notin {"committing", "applied"}
    BY DEF RecordIsTruthful, IsClean
  <2>1. PICK q \in Pilots : job[q] = <<row, n>> /\ result[q] = executions[row][n]
    BY <1>1 DEF IInv, Sourced
  <2>2. ReportIsTrue(q)
    BY <1>1 DEF IInv, PilotInv
  <2>3. executions[row][n].outcome = "committed" =>
          Applied(q, row, n) /\ affected[q] = executions[row][n].rows
    BY <2>1, <2>2 DEF ReportIsTrue, Applied
  <2>4. IsClean(executions[row][n]) => session[q] \notin {"committing", "applied"}
    BY <2>1, <2>2 DEF ReportIsTrue
  <2>5. \A p \in Pilots : {x \in Pilots : job[x] = <<row, n>>} = {p} => p = q
    BY <2>1
  <2> QED
    BY <2>3, <2>4, <2>5
<1> QED
  BY <1>1, SpecIInv, PTL

\* Exit status 0 means that this attempt applied the statement and that its
\* commit is on record.
THEOREM ExitZero == Spec => []ExitZeroMeansApplied
<1>1. IInv => ExitZeroMeansApplied
  BY DEF IInv, PilotInv, ReportFits, ReportIsTrue, Settled, ExitZeroMeansApplied
<1> QED
  BY <1>1, SpecIInv, PTL

\* What operators and pilots do to the record is what the control plane offers:
\* in particular a pilot never sends a report that the service would reject as
\* malformed.
THEOREM UsesControlPlane == Spec => Plane!Spec
<1>1. Init => Plane!Init
  BY DEF Init
<1>2. IInv /\ [Moves]_work => [Plane!Next]_(Plane!vars)
  <2> SUFFICES ASSUME IInv, [Moves]_work PROVE [Plane!Next]_(Plane!vars)
    OBVIOUS
  <2>1. CASE UNCHANGED plane
    BY <2>1 DEF plane, Plane!vars
  <2>2. ASSUME NEW row \in Plane!Rows, NEW c \in Plane!Contents, SubmitRequest(row, c)
        PROVE  Plane!Next
    BY <2>2 DEF SubmitRequest, Plane!Next
  <2>3. ASSUME NEW row \in Plane!Rows, NEW a \in Plane!Approvals, ApproveRequest(row, a)
        PROVE  Plane!Next
    BY <2>3 DEF ApproveRequest, Plane!Next
  <2>4. ASSUME NEW p \in Pilots, Deliver(p), ~UNCHANGED plane PROVE Plane!Next
    <3>1. Plane!RecordExecution(job[p][1], job[p][2], result[p])
      BY <2>4 DEF Deliver
    <3>2. job[p] \in Jobs /\ result[p] \in Reports
      BY <2>4 DEF IInv, WorkOK, PilotInv, ReportFits, Settled, Deliver
    <3>3. job[p][1] \in Plane!Rows /\ job[p][2] \in Nonces
      BY <3>2, JobsArePairs
    <3>4. \E n \in Nonces, r \in Plane!Reports : Plane!RecordExecution(job[p][1], n, r)
      BY <3>1, <3>2, <3>3
      DEF Reports, WireReports, RowsMatchOutcome, Outcomes, Plane!Reports,
          Plane!WireReports, Plane!RowsMatchOutcome, Plane!Outcomes
    <3> QED
      BY <3>3, <3>4 DEF Plane!Next
  <2>5. \/ UNCHANGED plane \/ \E p \in Pilots : Deliver(p)
        \/ \E row \in Plane!Rows, c \in Plane!Contents : SubmitRequest(row, c)
        \/ \E row \in Plane!Rows, a \in Plane!Approvals : ApproveRequest(row, a)
    BY DEF Moves, work, plane, Launch, Step, Reporting, Fetch, OpenTarget, Begin, Exec,
           Rollback, Commit, Settle, SendReport, Hear, TargetSettles, Kill
  <2> QED
    BY <2>1, <2>2, <2>3, <2>4, <2>5
<1> QED
  BY <1>1, <1>2, SpecIInv, NextMoves, PTL DEF Spec, Plane!Spec

-----------------------------------------------------------------------------
(* Careful operators.                                                      *)

\* Where a pilot can be that a careful operator launches another one after.
Accounted(p) == at[p] \in {"refused", "reported"}

\* A pilot that is accounted for stays so, and its transaction gets no further.
LEMMA AccountedStays ==
  ASSUME IInv, [Moves]_work, NEW p \in Pilots, Accounted(p)
  PROVE  Accounted(p)'
<1>1. CASE Keeps(p)
  BY <1>1 DEF Accounted, Keeps
<1>2. CASE PilotActs(p)
  BY <1>2
  DEF IInv, WorkOK, Goto, Accounted, Exited, PilotActs, Step, Reporting, Launch, Fetch,
      OpenTarget, Begin, Exec, Rollback, Commit, Settle, SendReport, Hear,
      TargetSettles, Deliver, Kill
<1>3. ASSUME NEW q \in Pilots \ {p}, PilotActs(q) PROVE Keeps(p)
  BY <1>3, OthersKeepTheirs DEF IInv
<1>4. (\E q \in Pilots : PilotActs(q)) \/ Keeps(p)
  BY DEF Moves, PilotActs, work, plane, SubmitRequest, ApproveRequest, Keeps
<1> QED
  BY <1>1, <1>2, <1>3, <1>4

\* Only the answer of the control plane that the request is approved lets a
\* pilot's transaction come into question.
LEMMA FetchDecides ==
  ASSUME IInv, NEW p \in Pilots, PilotActs(p), ~MayApply(p), MayApply(p)'
  PROVE  at[p] = "fetch" /\ Plane!Status(job[p][1]) = "approved"
<1>1. WorkOK /\ PilotInv(p)
  BY DEF IInv
<1>2. Fetch(p)
  BY <1>1
  DEF WorkOK, PilotInv, SessionFits, MayApply, Goto, Becomes, RollsBack,
      Classify, plane, PilotActs, Step, Reporting, Launch, OpenTarget, Begin, Exec,
      Rollback, Commit, Settle, SendReport, Hear, TargetSettles, Deliver, Kill
<1> QED
  BY <1>1, <1>2 DEF Fetch, WorkOK, MayApply, Goto

\* A pilot that is accounted for and may have applied is on record, and its
\* request is no longer approved.
LEMMA AccountedIsSettled ==
  ASSUME IInv, NEW p \in Pilots, job[p] # None, Accounted(p), MayApply(p)
  PROVE  Plane!Status(job[p][1]) # "approved"
<1>1. WorkOK /\ PilotInv(p)
  BY DEF IInv
<1>2. at[p] = "reported" /\ result[p] \in Reports
  BY <1>1
  DEF WorkOK, PilotInv, SessionFits, ReportFits, Accounted, MayApply, Settled
<1>3. session[p] \in {"committing", "applied"}
  BY <1>1, <1>2 DEF PilotInv, SessionFits, MayApply, Settled
<1>4. result[p].outcome \in {"committed", "indeterminate"}
  BY <1>1, <1>2, <1>3, ReportsHaveOutcomes
  DEF PilotInv, ReportIsTrue, IsClean, Clean, Outcomes
<1>5. executions[job[p][1]][job[p][2]] = result[p]
  BY <1>1, <1>2 DEF PilotInv, ReportFits
<1>6. job[p][2] \in Nonces
  BY <1>1, JobsArePairs DEF WorkOK
<1>7. \/ Plane!Recorded(job[p][1], "committed")
      \/ Plane!Recorded(job[p][1], "indeterminate")
  BY <1>2, <1>4, <1>5, <1>6, ReportsHaveOutcomes DEF Plane!Recorded
<1> QED
  BY <1>7, VocabularyAssumption DEF Plane!Status, States

\* Careful operators keep CarefulInv.
LEMMA StepCareful == Careful /\ IInv /\ CarefulInv /\ [Moves]_work => CarefulInv'
<1> SUFFICES ASSUME Careful, IInv, CarefulInv, [Moves]_work,
                    NEW p \in Pilots, NEW q \in Pilots, OfOneRequest(p, q)'
             PROVE  /\ (Accounted(p) \/ Accounted(q))'
                    /\ ~MayApply(p)' \/ ~MayApply(q)'
  BY DEF CarefulInv, Accounted
<1>1. WorkOK /\ PilotInv(p) /\ PilotInv(q)
  BY DEF IInv
<1>2. ASSUME NEW x \in Pilots, PilotActs(x),
             NEW y \in Pilots \ {x}, OfOneRequest(x, y)'
      PROVE  /\ (Accounted(x) \/ Accounted(y))'
             /\ ~MayApply(x)' \/ ~MayApply(y)'
  <2>1. Keeps(y)
    BY <1>1, <1>2, OthersKeepTheirs
  <2>2. ASSUME NEW row \in Plane!Rows, NEW n \in Nonces, Launch(x, row, n)
        PROVE  Accounted(y)' /\ ~MayApply(x)'
    <3>1. job'[x] = <<row, n>> /\ at'[x] = "fetch" /\ session'[x] = session[x]
      BY <1>1, <2>2 DEF Launch, WorkOK, Goto
    <3>2. y \in Launched(row)
      BY <1>2, <2>1, <3>1 DEF OfOneRequest, Keeps, Launched
    <3>3. session[x] = "none"
      BY <2>2 DEF Launch, IInv, PilotInv, SessionFits
    <3> QED
      BY <2>1, <2>2, <3>1, <3>2, <3>3 DEF Launch, Accounted, Keeps, MayApply
  <2>3. CASE job'[x] = job[x]
    <3>1. OfOneRequest(x, y)
      BY <1>2, <2>1, <2>3 DEF OfOneRequest, Keeps
    <3>2. (Accounted(x) \/ Accounted(y)) /\ (~MayApply(x) \/ ~MayApply(y))
      BY <3>1 DEF CarefulInv, Accounted
    <3>3. MayApply(y)' <=> MayApply(y)
      BY <2>1 DEF MayApply, Keeps
    <3>4. ~MayApply(x) /\ MayApply(y) => ~MayApply(x)'
      <4> SUFFICES ASSUME ~MayApply(x), MayApply(y), MayApply(x)' PROVE FALSE
        OBVIOUS
      <4>1. at[x] = "fetch" /\ Plane!Status(job[x][1]) = "approved"
        BY <1>2, FetchDecides
      <4>2. Accounted(y)
        BY <3>2, <4>1 DEF Accounted
      <4> QED
        BY <3>1, <4>1, <4>2, AccountedIsSettled DEF OfOneRequest
    <3> QED
      BY <3>2, <3>3, <3>4, AccountedStays
  <2>4. job'[x] = job[x] \/ \E row \in Plane!Rows, n \in Nonces : Launch(x, row, n)
    BY <1>2 DEF PilotActs, Step, Reporting, Fetch, OpenTarget, Begin, Exec, Rollback,
                Commit, Settle, SendReport, Hear, TargetSettles, Deliver, Kill
  <2> QED
    BY <2>2, <2>3, <2>4
<1>3. CASE Keeps(p) /\ Keeps(q)
  BY <1>3 DEF CarefulInv, OfOneRequest, Accounted, MayApply, Keeps
<1>4. \/ PilotActs(p) \/ PilotActs(q)
      \/ Keeps(p) /\ Keeps(q)
  <2>1. (\E x \in Pilots : PilotActs(x)) \/ (Keeps(p) /\ Keeps(q))
    BY DEF Moves, PilotActs, work, plane, SubmitRequest, ApproveRequest, Keeps
  <2> QED
    BY <1>1, <2>1, OthersKeepTheirs
<1>5. p # q /\ OfOneRequest(q, p)'
  BY DEF OfOneRequest
<1> QED
  BY <1>2, <1>3, <1>4, <1>5

\* If operators launch an attempt only once the earlier ones are accounted
\* for, an approval applies its statement at most once, although nothing in
\* the code holds the request while an attempt runs.
THEOREM AtMostOnce == Careful => (Spec => []AppliedAtMostOnce)
<1> SUFFICES ASSUME Careful PROVE Spec => []AppliedAtMostOnce
  OBVIOUS
<1>1. Init => CarefulInv
  BY DEF Init, CarefulInv, OfOneRequest
<1>2. IInv /\ CarefulInv /\ [Moves]_work => CarefulInv'
  BY StepCareful
<1>3. IInv /\ CarefulInv => AppliedAtMostOnce
  <2> SUFFICES ASSUME IInv, CarefulInv, NEW p \in Pilots, NEW q \in Pilots,
                      session[p] \in {"applied", "committing"},
                      session[q] \in {"applied", "committing"},
                      job[p][1] = job[q][1], p # q
               PROVE  FALSE
    BY DEF AppliedAtMostOnce
  <2>1. job[p] # None /\ job[q] # None
    BY DEF IInv, PilotInv, SessionFits
  <2> QED
    BY <2>1 DEF CarefulInv, OfOneRequest, MayApply
<1> QED
  BY <1>1, <1>2, <1>3, SpecIInv, NextMoves, PTL DEF Spec
=============================================================================
