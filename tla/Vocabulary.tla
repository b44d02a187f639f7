----------------------------- MODULE Vocabulary -----------------------------
(***************************************************************************)
(* The closed vocabularies the control plane and the Pilot share: the      *)
(* states of a request, the outcomes of an attempt and the reports that    *)
(* carry them, as the store spells them and as the wire carries them.      *)
(***************************************************************************)
EXTENDS Integers

CONSTANTS RowCounts,  \* values a wire report's rows_affected (int64) may have
          None        \* absence: SQL NULL, an unset field, a row not there

\* The states of EDR-0038 that M1 produces.
States == {"pending", "approved", "executed", "indeterminate"}

\* A request in one of these is finished: no attempt may start.
Terminal == {"executed", "indeterminate"}

Outcomes == {"committed", "aborted_not_applied", "rolled_back", "indeterminate"}

\* The outcomes that say the statement is provably not applied.
Clean == {"aborted_not_applied", "rolled_back"}

Report(o, n) == [outcome |-> o, rows |-> n]

\* What the wire can carry: an outcome the enum leaves unspecified (None), a
\* count that is absent (None), or negative.
WireReports == [outcome : Outcomes \cup {None}, rows : RowCounts \cup {None}]

\* rows_affected is absent exactly when the outcome is indeterminate: the
\* biconditional the service checks and the schema repeats.
RowsMatchOutcome(r) == (r.outcome = "indeterminate") <=> (r.rows = None)

\* What the executions table can hold: the biconditional, and no negative count.
Reports == {r \in WireReports : /\ r.outcome \in Outcomes
                                /\ RowsMatchOutcome(r)
                                /\ r.rows # None => r.rows >= 0}

\* The state a request moves to when an attempt with this outcome is recorded.
NextState(outcome) ==
  CASE outcome = "committed"     -> "executed"
    [] outcome = "indeterminate" -> "indeterminate"
    [] outcome \in Clean         -> "approved"

ASSUME VocabularyAssumption ==
  /\ RowCounts \subseteq Int
  /\ None \notin RowCounts
  /\ None \notin Outcomes
  /\ None \notin States
  /\ None \notin WireReports
=============================================================================
