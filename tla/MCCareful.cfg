\* Operators launch an attempt only after the earlier ones are accounted for;
\* a request may hold a script with a COMMIT in it.  The pilots are fair.
CONSTANTS
  None = None
  Tenants = {t1}
  References = {r1}
  Keys = {k1}
  Bodies = {b1, b2}
  Approvers = {a1}
  RowCounts = {0, 3}
  Nonces = {n1, n2, n3}
  Pilots = {p1, p2, p3}
  Scripts = {b2}
  Careful = TRUE
  Interruptible = {p1, p2}
SPECIFICATION FairSpec
INVARIANTS
  AppliedAtMostOnce
  CleanMeansNotApplied
PROPERTIES
  AttemptsAreReported
CHECK_DEADLOCK FALSE
