\* A careful operator re-runs a clean failure under its old nonce.
CONSTANTS
  None = None
  Tenants = {t1}
  References = {r1}
  Keys = {k1}
  Bodies = {b1}
  Approvers = {a1}
  RowCounts = {0, 3}
  Nonces = {n1}
  Pilots = {p1, p2}
  Scripts = {}
  Careful = TRUE
  Interruptible = {}
SPECIFICATION Spec
INVARIANTS
  RerunUnderRecordedNonceIsRefused
CHECK_DEADLOCK FALSE
