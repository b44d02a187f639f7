\* Three attempts racing under one nonce.
CONSTANTS
  None = None
  Tenants = {t1}
  References = {r1}
  Keys = {k1}
  Bodies = {b1}
  Approvers = {a1}
  RowCounts = {0, 3}
  Nonces = {n1}
  Pilots = {p1, p2, p3}
  Scripts = {}
  Careful = FALSE
  Interruptible = {}
SYMMETRY AttemptSymmetry
SPECIFICATION Spec
INVARIANTS
  TypeOK
  RecordIsTruthful
  ExitZeroMeansApplied
CHECK_DEADLOCK FALSE
