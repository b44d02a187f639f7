\* Reports of two attempts of one request, racing in two handlers; and the
\* handlers against the abstract record.
CONSTANTS
  None = None
  Blank = Blank
  Oversized = Oversized
  t1 = t1
  Tenants = {t1}
  References = {r1}
  Keys = {k1}
  Bodies = {b1}
  Approvers = {a1}
  Stages = {1, 2}
  Nonces = {n1, n2}
  RowCounts = {0, 3}
  Handlers = {h1, h2}
  TenantOf <- OneService
  PoolSize = 2
  Mortal = {h1, h2}
SYMMETRY HandlerSymmetry
SPECIFICATION Spec
INVARIANTS
  StateMatchesLedger
  AtMostOneSettlement
  AnswersHold
  AnswerInv
PROPERTIES
  HistoryImmutable
  ImplementsControlPlane
