\* Submits racing on two keys, two references and two bodies; and reports of
\* counts the schema refuses.
CONSTANTS
  None = None
  Blank = Blank
  Oversized = Oversized
  t1 = t1
  Tenants = {t1}
  References = {r1, r2}
  Keys = {k1, k2}
  Bodies = {b1, b2}
  Approvers = {a1}
  Stages = {1}
  Nonces = {n1}
  RowCounts <- Negative
  Handlers = {h1, h2}
  TenantOf <- OneService
  PoolSize = 2
  Mortal = {h1, h2}
SYMMETRY HandlerSymmetry
SPECIFICATION Spec
INVARIANTS
  TypeOK
  KeyNamesOneRequest
  AnswersHold
  AnswerInv
