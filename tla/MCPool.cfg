\* Three handlers and a pool of two connections, reports included: who waits for
\* a connection, who for a row, and who holds what the others wait for.
CONSTANTS
  None = None
  Blank = Blank
  Oversized = Oversized
  t1 = t1
  Tenants = {t1}
  References = {r1}
  Keys = {k1}
  Bodies = {b1}
  Approvers = {a1}
  Stages = {1}
  Nonces = {n1}
  RowCounts = {}
  Handlers = {h1, h2, h3}
  TenantOf <- OneService
  PoolSize = 2
  Mortal = {h1, h2, h3}
SPECIFICATION FairSpec
INVARIANTS
  WaitsEnd
PROPERTIES
  DrainedServiceAnswers
