\* Four fair migrators racing, one of a diverging branch, one with an edited
\* migration and one run as the runtime role; each may die at any step, holding
\* the lock, under servers of three releases.  One migration commits itself.
CONSTANTS
  None = None
  m1 = m1
  m2 = m2
  m3 = m3
  m4 = m4
  s1 = s1
  s2 = s2
  s3 = s3
  first = first
  second = second
  third = third
  original = original
  changed = changed
  Names = {first, second, third}
  Digests = {original, changed}
  Migrators = {m1, m2, m3, m4}
  Servers = {s1, s2, s3}
  Embedded <- Releases
  RuntimeRole = {m4}
  SelfCommitting <- Committing
SPECIFICATION FairSpec
INVARIANTS
  TypeOK
  SchemaIsOneRelease
  NumberIsFree
  DoneMeansApplied
  ServedSchemaIsApplied
  RuntimeRoleOwnsNothing
PROPERTIES
  HistoryOnlyGrows
  MigratorsExit
CHECK_DEADLOCK FALSE
