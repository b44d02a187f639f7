\* A migration with a COMMIT in its body, against what applyOne says of any.
CONSTANTS
  None = None
  m1 = m1
  m2 = m2
  m3 = m3
  m4 = m4
  s1 = s1
  s2 = s2
  s3 = s3
  first = first
  second = second
  third = third
  original = original
  changed = changed
  Names = {first, second, third}
  Digests = {original, changed}
  Migrators = {m1, m2, m3, m4}
  Servers = {s1, s2, s3}
  Embedded <- Releases
  RuntimeRole = {m4}
  SelfCommitting <- Committing
SPECIFICATION Spec
INVARIANT NoMigrationIsHalfApplied
CHECK_DEADLOCK FALSE
