\* Every body of five fragments in a file of its own, and every directory
\* of up to three files.
CONSTANTS
  None = None
  Fragments <- SQL
  Names <- Directory
  MaxFiles = 3
  Room <- LongestFile
SPECIFICATION Spec
INVARIANTS
  TypeOK
  LoadedRunsInTransaction
  LoadedByNumber
CHECK_DEADLOCK FALSE
