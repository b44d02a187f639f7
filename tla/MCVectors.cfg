\* Every file two edits away from a good one; integers are exact up to 3.
CONSTANTS
  None = None
  Symbols <- Characters
  Keys <- MemberKeys
  Nesting = 6
  Templates <- Shapes
  Texts <- Strings
  Versions <- Numbers
  NewKeys <- Respelled
  FoldsTo <- Folded
  MaxEdits = 2
  MaxExact = 3
SPECIFICATION Spec
INVARIANTS
  TypeOK
  ReadersAgree
  NothingIsDropped
PROPERTIES
  RoundTrips
CHECK_DEADLOCK FALSE
