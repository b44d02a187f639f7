\* Two methods over four fields; schemacheck alone, without buf in front.
CONSTANTS
  None = None
  key = key
  token = token
  choice = choice
  list = list
  Methods = {m1, m2}
  Fields = {key, token, choice, list}
  Shape <- RequestShape
  Carried = {key, token}
  Declared <- Written
  BufBreaking = FALSE
SYMMETRY MethodSymmetry
SPECIFICATION Spec
INVARIANTS
  TypeOK
  PromisesKept
PROPERTIES
  ImplementsContract
