SPECIFICATION Spec
CONSTANTS
  Bytes = {LF, CR, A}
  LF = LF
  CR = CR
  MaxLine = 3
  MaxIn = 5
  MaxOut = 0
INVARIANTS
  LinesBounded
CHECK_DEADLOCK FALSE
