SPECIFICATION Spec
CONSTANTS
  Bytes = {LF, CR, A}
  LF = LF
  CR = CR
  MaxLine = 3
  MaxIn = 7
  MaxOut = 3
INVARIANTS
  LinesExact
  OutputExact
CHECK_DEADLOCK FALSE
