CONSTANTS
  Capacity = 2
  MaxLines = 4
SPECIFICATION Spec
INVARIANTS
  TypeOK
  LogIsComplete
  ErrorsStartALine
PROPERTY ProcessEnds
CHECK_DEADLOCK FALSE
