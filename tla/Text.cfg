SPECIFICATION Spec
CONSTANTS
  CType <- ClassTable
  CodeOf <- Compile
  SeqMax = 4
  Infinite <- Many
  BufMax = 4
  Calls <- TextCalls
CHECK_DEADLOCK FALSE
INVARIANTS FirstWay StaysInside Returns
PROPERTY Halts
