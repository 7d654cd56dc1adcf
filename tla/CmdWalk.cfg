SPECIFICATION Spec
CONSTANTS
  List <- MCList
  Body <- MCBody
  Null = "none"
  Operand <- MCOperand
  Stream = "stream"
  Cap = 3
  MaxDepth = 2
  Recorded <- MCRecorded
  MaxRecorded = 3
INVARIANTS
  TypeOK
  ReplaysInPlace
  LostIsCounted
PROPERTY
  WalkReturns
