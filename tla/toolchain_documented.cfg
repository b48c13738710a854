SPECIFICATION FairSpec
CONSTANTS
  BitsPerByte = 4
  ByteBase = 16
  Units <- MCDocumentedUnits
  VariableCapacity = 8
  FunctionCapacity = 4
INVARIANTS LinkedAsDocumented
CHECK_DEADLOCK FALSE
