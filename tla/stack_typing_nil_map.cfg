SPECIFICATION Spec
CONSTANTS
  BitsPerByte = 2
  ByteBase = 4
  FloatBits = {0}
  Blocks <- MCBlockFirstBlocks
  StackBound = 12
CHECK_DEADLOCK FALSE
INVARIANTS NeverPanics
