SPECIFICATION Spec
CONSTANTS
  BitsPerByte = 2
  ByteBase = 4
  FloatBits = {0}
  Blocks <- MCBlocks
  StackBound = 12
CHECK_DEADLOCK FALSE
INVARIANTS OperandsInPlace ControlStaysInside NothingLeftBehind FrameSlotsDisjoint
