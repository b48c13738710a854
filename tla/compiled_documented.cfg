SPECIFICATION Spec
CONSTANTS
  BitsPerByte = 4
  ByteBase = 16
  FloatBits = {0}
  Units <- MCDocumentedUnits
  Optimized = {}
  FrameCapacity = 24
  StackCapacity = 16
  CallFrameCapacity = 3
CHECK_DEADLOCK FALSE
INVARIANTS AsMeant
