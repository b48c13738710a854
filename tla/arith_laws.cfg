SPECIFICATION LawSpec
CONSTANTS
  BitsPerByte = 3
  ByteBase = 8
  FloatBits = {0}
  LawKinds <- MCLawKinds
  WiderKind <- MCWiderKind
INVARIANTS
  QuotientAndRemainder BitwiseLaws ShiftsStepByStep
  WideningIsFaithful FoldedAsComputed
CHECK_DEADLOCK FALSE
