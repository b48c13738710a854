SPECIFICATION Spec
CONSTANTS
  BitsPerByte = 4
  ByteBase = 16
  FloatBits = {0}
  FoldSources <- MCFoldSources
  FoldSymbols <- MCFoldSymbols
  FoldValues <- MCFoldValues
  FoldAnswers <- MCFoldAnswers
CHECK_DEADLOCK FALSE
INVARIANTS FoldedMeansSame ZeroDivisionReported
