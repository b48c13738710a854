SPECIFICATION FairSpec
CONSTANTS
  BitsPerByte = 4
  ByteBase = 16
  Units <- MCUnits
  VariableCapacity = 8
  FunctionCapacity = 4
INVARIANTS
  ReachabilityExact CallsReachTheirCallee LinkNeverUnresolved
  DescriptorsAccepted ExternUseReported StorageDisjoint InitializersSurvive
PROPERTIES ToolchainEnds
CHECK_DEADLOCK FALSE
