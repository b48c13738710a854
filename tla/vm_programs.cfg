SPECIFICATION FairSpec
CONSTANTS
  BitsPerByte = 4
  ByteBase = 16
  FloatBits <- MCFloatBits
  Programs <- MCPrograms
  ReloadPrograms = {}
  FrameCapacity = 9
  StackCapacity = 8
  CallFrameCapacity = 3
  ExternBlocks <- MCExternBlocks
  HostValues <- MCHostValues
  HostPopKinds <- MCHostPopKinds
  HostStatuses <- MCHostStatuses
  HostCalls = {"load", "run", "register"}
  DispatcherCalls = {"push", "pop"}
  DispatcherSwallows = FALSE
  MaxDepth = 1
INVARIANTS CallChain NoLifecycleFault
PROPERTIES
  ArgumentsDelivered FramesIsolated RunsReturn FaultIsMostRecent FaultNamesInstruction
