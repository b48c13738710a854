SPECIFICATION Spec
CONSTANTS
  BitsPerByte = 4
  ByteBase = 16
  FloatBits <- MCFloatBits
  Programs <- MCHostPrograms
  ReloadPrograms = {2, 3, 4}
  FrameCapacity = 5
  StackCapacity = 6
  CallFrameCapacity = 2
  ExternBlocks <- MCExternBlocks
  HostValues <- MCHostValues
  HostPopKinds <- MCHostPopKinds
  HostStatuses <- MCHostStatuses
  HostCalls = {"load", "loadImage", "reset", "run", "push", "pop", "register", "extern"}
  DispatcherCalls = {"load", "reset", "run", "push", "pop"}
  DispatcherSwallows = TRUE
  MaxDepth = 2
INVARIANTS TypeOK WorkspaceRespected ProgramImageIntact
PROPERTIES RunsStartFresh
