SPECIFICATION LSpec
CONSTANTS
  Devices = {d1}
  Fds <- MCFds
  NoFd = 0
  NoDevice = NoDevice
  TcpPriority = 100
  RawCap = 1
  DataCap = 1
  ChunkMax = 2
  MaxFrames = 2
  MaxTurns = 2
INVARIANTS
  LTypeOK
  BoundIsOpen
  ActiveExplained
PROPERTIES
  NoStepDown
  ImplementsChannel
  StopCompletes
CHECK_DEADLOCK FALSE
