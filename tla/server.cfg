SPECIFICATION Spec
CONSTANTS
  CycleConfs <- MCCycleConfs
  UnixAddrs = {"unix"}
  NoReuseTags = {"fresh"}
  FailedValues = {FALSE, TRUE}
  CycleOps = 3
  PipeConfs <- MCPipeConfs
  PipeBuf = 2
  PipeStalls = 3
  ChainConfs <- MCChainConfs
  ChainBytes = 5
  ChainCalls = 3
  TlsPlans <- MCTlsPlans
  TlsRoom = 2
  TlsLimits = {2, 9}
  TlsMost = 9
  MaxReads = 1
  MaxStalls = 2
  Zones = {1, 5}
  SessionIds = {1, 2, 3}
  SslWorkers = {1, 2}
  SslTimeouts = {1, 2}
  TicketFiles = {"k1", "k2", "k3"}
  MaxTime = 2
  MaxSessions = 3
  OcspTexts <- MCOcspTexts
  OcspHour = 3
  OcspFaults = 1
  OcspClock = 6
INVARIANTS CycleIsSound  TlsPartsAreSound
PROPERTIES ReloadKeepsWhatStays EverythingEnds ResponsesArrive
CHECK_DEADLOCK FALSE
