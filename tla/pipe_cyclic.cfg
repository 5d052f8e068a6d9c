SPECIFICATION PipeSpec
CONSTANTS
  PipeConfs <- MCPipeConfs
  PipeBuf = 2
  PipeStalls = 7
INVARIANT FileIsPassedOn
CHECK_DEADLOCK FALSE
