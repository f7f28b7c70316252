SPECIFICATION Spec
CONSTANTS
  MAXARGS = 5
  NPROC = 6
  NOFILE = 6
  NFILE = 6
  NPIPE = 2
  PIPESIZE = 2
  Wrap = 4
  ReadSize = 4
  Starts <- MCStarts
INVARIANTS TestsPass OutputRight RefsExact
PROPERTIES NoLostWakeup PromptReturns
CHECK_DEADLOCK FALSE
