\* The sizes of param.h and mkfs.c; exec begins an operation inside its own.
CONSTANTS
  Proc = {p1, p2, p3}
  Block = {b1}
  Data = {d0}
  Zero = d0
  MAXOPBLOCKS = 10
  LOGSIZE = 30
  log_size = 30
  OpBlocks = 1
  Depth = 2
  MaxOps = 6
SPECIFICATION FairSpec
PROPERTY OpsFinish
