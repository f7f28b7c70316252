\* More blocks than the log holds, and room for two operations at once.
CONSTANTS
  Proc = {p1, p2, p3}
  Block = {b1, b2, b3, b4, b5}
  Data = {d0}
  Zero = d0
  MAXOPBLOCKS = 3
  LOGSIZE = 6
  log_size = 6
  OpBlocks = 1
  Depth = 1
  MaxOps = 6
SPECIFICATION FairSpec
INVARIANT NoPanic
PROPERTY OpsFinish
