\* Room for two operations at once; crashes at any point.
CONSTANTS
  Proc = {p1, p2}
  Block = {b1, b2, b3}
  Data = {d0, d1}
  Zero = d0
  MAXOPBLOCKS = 4
  LOGSIZE = 8
  log_size = 8
  OpBlocks = 2
  Depth = 1
  MaxOps = 3
SPECIFICATION Spec
INVARIANTS CacheCoherent QuietIsDurable
PROPERTY DiskIsAtomic
