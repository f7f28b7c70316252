CONSTANTS
  MAX_PHYS_PAGES = 2
  MAX_TOTAL_PAGES = 3
  NVPN = 4
  Frame = {f1, f2, f3, f4, f5, f6}
  NoFrame = NoFrame
  Data = {Zero, Junk}
  Zero = Zero
  Junk = Junk
  Proc = {p1, p2}
  SpawnSizes = {3}
  ExecSizes = {3}
  Refs = {3}
  Bufs = {}
  MaxGrow = 1
  Pressure = TRUE
SPECIFICATION FairSpec
VIEW AnyFrames
PROPERTY KernelReturns
CHECK_DEADLOCK FALSE
