CONSTANTS
  MAX_PHYS_PAGES = 3
  MAX_TOTAL_PAGES = 5
  NVPN = 6
  Frame = {f1, f2, f3, f4, f5, f6}
  NoFrame = NoFrame
  Data = {Zero, Junk}
  Zero = Zero
  Junk = Junk
  Proc = {p1}
  SpawnSizes = {3}
  ExecSizes = {3}
  Refs = {0, 2, 3, 4, 5}
  Bufs = {2, 3, 4, 5}
  MaxGrow = 2
  Pressure = FALSE
SPECIFICATION Spec
VIEW AnyFrames
INVARIANT CheckedBuffersUsable
