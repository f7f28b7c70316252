CONSTANTS
  MAX_PHYS_PAGES = 3
  MAX_TOTAL_PAGES = 4
  NVPN = 4
  Frame = {f1, f2, f3, f4, f5, f6, f7}
  NoFrame = NoFrame
  Data = {Zero, Junk, d1}
  Zero = Zero
  Junk = Junk
  Proc = {p1, p2}
  SpawnSizes = {3}
  ExecSizes = {}
  Refs = {3}
  Bufs = {}
  MaxGrow = 1
  Pressure = TRUE
SPECIFICATION Spec
VIEW AnySlots
INVARIANTS FramesExclusive OnlyForkPanics
PROPERTIES FramesKept MemoryPreserved
CHECK_DEADLOCK FALSE
