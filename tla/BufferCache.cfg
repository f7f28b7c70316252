SPECIFICATION Spec
CONSTANTS
  Proc = {1, 2, 3}
  Block = {1, 2, 3, 4}
  NBUF = 3
  Programs <- MCPrograms
INVARIANTS Coherent BuffersSound
PROPERTY AllServed
CHECK_DEADLOCK FALSE
