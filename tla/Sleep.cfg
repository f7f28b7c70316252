SPECIFICATION Spec
CONSTANTS
  NCPU = 2
  NP = 3
  Programs <- MCPrograms
INVARIANTS NoPanic RunsOnce InterruptsMasked NoLostWakeup
PROPERTY SleepLockAtomic
