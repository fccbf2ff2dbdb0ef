\* Two starters, two threads, two windows of one ms and one sequence number;
\* the clock may be stepped once, so that a window may have to be held and
\* waited out.  No symmetry.
SPECIFICATION GlobalSpec
CONSTANTS
  Threads = {t1, t2}
  Starters = {s1, s2}
  None = None
  TS_MASK = 1
  MID_MASK = 0
  SEQ_MASK = 0
  MachineId = 0
  EpochMs = 0
  WindowMs = 1
  MaxMs = 2
  MaxSteps = 1
INVARIANTS OneIdentity StrictlyIncreasing
PROPERTIES PanicOnlyBeforeInit EveryCallReturns
