\* A wall clock that may be set back once.
SPECIFICATION Spec
CONSTANTS
  Threads = {t1, t2}
  TS_MASK = 0
  MID_MASK = 0
  SEQ_MASK = 1
  MachineId = 0
  EpochMs = 1
  WindowMs = 2
  MaxMs = 3
  MaxSteps = 1
SYMMETRY Symmetry
PROPERTIES EpochExhaustionIsPermanent
