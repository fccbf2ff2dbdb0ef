\* Two threads, two windows of two ms and two sequence numbers each, a
\* clock that may be stepped once, to any value.
SPECIFICATION Spec
CONSTANTS
  Threads = {t1, t2}
  TS_MASK = 1
  MID_MASK = 1
  SEQ_MASK = 1
  MachineId = 1
  EpochMs = 1
  WindowMs = 2
  MaxMs = 5
  MaxSteps = 1
SYMMETRY Symmetry
INVARIANTS TypeOK StrictlyIncreasing WindowUsedUp SleepFitsWindow
PROPERTIES NotBeforeReading IssuerSpec
