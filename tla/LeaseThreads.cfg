\* Two threads, a lease that moves to another machine ID and back, an epoch
\* of three windows with one number each, and a clock that runs past it.
SPECIFICATION Spec
CONSTANTS
  Threads = {t1, t2}
  MaxMachineId = 1
  TS_MASK = 2
  SEQ_MASK = 0
  MaxTerm = 3
  MaxWindow = 3
SYMMETRY Symmetry
INVARIANTS TypeOK IssuedUnderLease AgreeOnMachineId UniqueIds
PROPERTIES IdsIncrease
CHECK_DEADLOCK FALSE
