\* A worker drops its generator: the machine ID is released at once.
SPECIFICATION PgSpec
CONSTANTS
  Workers = {w1, w2}
  MaxMachineId = 0
  HEARTBEAT_INTERVAL = 2
  RECLAIM_TTL = 7
  SELF_POISON_AFTER = 4
  BOOTLOOP_GRACE = 5
  BOOTLOOP_SELF_POISON = 2
  FIRST_HEARTBEAT_DELAY = 1
  HEARTBEAT_RETRY_BACKOFF = 1
  RECLAIM_RETRY_BACKOFF = 1
  WINDOW = 2
  TS_MASK = 3
  SEQ_MASK = 1
  MaxDelay = 0
  MaxInFlight = 1
  Droppers = {w1, w2}
  Killable = {}
  Suspendable = {}
  MaxWallStep = 1
  MaxWallSteps = 0
  MaxTime = 7
SYMMETRY Symmetry
INVARIANTS UniqueIds
CHECK_DEADLOCK FALSE
