\* Two workers share one machine ID; leases end by expiry, steal or crash;
\* TimelyWindows holds, with equality.
SPECIFICATION PgSpec
CONSTANTS
  Workers = {w1, w2}
  MaxMachineId = 0
  HEARTBEAT_INTERVAL = 1
  RECLAIM_TTL = 5
  SELF_POISON_AFTER = 2
  BOOTLOOP_GRACE = 5
  BOOTLOOP_SELF_POISON = 2
  FIRST_HEARTBEAT_DELAY = 1
  HEARTBEAT_RETRY_BACKOFF = 1
  RECLAIM_RETRY_BACKOFF = 1
  WINDOW = 2
  TS_MASK = 2
  SEQ_MASK = 1
  MaxDelay = 0
  MaxInFlight = 1
  Droppers = {}
  Killable = {w1, w2}
  Suspendable = {}
  MaxWallStep = 1
  MaxWallSteps = 1
  MaxTime = 6
SYMMETRY Symmetry
INVARIANTS PgTypeOK UniqueIds
PROPERTIES FreshWindow IdsIncreasePerMachineId
CHECK_DEADLOCK FALSE
