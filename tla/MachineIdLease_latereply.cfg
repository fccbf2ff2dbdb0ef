\* A worker is suspended, or simply stalls, with a reply pending for longer
\* than the margin between its poison horizon and the row's deadline.
SPECIFICATION Spec
CONSTANTS
  Workers = {w1, w2}
  MaxMachineId = 0
  HEARTBEAT_INTERVAL = 2
  RECLAIM_TTL = 6
  SELF_POISON_AFTER = 4
  BOOTLOOP_GRACE = 4
  BOOTLOOP_SELF_POISON = 2
  FIRST_HEARTBEAT_DELAY = 1
  HEARTBEAT_RETRY_BACKOFF = 1
  RECLAIM_RETRY_BACKOFF = 1
  MaxDelay = 3
  MaxInFlight = 0
  Droppers = {}
  Killable = {}
  Suspendable = {w1, w2}
  MaxWallStep = 1
  MaxWallSteps = 0
  MaxTime = 7
SYMMETRY Symmetry
INVARIANTS InvariantS
CHECK_DEADLOCK FALSE
