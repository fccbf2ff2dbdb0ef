\* Two workers compete for one machine ID: suspends, a wall clock that is stepped
\* once, lost replies, crashes, drops.  Timely holds with nothing to spare.
\* Time ends at MaxTime.
SPECIFICATION Spec
CONSTANTS
  Workers = {w1, w2}
  MaxMachineId = 0
  HEARTBEAT_INTERVAL = 1
  RECLAIM_TTL = 4
  SELF_POISON_AFTER = 2
  BOOTLOOP_GRACE = 4
  BOOTLOOP_SELF_POISON = 2
  FIRST_HEARTBEAT_DELAY = 1
  HEARTBEAT_RETRY_BACKOFF = 1
  RECLAIM_RETRY_BACKOFF = 1
  MaxDelay = 1
  MaxInFlight = 1
  Droppers = {w1, w2}
  Killable = {w1, w2}
  Suspendable = {w1, w2}
  MaxWallStep = 1
  MaxWallSteps = 1
  MaxTime = 5
SYMMETRY Symmetry
INVARIANTS TypeOK InvariantS InUseIsLeased TokensIdentifyClaims
PROPERTIES RowInUseIsStable UseSpec
CHECK_DEADLOCK FALSE
