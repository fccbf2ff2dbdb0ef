\* The timing constants of lib.rs:81-100 in units of 5 s; one worker.
SPECIFICATION HealthSpec
CONSTANTS
  Workers = {w1}
  MaxMachineId = 0
  HEARTBEAT_INTERVAL = 120
  RECLAIM_TTL = 360
  SELF_POISON_AFTER = 300
  BOOTLOOP_GRACE = 12
  BOOTLOOP_SELF_POISON = 9
  FIRST_HEARTBEAT_DELAY = 4
  HEARTBEAT_RETRY_BACKOFF = 6
  RECLAIM_RETRY_BACKOFF = 1
  MaxDelay = 0
  MaxInFlight = 0
  Droppers = {}
  Killable = {}
  Suspendable = {}
  MaxWallStep = 0
  MaxWallSteps = 0
  BootBy = 0
  MaxTime = 20
INVARIANTS OneMissIsHarmless
CHECK_DEADLOCK FALSE
