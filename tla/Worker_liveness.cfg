SPECIFICATION FairSpec
CONSTANTS
  j1 = j1  j2 = j2  r1 = r1  r2 = r2
  Jobs = {j1}
  Runners = {r1, r2}
  NoJob = NoJob
  MaxAttempts = 3
  WORKER_MAX_ATTEMPTS = 3
  WorkFails = TRUE
  Overrun = FALSE
  MaxCrashes = 2
  MaxRedisLosses = 2
INVARIANTS TypeOK OneRunner
PROPERTIES SettledStays  
