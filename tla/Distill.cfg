CONSTANTS
  Jobs = {j1, j2}
  Workers = {w1, w2}
  NoJob = NoJob
  NoWorker = NoWorker
  Teams <- OneOrTwo
  MaxFailCount = 2
  MaxAge = 2
  HardDelay = 1
  SoftDelay = 1
  DelayCap = 2
  EnqueueUntil = 0
  MaxTroubles = 1
  CrashInRewrite = FALSE
SPECIFICATION FairSpec
INVARIANT JobKept
PROPERTIES ClaimsInTurn JobSettles
CHECK_DEADLOCK FALSE
