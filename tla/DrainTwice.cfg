CONSTANTS
  Jobs = {j1, j2}
  Workers = {w1, w2}
  NoJob = NoJob
  NoWorker = NoWorker
  Teams <- OneOrTwo
  MaxFailCount = 2
  MaxAge = 2
  HardDelay = 1
  SoftDelay = 1
  DelayCap = 2
  EnqueueUntil = 0
  MaxTroubles = 0
  CrashInRewrite = FALSE
SPECIFICATION Spec
PROPERTY NoDuplicate
CHECK_DEADLOCK FALSE
