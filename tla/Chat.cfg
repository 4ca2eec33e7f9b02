CONSTANTS
  Kinds = {"prompt", "task", "new", "stop", "resume", "swap", "other", "denied"}
  FollowupCap = 1
  MaxPrevious = 1
  MaxAttempts = 2
  TurnIds = {1, 2}
  MaxUpdates = 3
  MaxSessions = 2
  MaxFaults = 2
  MaxCrashes = 1
SPECIFICATION FairSpec
INVARIANTS SlotDiscipline
PROPERTIES RecordHonest QueueSpec QueueDrains
CHECK_DEADLOCK FALSE
