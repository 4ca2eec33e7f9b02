CONSTANTS
  A = A
  B = B
  C = C
  u1 = u1
  u2 = u2
  NoImage = NoImage
  Torn = Torn
  Unknown = Unknown
  NoUpdater = NoUpdater
  Images = {A, B, C}
  Unsigned = {}
  Broken = {}
  Updaters = {u1, u2}
  Fresh = 1
  Stale = 1
  BusyMax = 2
  MaxDefer = 2
  MaxClock = 3
  MaxCommands = 3
  MaxFaults = 1
  MaxStarts = 1
  MaxTurns = 1
SYMMETRY Symmetric
SPECIFICATION Spec
INVARIANT RollbackTargetKept
PROPERTIES GenerationSpec VerdictsAndWaits
CHECK_DEADLOCK FALSE
