CONSTANTS
  Requests = {r1, r2}
  NoReceipt = NoReceipt
  Delay = 1
  RunTimeout = 2
  HealthWait = 1
  TimeToLive = 2
  Overlap = FALSE
  MaxClock = 3
  MaxPids = 3
  MaxFaults = 1
  Procs = {p1, p2, p3, p4}
  NoProc = NoProc
  Probe = Probe
  RapidLimit = 2
  RapidWindow = 2
  Grace = 1
  Overlapping = FALSE
  MaxTime = 3
  MaxByHand = 1
  MaxStops = 1
  MaxProbes = 1
  MaxDeaths = 3
SYMMETRY OpsSymmetry
SPECIFICATION OpsSpec
INVARIANTS RestartHonest DoorHeld Tracked EndExplained
CHECK_DEADLOCK FALSE
