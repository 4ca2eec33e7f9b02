SPECIFICATION Spec
CONSTANTS
    r1 = r1
    r2 = r2
    r3 = r3
    Runners = {r1, r2, r3}
    Operator = Operator
    NoRun = NoRun
    Occurrences = {1, 4}
    OneShot = FALSE
    PolicyDeclared = TRUE
    MaxAttempts = 2
    BackoffMin = 1
    Multiplier = 2
    MaxBackoffMin = 1
    LockTimeout = 0
    MaxHistory = 1
    Limits = {0, 2}
    Commands = {"enable", "disable", "release"}
    Overlaps = FALSE
    MaxClock = 4
    MaxBoot = 1
    MaxBorn = 0
SYMMETRY RunnerSymmetry
CHECK_DEADLOCK FALSE
INVARIANTS
    CountExact
    OccurrenceOnce
    RecordKept
