SPECIFICATION Spec
CONSTANTS
    r1 = r1
    r2 = r2
    r3 = r3
    Runners = {r1, r2}
    Operator = Operator
    NoRun = NoRun
    Occurrences = {1}
    OneShot = FALSE
    PolicyDeclared = TRUE
    MaxAttempts = 1
    BackoffMin = 1
    Multiplier = 2
    MaxBackoffMin = 1
    LockTimeout = 0
    MaxHistory = 1
    Limits = {0, 1, 2}
    Commands = {"release", "acquire", "enable", "disable", "limit", "remove", "add"}
    Overlaps = TRUE
    MaxClock = 1
    MaxBoot = 1
    MaxBorn = 1
SYMMETRY RunnerSymmetry
CHECK_DEADLOCK FALSE
INVARIANTS
    LockGuards
PROPERTIES
    QuarantineSticks
    EditsSurvive
