SPECIFICATION Spec
CONSTANTS
    c1 = c1
    c2 = c2
    f1 = f1
    f2 = f2
    Calls = {c1, c2}
    NoCall = NoCall
    Fingerprints = {f1, f2}
    NoFingerprint = NoFingerprint
    WallMs = 2
    StageRequests = 2
    MaxRequests = 4
    MaxTokens = 2
    RepeatLimit = 2
    MaxInterrupted = 2
    TokenDeltas = {0, 2, 3}
    MaxTurns = 1
    RepeatGuard = 0
    ContinuationLimit = 0
    PauseAfterStage = 2
    Compacts = TRUE
    Invocations = {"short", "create", "resume", "follow_up"}
SYMMETRY Symmetric
CHECK_DEADLOCK FALSE
INVARIANTS
    JournalReplays
    EffectOnce
    DispatchAccounted
    CleanExit
PROPERTIES
    ImplementsSession
    UncertainIsFrozen
    BudgetsBind
