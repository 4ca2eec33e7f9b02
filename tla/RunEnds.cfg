SPECIFICATION FairSpec
CONSTANTS
    c1 = c1
    c2 = c2
    c3 = c3
    f1 = f1
    f2 = f2
    Calls = {c1, c2, c3}
    NoCall = NoCall
    Fingerprints = {f1, f2}
    NoFingerprint = NoFingerprint
    WallMs = 1
    StageRequests = 2
    MaxRequests = 2
    MaxTokens = 2
    RepeatLimit = 2
    MaxInterrupted = 2
    TokenDeltas = {0}
    MaxTurns = 3
    RepeatGuard = 2
    ContinuationLimit = 1
    PauseAfterStage = 2
    Compacts = TRUE
    Invocations = {"short", "create", "resume", "follow_up"}
CHECK_DEADLOCK FALSE
PROPERTIES
    RunEnds
