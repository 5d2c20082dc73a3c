SPECIFICATION ExecutionSpec
CONSTANTS
    NoMessage = NoMessage
    Contents <- MCContents
    RunnerBatches <- WorkerBatches
    Messages = {m1}
    Sessions = {s1, s2}
    MaxClaims = 2
    MaxRows = 20
    MaxRuns = 1
    MaxTries = 2
    EagerSessions = {s1, s2}
    RejectionsCrash = FALSE
    Disturbances = {"provider", "shutdown"}
SYMMETRY MCSymmetry
INVARIANTS
    FirstClaimCarried
CHECK_DEADLOCK FALSE
