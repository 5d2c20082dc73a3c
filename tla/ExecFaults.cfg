SPECIFICATION ExecutionSpec
CONSTANTS
    NoMessage = NoMessage
    Contents <- MCContents
    RunnerBatches <- WorkerBatches
    Messages = {m1, m2}
    Sessions = {s1}
    MaxClaims = 2
    MaxRows = 20
    MaxRuns = 2
    MaxTries = 2
    EagerSessions = {}
    RejectionsCrash = TRUE
    Disturbances = {"crash", "network", "contention", "restart"}
SYMMETRY MCSymmetry
INVARIANTS
    DispatchedOnce
    ProviderSessionStable
    InStep
CHECK_DEADLOCK FALSE
