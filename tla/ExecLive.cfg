SPECIFICATION FairExecutionSpec
CONSTANTS
    NoMessage = NoMessage
    Contents <- MCContents
    RunnerBatches <- WorkerBatches
    Messages = {m1, m2}
    Sessions = {s1}
    MaxClaims = 2
    MaxRows = 20
    MaxRuns = 1
    MaxTries = 2
    EagerSessions = {}
    RejectionsCrash = TRUE
    Disturbances = {"expiry", "crash"}
INVARIANTS
    RenewalSpares
PROPERTIES
    LedgerSpec
    LaunchIsServed
    OutcomeReported
    OfflineReaped
CHECK_DEADLOCK FALSE
