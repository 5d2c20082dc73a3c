SPECIFICATION LedgerSpec
CONSTANTS
    m1 = m1
    m2 = m2
    NoMessage = NoMessage
    Messages = {m1, m2}
    Sessions = {s1}
    Contents <- MCContents
    RunnerBatches <- MCRunnerBatches
    MaxClaims = 3
    MaxRows = 12
INVARIANTS
    OwnershipAgrees
    SequencesContiguous
    MessageLife
PROPERTIES
    WithinTable
CHECK_DEADLOCK FALSE
