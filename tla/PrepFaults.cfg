SPECIFICATION PreparationSpec
CONSTANTS
    Workspaces = {w1}
    Commits = {b1, b2}
    Setups = {c1, c2}
    Polls = {p1, p2}
    MaxAttempts = 3
    Disturbances = {"crash", "network", "contention", "repository", "restart"}
    ReportsLoss = TRUE
INVARIANTS
    AttemptsAgree
    ReadyIsPublished
    LeftoverAdoptable
    OneHolder
PROPERTIES
    SettledForGood
    ImplementsLifecycle
SYMMETRY MCSymmetry
CHECK_DEADLOCK FALSE
