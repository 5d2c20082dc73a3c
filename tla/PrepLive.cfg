SPECIFICATION FairPreparationSpec
CONSTANTS
    Workspaces = {w1, w2}
    Commits = {b1}
    Setups = {c1}
    Polls = {p1}
    MaxAttempts = 2
    Disturbances = {"crash", "restart", "disk"}
    ReportsLoss = FALSE
PROPERTIES
    PreparationSettles
    ReadyPassedOn
CHECK_DEADLOCK FALSE
