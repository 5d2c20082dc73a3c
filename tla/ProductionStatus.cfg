SPECIFICATION ProductionSpec
CONSTANTS
    Sessions = {g}
    Generated = g
    StartKeys = {k1}
    StatusKeys = {q1, q2}
    Inputs = {i1}
    Requests = {c1}
    Reports = {r1}
    Moves = {m1, m2}
    MaxRevision = 4
    MaxLag = 1
    MaxOutages = 0
    MaxCrashes = 0
    MaxLosses = 0
SYMMETRY MCSymmetry
INVARIANTS
    HistoryChains
    ContextIsStart
    RevokedIffTerminal
    AnswerRecorded
PROPERTIES
    AgentFenced
