SPECIFICATION FairProductionSpec
CONSTANTS
    Sessions = {s1, g}
    Generated = g
    StartKeys = {k1}
    StatusKeys = {q1}
    Inputs = {i1}
    Requests = {c1, c2}
    Reports = {r1}
    Moves = {}
    MaxRevision = 3
    MaxLag = 2
    MaxOutages = 1
    MaxCrashes = 1
    MaxLosses = 1
INVARIANTS
    SessionOfContext
PROPERTIES
    SessionFollows
