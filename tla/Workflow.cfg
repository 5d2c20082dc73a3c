SPECIFICATION WorkflowSpec
CONSTANTS
    g1 = g1
    u1 = u1
    i1 = i1
    v1 = v1
    Skills = {g1, u1, i1, v1}
    Named <- MCNamed
    Stocked = {g1, u1, i1, v1}
    States = {x1, x2}
    Sessions = {a, b}
    Commands = {k1, k2}
    Calls = {c1, c2}
    Managers = {m1}
    Changing = {g1}
    MaxChanges = 4
    MaxRevision = 2
SYMMETRY MCSymmetry
INVARIANTS
    StagePath
    BoundWhileActive
    DesiredOfOneStage
CHECK_DEADLOCK FALSE
