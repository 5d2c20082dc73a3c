SPECIFICATION AccessSpec
CONSTANTS
    u1 = u1
    u2 = u2
    s1 = s1
    s2 = s2
    Users = {u1, u2}
    Teams = {t1, t2}
    Sessions = {s1, s2}
    UserOf <- MCUserOf
    Requests = {q1, q2}
    Kinds = {"archive", "role", "add", "remove", "create", "switch", "deactivate"}
    Ending = {s2}
    Given = {"owner", "admin"}
SYMMETRY MCSymmetry
INVARIANTS
    OwnedAndPlaced
CHECK_DEADLOCK FALSE
