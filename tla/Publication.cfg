SPECIFICATION PublicationSpec
CONSTANTS
    Skills = {s1, s2}
    Revisions = {r1, r2, r3}
    Zips = {z1, z2}
    Requests = {c1, c2, c3}
    MaxFaults = 1
SYMMETRY MCSymmetry
INVARIANTS
    ReadyChain
    ReadyIsStored
PROPERTIES
    OutcomeFinal
    ImplementsCatalog
CHECK_DEADLOCK FALSE
