SPECIFICATION EventsSpec
CONSTANTS
    i1 = i1
    i2 = i2
    e1 = e1
    e2 = e2
    t1 = t1
    t2 = t2
    s1 = s1
    Items = {i1, i2}
    Events = {e1, e2}
    Topics = {t1, t2}
    About <- MCAbout
    Carries <- MCCarries
    Size <- MCSize
    Connections = {c1, c2}
    SessionOf <- MCSessionOf
    Ids = {k1}
    Requests = {r1}
    MaxItems = 2
    MaxBytes = 3
    MaxWorkers = 2
    MaxKeys = 1
    MaxConnections = 2
    MaxPerSession = 1
    MaxSubscriptions = 1
    MaxFrames = 2
    MaxGeneration = 3
SYMMETRY MCSymmetry
INVARIANTS
    DeliveredOnce
    NoBacklog
    InboxAccounted
    ConnectionsAgree
CHECK_DEADLOCK FALSE
