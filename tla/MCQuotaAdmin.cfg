CONSTANTS
    p1 = p1
    p2 = p2
    o1 = o1
    o2 = o2
    r1 = r1
    r2 = r2
    w1 = w1
    w2 = w2
    v1 = v1
    e1 = e1
    e2 = e2
    Nothing = Nothing
    Profiles = {p1, p2}
    Owners = {o1, o2}
    Refused = {o2}
    MaxLimit = 1
    Requests = {r1, r2}
    Processes = {w1, w2}
    Reservers = {v1}
    MaxRequests = 2
    MaxLoad = 1
    MaxFaults = 1
    Workers = {w1, w2}
    Events = {e1, e2}
    Rows = {r1, r2}
    MAX_ATTEMPTS = 2
    BATCH_SIZE = 2
    MaxRetries = 1
    MaxMishaps = 1
SPECIFICATION MCSpec
SYMMETRY MCSymmetry
CONSTRAINT MCFocus
INVARIANTS
    DefaultLossIsExplained
    DeletionSparesOwners
    QuotaFlagIsCurrent
    OneLiveRowPerEvent
    SendersAreReissues
CHECK_DEADLOCK FALSE
