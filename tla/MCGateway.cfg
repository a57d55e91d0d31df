SPECIFICATION RequestsSpec
CONSTANTS
    Clients <- MCClients
    Requests = {r1, r2}
    BadKeys = {"k1", "k2"}
    Max <- MCMax
    Thresholds = {1, 2}
    MaxAttempts = 2
    ManyKeys = 1
    ThreatThreshold = 5
    Points <- MCPoints
    MaxWindow = 1
    MaxArrivals = 3
    MaxFaults = 1
    MaxExpiries = 1
    Editors = {e1, e2}
    Types = {"t"}
    Conditions <- MCConditions
    Lower <- MCLower
    MaxTemplates = 2
    MaxClock = 4
    Visitors = {a1, a2}
    Emails = {m1}
    AppIds = {i1}
    MaxCodes = 3
    MaxKeys = 2
    MaxMistakes = 1
PROPERTIES
    BansAreEarned
INVARIANTS
    ConditionsDecideAlone
    CodesAdmitOnce
SYMMETRY Interchangeable
CONSTRAINT OneTrouble
CHECK_DEADLOCK FALSE
