\* Two jobs in all: one notification on both channels, or two on one each, over
\* two periods.
CONSTANTS
    n1 = n1
    n2 = n2
    c1 = c1
    c2 = c2
    Notifs = {n1, n2}
    Channels = {c1, c2}
    Limited = {c1}
    Limit <- MCLimit
    MaxPeriod = 2
    SessionChannels = {c2}
    MaxAttempts = 2
    MaxStalls = 1
    MaxJobs = 2
    MaxFaults = 2
SYMMETRY MCSymmetry
SPECIFICATION DeliverySpec
INVARIANTS
    CountersMatchRows
    WithinLimit
    ChargeMatchesLog
    StatusBackedByLogs
    FinalIsEarlyForRetriesAlone
PROPERTIES
    ImplementsLedger
    DeliveredStays
CHECK_DEADLOCK FALSE
