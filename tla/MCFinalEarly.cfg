\* One notification on two channels, two attempts each, nothing breaks.
CONSTANTS
    n1 = n1
    n2 = n2
    c1 = c1
    c2 = c2
    Notifs = {n1}
    Channels = {c1, c2}
    Limited = {c1}
    Limit <- MCLimit
    MaxPeriod = 1
    SessionChannels = {}
    MaxAttempts = 2
    MaxStalls = 1
    MaxJobs = 2
    MaxFaults = 0
SPECIFICATION DeliverySpec
INVARIANT FinalOnlyWhenAllTerminal
CHECK_DEADLOCK FALSE
