\* A one-time and a recurring schedule with two runs each; the data source of
\* the recurring one may answer with an item null.
CONSTANTS
    s1 = s1
    s2 = s2
    p1 = p1
    p2 = p2
    Schedules = {s1, s2}
    OneTime = {s1}
    Poisoned = {}
    Throwing = {s2}
    Pollers = {p1, p2}
    max_retries = 2
    MaxRuns = 3
    MaxPatches = 1
    MaxFaults = 1
SPECIFICATION FairScheduleSpec
INVARIANTS
    RunsAreSentOnce
PROPERTIES
    InactiveStaysInactive
    EveryDueScheduleIsSettled
CHECK_DEADLOCK FALSE
