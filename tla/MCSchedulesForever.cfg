\* The data source of the recurring schedule may answer with an item null.
CONSTANTS
    s1 = s1
    s2 = s2
    p1 = p1
    p2 = p2
    Schedules = {s1, s2}
    OneTime = {s1}
    Poisoned = {}
    Throwing = {s2}
    Pollers = {p1, p2}
    max_retries = 2
    MaxRuns = 3
    MaxPatches = 0
    MaxFaults = 0
SPECIFICATION FairScheduleSpec
PROPERTIES
    FailedRunsGiveUp
CHECK_DEADLOCK FALSE
