\* s1 fires once, s2 carries data the database refuses; nothing else goes wrong.
CONSTANTS
    s1 = s1
    s2 = s2
    p1 = p1
    p2 = p2
    Schedules = {s1, s2}
    OneTime = {s1}
    Poisoned = {s2}
    Throwing = {}
    Pollers = {p1}
    max_retries = 2
    MaxRuns = 3
    MaxPatches = 0
    MaxFaults = 0
SPECIFICATION ScheduleSpec
INVARIANT OneTimeFiresOnce
CHECK_DEADLOCK FALSE
