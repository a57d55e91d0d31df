SPECIFICATION RuntimeSpec
CONSTANTS
    Callers = {c1, c2}
    MaxTries = 2
    MaxPools = 2
    MaxPoolErrors = 1
    Servers = {v1, v2}
    Senders = {n1}
    Sockets = {s1, s2}
    Users = {u1, u2}
    Strangers = {x}
    MaxEvents = 1
    MaxBeats = 2
    MemberIds = {1, 2, 3, 4, 5}
    Broadcasts = {b1}
    BroadcastPageSize = 2
    BroadcastConcurrency = 1
    MaxDraws = 5
    MaxCrashes = 1
    Readers = {r1}
    InboxPageSize = 1
    MaxInbox = 4
    MaxMillis = 1
    Zones <- MCZones
    Recurrences <- MCRecurrences
    Instants <- MCInstants
    MonthStart <- MCMonthStart
    MaxLate = 2
    MaxComputed = 2
    Forms <- MCForms
    Inputs <- MCInputs
    Values <- MCValues
    Processes = {p1, p2}
    Workers = {w1}
    Channels = {"push"}
    Changes <- MCChanges
    Allowed <- MCAllowed
    MaxVersions = 2
    MaxTimeouts = 1
    Numbers = {"a", "b", "me"}
    Myself = "me"
    Setups <- MCSetups
    MaxSends = 3
    MaxLosses = 1
    Patchers = {q1, q2}
    TimingFields = {"frequency", "day"}
    TimingValues = {"daily", "weekly", "none", "1"}
    TimingChanges <- MCTimingChanges
    Computable <- MCComputable
    MaxWrites = 5
    Triggers = {g1}
    TriggerChannels = {"sms", "push"}
    TriggerItems <- MCItems
    MaxTriggerFaults = 1
    Scopes = {"e", "p", "f"}
    TemplateNames = {"otp", "login", "plain"}
    MappedFor <- MCMappedFor
    AliasIds = {1, 2}
    AliasStarts <- MCAliasStarts
    AliasWrites <- MCAliasWrites
    Questions <- MCQuestions
    RowStarts <- MCRowStarts
    Lookups = {l1}
    AliasWriters = {aw1}
    MaxChanges = 1
INVARIANTS
    PreparedAsOneLook
    RepeatsAreExplained
    NextRunFollowsTiming
    LogTellsWhatWasSent
    OwnProcessIsCurrent
    PushedOnceToItsOwner
    BroadcastReachesEachOnce
    PagesMissOnlyTies
    NextRunIsTheFirst
    SentAsMapped
PROPERTY
    ShutdownIsFinal
CHECK_DEADLOCK FALSE
