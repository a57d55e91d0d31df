\* One tenant beside those without an entity; a request has two channels.
CONSTANTS
    r1 = r1
    r2 = r2
    r3 = r3
    e1 = e1
    p1 = p1
    p2 = p2
    k = k
    x = x
    y = y
    plain = plain
    rich = rich
    other = other
    push = push
    email = email
    Nobody = Nobody
    Requests = {r1, r2, r3}
    Entities = {e1}
    Parents = {p1, p2}
    Parts = {k, x, y}
    Keys <- MCKeys
    Payloads = {plain, rich, other}
    Plain = {plain}
    EventOf <- MCEventOf
    Channels = {push, email}
    First <- MCFirst
    Wording <- MCWording
    MaxTexts = 1
    Bodies <- MCBodies
    Mentions <- MCMentions
    TooLong <- MCTooLong
SPECIFICATION MCSpec
SYMMETRY MCSymmetry
CONSTRAINT MCConstraint
INVARIANTS
    AnswersNameTheirOwn
    FreshTwinsRaced
    OneParentPerEntity
PROPERTIES
    ImplementsIntake
CHECK_DEADLOCK FALSE
