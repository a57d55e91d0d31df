\* Three entities, two templates, two requests of each kind.
CONSTANTS
    e1 = e1
    e2 = e2
    e3 = e3
    t1 = t1
    t2 = t2
    a1 = a1
    a2 = a2
    l1 = l1
    l2 = l2
    y1 = y1
    y2 = y2
    c1 = c1
    j1 = j1
    Nobody = Nobody
    Entities = {e1, e2, e3}
    Templates = {t1, t2}
    Admins = {a1, a2}
    Lookups = {l1, l2}
    Syncs = {y1, y2}
    Creates = {c1}
    Sends = {j1}
    MaxRequests = 3
    MaxMetaChanges = 1
    MaxSyncs = 2
SPECIFICATION MCSpec
SYMMETRY MCSymmetry
INVARIANTS
    CachedFallbackIsCurrent
    ResolutionIsNearest
    LivingTemplatesAreKept
    TemplateOwnerSends
CHECK_DEADLOCK FALSE
