\* One webhook row; the notification with its two channels is fixed in MCLive.
CONSTANTS
    n1 = n1
    c1 = c1
    c2 = c2
    w1 = w1
    w2 = w2
    e1 = e1
    r1 = r1
    Workers = {w1, w2}
    Events = {e1}
    Rows = {r1}
    MAX_ATTEMPTS = 2
    BATCH_SIZE = 2
    MaxRetries = 1
    MaxMishaps = 2
SPECIFICATION LiveSpec
PROPERTIES
    EveryReservationSettles
    FinalWhenAllSent
    EveryDeliverySettles
CHECK_DEADLOCK FALSE
