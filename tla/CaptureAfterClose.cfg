\* A payment captured for a booking that has been closed.
SPECIFICATION Spec
CONSTANTS
    b1 = b1
    b2 = b2
    w1 = w1
    k1 = k1
    k2 = k2
    r1 = r1
    r2 = r2
    j1 = j1
    None = None
    OnlineKeys = {b1}
    WalkIns = {w1}
    Beds = {k1}
    Days <- MCDays
    Forever <- MCForever
    Events <- MCAllEvents
    AutoConfirm = {TRUE, FALSE}
    RequestSlots = {r1}
    JobSlots = {r1}
    MaxFailures = 0
INVARIANTS
    CapturedMoneyIsRecorded
CHECK_DEADLOCK FALSE
