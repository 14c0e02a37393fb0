\* Two checkouts, their payments and the job, under fairness.
SPECIFICATION FairSpec
CONSTANTS
    b1 = b1
    b2 = b2
    w1 = w1
    k1 = k1
    k2 = k2
    r1 = r1
    r2 = r2
    j1 = j1
    None = None
    OnlineKeys = {b1, b2}
    WalkIns = {}
    Beds = {k1, k2}
    Days <- MCOneDay
    Forever <- MCForever
    Events <- MCOneEvent
    AutoConfirm = {TRUE, FALSE}
    RequestSlots = {r1}
    JobSlots = {j1}
    MaxFailures = 1
PROPERTIES
    NothingPendsForever
CHECK_DEADLOCK FALSE
