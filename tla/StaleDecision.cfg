\* Requests that decide on a status another has changed.
SPECIFICATION Spec
CONSTANTS
    b1 = b1
    b2 = b2
    w1 = w1
    k1 = k1
    k2 = k2
    r1 = r1
    r2 = r2
    j1 = j1
    None = None
    OnlineKeys = {b1}
    WalkIns = {}
    Beds = {k1}
    Days <- MCDays
    Forever <- MCForever
    Events <- MCEvents
    AutoConfirm = {TRUE, FALSE}
    RequestSlots = {r1, r2}
    JobSlots = {j1}
    MaxFailures = 0
SYMMETRY SlotSymmetry
PROPERTIES
    ClosedIsNotReopened
CHECK_DEADLOCK FALSE
