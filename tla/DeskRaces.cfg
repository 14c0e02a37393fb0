\* Two requests and the expiry job on one bed over three days: a resident who
\* gives notice, and two checkouts for the days after.
SPECIFICATION Spec
CONSTANTS
    b1 = b1
    b2 = b2
    w1 = w1
    k1 = k1
    k2 = k2
    r1 = r1
    r2 = r2
    j1 = j1
    None = None
    OnlineKeys = {b1, b2}
    WalkIns = {w1}
    Beds = {k1}
    Days <- MCThreeDays
    Forever <- MCForever
    Events = {}
    AutoConfirm = {FALSE}
    RequestSlots = {r1, r2}
    JobSlots = {j1}
    MaxFailures = 0
SYMMETRY SlotSymmetry
INVARIANTS
    NoOverlap ScreensAgree NoticeClosesLinkedClaim
CHECK_DEADLOCK FALSE
