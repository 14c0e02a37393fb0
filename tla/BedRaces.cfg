\* Two requests at a time, either of which may be the expiry job: a booking whose
\* first payment attempt fails, and a walk-in, who want the same bed.
SPECIFICATION Spec
CONSTANTS
    b1 = b1
    b2 = b2
    w1 = w1
    k1 = k1
    k2 = k2
    r1 = r1
    r2 = r2
    j1 = j1
    None = None
    OnlineKeys = {b1}
    WalkIns = {w1}
    Beds = {k1}
    Days <- MCDays
    Forever <- MCForever
    Events <- MCTwoEvents
    AutoConfirm = {TRUE, FALSE}
    RequestSlots = {r1, r2}
    JobSlots = {r1, r2}
    MaxFailures = 0
SYMMETRY SlotSymmetry
INVARIANTS
    TypeOK
    NoStrandedClaim
    ConfirmedIsReady
    RecordedEventIsHandled
PROPERTIES
    ImplementsBedClaims
    PaidBedGoesWithItsBooking
    OccupancyBeginsOnce
CHECK_DEADLOCK FALSE
