\* A room of two beds, two names, two requests of which one may die.
SPECIFICATION Spec
CONSTANTS
    m1 = m1
    b1 = b1
    b2 = b2
    None = None
    Rooms = {m1}
    Beds = {b1, b2}
    RoomOf <- MCRoomOf
    Codes = {c1, c2}
    Names = {n1, n2}
    Requests = {r1, r2}
    MaxDeaths = 1
SYMMETRY MCAlike
INVARIANT OfferedIsBookable
PROPERTIES NobodyIsStranded NobodyLosesTheHouse
CHECK_DEADLOCK FALSE
