\* Two uploads, calls or pages and three presses at a time, one screen in
\* each behaviour; MCWeb defines the sets that are more than a name.
SPECIFICATION Spec
CONSTANTS
    None = None
    m1 = m1
    m2 = m2
    b1 = b1
    b2 = b2
    b3 = b3
    Requests = {r1, r2}
    PhotoIds <- MCPhotoIds
    MaxPhotos = 2
    MaxBatch = 2
    MaxFailures = 2
    MaxRows = 3
    MaxMoves = 1
    Positions = {0, 2}
    Calls = {r1, r2}
    MaxTokens = 3
    MaxCuts = 1
    Choices <- MCChoices
    MaxSets = 3
    MaxRoomsPerBulk = 121
    Existing <- MCExisting
    MaxPresses = 3
    MaxMounts = 2
    MaxLosses = 2
    Pages = {r1, r2}
    Words = {"a", "b"}
    MaxEdits = 2
    Rooms = {m1, m2}
    Beds = {b1, b2, b3}
    RoomOf <- MCRoomOf
    Sharings = {s1, s2}
    Rates <- MCRates
    Overrides = {None, 8000}
    Days = {1, 2}
    Forever = 9
    Fee = 25
    CommissionBps = 400
    MaxChanges = 1
    Passes = {r1, r2}
    MaxOpens = 2
    MaxSends = 2
SYMMETRY MCAlike
INVARIANTS
    RowHasItsObjects
    SoleRefreshKeepsSession
    PreviewIsWhatIsCreated
    NothingIsDoneTwice
    FailureMeansNotDone
    OfferIsKept
    DeskIsFreeAgain
PROPERTIES
    LandsBehind
    UntouchedSurvives
CHECK_DEADLOCK FALSE
