\* One number that may be sent three codes, one desk, two requests at a time
\* of which one may die half way.
SPECIFICATION Spec
CONSTANTS
    c1 = c1
    c2 = c2
    c3 = c3
    ph = ph
    pg = pg
    k1 = k1
    r1 = r1
    r2 = r2
    None = None
    Phones = {ph}
    Challenges = {c1, c2, c3}
    PhoneOf <- MCPhoneOf
    Properties = {pg}
    Passes = {k1}
    HomeOf <- MCHomeOf
    Requests = {r1, r2}
    OtpMaxAttempts = 1
    OtpMaxRequests = 1
    MaxCodeAttempts = 2
    MaxTyped = 1
    MaxDeaths = 1
SYMMETRY MCAlike
INVARIANTS LimitsAreKept CodeIsSpent LockStopsGuessing
CHECK_DEADLOCK FALSE
