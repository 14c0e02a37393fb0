\* A tenant who paid the first month online, and one look at the rent page.
SPECIFICATION Spec
CONSTANTS
    t1 = t1
    p1 = p1
    NoDate = NoDate
    None = None
    Tenancies = {t1}
    Properties = {p1}
    PropertyOf <- MCOneTenancy
    Stays <- MCBooked
    Clock <- MCClock
    LeavingDays <- MCLeavingDays
    Amounts = {4}
    Requests = {r1}
    Jobs = {j1}
    MaxPayments = 1
    MaxFailures = 0
INVARIANT FirstMonthPaidOnlineCounts
CHECK_DEADLOCK FALSE
