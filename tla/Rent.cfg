\* A tenancy whose first period is a part-month, two requests beside one
\* instance of the job, two payments, one failure.
SPECIFICATION FairSpec
CONSTANTS
    t1 = t1
    p1 = p1
    NoDate = NoDate
    None = None
    Tenancies = {t1}
    Properties = {p1}
    PropertyOf <- MCOneTenancy
    Stays <- MCWalkIns
    Clock <- MCClock
    LeavingDays <- MCLeavingDays
    Amounts = {4}
    Requests = {r1, r2}
    Jobs = {j1}
    MaxPayments = 2
    MaxFailures = 1
INVARIANTS NoDayBilledTwice PeriodsTileTheStay PaidIsCovered SomebodyToChase
PROPERTIES InvoicesOnlyFillUp EveryPeriodIsBilled
CHECK_DEADLOCK FALSE
