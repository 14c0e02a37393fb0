\* A split that dies after the reversal, and the next sweep.
SPECIFICATION Spec
CONSTANTS
    b1 = b1
    b2 = b2
    None = None
    Bookings = {b1}
    Desks = {d1}
    Jobs = {j1}
    Rent = 4
    Deposit = 1
    Commission = 1
    Fee = 1
    MaxFailures = 1
INVARIANT ReversedOnce
CHECK_DEADLOCK FALSE
