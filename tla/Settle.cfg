\* Two bookings, two desks, one instance of the job, two failures.  The rent
\* covers the deposit twice, so that a repeated split is not stopped by an
\* empty transfer.
SPECIFICATION FairSpec
CONSTANTS
    b1 = b1
    b2 = b2
    None = None
    Bookings = {b1, b2}
    Desks = {d1, d2}
    Jobs = {j1}
    Rent = 4
    Deposit = 1
    Commission = 1
    Fee = 1
    MaxFailures = 2
INVARIANTS RefundedOnce HeldUntilDue RowIsTrue
PROPERTY ArrivalIsPaid
CHECK_DEADLOCK FALSE
