------------------------------- MODULE Booking -------------------------------
(***************************************************************************)
(* Bookings, the claims they hold on beds, and the tenancies they become.  *)
(*                                                                         *)
(* Every HTTP request, webhook delivery and job run is a sequence of       *)
(* separate database round trips: it reads a row, decides, and commits a   *)
(* transaction that may find the row changed.  A request slot of `req'     *)
(* holds what a request has read; each read and each transaction is one    *)
(* action, so requests of different slots interleave between them.  A      *)
(* transaction is atomic: two that touch the same rows are serialised by   *)
(* the row locks they take, and a deadlock or a unique violation that      *)
(* kills one of them is a request that fails (Fail).                       *)
(***************************************************************************)
EXTENDS Naturals, FiniteSets

CONSTANTS
    OnlineKeys,     \* bookings by idempotency key, one row per key (unique)
    WalkIns,        \* rows for bookings the staff enter, which have no key
    Beds,           \* the beds of one sharing type of a property, all in service
    Days,           \* days a stay can start on or end on, today or later
    Forever,        \* the upper bound of daterange(start, NULL)
    Events,         \* what the payment gateway may notify
    AutoConfirm,    \* the values Property.autoConfirmBookings may have
    RequestSlots,   \* requests the API serves at a time
    JobSlots,       \* slots that run the expiry job, one per running instance
    MaxFailures,    \* bound on the requests that die between two steps
    None            \* no bed, no booking, no event

Bookings == OnlineKeys \union WalkIns
Slots == RequestSlots \union JobSlots

EventTypes == {"payment.captured", "payment.failed", "other"}

(* `id' is the gateway's event id, `payment' its payment id, `booking' the *)
(* booking whose order it is about, and `amountOk' whether the amount it   *)
(* reports is the one the order was made for.                              *)
EventsAssumption ==
    /\ \A e \in Events : /\ e.booking \in OnlineKeys
                         /\ e.type \in EventTypes
                         /\ e.amountOk \in BOOLEAN
    /\ \A e, f \in Events : e.id = f.id => e = f
    /\ \A e, f \in Events : e.payment = f.payment => e.booking = f.booking
    /\ None \notin Events

DaysAssumption ==
    /\ Days \subseteq Nat /\ Forever \in Nat
    /\ \A d \in Days : d < Forever

RowsAssumption ==
    /\ OnlineKeys \intersect WalkIns = {}
    /\ None \notin Bookings /\ None \notin Beds
    /\ AutoConfirm \subseteq BOOLEAN
    /\ MaxFailures \in Nat

ASSUME EventsOK == EventsAssumption
ASSUME DaysOK == DaysAssumption
ASSUME RowsOK == RowsAssumption

VARIABLES
    booking,    \* the bookings table
    alloc,      \* bed_allocations: a booking never has a second row
    tenancy,    \* tenancies, unique by booking
    pass,       \* checkin_tokens of the booking
    payments,   \* payments: which payment was recorded for which booking
    events,     \* payment_events: ids recorded
    processed,  \* the ids of those with processedAt set
    req,        \* what each slot is doing and has read
    failures    \* requests that died so far

rows == <<booking, alloc, tenancy, pass, payments>>
log == <<events, processed>>
vars == <<booking, alloc, tenancy, pass, payments, events, processed, req, failures>>

(***************************************************************************)
(* Rows                                                                    *)
(***************************************************************************)

Pending == {"PENDING_PAYMENT", "PENDING_APPROVAL"}
Firm == {"PENDING_APPROVAL", "CONFIRMED", "CHECKED_IN"}
Closed == {"CANCELLED", "REJECTED", "EXPIRED", "PAYMENT_FAILED"}
BookingStatus == {"NONE", "PENDING_PAYMENT"} \union Firm \union Closed

(* `order': attachOrder stored the gateway's order id.  `window': the      *)
(* deadline of the present state, holdExpiresAt then approvalExpiresAt:    *)
(* not set, still ahead, or past.                                          *)
BookingRow == [status : BookingStatus, bed : Beds \union {None},
               moveIn : Nat, order : BOOLEAN,
               window : {"off", "open", "lapsed"}]

(* bedId and startDate of an allocation are those of its booking; its      *)
(* expiresAt is set exactly while its kind is HOLD, to the hold deadline.  *)
AllocRow == [status : {"NONE", "ACTIVE", "RELEASED"},
             kind : {"NONE", "HOLD", "BOOKING", "TENANCY"}, end : Nat]

TenancyRow == [status : {"NONE", "ACTIVE", "NOTICE_GIVEN", "ENDED"}, end : Nat]

NoBooking == [status |-> "NONE", bed |-> None, moveIn |-> 0,
              order |-> FALSE, window |-> "off"]
NoAlloc == [status |-> "NONE", kind |-> "NONE", end |-> 0]
NoTenancy == [status |-> "NONE", end |-> 0]

Exists(b) == booking[b].status # "NONE"
Active(b) == alloc[b].status = "ACTIVE"

(* Variant: compares with the claims already running on the first day.     *)
ClaimedOnArrival(al, bed, from, to, but) ==
    \E b \in Bookings \ but :
        /\ al[b].status = "ACTIVE" /\ booking[b].bed = bed
        /\ booking[b].moveIn <= from /\ from < al[b].end

(* Rows of (al) that claim the bed on some day of from .. to - 1: what the *)
(* exclusion constraint bed_allocation_no_overlap compares.                *)
Claimed(al, bed, from, to, but) ==
    \E b \in Bookings \ but :
        /\ al[b].status = "ACTIVE" /\ booking[b].bed = bed
        /\ booking[b].moveIn < to /\ from < al[b].end

(***************************************************************************)
(* Requests in flight                                                      *)
(***************************************************************************)

Ops == {"idle", "hold", "order", "record", "apply", "mark", "cancel", "approve",
        "reject", "redeem", "seat", "notice", "checkout", "expire"}

Idle == [op |-> "idle", b |-> None, seen |-> "NONE", beds |-> {}, day |-> 0,
         ev |-> None, lapsed |-> {}]

Request == [op : Ops, b : Bookings \union {None}, seen : BookingStatus,
            beds : SUBSET Beds, day : Nat, ev : Events \union {None},
            lapsed : SUBSET (Bookings \X Pending)]

Becomes(h, r) == req' = [req EXCEPT ![h] = r]
Done(h) == Becomes(h, Idle)
Free(h, slots) == h \in slots /\ req[h].op = "idle"
At(h, op) == req[h].op = op

(* A handler that has read its booking and goes on to commit. *)
Reads(h, op, b) == Becomes(h, [Idle EXCEPT !.op = op, !.b = b])

(***************************************************************************)
(* POST /bookings: shortlist, hold, order                                  *)
(***************************************************************************)

(* A lapsed hold still counts: the shortlist does not look at expiresAt. *)
CandidateBeds(from) ==
    {bed \in Beds : \A b \in Bookings :
        ~(Active(b) /\ booking[b].bed = bed /\ from < alloc[b].end)}

(* A key that has a row already gets that row back and changes nothing. *)
CreateBooking(h, b, from) ==
    /\ Free(h, RequestSlots) /\ b \in OnlineKeys /\ ~Exists(b)
    /\ CandidateBeds(from) # {}
    /\ Becomes(h, [Idle EXCEPT !.op = "hold", !.b = b, !.day = from,
                               !.beds = CandidateBeds(from)])
    /\ UNCHANGED <<rows, log, failures>>

(* Variant: any claim whose booking is past its deadline. *)
LapsedClaim(b) == Active(b) /\ booking[b].window = "lapsed"

LapsedHold(b) ==
    /\ Active(b) /\ alloc[b].kind = "HOLD"
    /\ booking[b].window = "lapsed"

(* The inline sweep of one bed: the row is released, the booking is not    *)
(* told.                                                                   *)
Swept(bed) ==
    [b \in Bookings |-> IF LapsedHold(b) /\ booking[b].bed = bed
                        THEN [alloc[b] EXCEPT !.status = "RELEASED"]
                        ELSE alloc[b]]

HoldBed(h, bed) ==
    LET b == req[h].b  from == req[h].day IN
    /\ At(h, "hold") /\ bed \in req[h].beds
    /\ ~Claimed(Swept(bed), bed, from, Forever, {})
    /\ ~Exists(b)
    /\ alloc' = [Swept(bed) EXCEPT ![b] =
                    [status |-> "ACTIVE", kind |-> "HOLD", end |-> Forever]]
    /\ booking' = [booking EXCEPT ![b] =
                    [status |-> "PENDING_PAYMENT", bed |-> bed, moveIn |-> from,
                     order |-> FALSE, window |-> "open"]]
    /\ Reads(h, "order", b)
    /\ UNCHANGED <<tenancy, pass, payments, log, failures>>

(* 23P01: the sweep is rolled back too, and the next candidate is tried. *)
HoldBedTaken(h, bed) ==
    /\ At(h, "hold") /\ bed \in req[h].beds
    /\ Claimed(Swept(bed), bed, req[h].day, Forever, {})
    /\ IF req[h].beds = {bed}
       THEN Done(h)
       ELSE Becomes(h, [req[h] EXCEPT !.beds = @ \ {bed}])
    /\ UNCHANGED <<rows, log, failures>>

(* The same key committed first: the unique index refuses the booking row  *)
(* and nothing of the transaction remains.                                 *)
HoldBedDuplicate(h, bed) ==
    /\ At(h, "hold") /\ bed \in req[h].beds
    /\ ~Claimed(Swept(bed), bed, req[h].day, Forever, {})
    /\ Exists(req[h].b)
    /\ Done(h)
    /\ UNCHANGED <<rows, log, failures>>

(* createOrder at the gateway, then attachOrder, whatever became of the    *)
(* booking meanwhile.  A gateway that throws is Fail at this point.        *)
AttachOrder(h) ==
    /\ At(h, "order")
    /\ booking' = [booking EXCEPT ![req[h].b].order = TRUE]
    /\ Done(h)
    /\ UNCHANGED <<alloc, tenancy, pass, payments, log, failures>>

(***************************************************************************)
(* Transactions                                                            *)
(***************************************************************************)

(* Variant: only a checkout hold is let go. *)
ReleasedHold(a) == IF a.kind = "HOLD" THEN [a EXCEPT !.status = "RELEASED"] ELSE a

ReleasedRow(a) == IF a.status = "ACTIVE" THEN [a EXCEPT !.status = "RELEASED"] ELSE a

(* No condition on the status the booking has by now. *)
ReleaseBooking(b, to) ==
    /\ alloc' = [alloc EXCEPT ![b] = ReleasedRow(alloc[b])]
    /\ booking' = [booking EXCEPT ![b].status = to, ![b].window = "off"]
    /\ UNCHANGED <<tenancy, pass, payments>>

KindOf(a, kind) == IF a.status = "ACTIVE" THEN [a EXCEPT !.kind = kind] ELSE a

(* Variant: every confirmation begins a tenancy. *)
OnConfirmedAnew(b, a) ==
    /\ alloc' = [alloc EXCEPT ![b] = KindOf(a, "TENANCY")]
    /\ tenancy' = [tenancy EXCEPT ![b] = [status |-> "ACTIVE", end |-> Forever]]
    /\ pass' = [pass EXCEPT ![b] = "LIVE"]

(* Runs inside the caller's transaction, on the claim (a) as it left it. *)
OnConfirmed(b, a) ==
    IF tenancy[b].status # "NONE"
    THEN /\ alloc' = [alloc EXCEPT ![b] = a]
         /\ UNCHANGED <<tenancy, pass>>
    ELSE /\ alloc' = [alloc EXCEPT ![b] = KindOf(a, "TENANCY")]
         /\ tenancy' = [tenancy EXCEPT ![b] = [status |-> "ACTIVE", end |-> Forever]]
         /\ pass' = [pass EXCEPT ![b] = "LIVE"]

MarkPaid(b, payment, auto) ==
    LET paid == KindOf(alloc[b], "BOOKING") IN
    /\ payments' = payments \union {[id |-> payment, booking |-> b]}
    /\ IF auto
       THEN /\ booking' = [booking EXCEPT ![b].status = "CONFIRMED", ![b].window = "off"]
            /\ OnConfirmed(b, paid)
       ELSE /\ booking' = [booking EXCEPT ![b].status = "PENDING_APPROVAL",
                                          ![b].window = "open"]
            /\ alloc' = [alloc EXCEPT ![b] = paid]
            /\ UNCHANGED <<tenancy, pass>>

(***************************************************************************)
(* POST /webhooks: any event whose order the tenant was given, any number  *)
(* of times, in any order                                                  *)
(***************************************************************************)

DeliverWebhook(h, e) ==
    /\ Free(h, RequestSlots) /\ booking[e.booking].order
    /\ Becomes(h, [Idle EXCEPT !.op = "record", !.b = e.booking, !.ev = e,
                               !.seen = booking[e.booking].status])
    /\ UNCHANGED <<rows, log, failures>>

RecordEvent(h) ==
    /\ At(h, "record") /\ req[h].ev.id \notin events
    /\ events' = events \union {req[h].ev.id}
    /\ Becomes(h, [req[h] EXCEPT !.op = "apply"])
    /\ UNCHANGED <<rows, processed, failures>>

DuplicateEvent(h) ==
    /\ At(h, "record") /\ req[h].ev.id \in events
    /\ Done(h)
    /\ UNCHANGED <<rows, log, failures>>

(* Decided on the status read before the event was recorded. *)
PaymentIsDue(r) ==
    r.ev.type = "payment.captured" /\ r.seen = "PENDING_PAYMENT" /\ r.ev.amountOk

PaymentHasFailed(r) == r.ev.type = "payment.failed" /\ r.seen = "PENDING_PAYMENT"

ApplyCaptured(h, auto) ==
    /\ At(h, "apply") /\ PaymentIsDue(req[h])
    /\ MarkPaid(req[h].b, req[h].ev.payment, auto)
    /\ Becomes(h, [req[h] EXCEPT !.op = "mark"])
    /\ UNCHANGED <<log, failures>>

ApplyFailed(h) ==
    /\ At(h, "apply") /\ PaymentHasFailed(req[h])
    /\ ReleaseBooking(req[h].b, "PAYMENT_FAILED")
    /\ Becomes(h, [req[h] EXCEPT !.op = "mark"])
    /\ UNCHANGED <<log, failures>>

(* Variant: the early returns do not mark the event. *)
MarkAppliedOnly(h) ==
    /\ \/ At(h, "mark")
       \/ At(h, "apply") /\ ~PaymentIsDue(req[h]) /\ ~PaymentHasFailed(req[h])
    /\ processed' = IF At(h, "mark") THEN processed \union {req[h].ev.id} ELSE processed
    /\ Done(h)
    /\ UNCHANGED <<rows, events, failures>>

(* markEventProcessed, after the work or because there is none: another    *)
(* type, a booking that has moved on, an amount that does not match.       *)
MarkProcessed(h) ==
    /\ \/ At(h, "mark")
       \/ At(h, "apply") /\ ~PaymentIsDue(req[h]) /\ ~PaymentHasFailed(req[h])
    /\ processed' = processed \union {req[h].ev.id}
    /\ Done(h)
    /\ UNCHANGED <<rows, events, failures>>

(***************************************************************************)
(* The tenant cancels, the owner accepts or declines, the staff scan the   *)
(* pass: a read with a guard, then a transaction                           *)
(***************************************************************************)

Cancellable == {"PENDING_PAYMENT", "PENDING_APPROVAL", "CONFIRMED"}

ReadForCancel(h, b) ==
    /\ Free(h, RequestSlots) /\ booking[b].status \in Cancellable
    /\ Reads(h, "cancel", b)
    /\ UNCHANGED <<rows, log, failures>>

CancelMine(h) ==
    /\ At(h, "cancel")
    /\ ReleaseBooking(req[h].b, "CANCELLED")
    /\ Done(h)
    /\ UNCHANGED <<log, failures>>

ReadForDecision(h, b, op) ==
    /\ Free(h, RequestSlots) /\ booking[b].status = "PENDING_APPROVAL"
    /\ Reads(h, op, b)
    /\ UNCHANGED <<rows, log, failures>>

(* Variant: the status alone. *)
ApproveStatusOnly(h) ==
    LET b == req[h].b IN
    /\ At(h, "approve")
    /\ booking' = [booking EXCEPT ![b].status = "CONFIRMED", ![b].window = "off"]
    /\ Done(h)
    /\ UNCHANGED <<alloc, tenancy, pass, payments, log, failures>>

Approve(h) ==
    LET b == req[h].b IN
    /\ At(h, "approve")
    /\ booking' = [booking EXCEPT ![b].status = "CONFIRMED", ![b].window = "off"]
    /\ OnConfirmed(b, alloc[b])
    /\ Done(h)
    /\ UNCHANGED <<payments, log, failures>>

Reject(h) ==
    /\ At(h, "reject")
    /\ ReleaseBooking(req[h].b, "REJECTED")
    /\ Done(h)
    /\ UNCHANGED <<log, failures>>

(* assertRedeemable; the dates of the pass are the check-in desk's own. *)
ReadPass(h, b) ==
    /\ Free(h, RequestSlots)
    /\ pass[b] = "LIVE" /\ booking[b].status = "CONFIRMED"
    /\ Reads(h, "redeem", b)
    /\ UNCHANGED <<rows, log, failures>>

RecordArrival(h) ==
    LET b == req[h].b IN
    /\ At(h, "redeem") /\ pass[b] = "LIVE"
    /\ pass' = [pass EXCEPT ![b] = "USED"]
    /\ booking' = [booking EXCEPT ![b].status = "CHECKED_IN"]
    /\ Done(h)
    /\ UNCHANGED <<alloc, tenancy, payments, log, failures>>

PassAlreadyUsed(h) ==
    /\ At(h, "redeem") /\ pass[req[h].b] # "LIVE"
    /\ Done(h)
    /\ UNCHANGED <<rows, log, failures>>

(***************************************************************************)
(* The desk: seat a walk-in, give notice, check out                        *)
(***************************************************************************)

(* The sweep commits on its own, before the seating transaction.  The row  *)
(* id b is one no other request is about to use.                           *)
ReleaseExpiredHolds(h, b, bed, from) ==
    /\ Free(h, RequestSlots)
    /\ b \in WalkIns /\ ~Exists(b) /\ \A g \in Slots : req[g].b # b
    /\ alloc' = Swept(bed)
    /\ Becomes(h, [Idle EXCEPT !.op = "seat", !.b = b, !.beds = {bed}, !.day = from])
    /\ UNCHANGED <<booking, tenancy, pass, payments, log, failures>>

SeatWalkIn(h, bed) ==
    LET b == req[h].b  from == req[h].day IN
    /\ At(h, "seat") /\ bed \in req[h].beds
    /\ ~Claimed(alloc, bed, from, Forever, {})
    /\ alloc' = [alloc EXCEPT ![b] =
                    [status |-> "ACTIVE", kind |-> "TENANCY", end |-> Forever]]
    /\ booking' = [booking EXCEPT ![b] =
                    [status |-> "CHECKED_IN", bed |-> bed, moveIn |-> from,
                     order |-> FALSE, window |-> "off"]]
    /\ tenancy' = [tenancy EXCEPT ![b] = [status |-> "ACTIVE", end |-> Forever]]
    /\ Done(h)
    /\ UNCHANGED <<pass, payments, log, failures>>

SeatWalkInTaken(h, bed) ==
    /\ At(h, "seat") /\ bed \in req[h].beds
    /\ Claimed(alloc, bed, req[h].day, Forever, {})
    /\ Done(h)
    /\ UNCHANGED <<rows, log, failures>>

(* Variant: leaving on the move-in date is let through. *)
ReadForSameDayNotice(h, b, vacate) ==
    /\ Free(h, RequestSlots) /\ tenancy[b].status = "ACTIVE"
    /\ booking[b].moveIn <= vacate
    /\ Becomes(h, [Idle EXCEPT !.op = "notice", !.b = b, !.day = vacate])
    /\ UNCHANGED <<rows, log, failures>>

ReadForNotice(h, b, vacate) ==
    /\ Free(h, RequestSlots) /\ tenancy[b].status = "ACTIVE"
    /\ booking[b].moveIn < vacate
    /\ Becomes(h, [Idle EXCEPT !.op = "notice", !.b = b, !.day = vacate])
    /\ UNCHANGED <<rows, log, failures>>

(* Variant: a claim that was closed before stays as it is. *)
ClosesOpenOn(a, vacate) ==
    IF a.status = "ACTIVE" /\ a.kind = "TENANCY" /\ a.end = Forever
    THEN [a EXCEPT !.end = vacate] ELSE a

(* Only a claim of kind TENANCY is closed on the leaving date. *)
ClosesOn(a, vacate) ==
    IF a.status = "ACTIVE" /\ a.kind = "TENANCY" THEN [a EXCEPT !.end = vacate] ELSE a

NoticeOverlaps(h) ==
    LET b == req[h].b IN
    /\ ClosesOn(alloc[b], req[h].day) # alloc[b]
    /\ Claimed(alloc, booking[b].bed, booking[b].moveIn, req[h].day, {b})

GiveNotice(h) ==
    LET b == req[h].b IN
    /\ At(h, "notice") /\ ~NoticeOverlaps(h)
    /\ tenancy' = [tenancy EXCEPT ![b] = [status |-> "NOTICE_GIVEN", end |-> req[h].day]]
    /\ alloc' = [alloc EXCEPT ![b] = ClosesOn(alloc[b], req[h].day)]
    /\ Done(h)
    /\ UNCHANGED <<booking, pass, payments, log, failures>>

(* A second notice that would move the end past somebody who has since     *)
(* booked the bed runs into the exclusion constraint and rolls back.       *)
GiveNoticeRefused(h) ==
    /\ At(h, "notice") /\ NoticeOverlaps(h)
    /\ Done(h)
    /\ UNCHANGED <<rows, log, failures>>

(* The leaving date is pulled forward to the move-in date. *)
ReadForCheckOut(h, b, vacate) ==
    /\ Free(h, RequestSlots) /\ tenancy[b].status \in {"ACTIVE", "NOTICE_GIVEN"}
    /\ Becomes(h, [Idle EXCEPT !.op = "checkout", !.b = b,
                   !.day = IF vacate < booking[b].moveIn THEN booking[b].moveIn ELSE vacate])
    /\ UNCHANGED <<rows, log, failures>>

CheckOut(h) ==
    LET b == req[h].b IN
    /\ At(h, "checkout")
    /\ tenancy' = [tenancy EXCEPT ![b] = [status |-> "ENDED", end |-> req[h].day]]
    /\ alloc' = [alloc EXCEPT ![b] = ReleasedRow(alloc[b])]
    /\ Done(h)
    /\ UNCHANGED <<booking, pass, payments, log, failures>>

(***************************************************************************)
(* The expiry job                                                          *)
(***************************************************************************)

(* Variant: holds only. *)
LapsedHolds == {x \in Bookings \X {"PENDING_PAYMENT"} :
                  booking[x[1]].status = x[2] /\ booking[x[1]].window = "lapsed"}

Lapsed == {x \in Bookings \X Pending :
             booking[x[1]].status = x[2] /\ booking[x[1]].window = "lapsed"}

FindLapsed(h) ==
    /\ Free(h, JobSlots) /\ Lapsed # {}
    /\ Becomes(h, [Idle EXCEPT !.op = "expire", !.lapsed = Lapsed])
    /\ UNCHANGED <<rows, log, failures>>

Expiry(status) == IF status = "PENDING_PAYMENT" THEN "EXPIRED" ELSE "REJECTED"

ExpireLapsed(h, x) ==
    /\ At(h, "expire") /\ x \in req[h].lapsed
    /\ ReleaseBooking(x[1], Expiry(x[2]))
    /\ IF req[h].lapsed = {x}
       THEN Done(h)
       ELSE Becomes(h, [req[h] EXCEPT !.lapsed = @ \ {x}])
    /\ UNCHANGED <<log, failures>>

(***************************************************************************)
(* Time and failure                                                        *)
(***************************************************************************)

(* The hold or approval deadline of a booking goes by. *)
Lapse(b) ==
    /\ booking[b].window = "open"
    /\ booking' = [booking EXCEPT ![b].window = "lapsed"]
    /\ UNCHANGED <<alloc, tenancy, pass, payments, log, req, failures>>

(* The process dies, the gateway or the database throws: what the request  *)
(* has committed stays, the rest never happens.                            *)
Fail(h) ==
    /\ ~At(h, "idle") /\ failures < MaxFailures
    /\ failures' = failures + 1
    /\ Done(h)
    /\ UNCHANGED <<rows, log>>

(***************************************************************************)
(* The system                                                              *)
(***************************************************************************)

Init ==
    /\ booking = [b \in Bookings |-> NoBooking]
    /\ alloc = [b \in Bookings |-> NoAlloc]
    /\ tenancy = [b \in Bookings |-> NoTenancy]
    /\ pass = [b \in Bookings |-> "NONE"]
    /\ payments = {} /\ events = {} /\ processed = {}
    /\ req = [h \in Slots |-> Idle]
    /\ failures = 0

(* A new request or webhook delivery. *)
Arrive(h) ==
    \/ \E b \in Bookings, day \in Days : \/ CreateBooking(h, b, day)
                                         \/ ReadForNotice(h, b, day)
                                         \/ ReadForCheckOut(h, b, day)
    \/ \E b \in Bookings : \/ ReadForCancel(h, b)
                           \/ ReadForDecision(h, b, "approve")
                           \/ ReadForDecision(h, b, "reject")
                           \/ ReadPass(h, b)
    \/ \E e \in Events : DeliverWebhook(h, e)
    \/ \E b \in Bookings, bed \in Beds, day \in Days : ReleaseExpiredHolds(h, b, bed, day)

(* The next step of a request under way. *)
Continue(h) ==
    \/ \E bed \in Beds : \/ HoldBed(h, bed)
                         \/ HoldBedTaken(h, bed)
                         \/ HoldBedDuplicate(h, bed)
                         \/ SeatWalkIn(h, bed)
                         \/ SeatWalkInTaken(h, bed)
    \/ AttachOrder(h)
    \/ RecordEvent(h) \/ DuplicateEvent(h)
    \/ \E auto \in AutoConfirm : ApplyCaptured(h, auto)
    \/ ApplyFailed(h) \/ MarkProcessed(h)
    \/ CancelMine(h) \/ Approve(h) \/ Reject(h)
    \/ RecordArrival(h) \/ PassAlreadyUsed(h)
    \/ GiveNotice(h) \/ GiveNoticeRefused(h) \/ CheckOut(h)
    \/ \E x \in Bookings \X Pending : ExpireLapsed(h, x)

Next ==
    \/ \E h \in Slots : Arrive(h) \/ FindLapsed(h) \/ Continue(h) \/ Fail(h)
    \/ \E b \in Bookings : Lapse(b)

Spec == Init /\ [][Next]_vars

(* Clocks advance, a request that was accepted is carried on to its end,   *)
(* and cron starts the job every minute.  Nobody is obliged to ask.        *)
Fairness ==
    /\ \A b \in Bookings : WF_vars(Lapse(b))
    /\ \A h \in Slots : WF_vars(Continue(h))
    /\ \A h \in JobSlots : WF_vars(FindLapsed(h))

FairSpec == Spec /\ Fairness

(***************************************************************************)
(* Properties                                                              *)
(***************************************************************************)

(* The tables and requests have the shape the schema and the handlers give *)
(* them, and every active claim covers at least one day                    *)
(* (bed_allocation_dates_ordered).                                         *)
TypeOK ==
    /\ booking \in [Bookings -> BookingRow]
    /\ alloc \in [Bookings -> AllocRow]
    /\ tenancy \in [Bookings -> TenancyRow]
    /\ pass \in [Bookings -> {"NONE", "LIVE", "USED"}]
    /\ payments \subseteq [id : {e.payment : e \in Events}, booking : Bookings]
    /\ events \subseteq {e.id : e \in Events}
    /\ processed \subseteq events
    /\ req \in [Slots -> Request]
    /\ failures \in 0..MaxFailures
    /\ \A b \in Bookings : Active(b) => booking[b].moveIn < alloc[b].end

(* No bed is sold twice (BR-002, BR-011): two active claims on one bed     *)
(* share no day, whoever holds, books, seats or gives notice at once.      *)
NoOverlap ==
    \A a, b \in Bookings :
        a # b /\ Active(a) /\ Active(b) /\ booking[a].bed = booking[b].bed
            => \/ alloc[a].end <= booking[b].moveIn
               \/ alloc[b].end <= booking[a].moveIn

(* No bed is stranded (BR-012, BR-019): whatever races with whatever, an   *)
(* active claim belongs to a booking that still wants the bed.  A hold     *)
(* belongs to a checkout whose deadline the expiry job watches, any other  *)
(* claim to a booking that was paid for or seated, and none to a closed    *)
(* booking or to a tenancy whose check-out released it.                    *)
NoStrandedClaim ==
    \A b \in Bookings : Active(b) =>
        /\ alloc[b].kind = "HOLD" =>
               booking[b].status = "PENDING_PAYMENT" /\ booking[b].window # "off"
        /\ alloc[b].kind # "HOLD" => booking[b].status \in Firm
        /\ tenancy[b].status # "ENDED"

PaidFor(b) == \E p \in payments : p.booking = b

(* "A booking cannot end up confirmed with no way to check in"             *)
(* (onConfirmed): an online booking is confirmed or checked in only with a *)
(* pass and a tenancy, and gets past checkout only with a recorded payment *)
(* (BR-031), on both routes and under every race between them.             *)
ConfirmedIsReady ==
    \A b \in OnlineKeys :
        /\ booking[b].status \in Firm => PaidFor(b)
        /\ booking[b].status \in {"CONFIRMED", "CHECKED_IN"} =>
               pass[b] # "NONE" /\ tenancy[b].status # "NONE"

(* The booking tables implement the promise of BedClaims: in particular a  *)
(* claim that was paid for is never swept out of the way of another        *)
(* checkout or walk-in, and one that was released never comes back.        *)
ClaimOf(b) ==
    [state |-> CASE alloc[b].status = "NONE" -> "none"
                 [] alloc[b].status = "ACTIVE" -> "held"
                 [] alloc[b].status = "RELEASED" -> "ended",
     bed |-> booking[b].bed, from |-> booking[b].moveIn, to |-> alloc[b].end,
     firm |-> alloc[b].kind \in {"BOOKING", "TENANCY"}]

Claims == INSTANCE BedClaims WITH
            Claimants <- Bookings, claim <- [b \in Bookings |-> ClaimOf(b)]

ImplementsBedClaims == Claims!Spec

(* "... so the bed stays off the market while the owner decides"           *)
(* (markPaid): a booking that was paid for has its bed, until check-out.   *)
PaidBookingHasBed ==
    \A b \in Bookings :
        booking[b].status \in Firm /\ tenancy[b].status # "ENDED" => Active(b)

(* The same, but for a bed that went to somebody else after the hold       *)
(* lapsed unpaid: such a claim was released while it still was a HOLD.     *)
PaidBookingHasBedUnlessSwept ==
    \A b \in Bookings :
        booking[b].status \in Firm /\ tenancy[b].status # "ENDED"
            => Active(b) \/ alloc[b].kind = "HOLD"

LostBed(b) ==
    /\ booking[b].status \in Firm /\ tenancy[b].status # "ENDED"
    /\ ~Active(b) /\ alloc[b].kind # "HOLD"

(* What is left of that promise when requests overlap: a bed that was paid *)
(* for is taken only together with the booking or the tenancy it was for.  *)
(* Who is later found to have lost one is a booking that had been closed,  *)
(* or a tenancy that had ended, and that a late decision brought back; no  *)
(* sweep, lapse, hold, walk-in or repeated payment takes it.               *)
PaidBedGoesWithItsBooking ==
    [][\A b \in Bookings : ~LostBed(b) /\ LostBed(b)' =>
          booking[b].status \in Closed \/ tenancy[b].status = "ENDED"]_vars

(* A pass admits once and a tenancy begins once (onConfirmed returns early *)
(* when the tenancy is there), however many payments, approvals and        *)
(* retries confirm the booking again.                                      *)
OccupancyBeginsOnce ==
    [][\A b \in Bookings : tenancy[b].status # "NONE" =>
          /\ pass'[b] # pass[b] => pass[b] = "LIVE" /\ pass'[b] = "USED"
          /\ tenancy'[b].status = "ACTIVE" => tenancy'[b] = tenancy[b]]_vars

(* Cancelled, rejected and expired are final states (docs/04 A.4): a       *)
(* booking that reached one is not paid for, confirmed or checked in.      *)
ClosedIsNotReopened ==
    [][\A b \in Bookings : booking[b].status \in {"CANCELLED", "REJECTED", "EXPIRED"}
            => booking'[b].status \notin Firm]_booking

(* Giving notice "closes the allocation on the intended date, which is     *)
(* what makes the bed appear as free from that day" (giveNotice): a claim  *)
(* that outlives the notice ends on the leaving date of the tenancy, but   *)
(* for one that a second payment, decided on before the first one          *)
(* confirmed the booking, has put back to BOOKING (markPaid), where no     *)
(* notice reaches it.                                                      *)
NoticeClosesLinkedClaim ==
    \A b \in Bookings :
        tenancy[b].status = "NOTICE_GIVEN" /\ Active(b) =>
            alloc[b].end = tenancy[b].end \/ alloc[b].kind = "BOOKING"

(* "A booking can be cancelled and never becomes occupancy" (docs/01): a   *)
(* cancelled booking has no tenancy that runs on.                          *)
CancelledIsNotOccupied ==
    \A b \in Bookings :
        booking[b].status = "CANCELLED" => tenancy[b].status \in {"NONE", "ENDED"}

(* A notification that was recorded is answered `duplicate' ever after, so *)
(* somebody has handled it or is still at it (docs/04 A.5, EC-13).         *)
RecordedEventIsHandled ==
    \A id \in events \ processed :
        \E h \in Slots : req[h].op \in {"apply", "mark"} /\ req[h].ev.id = id

(* "No orphan money" (BR-035): the money of a captured payment of the      *)
(* right amount is on record once its notification has been processed.     *)
CapturedMoneyIsRecorded ==
    \A e \in Events :
        e.type = "payment.captured" /\ e.amountOk /\ e.id \in processed
            => \E p \in payments : p.id = e.payment

(* A checkout nobody completes and a booking nobody answers are given up   *)
(* by the job in the end (BR-012, docs/02 decision 7), and with them, by   *)
(* NoStrandedClaim, the bed.                                               *)
NothingPendsForever ==
    \A b \in Bookings : booking[b].status \in Pending ~> booking[b].status \notin Pending

=============================================================================
