---------------------------- MODULE BookingProofs ----------------------------
(***************************************************************************)
(* Theorems about Booking, for any number of bookings, beds, requests and  *)
(* events.  Core, TypeOK strengthened with what the rows and the requests  *)
(* in flight know of each other, is inductive; the safety invariants are   *)
(* proved on top of it.                                                    *)
(***************************************************************************)
EXTENDS Board, FiniteSetTheorems, FunctionTheorems, TLAPS

(* What a request has read about its booking and no other request undoes:  *)
(* a row that exists stays, with its bed and its move-in date, and the row *)
(* id of a walk-in belongs to one request until it is used.                *)
RequestOK(h) ==
    LET r == req[h]  b == r.b IN
    /\ r.op \in {"idle", "expire"} => b = None
    /\ r.op \notin {"idle", "expire"} => b \in Bookings
    /\ r.op = "hold" => b \in OnlineKeys /\ r.day \in Days
    /\ r.op = "seat" => /\ b \in WalkIns /\ r.day \in Days /\ ~Exists(b)
                        /\ \A g \in Slots \ {h} : req[g].b # b
    /\ r.op \notin {"idle", "expire", "hold", "seat"} => Exists(b)
    /\ r.op \in {"record", "apply", "mark"} =>
          r.ev \in Events /\ b = r.ev.booking
    /\ r.op \in {"apply", "mark"} => r.ev.id \in events
    /\ r.op = "notice" => booking[b].moveIn < r.day
    /\ r.op = "expire" => \A x \in r.lapsed : Exists(x[1])

(* Whatever refers to a booking refers to one that exists. *)
RowOK(b) ==
    /\ Exists(b) => booking[b].bed \in Beds /\ booking[b].moveIn \in Days
    /\ booking[b].order \/ Active(b) \/ tenancy[b].status # "NONE" \/ pass[b] # "NONE"
          => Exists(b)

Core ==
    /\ TypeOK
    /\ \A h \in Slots : RequestOK(h)
    /\ \A b \in Bookings : RowOK(b)

(* The initial state has the invariant. *)
LEMMA InitCore == Init => Core
<1> SUFFICES ASSUME Init PROVE Core
  OBVIOUS
<1>1. TypeOK
  BY RowsOK DEF Init, TypeOK, RowsAssumption, NoBooking, NoAlloc, NoTenancy, Idle, Active,
     BookingRow, AllocRow, TenancyRow, BookingStatus, Request, Ops
<1>2. \A h \in Slots : RequestOK(h)
  BY DEF Init, RequestOK, Idle
<1>3. \A b \in Bookings : RowOK(b)
  BY DEF Init, RowOK, NoBooking, NoAlloc, NoTenancy, Exists, Active
<1> QED BY <1>1, <1>2, <1>3 DEF Core


(* The shape of the tables a transaction writes. *)
TablesOK ==
    /\ booking \in [Bookings -> BookingRow]
    /\ alloc \in [Bookings -> AllocRow]
    /\ tenancy \in [Bookings -> TenancyRow]
    /\ pass \in [Bookings -> {"NONE", "LIVE", "USED"}]

(* No claim is made or moved: rows keep their bed and dates, and a claim   *)
(* that is active was active before.                                       *)
NoNewClaim ==
    \A b \in Bookings :
        /\ booking'[b].bed = booking[b].bed
        /\ booking'[b].moveIn = booking[b].moveIn
        /\ alloc'[b].end = alloc[b].end
        /\ Active(b)' => Active(b)
        /\ Exists(b) => Exists(b)'

(* Closing a booking releases its claim and makes none. *)
LEMMA ReleaseBookingLemma ==
    ASSUME TablesOK, NEW b \in Bookings, NEW to \in Closed, ReleaseBooking(b, to)
    PROVE  TablesOK' /\ NoNewClaim
<1> USE DEF TablesOK, ReleaseBooking
<1>1. booking' \in [Bookings -> BookingRow]
  <2> DEFINE row == [booking[b] EXCEPT !.status = to, !.window = "off"]
  <2>1. row \in BookingRow
    BY DEF BookingRow, BookingStatus
  <2>2. booking' = [booking EXCEPT ![b] = row]
    OBVIOUS
  <2> QED BY <2>1, <2>2
<1>2. alloc' \in [Bookings -> AllocRow]
  BY DEF AllocRow, ReleasedRow
<1>3. NoNewClaim
  BY DEF NoNewClaim, Active, Exists, Closed, ReleasedRow
<1> QED BY <1>1, <1>2, <1>3

(* Confirming a booking makes no claim either, whatever kind (a) the       *)
(* caller gave the claim it has.                                           *)
LEMMA OnConfirmedLemma ==
    ASSUME TablesOK, NEW b \in Bookings, NEW a \in AllocRow,
           a.status = alloc[b].status, a.end = alloc[b].end, OnConfirmed(b, a),
           Forever \in Nat
    PROVE  /\ alloc' \in [Bookings -> AllocRow]
           /\ tenancy' \in [Bookings -> TenancyRow]
           /\ pass' \in [Bookings -> {"NONE", "LIVE", "USED"}]
           /\ \A c \in Bookings : alloc'[c].end = alloc[c].end /\ (Active(c)' <=> Active(c))
<1> USE DEF TablesOK, OnConfirmed
<1>1. KindOf(a, "TENANCY") \in AllocRow /\ KindOf(a, "TENANCY").status = a.status
         /\ KindOf(a, "TENANCY").end = a.end
  BY DEF KindOf, AllocRow
<1>2. alloc' \in [Bookings -> AllocRow]
  BY <1>1
<1>3. tenancy' \in [Bookings -> TenancyRow]
  BY DEF TenancyRow
<1>4. pass' \in [Bookings -> {"NONE", "LIVE", "USED"}]
  OBVIOUS
<1>5. \A c \in Bookings : alloc'[c].end = alloc[c].end /\ (Active(c)' <=> Active(c))
  BY <1>1 DEF Active
<1> QED BY <1>2, <1>3, <1>4, <1>5

(* A booking whose status and deadline change is a booking.                *)
LEMMA BookingRowChanges ==
    ASSUME NEW r \in BookingRow, NEW status \in BookingStatus, NEW window \in {"off", "open", "lapsed"}
    PROVE  [r EXCEPT !.status = status, !.window = window] \in BookingRow
BY DEF BookingRow

(* Recording a payment, on either route, keeps the types of the tables and *)
(* makes no claim.                                                         *)
LEMMA MarkPaidLemma ==
    ASSUME TablesOK, NEW b \in Bookings, NEW p, NEW auto \in BOOLEAN, MarkPaid(b, p, auto),
           Forever \in Nat
    PROVE  TablesOK' /\ NoNewClaim
<1> USE DEF TablesOK, MarkPaid
<1> DEFINE paid == KindOf(alloc[b], "BOOKING")
<1>1. paid \in AllocRow /\ paid.status = alloc[b].status /\ paid.end = alloc[b].end
  BY DEF KindOf, AllocRow
<1>2. booking' \in [Bookings -> BookingRow]
  <2>1. CASE auto
    <3> PICK row : row = [booking[b] EXCEPT !.status = "CONFIRMED", !.window = "off"]
      OBVIOUS
    <3>1. row \in BookingRow
      <4>1. booking[b] \in BookingRow /\ "CONFIRMED" \in BookingStatus
        BY DEF BookingStatus, Firm
      <4> QED BY <4>1, BookingRowChanges
    <3>2. booking' = [booking EXCEPT ![b] = row]
      BY <2>1
    <3> QED BY <3>1, <3>2
  <2>2. CASE ~auto
    <3> PICK row : row = [booking[b] EXCEPT !.status = "PENDING_APPROVAL", !.window = "open"]
      OBVIOUS
    <3>1. row \in BookingRow
      <4>1. booking[b] \in BookingRow /\ "PENDING_APPROVAL" \in BookingStatus
        BY DEF BookingStatus, Firm
      <4> QED BY <4>1, BookingRowChanges
    <3>2. booking' = [booking EXCEPT ![b] = row]
      BY <2>2
    <3> QED BY <3>1, <3>2
  <2> QED BY <2>1, <2>2
<1>3. /\ alloc' \in [Bookings -> AllocRow]
      /\ tenancy' \in [Bookings -> TenancyRow]
      /\ pass' \in [Bookings -> {"NONE", "LIVE", "USED"}]
      /\ \A c \in Bookings : alloc'[c].end = alloc[c].end /\ (Active(c)' <=> Active(c))
  <2>1. CASE auto
    BY <1>1, <2>1, OnConfirmedLemma
  <2>2. CASE ~auto
    BY <1>1, <2>2 DEF Active
  <2> QED BY <2>1, <2>2
<1>4. \A c \in Bookings :
         booking'[c].bed = booking[c].bed /\ booking'[c].moveIn = booking[c].moveIn
  <2>1. CASE auto
    BY <2>1 DEF BookingRow
  <2>2. CASE ~auto
    BY <2>2 DEF BookingRow
  <2> QED BY <2>1, <2>2
<1>5. \A c \in Bookings : Exists(c) => Exists(c)'
  BY DEF BookingRow, Exists
<1>6. NoNewClaim
  BY <1>3, <1>4, <1>5 DEF NoNewClaim
<1> QED BY <1>2, <1>3, <1>6

(* Every step keeps the types: one case per action, and a transaction      *)
(* keeps them because of what its request still knows (RequestOK).         *)
LEMMA TypeStep == Core /\ [Next]_vars => TypeOK'
<1> SUFFICES ASSUME Core, [Next]_vars PROVE TypeOK'
  OBVIOUS
<1> USE DEF Core, Becomes, Done, Free, At, Reads, Exists, Active, rows, log
<1>1. ASSUME NEW h \in Slots, NEW b \in Bookings, NEW day \in Days, CreateBooking(h, b, day)
      PROVE  TypeOK'
  BY <1>1, DaysOK DEF DaysAssumption, TypeOK, Idle, Request, Ops, BookingStatus, CreateBooking,
     CandidateBeds
<1>2. ASSUME NEW h \in Slots, NEW b \in Bookings, NEW day \in Days, ReadForNotice(h, b, day)
      PROVE  TypeOK'
  BY <1>2, DaysOK DEF DaysAssumption, TypeOK, Idle, Request, Ops, BookingStatus, ReadForNotice
<1>3. ASSUME NEW h \in Slots, NEW b \in Bookings, NEW day \in Days, ReadForCheckOut(h, b, day)
      PROVE  TypeOK'
  <2>1. [Idle EXCEPT !.op = "checkout", !.b = b,
           !.day = IF day < booking[b].moveIn THEN booking[b].moveIn ELSE day] \in Request
    <3>1. booking[b].moveIn \in Nat /\ day \in Nat
      BY DaysOK DEF DaysAssumption, TypeOK, BookingRow
    <3> QED BY <3>1 DEF Idle, Request, Ops, BookingStatus
  <2> QED BY <1>3, <2>1 DEF ReadForCheckOut, TypeOK
<1>4. ASSUME NEW h \in Slots, NEW b \in Bookings, ReadForCancel(h, b)
      PROVE  TypeOK'
  BY <1>4 DEF TypeOK, Idle, Request, Ops, BookingStatus, ReadForCancel
<1>5. ASSUME NEW h \in Slots, NEW b \in Bookings, ReadForDecision(h, b, "approve")
      PROVE  TypeOK'
  BY <1>5 DEF TypeOK, Idle, Request, Ops, BookingStatus, ReadForDecision
<1>6. ASSUME NEW h \in Slots, NEW b \in Bookings, ReadForDecision(h, b, "reject")
      PROVE  TypeOK'
  BY <1>6 DEF TypeOK, Idle, Request, Ops, BookingStatus, ReadForDecision
<1>7. ASSUME NEW h \in Slots, NEW b \in Bookings, ReadPass(h, b)
      PROVE  TypeOK'
  BY <1>7 DEF TypeOK, Idle, Request, Ops, BookingStatus, ReadPass
<1>8. ASSUME NEW h \in Slots, NEW e \in Events, DeliverWebhook(h, e)
      PROVE  TypeOK'
  <2>1. booking[e.booking].status \in BookingStatus /\ e.booking \in Bookings
    BY EventsOK DEF EventsAssumption, Bookings, TypeOK, BookingRow
  <2>2. req' \in [Slots -> Request]
    <3>1. [Idle EXCEPT !.op = "record", !.b = e.booking, !.ev = e,
                       !.seen = booking[e.booking].status] \in Request
      BY <2>1 DEF Idle, Request, Ops
    <3> QED BY <1>8, <3>1 DEF DeliverWebhook, TypeOK
  <2> QED BY <1>8, <2>2 DEF DeliverWebhook, TypeOK
<1>9. ASSUME NEW h \in Slots, NEW b \in Bookings, NEW bed \in Beds, NEW day \in Days,
            ReleaseExpiredHolds(h, b, bed, day)
      PROVE  TypeOK'
  <2>1. req' \in [Slots -> Request]
    <3>1. [Idle EXCEPT !.op = "seat", !.b = b, !.beds = {bed}, !.day = day] \in Request
      BY DaysOK DEF DaysAssumption, Idle, Request, Ops, BookingStatus
    <3> QED BY <1>9, <3>1 DEF ReleaseExpiredHolds, TypeOK
  <2>2. alloc' \in [Bookings -> AllocRow]
    BY <1>9 DEF ReleaseExpiredHolds, Swept, TypeOK, AllocRow
  <2>3. \A c \in Bookings : Active(c)' => Active(c) /\ alloc'[c].end = alloc[c].end
    BY <1>9 DEF ReleaseExpiredHolds, Swept, TypeOK
  <2> QED BY <1>9, <2>1, <2>2, <2>3 DEF ReleaseExpiredHolds, TypeOK
<1>10. ASSUME NEW h \in Slots, FindLapsed(h)
      PROVE  TypeOK'
  BY <1>10 DEF TypeOK, Idle, Request, Ops, BookingStatus, Lapsed, FindLapsed
<1>11. ASSUME NEW h \in Slots, NEW bed \in Beds, HoldBed(h, bed)
      PROVE  TypeOK'
  <2>1. req[h].b \in Bookings /\ req[h].day \in Days
    BY <1>11 DEF HoldBed, RequestOK
  <2>2. booking' \in [Bookings -> BookingRow]
    BY <1>11, <2>1, DaysOK DEF HoldBed, DaysAssumption, TypeOK, BookingRow, BookingStatus
  <2>3. alloc' \in [Bookings -> AllocRow]
    <3>1. Swept(bed) \in [Bookings -> AllocRow]
      BY DEF Swept, TypeOK, AllocRow
    <3>2. [status |-> "ACTIVE", kind |-> "HOLD", end |-> Forever] \in AllocRow
      BY DaysOK DEF DaysAssumption, AllocRow
    <3> QED BY <1>11, <3>1, <3>2 DEF HoldBed
  <2>4. req' \in [Slots -> Request]
    <3>1. [Idle EXCEPT !.op = "order", !.b = req[h].b] \in Request
      BY <2>1 DEF Idle, Request, Ops, BookingStatus
    <3>2. req' = [req EXCEPT ![h] = [Idle EXCEPT !.op = "order", !.b = req[h].b]]
      BY <1>11 DEF HoldBed
    <3> QED BY <3>1, <3>2 DEF TypeOK
  <2>5. \A c \in Bookings : Active(c)' => booking'[c].moveIn < alloc'[c].end
    BY <1>11, <2>1, DaysOK DEF HoldBed, Swept, DaysAssumption, TypeOK, AllocRow
  <2> QED BY <1>11, <2>2, <2>3, <2>4, <2>5 DEF HoldBed, TypeOK
<1>12. ASSUME NEW h \in Slots, NEW bed \in Beds, HoldBedTaken(h, bed)
      PROVE  TypeOK'
  <2>1. [req[h] EXCEPT !.beds = @ \ {bed}] \in Request /\ Idle \in Request
    BY DEF TypeOK, Request, Idle, Ops, BookingStatus
  <2> QED BY <1>12, <2>1 DEF HoldBedTaken, TypeOK
<1>13. ASSUME NEW h \in Slots, NEW bed \in Beds, HoldBedDuplicate(h, bed)
      PROVE  TypeOK'
  BY <1>13 DEF TypeOK, Idle, Request, Ops, BookingStatus, HoldBedDuplicate
<1>14. ASSUME NEW h \in Slots, NEW bed \in Beds, SeatWalkIn(h, bed)
      PROVE  TypeOK'
  BY <1>14, DaysOK DEF TypeOK, Idle, Request, Ops, BookingStatus, RequestOK, DaysAssumption,
     BookingRow, AllocRow, TenancyRow, Firm, SeatWalkIn
<1>15. ASSUME NEW h \in Slots, NEW bed \in Beds, SeatWalkInTaken(h, bed)
      PROVE  TypeOK'
  BY <1>15 DEF TypeOK, Idle, Request, Ops, BookingStatus, SeatWalkInTaken
<1>16. ASSUME NEW h \in Slots, AttachOrder(h)
      PROVE  TypeOK'
  <2>1. req[h].b \in Bookings
    BY <1>16 DEF AttachOrder, RequestOK
  <2>2. [booking[req[h].b] EXCEPT !.order = TRUE] \in BookingRow
    <3>1. booking[req[h].b] \in BookingRow
      BY <2>1 DEF TypeOK
    <3> QED BY <3>1 DEF BookingRow
  <2>3. booking' = [booking EXCEPT ![req[h].b] = [booking[req[h].b] EXCEPT !.order = TRUE]]
    BY <1>16 DEF AttachOrder
  <2>4. \A c \in Bookings : booking'[c].moveIn = booking[c].moveIn
    BY <2>1, <2>2, <2>3 DEF TypeOK, BookingRow
  <2>5. Idle \in Request
    BY DEF Idle, Request, Ops, BookingStatus
  <2>6. req' \in [Slots -> Request]
    BY <1>16, <2>5 DEF AttachOrder, TypeOK
  <2> QED BY <1>16, <2>2, <2>3, <2>4, <2>6 DEF AttachOrder, TypeOK
<1>17. ASSUME NEW h \in Slots, RecordEvent(h)
      PROVE  TypeOK'
  <2> PICK r : r = [req[h] EXCEPT !.op = "apply"]
    OBVIOUS
  <2>1. r \in Request
    <3>1. req[h] \in Request
      BY DEF TypeOK
    <3> QED BY <3>1 DEF Request, Ops
  <2>2. req' = [req EXCEPT ![h] = r] /\ UNCHANGED <<rows, processed, failures>>
    BY <1>17 DEF RecordEvent
  <2>3. events' = events \union {req[h].ev.id} /\ req[h].ev \in Events
    BY <1>17 DEF RecordEvent, RequestOK
  <2> QED BY <2>1, <2>2, <2>3 DEF TypeOK, rows, Active
<1>18. ASSUME NEW h \in Slots, DuplicateEvent(h)
      PROVE  TypeOK'
  BY <1>18 DEF TypeOK, Idle, Request, Ops, BookingStatus, DuplicateEvent
<1>19. ASSUME NEW h \in Slots, NEW auto \in AutoConfirm, ApplyCaptured(h, auto)
      PROVE  TypeOK'
  <2>1. req[h].b \in Bookings /\ req[h].ev \in Events /\ auto \in BOOLEAN /\ Forever \in Nat
    BY <1>19, RowsOK, DaysOK DEF ApplyCaptured, RequestOK, RowsAssumption, DaysAssumption
  <2>2. TablesOK' /\ NoNewClaim
    BY <1>19, <2>1, MarkPaidLemma DEF ApplyCaptured, TypeOK, TablesOK
  <2>3. payments' \subseteq [id : {e.payment : e \in Events}, booking : Bookings]
    BY <1>19, <2>1 DEF ApplyCaptured, MarkPaid, TypeOK
  <2>4. req' \in [Slots -> Request]
    <3>1. req[h] \in Request
      BY DEF TypeOK
    <3>2. [req[h] EXCEPT !.op = "mark"] \in Request
      BY <3>1 DEF Request, Ops
    <3> QED BY <1>19, <3>2 DEF ApplyCaptured, TypeOK
  <2> QED BY <1>19, <2>2, <2>3, <2>4 DEF ApplyCaptured, NoNewClaim, TypeOK, TablesOK
<1>20. ASSUME NEW h \in Slots, ApplyFailed(h)
      PROVE  TypeOK'
  <2>1. TablesOK' /\ NoNewClaim
    BY <1>20, ReleaseBookingLemma DEF ApplyFailed, RequestOK, Closed, TypeOK, TablesOK
  <2>2. req' \in [Slots -> Request]
    BY <1>20 DEF ApplyFailed, TypeOK, Request, Ops
  <2> QED BY <1>20, <2>1, <2>2 DEF ApplyFailed, ReleaseBooking, NoNewClaim, TypeOK, TablesOK
<1>21. ASSUME NEW h \in Slots, MarkProcessed(h)
      PROVE  TypeOK'
  BY <1>21 DEF TypeOK, Idle, Request, Ops, BookingStatus, RequestOK, MarkProcessed
<1>22. ASSUME NEW h \in Slots, CancelMine(h)
      PROVE  TypeOK'
  <2>1. TablesOK' /\ NoNewClaim
    BY <1>22, ReleaseBookingLemma DEF CancelMine, RequestOK, Closed, TypeOK, TablesOK
  <2> QED BY <1>22, <2>1 DEF CancelMine, ReleaseBooking, NoNewClaim, TypeOK, TablesOK,
         Idle, Request,
                            Ops, BookingStatus
<1>23. ASSUME NEW h \in Slots, Approve(h)
      PROVE  TypeOK'
  <2>1. req[h].b \in Bookings /\ Forever \in Nat
    BY <1>23, DaysOK DEF Approve, RequestOK, DaysAssumption
  <2>2. /\ alloc' \in [Bookings -> AllocRow]
        /\ tenancy' \in [Bookings -> TenancyRow]
        /\ pass' \in [Bookings -> {"NONE", "LIVE", "USED"}]
        /\ \A c \in Bookings : alloc'[c].end = alloc[c].end /\ (Active(c)' <=> Active(c))
    BY <1>23, <2>1, OnConfirmedLemma DEF Approve, TypeOK, TablesOK
  <2>3. booking' \in [Bookings -> BookingRow]
    <3>1. booking[req[h].b] \in BookingRow
      BY <2>1 DEF TypeOK
    <3>2. [booking[req[h].b] EXCEPT !.status = "CONFIRMED", !.window = "off"] \in BookingRow
      BY <3>1 DEF BookingRow, BookingStatus, Firm
    <3> QED BY <1>23, <3>2 DEF Approve, TypeOK
  <2>4. \A c \in Bookings : booking'[c].moveIn = booking[c].moveIn
    BY <1>23, <2>1 DEF Approve, TypeOK, BookingRow
  <2> QED BY <1>23, <2>2, <2>3, <2>4 DEF Approve, TypeOK, Idle, Request, Ops, BookingStatus
<1>24. ASSUME NEW h \in Slots, Reject(h)
      PROVE  TypeOK'
  <2>1. TablesOK' /\ NoNewClaim
    BY <1>24, ReleaseBookingLemma DEF Reject, RequestOK, Closed, TypeOK, TablesOK
  <2> QED BY <1>24, <2>1 DEF Reject, ReleaseBooking, NoNewClaim, TypeOK, TablesOK, Idle, Request,
                            Ops, BookingStatus
<1>25. ASSUME NEW h \in Slots, RecordArrival(h)
      PROVE  TypeOK'
  <2>1. req[h].b \in Bookings
    BY <1>25 DEF RecordArrival, RequestOK
  <2>2. booking' \in [Bookings -> BookingRow]
    <3>1. booking[req[h].b] \in BookingRow
      BY <2>1 DEF TypeOK
    <3>2. [booking[req[h].b] EXCEPT !.status = "CHECKED_IN"] \in BookingRow
      BY <3>1 DEF BookingRow, BookingStatus, Firm
    <3> QED BY <1>25, <3>2 DEF RecordArrival, TypeOK
  <2>3. \A c \in Bookings : booking'[c].moveIn = booking[c].moveIn
    BY <1>25, <2>1 DEF RecordArrival, TypeOK, BookingRow
  <2>4. req' \in [Slots -> Request]
    BY <1>25 DEF RecordArrival, TypeOK, Idle, Request, Ops, BookingStatus
  <2> QED BY <1>25, <2>1, <2>2, <2>3, <2>4 DEF RecordArrival, TypeOK
<1>26. ASSUME NEW h \in Slots, PassAlreadyUsed(h)
      PROVE  TypeOK'
  BY <1>26 DEF TypeOK, Idle, Request, Ops, BookingStatus, PassAlreadyUsed
<1>27. ASSUME NEW h \in Slots, GiveNotice(h)
      PROVE  TypeOK'
  <2>1. req[h].b \in Bookings /\ req[h].day \in Nat /\ booking[req[h].b].moveIn < req[h].day
    BY <1>27 DEF GiveNotice, RequestOK, TypeOK, Request
  <2>2. tenancy' \in [Bookings -> TenancyRow]
    BY <1>27, <2>1 DEF GiveNotice, TypeOK, TenancyRow
  <2>3. /\ alloc' \in [Bookings -> AllocRow]
        /\ \A c \in Bookings : /\ alloc'[c].status = alloc[c].status
                               /\ \/ alloc'[c].end = alloc[c].end
                                  \/ c = req[h].b /\ alloc'[c].end = req[h].day
    <3>1. alloc' = [alloc EXCEPT ![req[h].b] = ClosesOn(alloc[req[h].b], req[h].day)]
      BY <1>27 DEF GiveNotice
    <3>2. alloc \in [Bookings -> AllocRow]
      BY DEF TypeOK
    <3> QED BY <2>1, <3>1, <3>2 DEF ClosesOn, AllocRow
  <2>4. req' \in [Slots -> Request]
    <3>1. Idle \in Request
      BY DEF Idle, Request, Ops, BookingStatus
    <3> QED BY <1>27, <3>1 DEF GiveNotice, TypeOK
  <2>5. UNCHANGED <<booking, pass, payments, events, processed, failures>>
    BY <1>27 DEF GiveNotice
  <2>6. \A c \in Bookings : Active(c)' => booking'[c].moveIn < alloc'[c].end
    BY <2>1, <2>3, <2>5 DEF TypeOK, Active
  <2> QED BY <2>2, <2>3, <2>4, <2>5, <2>6 DEF TypeOK
<1>28. ASSUME NEW h \in Slots, GiveNoticeRefused(h)
      PROVE  TypeOK'
  BY <1>28 DEF TypeOK, Idle, Request, Ops, BookingStatus, GiveNoticeRefused
<1>29. ASSUME NEW h \in Slots, CheckOut(h)
      PROVE  TypeOK'
  <2>1. req[h].b \in Bookings
    BY <1>29 DEF CheckOut, RequestOK
  <2>2. tenancy' \in [Bookings -> TenancyRow]
    BY <1>29, <2>1 DEF CheckOut, TypeOK, Request, TenancyRow
  <2>3. /\ alloc' \in [Bookings -> AllocRow]
        /\ \A c \in Bookings : Active(c)' => Active(c) /\ alloc'[c].end = alloc[c].end
    BY <1>29, <2>1 DEF CheckOut, ReleasedRow, TypeOK, AllocRow
  <2> QED BY <1>29, <2>2, <2>3 DEF CheckOut, TypeOK, Idle, Request, Ops, BookingStatus
<1>30. ASSUME NEW h \in Slots, NEW x \in Bookings \X Pending, ExpireLapsed(h, x)
      PROVE  TypeOK'
  <2>1. x[1] \in Bookings /\ Expiry(x[2]) \in Closed
    BY DEF Expiry, Closed
  <2>2. TablesOK' /\ NoNewClaim
    BY <1>30, <2>1, ReleaseBookingLemma DEF ExpireLapsed, TypeOK, TablesOK
  <2>3. [req[h] EXCEPT !.lapsed = @ \ {x}] \in Request /\ Idle \in Request
    BY DEF TypeOK, Request, Idle, Ops, BookingStatus
  <2>4. req' \in [Slots -> Request]
    BY <1>30, <2>3 DEF ExpireLapsed, TypeOK
  <2> QED BY <1>30, <2>2, <2>4 DEF ExpireLapsed, ReleaseBooking, NoNewClaim, TypeOK, TablesOK
<1>31. ASSUME NEW h \in Slots, Fail(h)
      PROVE  TypeOK'
  BY <1>31, RowsOK DEF TypeOK, Idle, Request, Ops, BookingStatus, RowsAssumption, Fail
<1>32. ASSUME NEW b \in Bookings, Lapse(b)
      PROVE  TypeOK'
  BY <1>32 DEF TypeOK, BookingRow, Lapse
<1>33. CASE UNCHANGED vars
  BY <1>33 DEF TypeOK, vars
<1> QED BY <1>1, <1>2, <1>3, <1>4, <1>5, <1>6, <1>7, <1>8, <1>9, <1>10, <1>11, <1>12,
       <1>13, <1>14, <1>15, <1>16, <1>17, <1>18, <1>19, <1>20, <1>21, <1>22, <1>23, <1>24,
       <1>25, <1>26, <1>27, <1>28, <1>29, <1>30, <1>31, <1>32, <1>33 DEF Next, Arrive,
       Continue

(* What a request relies on survives the steps of every other request: no  *)
(* action deletes a booking or moves its bed or its move-in date.          *)
LEMMA RequestStep == Core /\ [Next]_vars => \A g \in Slots : RequestOK(g)'
<1> SUFFICES ASSUME Core, [Next]_vars, NEW g \in Slots PROVE RequestOK(g)'
  OBVIOUS
<1> USE DEF Core, Becomes, Done, Free, At, Reads, Exists, Active, rows, log
<1>1. ASSUME NEW h \in Slots, NEW b \in Bookings, NEW day \in Days, CreateBooking(h, b, day)
      PROVE  RequestOK(g)'
  BY <1>1, RowsOK DEF RowsAssumption, RequestOK, CreateBooking
<1>2. ASSUME NEW h \in Slots, NEW b \in Bookings, NEW day \in Days, ReadForNotice(h, b, day)
      PROVE  RequestOK(g)'
  BY <1>2 DEF RequestOK, RowOK, ReadForNotice
<1>3. ASSUME NEW h \in Slots, NEW b \in Bookings, NEW day \in Days, ReadForCheckOut(h, b, day)
      PROVE  RequestOK(g)'
  BY <1>3 DEF RequestOK, RowOK, ReadForCheckOut
<1>4. ASSUME NEW h \in Slots, NEW b \in Bookings, ReadForCancel(h, b)
      PROVE  RequestOK(g)'
  BY <1>4 DEF RequestOK, ReadForCancel, Cancellable
<1>5. ASSUME NEW h \in Slots, NEW b \in Bookings, ReadForDecision(h, b, "approve")
      PROVE  RequestOK(g)'
  BY <1>5 DEF RequestOK, TypeOK, ReadForDecision
<1>6. ASSUME NEW h \in Slots, NEW b \in Bookings, ReadForDecision(h, b, "reject")
      PROVE  RequestOK(g)'
  BY <1>6 DEF RequestOK, TypeOK, ReadForDecision
<1>7. ASSUME NEW h \in Slots, NEW b \in Bookings, ReadPass(h, b)
      PROVE  RequestOK(g)'
  BY <1>7 DEF RequestOK, TypeOK, ReadPass
<1>8. ASSUME NEW h \in Slots, NEW e \in Events, DeliverWebhook(h, e)
      PROVE  RequestOK(g)'
  BY <1>8, EventsOK DEF EventsAssumption, Bookings, RequestOK, RowOK, DeliverWebhook
<1>9. ASSUME NEW h \in Slots, NEW b \in Bookings, NEW bed \in Beds, NEW day \in Days,
            ReleaseExpiredHolds(h, b, bed, day)
      PROVE  RequestOK(g)'
  BY <1>9 DEF RequestOK, ReleaseExpiredHolds, LapsedHold
<1>10. ASSUME NEW h \in Slots, FindLapsed(h)
      PROVE  RequestOK(g)'
  BY <1>10 DEF Lapsed, Pending, FindLapsed, RequestOK, Idle
<1>11. ASSUME NEW h \in Slots, NEW bed \in Beds, HoldBed(h, bed)
      PROVE  RequestOK(g)'
  BY <1>11 DEF RequestOK, TypeOK, HoldBed
<1>12. ASSUME NEW h \in Slots, NEW bed \in Beds, HoldBedTaken(h, bed)
      PROVE  RequestOK(g)'
  <2>1. req[h].b \in OnlineKeys
    BY <1>12 DEF HoldBedTaken, RequestOK
  <2>2. CASE g = h
    <3>1. CASE req[h].beds = {bed}
      BY <1>12, <2>2, <3>1 DEF HoldBedTaken, TypeOK, RequestOK, Idle
    <3>2. CASE req[h].beds # {bed}
      <4>1. req[h] \in Request
        BY DEF TypeOK
      <4>2. req'[h].op = "hold" /\ req'[h].b = req[h].b /\ req'[h].day = req[h].day
        BY <1>12, <3>2, <4>1 DEF HoldBedTaken, TypeOK, Request
      <4> QED BY <1>12, <2>2, <4>2 DEF HoldBedTaken, RequestOK
    <3> QED BY <3>1, <3>2
  <2>3. CASE g # h
    BY <1>12, <2>1, <2>3, RowsOK DEF HoldBedTaken, TypeOK, Request, RequestOK, Idle,
       RowsAssumption
  <2> QED BY <2>2, <2>3
<1>13. ASSUME NEW h \in Slots, NEW bed \in Beds, HoldBedDuplicate(h, bed)
      PROVE  RequestOK(g)'
  BY <1>13, RowsOK DEF RowsAssumption, Idle, RequestOK, HoldBedDuplicate
<1>14. ASSUME NEW h \in Slots, NEW bed \in Beds, SeatWalkIn(h, bed)
      PROVE  RequestOK(g)'
  BY <1>14, RowsOK DEF RowsAssumption, Idle, RequestOK, TypeOK, SeatWalkIn
<1>15. ASSUME NEW h \in Slots, NEW bed \in Beds, SeatWalkInTaken(h, bed)
      PROVE  RequestOK(g)'
  BY <1>15, RowsOK DEF RowsAssumption, Idle, RequestOK, SeatWalkInTaken
<1>16. ASSUME NEW h \in Slots, AttachOrder(h)
      PROVE  RequestOK(g)'
  BY <1>16, RowsOK DEF RowsAssumption, Idle, RequestOK, AttachOrder
<1>17. ASSUME NEW h \in Slots, RecordEvent(h)
      PROVE  RequestOK(g)'
  BY <1>17 DEF RequestOK, TypeOK, RecordEvent
<1>18. ASSUME NEW h \in Slots, DuplicateEvent(h)
      PROVE  RequestOK(g)'
  BY <1>18, RowsOK DEF RowsAssumption, Idle, RequestOK, DuplicateEvent
<1>19. ASSUME NEW h \in Slots, NEW auto \in AutoConfirm, ApplyCaptured(h, auto)
      PROVE  RequestOK(g)'
  <2>1. req[h].b \in Bookings /\ auto \in BOOLEAN /\ Forever \in Nat
    BY <1>19, RowsOK, DaysOK DEF ApplyCaptured, RequestOK, RowsAssumption, DaysAssumption
  <2>2. NoNewClaim
    BY <1>19, <2>1, MarkPaidLemma DEF ApplyCaptured, TypeOK, TablesOK
  <2>3. \A c \in Bookings \ {req[h].b} : booking'[c] = booking[c]
    BY <1>19, <2>1 DEF ApplyCaptured, MarkPaid, TypeOK
  <2> QED BY <1>19, <2>1, <2>2, <2>3 DEF ApplyCaptured, NoNewClaim, TypeOK, Request, RequestOK
<1>20. ASSUME NEW h \in Slots, ApplyFailed(h)
      PROVE  RequestOK(g)'
  <2>1. req[h].b \in Bookings /\ Exists(req[h].b)
    BY <1>20 DEF ApplyFailed, RequestOK
  <2>2. NoNewClaim
    BY <1>20, <2>1, ReleaseBookingLemma DEF ApplyFailed, Closed, TypeOK, TablesOK
  <2>3. \A c \in Bookings \ {req[h].b} : booking'[c] = booking[c]
    BY <1>20, <2>1 DEF ApplyFailed, ReleaseBooking, TypeOK
  <2> QED BY <1>20, <2>1, <2>2, <2>3 DEF ApplyFailed, NoNewClaim, TypeOK, Request, RequestOK
<1>21. ASSUME NEW h \in Slots, MarkProcessed(h)
      PROVE  RequestOK(g)'
  BY <1>21, RowsOK DEF RowsAssumption, Idle, RequestOK, MarkProcessed
<1>22. ASSUME NEW h \in Slots, CancelMine(h)
      PROVE  RequestOK(g)'
  <2>1. /\ req' = [req EXCEPT ![h] = Idle] /\ events' = events /\ req[h].b \in Bookings
        /\ booking' = [booking EXCEPT ![req[h].b].status = "CANCELLED", ![req[h].b].window = "off"]
    BY <1>22 DEF CancelMine, ReleaseBooking, RequestOK
  <2>2. CASE g = h
    BY <2>1, <2>2, RowsOK DEF RowsAssumption, Idle, RequestOK, TypeOK
  <2>3. CASE g # h
    BY <2>1, <2>3, RowsOK DEF RowsAssumption, Request, Idle, RequestOK, TypeOK
  <2> QED BY <2>2, <2>3
<1>23. ASSUME NEW h \in Slots, Approve(h)
      PROVE  RequestOK(g)'
  <2>1. /\ req' = [req EXCEPT ![h] = Idle] /\ events' = events /\ req[h].b \in Bookings
        /\ booking' = [booking EXCEPT ![req[h].b].status = "CONFIRMED", ![req[h].b].window = "off"]
    BY <1>23 DEF Approve, RequestOK
  <2>2. CASE g = h
    BY <2>1, <2>2, RowsOK DEF RowsAssumption, Idle, RequestOK, TypeOK
  <2>3. CASE g # h
    BY <2>1, <2>3, RowsOK DEF RowsAssumption, Request, Idle, RequestOK, TypeOK
  <2> QED BY <2>2, <2>3
<1>24. ASSUME NEW h \in Slots, Reject(h)
      PROVE  RequestOK(g)'
  <2>1. /\ req' = [req EXCEPT ![h] = Idle] /\ events' = events /\ req[h].b \in Bookings
        /\ booking' = [booking EXCEPT ![req[h].b].status = "REJECTED", ![req[h].b].window = "off"]
    BY <1>24 DEF Reject, ReleaseBooking, RequestOK
  <2>2. CASE g = h
    BY <2>1, <2>2, RowsOK DEF RowsAssumption, Idle, RequestOK, TypeOK
  <2>3. CASE g # h
    BY <2>1, <2>3, RowsOK DEF RowsAssumption, Request, Idle, RequestOK, TypeOK
  <2> QED BY <2>2, <2>3
<1>25. ASSUME NEW h \in Slots, RecordArrival(h)
      PROVE  RequestOK(g)'
  BY <1>25, RowsOK DEF RowsAssumption, Idle, RequestOK, RecordArrival
<1>26. ASSUME NEW h \in Slots, PassAlreadyUsed(h)
      PROVE  RequestOK(g)'
  BY <1>26, RowsOK DEF RowsAssumption, Idle, RequestOK, PassAlreadyUsed
<1>27. ASSUME NEW h \in Slots, GiveNotice(h)
      PROVE  RequestOK(g)'
  BY <1>27, RowsOK DEF RowsAssumption, Idle, RequestOK, GiveNotice
<1>28. ASSUME NEW h \in Slots, GiveNoticeRefused(h)
      PROVE  RequestOK(g)'
  BY <1>28, RowsOK DEF RowsAssumption, Idle, RequestOK, GiveNoticeRefused
<1>29. ASSUME NEW h \in Slots, CheckOut(h)
      PROVE  RequestOK(g)'
  BY <1>29, RowsOK DEF RowsAssumption, Idle, RequestOK, CheckOut
<1>30. ASSUME NEW h \in Slots, NEW x \in Bookings \X Pending, ExpireLapsed(h, x)
      PROVE  RequestOK(g)'
  <2>1. NoNewClaim
    BY <1>30, ReleaseBookingLemma DEF ExpireLapsed, Expiry, Closed, TypeOK, TablesOK
  <2>2. \A c \in Bookings \ {x[1]} : booking'[c] = booking[c]
    BY <1>30 DEF ExpireLapsed, ReleaseBooking, TypeOK
  <2>3. Exists(x[1])
    BY <1>30 DEF ExpireLapsed, RequestOK
  <2>4. req'[h].b = None
    BY <1>30 DEF ExpireLapsed, RequestOK, TypeOK, Request, Idle
  <2>5. CASE g = h
    BY <1>30, <2>1, <2>2, <2>3, <2>5 DEF ExpireLapsed, NoNewClaim, TypeOK, Request, RequestOK,
       Idle
  <2>6. CASE g # h
    <3>1. req'[g] = req[g] /\ \A k \in Slots \ {g} : req'[k].b = req[k].b \/ req'[k].b = None
      BY <1>30, <2>4, <2>6 DEF ExpireLapsed, TypeOK
    <3>2. events' = events /\ \A c \in Bookings : (Exists(c)' <=> Exists(c)) /\ booking'[c].moveIn = booking[c].moveIn
      BY <1>30, <2>1, <2>2, <2>3 DEF ExpireLapsed, NoNewClaim
    <3> QED BY <3>1, <3>2, RowsOK DEF RequestOK, RowsAssumption, Bookings, TypeOK, Request
  <2> QED BY <2>5, <2>6
<1>31. ASSUME NEW h \in Slots, Fail(h)
      PROVE  RequestOK(g)'
  BY <1>31, RowsOK DEF RowsAssumption, Idle, RequestOK, Fail
<1>32. ASSUME NEW b \in Bookings, Lapse(b)
      PROVE  RequestOK(g)'
  BY <1>32 DEF RequestOK, TypeOK, Lapse
<1>33. CASE UNCHANGED vars
  BY <1>33 DEF RequestOK, vars
<1> QED BY <1>1, <1>2, <1>3, <1>4, <1>5, <1>6, <1>7, <1>8, <1>9, <1>10, <1>11, <1>12,
       <1>13, <1>14, <1>15, <1>16, <1>17, <1>18, <1>19, <1>20, <1>21, <1>22, <1>23, <1>24,
       <1>25, <1>26, <1>27, <1>28, <1>29, <1>30, <1>31, <1>32, <1>33 DEF Next, Arrive,
       Continue

(* Every step leaves each row referring to a booking that exists. *)
LEMMA RowStep == Core /\ [Next]_vars => \A c \in Bookings : RowOK(c)'
<1> SUFFICES ASSUME Core, [Next]_vars, NEW c \in Bookings PROVE RowOK(c)'
  OBVIOUS
<1> USE DEF Core, Becomes, Done, Free, At, Reads, Exists, Active, rows, log
<1>1. ASSUME NEW h \in Slots, NEW b \in Bookings, NEW day \in Days, CreateBooking(h, b, day)
      PROVE  RowOK(c)'
  BY <1>1 DEF RowOK, CreateBooking, CandidateBeds
<1>2. ASSUME NEW h \in Slots, NEW b \in Bookings, NEW day \in Days, ReadForNotice(h, b, day)
      PROVE  RowOK(c)'
  BY <1>2 DEF RowOK, TypeOK, ReadForNotice
<1>3. ASSUME NEW h \in Slots, NEW b \in Bookings, NEW day \in Days, ReadForCheckOut(h, b, day)
      PROVE  RowOK(c)'
  BY <1>3 DEF RowOK, TypeOK, ReadForCheckOut
<1>4. ASSUME NEW h \in Slots, NEW b \in Bookings, ReadForCancel(h, b)
      PROVE  RowOK(c)'
  BY <1>4 DEF RowOK, ReadForCancel, Cancellable
<1>5. ASSUME NEW h \in Slots, NEW b \in Bookings, ReadForDecision(h, b, "approve")
      PROVE  RowOK(c)'
  BY <1>5 DEF RowOK, TypeOK, ReadForDecision
<1>6. ASSUME NEW h \in Slots, NEW b \in Bookings, ReadForDecision(h, b, "reject")
      PROVE  RowOK(c)'
  BY <1>6 DEF RowOK, TypeOK, ReadForDecision
<1>7. ASSUME NEW h \in Slots, NEW b \in Bookings, ReadPass(h, b)
      PROVE  RowOK(c)'
  BY <1>7 DEF RowOK, TypeOK, ReadPass
<1>8. ASSUME NEW h \in Slots, NEW e \in Events, DeliverWebhook(h, e)
      PROVE  RowOK(c)'
  BY <1>8 DEF RowOK, TypeOK, DeliverWebhook
<1>9. ASSUME NEW h \in Slots, NEW b \in Bookings, NEW bed \in Beds, NEW day \in Days,
            ReleaseExpiredHolds(h, b, bed, day)
      PROVE  RowOK(c)'
  BY <1>9 DEF RowOK, ReleaseExpiredHolds, Swept
<1>10. ASSUME NEW h \in Slots, FindLapsed(h)
      PROVE  RowOK(c)'
  BY <1>10 DEF RowOK, FindLapsed, Lapsed
<1>11. ASSUME NEW h \in Slots, NEW bed \in Beds, HoldBed(h, bed)
      PROVE  RowOK(c)'
  BY <1>11 DEF RequestOK, RowOK, TypeOK, HoldBed, Swept, LapsedHold
<1>12. ASSUME NEW h \in Slots, NEW bed \in Beds, HoldBedTaken(h, bed)
      PROVE  RowOK(c)'
  BY <1>12 DEF RowOK, HoldBedTaken, Swept
<1>13. ASSUME NEW h \in Slots, NEW bed \in Beds, HoldBedDuplicate(h, bed)
      PROVE  RowOK(c)'
  BY <1>13 DEF RowOK, HoldBedDuplicate, Swept
<1>14. ASSUME NEW h \in Slots, NEW bed \in Beds, SeatWalkIn(h, bed)
      PROVE  RowOK(c)'
  BY <1>14 DEF RequestOK, RowOK, TypeOK, SeatWalkIn
<1>15. ASSUME NEW h \in Slots, NEW bed \in Beds, SeatWalkInTaken(h, bed)
      PROVE  RowOK(c)'
  BY <1>15 DEF RowOK, TypeOK, SeatWalkInTaken
<1>16. ASSUME NEW h \in Slots, AttachOrder(h)
      PROVE  RowOK(c)'
  BY <1>16 DEF RequestOK, RowOK, AttachOrder
<1>17. ASSUME NEW h \in Slots, RecordEvent(h)
      PROVE  RowOK(c)'
  BY <1>17 DEF RowOK, TypeOK, RecordEvent
<1>18. ASSUME NEW h \in Slots, DuplicateEvent(h)
      PROVE  RowOK(c)'
  BY <1>18 DEF RowOK, TypeOK, DuplicateEvent
<1>19. ASSUME NEW h \in Slots, NEW auto \in AutoConfirm, ApplyCaptured(h, auto)
      PROVE  RowOK(c)'
  <2>1. req[h].b \in Bookings /\ auto \in BOOLEAN /\ Forever \in Nat
    BY <1>19, RowsOK, DaysOK DEF ApplyCaptured, RequestOK, RowsAssumption, DaysAssumption
  <2>2. NoNewClaim
    BY <1>19, <2>1, MarkPaidLemma DEF ApplyCaptured, TypeOK, TablesOK
  <2>3. Exists(req[h].b)
    BY <1>19 DEF ApplyCaptured, RequestOK
  <2>4. \A b \in Bookings \ {req[h].b} :
           booking'[b] = booking[b] /\ tenancy'[b] = tenancy[b] /\ pass'[b] = pass[b]
    BY <1>19, <2>1 DEF ApplyCaptured, MarkPaid, OnConfirmed, TypeOK
  <2>5. CASE c = req[h].b
    BY <2>1, <2>2, <2>3, <2>5 DEF NoNewClaim, RowOK
  <2>6. CASE c # req[h].b
    BY <2>1, <2>2, <2>4, <2>6 DEF NoNewClaim, RowOK
  <2> QED BY <2>5, <2>6
<1>20. ASSUME NEW h \in Slots, ApplyFailed(h)
      PROVE  RowOK(c)'
  BY <1>20 DEF RequestOK, RowOK, TypeOK, ApplyFailed, ReleaseBooking
<1>21. ASSUME NEW h \in Slots, MarkProcessed(h)
      PROVE  RowOK(c)'
  BY <1>21 DEF RowOK, TypeOK, MarkProcessed
<1>22. ASSUME NEW h \in Slots, CancelMine(h)
      PROVE  RowOK(c)'
  BY <1>22 DEF RequestOK, RowOK, TypeOK, CancelMine, ReleaseBooking
<1>23. ASSUME NEW h \in Slots, Approve(h)
      PROVE  RowOK(c)'
  BY <1>23 DEF RequestOK, RowOK, TypeOK, Approve, OnConfirmed
<1>24. ASSUME NEW h \in Slots, Reject(h)
      PROVE  RowOK(c)'
  BY <1>24 DEF RequestOK, RowOK, TypeOK, Reject, ReleaseBooking
<1>25. ASSUME NEW h \in Slots, RecordArrival(h)
      PROVE  RowOK(c)'
  BY <1>25 DEF RowOK, TypeOK, RecordArrival
<1>26. ASSUME NEW h \in Slots, PassAlreadyUsed(h)
      PROVE  RowOK(c)'
  BY <1>26 DEF RowOK, TypeOK, PassAlreadyUsed
<1>27. ASSUME NEW h \in Slots, GiveNotice(h)
      PROVE  RowOK(c)'
  BY <1>27 DEF RequestOK, RowOK, GiveNotice
<1>28. ASSUME NEW h \in Slots, GiveNoticeRefused(h)
      PROVE  RowOK(c)'
  BY <1>28 DEF RowOK, TypeOK, GiveNoticeRefused
<1>29. ASSUME NEW h \in Slots, CheckOut(h)
      PROVE  RowOK(c)'
  BY <1>29 DEF RequestOK, RowOK, CheckOut
<1>30. ASSUME NEW h \in Slots, NEW x \in Bookings \X Pending, ExpireLapsed(h, x)
      PROVE  RowOK(c)'
  BY <1>30 DEF RequestOK, RowOK, TypeOK, ExpireLapsed, ReleaseBooking, Expiry
<1>31. ASSUME NEW h \in Slots, Fail(h)
      PROVE  RowOK(c)'
  BY <1>31 DEF RowOK, TypeOK, Fail
<1>32. ASSUME NEW b \in Bookings, Lapse(b)
      PROVE  RowOK(c)'
  BY <1>32 DEF RowOK, TypeOK, Lapse
<1>33. CASE UNCHANGED vars
  BY <1>33 DEF RowOK, vars
<1> QED BY <1>1, <1>2, <1>3, <1>4, <1>5, <1>6, <1>7, <1>8, <1>9, <1>10, <1>11, <1>12,
       <1>13, <1>14, <1>15, <1>16, <1>17, <1>18, <1>19, <1>20, <1>21, <1>22, <1>23, <1>24,
       <1>25, <1>26, <1>27, <1>28, <1>29, <1>30, <1>31, <1>32, <1>33 DEF Next, Arrive,
       Continue

(* Core is an invariant. *)
THEOREM CoreInvariant == Spec => []Core
<1>1. Core /\ [Next]_vars => Core'
  BY TypeStep, RequestStep, RowStep DEF Core
<1> QED BY InitCore, <1>1, PTL DEF Spec

(* The tables and the requests always have their types, and every active   *)
(* claim covers a day.                                                     *)
THEOREM TypeCorrect == Spec => []TypeOK
<1>1. Core => TypeOK
  BY DEF Core
<1> QED BY CoreInvariant, <1>1, PTL

(***************************************************************************)
(* No bed is sold twice                                                    *)
(***************************************************************************)

(* Only three transactions make a claim or move its end. *)
LEMMA WhoClaims ==
    ASSUME Core, [Next]_vars
    PROVE  \/ NoNewClaim
           \/ \E h \in Slots, bed \in Beds : HoldBed(h, bed) \/ SeatWalkIn(h, bed)
           \/ \E h \in Slots : GiveNotice(h)
<1> USE DEF Core, Becomes, Done, rows, log
<1>1. ASSUME NEW h \in Slots, NEW b \in Bookings, NEW day \in Days, CreateBooking(h, b, day)
      PROVE  NoNewClaim
  BY <1>1 DEF CreateBooking, NoNewClaim, Active, Exists
<1>2. ASSUME NEW h \in Slots, NEW b \in Bookings, NEW day \in Days, ReadForNotice(h, b, day)
      PROVE  NoNewClaim
  BY <1>2 DEF ReadForNotice, NoNewClaim, Active, Exists
<1>3. ASSUME NEW h \in Slots, NEW b \in Bookings, NEW day \in Days, ReadForCheckOut(h, b, day)
      PROVE  NoNewClaim
  BY <1>3 DEF ReadForCheckOut, NoNewClaim, Active, Exists
<1>4. ASSUME NEW h \in Slots, NEW b \in Bookings, ReadForCancel(h, b)
      PROVE  NoNewClaim
  BY <1>4 DEF ReadForCancel, NoNewClaim, Active, Exists
<1>5. ASSUME NEW h \in Slots, NEW b \in Bookings, ReadForDecision(h, b, "approve")
      PROVE  NoNewClaim
  BY <1>5 DEF ReadForDecision, NoNewClaim, Active, Exists
<1>6. ASSUME NEW h \in Slots, NEW b \in Bookings, ReadForDecision(h, b, "reject")
      PROVE  NoNewClaim
  BY <1>6 DEF ReadForDecision, NoNewClaim, Active, Exists
<1>7. ASSUME NEW h \in Slots, NEW b \in Bookings, ReadPass(h, b)
      PROVE  NoNewClaim
  BY <1>7 DEF ReadPass, NoNewClaim, Active, Exists
<1>8. ASSUME NEW h \in Slots, NEW e \in Events, DeliverWebhook(h, e)
      PROVE  NoNewClaim
  BY <1>8 DEF DeliverWebhook, NoNewClaim, Active, Exists
<1>9. ASSUME NEW h \in Slots, NEW b \in Bookings, NEW bed \in Beds, NEW day \in Days,
            ReleaseExpiredHolds(h, b, bed, day)
      PROVE  NoNewClaim
  BY <1>9 DEF ReleaseExpiredHolds, Swept, NoNewClaim, Active, Exists
<1>10. ASSUME NEW h \in Slots, FindLapsed(h)
      PROVE  NoNewClaim
  BY <1>10 DEF FindLapsed, NoNewClaim, Active, Exists
<1>11. ASSUME NEW h \in Slots, NEW bed \in Beds, HoldBedTaken(h, bed)
      PROVE  NoNewClaim
  BY <1>11 DEF HoldBedTaken, NoNewClaim, Active, Exists
<1>12. ASSUME NEW h \in Slots, NEW bed \in Beds, HoldBedDuplicate(h, bed)
      PROVE  NoNewClaim
  BY <1>12 DEF HoldBedDuplicate, NoNewClaim, Active, Exists
<1>13. ASSUME NEW h \in Slots, NEW bed \in Beds, SeatWalkInTaken(h, bed)
      PROVE  NoNewClaim
  BY <1>13 DEF SeatWalkInTaken, NoNewClaim, Active, Exists
<1>14. ASSUME NEW h \in Slots, AttachOrder(h)
      PROVE  NoNewClaim
  BY <1>14 DEF AttachOrder, NoNewClaim, Active, Exists
<1>15. ASSUME NEW h \in Slots, RecordEvent(h)
      PROVE  NoNewClaim
  BY <1>15 DEF RecordEvent, NoNewClaim, Active, Exists
<1>16. ASSUME NEW h \in Slots, DuplicateEvent(h)
      PROVE  NoNewClaim
  BY <1>16 DEF DuplicateEvent, NoNewClaim, Active, Exists
<1>17. ASSUME NEW h \in Slots, NEW auto \in AutoConfirm, ApplyCaptured(h, auto)
      PROVE  NoNewClaim
  BY <1>17, RowsOK, DaysOK, MarkPaidLemma DEF ApplyCaptured, At, RequestOK, RowsAssumption,
     DaysAssumption, TypeOK, TablesOK
<1>18. ASSUME NEW h \in Slots, ApplyFailed(h)
      PROVE  NoNewClaim
  BY <1>18, ReleaseBookingLemma DEF ApplyFailed, At, RequestOK, Closed, TypeOK, TablesOK
<1>19. ASSUME NEW h \in Slots, MarkProcessed(h)
      PROVE  NoNewClaim
  BY <1>19 DEF MarkProcessed, NoNewClaim, Active, Exists
<1>20. ASSUME NEW h \in Slots, CancelMine(h)
      PROVE  NoNewClaim
  BY <1>20, ReleaseBookingLemma DEF CancelMine, At, RequestOK, Closed, TypeOK, TablesOK
<1>21. ASSUME NEW h \in Slots, Approve(h)
      PROVE  NoNewClaim
  <2>1. req[h].b \in Bookings /\ Forever \in Nat
    BY <1>21, DaysOK DEF Approve, At, RequestOK, DaysAssumption
  <2>2. \A c \in Bookings : alloc'[c].end = alloc[c].end /\ (Active(c)' <=> Active(c))
    BY <1>21, <2>1, OnConfirmedLemma DEF Approve, TypeOK, TablesOK
  <2>3. \A c \in Bookings :
           /\ booking'[c].bed = booking[c].bed /\ booking'[c].moveIn = booking[c].moveIn
           /\ Exists(c) => Exists(c)'
    BY <1>21, <2>1 DEF Approve, TypeOK, Exists
  <2> QED BY <2>2, <2>3 DEF NoNewClaim, Active, Exists
<1>22. ASSUME NEW h \in Slots, Reject(h)
      PROVE  NoNewClaim
  BY <1>22, ReleaseBookingLemma DEF Reject, At, RequestOK, Closed, TypeOK, TablesOK
<1>23. ASSUME NEW h \in Slots, RecordArrival(h)
      PROVE  NoNewClaim
  BY <1>23 DEF RecordArrival, NoNewClaim, Active, Exists
<1>24. ASSUME NEW h \in Slots, PassAlreadyUsed(h)
      PROVE  NoNewClaim
  BY <1>24 DEF PassAlreadyUsed, NoNewClaim, Active, Exists
<1>25. ASSUME NEW h \in Slots, GiveNoticeRefused(h)
      PROVE  NoNewClaim
  BY <1>25 DEF GiveNoticeRefused, NoNewClaim, Active, Exists
<1>26. ASSUME NEW h \in Slots, CheckOut(h)
      PROVE  NoNewClaim
  BY <1>26 DEF CheckOut, ReleasedRow, NoNewClaim, Active, Exists
<1>27. ASSUME NEW h \in Slots, NEW x \in Bookings \X Pending, ExpireLapsed(h, x)
      PROVE  NoNewClaim
  BY <1>27, ReleaseBookingLemma DEF ExpireLapsed, Expiry, Closed, TypeOK, TablesOK
<1>28. ASSUME NEW h \in Slots, Fail(h)
      PROVE  NoNewClaim
  BY <1>28 DEF Fail, NoNewClaim, Active, Exists
<1>29. ASSUME NEW b \in Bookings, Lapse(b)
      PROVE  NoNewClaim
  BY <1>29 DEF Lapse, NoNewClaim, Active, Exists
<1>30. CASE UNCHANGED vars
  BY <1>30 DEF vars, NoNewClaim, Active, Exists
<1> QED BY <1>1, <1>2, <1>3, <1>4, <1>5, <1>6, <1>7, <1>8, <1>9, <1>10, <1>11, <1>12,
       <1>13, <1>14, <1>15, <1>16, <1>17, <1>18, <1>19, <1>20, <1>21, <1>22, <1>23, <1>24,
       <1>25, <1>26, <1>27, <1>28, <1>29, <1>30 DEF Next, Arrive, Continue

(* The claim that a checkout inserts passed the exclusion constraint, and  *)
(* the sweep of the same transaction only ends claims.                     *)
LEMMA HoldBedOverlaps ==
    ASSUME Core, NoOverlap, NEW h \in Slots, NEW bed \in Beds, HoldBed(h, bed)
    PROVE  NoOverlap'
<1> DEFINE b == req[h].b
<1> USE DEF Core, HoldBed, At, Reads, Becomes
<1>1. b \in Bookings /\ req[h].day \in Days
  BY DEF RequestOK
<1>2. /\ booking'[b].bed = bed /\ booking'[b].moveIn = req[h].day
      /\ \A c \in Bookings \ {b} : booking'[c] = booking[c]
  BY <1>1 DEF TypeOK
<1>3. /\ \A c \in Bookings \ {b} : alloc'[c] = Swept(bed)[c]
      /\ \A c \in Bookings : Swept(bed)[c].status = "ACTIVE" => Active(c)
      /\ \A c \in Bookings : Swept(bed)[c].end = alloc[c].end
  BY <1>1 DEF TypeOK, Swept, Active
<1>4. ASSUME NEW c \in Bookings \ {b}, Active(c)', booking'[c].bed = bed
      PROVE  alloc'[c].end <= req[h].day
  <2>1. Active(c) /\ booking[c].bed = bed /\ Swept(bed)[c].status = "ACTIVE"
    BY <1>2, <1>3, <1>4 DEF Active
  <2>2. booking[c].moveIn < Forever
    BY <2>1, DaysOK DEF RowOK, DaysAssumption
  <2>3. alloc[c].end \in Nat /\ req[h].day \in Nat
    BY <1>1, DaysOK DEF TypeOK, AllocRow, DaysAssumption
  <2> QED BY <1>3, <2>1, <2>2, <2>3 DEF Claimed
<1>5. ASSUME NEW c \in Bookings \ {b}, NEW d \in Bookings \ {b}, c # d, Active(c)', Active(d)',
             booking'[c].bed = booking'[d].bed
      PROVE  \/ alloc'[c].end <= booking'[d].moveIn
             \/ alloc'[d].end <= booking'[c].moveIn
  BY <1>2, <1>3, <1>5 DEF NoOverlap, Active
<1> QED BY <1>2, <1>4, <1>5 DEF NoOverlap

(* The claim of a walk-in passed the exclusion constraint. *)
LEMMA SeatWalkInOverlaps ==
    ASSUME Core, NoOverlap, NEW h \in Slots, NEW bed \in Beds, SeatWalkIn(h, bed)
    PROVE  NoOverlap'
<1> DEFINE b == req[h].b
<1> USE DEF Core, SeatWalkIn, At, Done, Becomes
<1>1. b \in Bookings /\ req[h].day \in Days
  BY DEF RequestOK
<1>2. /\ booking'[b].bed = bed /\ booking'[b].moveIn = req[h].day
      /\ \A c \in Bookings \ {b} : booking'[c] = booking[c] /\ alloc'[c] = alloc[c]
  BY <1>1 DEF TypeOK
<1>3. ASSUME NEW c \in Bookings \ {b}, Active(c)', booking'[c].bed = bed
      PROVE  alloc'[c].end <= req[h].day
  <2>1. Active(c) /\ booking[c].bed = bed
    BY <1>2, <1>3 DEF Active
  <2>2. booking[c].moveIn < Forever
    BY <2>1, DaysOK DEF RowOK, DaysAssumption
  <2>3. alloc[c].end \in Nat /\ req[h].day \in Nat
    BY <1>1, DaysOK DEF TypeOK, AllocRow, DaysAssumption
  <2> QED BY <1>2, <2>1, <2>2, <2>3 DEF Claimed, Active
<1>4. ASSUME NEW c \in Bookings \ {b}, NEW d \in Bookings \ {b}, c # d, Active(c)', Active(d)',
             booking'[c].bed = booking'[d].bed
      PROVE  \/ alloc'[c].end <= booking'[d].moveIn
             \/ alloc'[d].end <= booking'[c].moveIn
  BY <1>2, <1>4 DEF NoOverlap, Active
<1> QED BY <1>2, <1>3, <1>4 DEF NoOverlap

(* Notice moves the end of one claim, and only if the exclusion constraint *)
(* lets it.                                                                *)
LEMMA GiveNoticeOverlaps ==
    ASSUME Core, NoOverlap, NEW h \in Slots, GiveNotice(h)
    PROVE  NoOverlap'
<1> DEFINE b == req[h].b
<1> USE DEF Core, GiveNotice, At, Done, Becomes
<1>1. b \in Bookings /\ req[h].day \in Nat
  BY DEF RequestOK, TypeOK, Request
<1>2. /\ alloc'[b] = ClosesOn(alloc[b], req[h].day) /\ alloc'[b].status = alloc[b].status
      /\ booking' = booking
      /\ \A c \in Bookings \ {b} : alloc'[c] = alloc[c]
  <2>1. alloc[b] \in AllocRow /\ alloc' = [alloc EXCEPT ![b] = ClosesOn(alloc[b], req[h].day)]
    BY <1>1 DEF TypeOK
  <2>2. ClosesOn(alloc[b], req[h].day).status = alloc[b].status
    BY <2>1 DEF ClosesOn, AllocRow
  <2>3. alloc'[b] = ClosesOn(alloc[b], req[h].day) /\ \A c \in Bookings \ {b} : alloc'[c] = alloc[c]
    BY <1>1, <2>1 DEF TypeOK
  <2> QED BY <2>2, <2>3 DEF Active
<1>3. CASE alloc'[b] = alloc[b]
  BY <1>2, <1>3 DEF NoOverlap, Active
<1>4. CASE alloc'[b] # alloc[b]
  <2>1. ~Claimed(alloc, booking[b].bed, booking[b].moveIn, req[h].day, {b})
    BY <1>2, <1>4 DEF NoticeOverlaps
  <2>2. alloc'[b].end = req[h].day
    BY <1>1, <1>2, <1>4 DEF ClosesOn, TypeOK, AllocRow
  <2>3. ASSUME NEW c \in Bookings \ {b}, Active(c)', booking'[c].bed = booking'[b].bed
        PROVE  alloc'[b].end <= booking'[c].moveIn \/ alloc'[c].end <= booking'[b].moveIn
    <3>1. Active(c) /\ booking[c].bed = booking[b].bed /\ booking[c].moveIn \in Nat
            /\ booking[b].moveIn \in Nat /\ alloc[c].end \in Nat
      BY <1>1, <1>2, <2>3 DEF Active, TypeOK, BookingRow, AllocRow
    <3> QED BY <1>1, <1>2, <2>1, <2>2, <3>1 DEF Claimed, Active
  <2> QED BY <1>2, <2>3 DEF NoOverlap, Active
<1> QED BY <1>3, <1>4

(* BR-002 and BR-011, for any number of beds, bookings and requests. *)
THEOREM NoBedSoldTwice == Spec => []NoOverlap
<1>1. Init => NoOverlap
  BY DEF Init, NoOverlap, Active, NoAlloc
<1>2. ASSUME Core, NoOverlap, [Next]_vars PROVE NoOverlap'
  <2>1. CASE NoNewClaim
    BY <1>2, <2>1 DEF NoNewClaim, NoOverlap
  <2> QED BY <1>2, <2>1, WhoClaims, HoldBedOverlaps, SeatWalkInOverlaps, GiveNoticeOverlaps
<1> QED BY CoreInvariant, <1>1, <1>2, PTL DEF Spec

(***************************************************************************)
(* No claim is stranded, and no booking confirmed without its pass         *)
(***************************************************************************)

(* What a request has read about payment stays so until it commits: the    *)
(* claim does not become a hold again, and the payment, the pass and the   *)
(* tenancy are still there.                                                *)
PaidRequest(h) ==
    LET b == req[h].b IN
    /\ req[h].op \in {"approve", "redeem"} =>
          /\ Active(b) => alloc[b].kind # "HOLD"
          /\ b \in OnlineKeys => PaidFor(b)
    /\ req[h].op \in {"redeem", "notice", "checkout"} /\ b \in OnlineKeys =>
          pass[b] # "NONE" /\ tenancy[b].status # "NONE"

(* What the two invariants say of one booking, and that the pass comes     *)
(* with the tenancy.                                                       *)
ServedRow(b) ==
    /\ Active(b) =>
          /\ alloc[b].kind = "HOLD" =>
                 booking[b].status = "PENDING_PAYMENT" /\ booking[b].window # "off"
          /\ alloc[b].kind # "HOLD" => booking[b].status \in Firm
          /\ tenancy[b].status # "ENDED"
    /\ b \in OnlineKeys =>
          /\ booking[b].status \in Firm => PaidFor(b)
          /\ booking[b].status \in {"CONFIRMED", "CHECKED_IN"} =>
                 pass[b] # "NONE" /\ tenancy[b].status # "NONE"
          /\ tenancy[b].status # "NONE" => pass[b] # "NONE"

Served ==
    /\ \A b \in Bookings : ServedRow(b)
    /\ \A h \in Slots : PaidRequest(h)

(* Every step keeps the status of a booking in line with its claim,        *)
(* tenancy, pass and payment, whatever the status was when the request     *)
(* that takes the step read it.                                            *)
LEMMA ServedRowStep ==
    ASSUME Core, Served, [Next]_vars, NEW c \in Bookings
    PROVE  ServedRow(c)'
<1> USE DEF Core, Served, Becomes, Done, Free, At, Reads, Exists, Active, rows, log
<1>1. ASSUME NEW h \in Slots, NEW b \in Bookings, NEW day \in Days, CreateBooking(h, b, day)
      PROVE  ServedRow(c)'
  BY <1>1 DEF ServedRow, PaidFor, CreateBooking
<1>2. ASSUME NEW h \in Slots, NEW b \in Bookings, NEW day \in Days, ReadForNotice(h, b, day)
      PROVE  ServedRow(c)'
  BY <1>2 DEF ServedRow, PaidFor, ReadForNotice
<1>3. ASSUME NEW h \in Slots, NEW b \in Bookings, NEW day \in Days, ReadForCheckOut(h, b, day)
      PROVE  ServedRow(c)'
  BY <1>3 DEF ServedRow, PaidFor, ReadForCheckOut
<1>4. ASSUME NEW h \in Slots, NEW b \in Bookings, ReadForCancel(h, b)
      PROVE  ServedRow(c)'
  BY <1>4 DEF ServedRow, PaidFor, ReadForCancel
<1>5. ASSUME NEW h \in Slots, NEW b \in Bookings, ReadForDecision(h, b, "approve")
      PROVE  ServedRow(c)'
  BY <1>5 DEF ServedRow, PaidFor, ReadForDecision
<1>6. ASSUME NEW h \in Slots, NEW b \in Bookings, ReadForDecision(h, b, "reject")
      PROVE  ServedRow(c)'
  BY <1>6 DEF ServedRow, PaidFor, ReadForDecision
<1>7. ASSUME NEW h \in Slots, NEW b \in Bookings, ReadPass(h, b)
      PROVE  ServedRow(c)'
  BY <1>7 DEF ServedRow, PaidFor, ReadPass
<1>8. ASSUME NEW h \in Slots, NEW e \in Events, DeliverWebhook(h, e)
      PROVE  ServedRow(c)'
  BY <1>8 DEF ServedRow, PaidFor, DeliverWebhook
<1>9. ASSUME NEW h \in Slots, NEW b \in Bookings, NEW bed \in Beds, NEW day \in Days,
            ReleaseExpiredHolds(h, b, bed, day)
      PROVE  ServedRow(c)'
  BY <1>9 DEF ServedRow, PaidFor, ReleaseExpiredHolds, Swept
<1>10. ASSUME NEW h \in Slots, FindLapsed(h)
      PROVE  ServedRow(c)'
  BY <1>10 DEF ServedRow, PaidFor, FindLapsed
<1>11. ASSUME NEW h \in Slots, NEW bed \in Beds, HoldBed(h, bed)
      PROVE  ServedRow(c)'
  BY <1>11 DEF ServedRow, PaidFor, RowOK, TypeOK, AllocRow, Firm, HoldBed, Swept
<1>12. ASSUME NEW h \in Slots, NEW bed \in Beds, HoldBedTaken(h, bed)
      PROVE  ServedRow(c)'
  BY <1>12 DEF ServedRow, PaidFor, HoldBedTaken
<1>13. ASSUME NEW h \in Slots, NEW bed \in Beds, HoldBedDuplicate(h, bed)
      PROVE  ServedRow(c)'
  BY <1>13 DEF ServedRow, PaidFor, HoldBedDuplicate
<1>14. ASSUME NEW h \in Slots, NEW bed \in Beds, SeatWalkIn(h, bed)
      PROVE  ServedRow(c)'
  BY <1>14, RowsOK DEF RowsAssumption, ServedRow, PaidFor, RequestOK, TypeOK, Firm, SeatWalkIn
<1>15. ASSUME NEW h \in Slots, NEW bed \in Beds, SeatWalkInTaken(h, bed)
      PROVE  ServedRow(c)'
  BY <1>15 DEF ServedRow, PaidFor, SeatWalkInTaken
<1>16. ASSUME NEW h \in Slots, AttachOrder(h)
      PROVE  ServedRow(c)'
  BY <1>16 DEF ServedRow, PaidFor, AttachOrder
<1>17. ASSUME NEW h \in Slots, RecordEvent(h)
      PROVE  ServedRow(c)'
  BY <1>17 DEF ServedRow, PaidFor, RecordEvent
<1>18. ASSUME NEW h \in Slots, DuplicateEvent(h)
      PROVE  ServedRow(c)'
  BY <1>18 DEF ServedRow, PaidFor, DuplicateEvent
<1>19. ASSUME NEW h \in Slots, NEW auto \in AutoConfirm, ApplyCaptured(h, auto)
      PROVE  ServedRow(c)'
  <2> DEFINE b == req[h].b
  <2>1. b \in Bookings /\ req[h].ev \in Events /\ b \in OnlineKeys /\ Exists(b) /\ auto \in BOOLEAN
    BY <1>19, EventsOK, RowsOK DEF ApplyCaptured, RequestOK, EventsAssumption, RowsAssumption
  <2>2. /\ payments \subseteq payments' /\ [id |-> req[h].ev.payment, booking |-> b] \in payments'
        /\ \A a \in Bookings \ {b} : /\ booking'[a] = booking[a] /\ alloc'[a] = alloc[a]
                                    /\ tenancy'[a] = tenancy[a] /\ pass'[a] = pass[a]
    BY <1>19, <2>1 DEF ApplyCaptured, MarkPaid, OnConfirmed, TypeOK
  <2>3. CASE c # b
    BY <2>2, <2>3 DEF ServedRow, PaidFor
  <2>4. CASE c = b
    <3>1. \E p \in payments' : p.booking = b
      BY <2>2
    <3>2. alloc'[b].status = alloc[b].status
            /\ (alloc[b].status = "ACTIVE" => alloc'[b].kind \in {"BOOKING", "TENANCY"})
      BY <1>19, <2>1 DEF ApplyCaptured, MarkPaid, OnConfirmed, KindOf, TypeOK, AllocRow
    <3>3. booking'[b].status = IF auto THEN "CONFIRMED" ELSE "PENDING_APPROVAL"
      BY <1>19, <2>1 DEF ApplyCaptured, MarkPaid, TypeOK, BookingRow
    <3>4. IF auto /\ tenancy[b].status = "NONE"
          THEN tenancy'[b].status = "ACTIVE" /\ pass'[b] = "LIVE"
          ELSE tenancy'[b] = tenancy[b] /\ pass'[b] = pass[b]
      BY <1>19, <2>1 DEF ApplyCaptured, MarkPaid, OnConfirmed, TypeOK
    <3> QED BY <2>1, <2>4, <3>1, <3>2, <3>3, <3>4 DEF ServedRow, PaidFor, Firm
  <2> QED BY <2>3, <2>4
<1>20. ASSUME NEW h \in Slots, ApplyFailed(h)
      PROVE  ServedRow(c)'
  BY <1>20 DEF ServedRow, PaidFor, TypeOK, Firm, ApplyFailed, ReleaseBooking, ReleasedRow
<1>21. ASSUME NEW h \in Slots, MarkProcessed(h)
      PROVE  ServedRow(c)'
  BY <1>21 DEF ServedRow, PaidFor, MarkProcessed
<1>22. ASSUME NEW h \in Slots, CancelMine(h)
      PROVE  ServedRow(c)'
  BY <1>22 DEF ServedRow, PaidFor, TypeOK, Firm, CancelMine, ReleaseBooking, ReleasedRow
<1>23. ASSUME NEW h \in Slots, Approve(h)
      PROVE  ServedRow(c)'
  BY <1>23 DEF ServedRow, PaidRequest, PaidFor, TypeOK, AllocRow, Firm, Approve, OnConfirmed,
     KindOf
<1>24. ASSUME NEW h \in Slots, Reject(h)
      PROVE  ServedRow(c)'
  BY <1>24 DEF ServedRow, PaidFor, TypeOK, Firm, Reject, ReleaseBooking, ReleasedRow
<1>25. ASSUME NEW h \in Slots, RecordArrival(h)
      PROVE  ServedRow(c)'
  BY <1>25 DEF ServedRow, PaidRequest, PaidFor, Firm, RecordArrival
<1>26. ASSUME NEW h \in Slots, PassAlreadyUsed(h)
      PROVE  ServedRow(c)'
  BY <1>26 DEF ServedRow, PaidFor, PassAlreadyUsed
<1>27. ASSUME NEW h \in Slots, GiveNotice(h)
      PROVE  ServedRow(c)'
  <2>1. req[h].b \in Bookings /\ alloc[req[h].b] \in AllocRow
    BY <1>27 DEF GiveNotice, RequestOK, TypeOK
  <2>2. \A a \in Bookings : alloc'[a].status = alloc[a].status /\ alloc'[a].kind = alloc[a].kind
    BY <1>27, <2>1 DEF GiveNotice, ClosesOn, TypeOK
  <2>3. \A a \in Bookings : /\ tenancy'[a].status \in {tenancy[a].status, "NOTICE_GIVEN"}
                           /\ a # req[h].b => tenancy'[a] = tenancy[a]
    BY <1>27, <2>1 DEF GiveNotice, TypeOK
  <2> QED BY <1>27, <2>1, <2>2, <2>3 DEF GiveNotice, ServedRow, PaidRequest, PaidFor
<1>28. ASSUME NEW h \in Slots, GiveNoticeRefused(h)
      PROVE  ServedRow(c)'
  BY <1>28 DEF ServedRow, PaidFor, GiveNoticeRefused
<1>29. ASSUME NEW h \in Slots, CheckOut(h)
      PROVE  ServedRow(c)'
  <2> DEFINE b == req[h].b
  <2>1. b \in Bookings
    BY <1>29 DEF CheckOut, RequestOK
  <2>2. /\ alloc'[b].status # "ACTIVE" /\ tenancy'[b].status = "ENDED"
        /\ \A a \in Bookings \ {b} : alloc'[a] = alloc[a] /\ tenancy'[a] = tenancy[a]
    BY <1>29, <2>1 DEF CheckOut, ReleasedRow, TypeOK
  <2>3. CASE c = b
    BY <1>29, <2>2, <2>3 DEF CheckOut, ServedRow, PaidRequest, PaidFor
  <2>4. CASE c # b
    BY <1>29, <2>2, <2>4 DEF CheckOut, ServedRow, PaidFor
  <2> QED BY <2>3, <2>4
<1>30. ASSUME NEW h \in Slots, NEW x \in Bookings \X Pending, ExpireLapsed(h, x)
      PROVE  ServedRow(c)'
  BY <1>30 DEF ServedRow, PaidFor, TypeOK, Firm, ExpireLapsed, ReleaseBooking, ReleasedRow,
     Expiry
<1>31. ASSUME NEW h \in Slots, Fail(h)
      PROVE  ServedRow(c)'
  BY <1>31 DEF ServedRow, PaidFor, Fail
<1>32. ASSUME NEW b \in Bookings, Lapse(b)
      PROVE  ServedRow(c)'
  BY <1>32 DEF ServedRow, PaidFor, Lapse
<1>33. CASE UNCHANGED vars
  BY <1>33 DEF ServedRow, PaidFor, vars
<1> QED BY <1>1, <1>2, <1>3, <1>4, <1>5, <1>6, <1>7, <1>8, <1>9, <1>10, <1>11, <1>12,
       <1>13, <1>14, <1>15, <1>16, <1>17, <1>18, <1>19, <1>20, <1>21, <1>22, <1>23, <1>24,
       <1>25, <1>26, <1>27, <1>28, <1>29, <1>30, <1>31, <1>32, <1>33 DEF Next, Arrive,
       Continue

(* A request that found a booking paid for is right about it until it      *)
(* commits: payments, passes and tenancies are never taken back.           *)
LEMMA PaidRequestStep ==
    ASSUME Core, Served, [Next]_vars, NEW g \in Slots
    PROVE  PaidRequest(g)'
<1> USE DEF Core, Served, Becomes, Done, Free, At, Reads, Exists, Active, rows, log
<1>1. ASSUME NEW h \in Slots, NEW b \in Bookings, NEW day \in Days, CreateBooking(h, b, day)
      PROVE  PaidRequest(g)'
  BY <1>1 DEF PaidRequest, PaidFor, CreateBooking
<1>2. ASSUME NEW h \in Slots, NEW b \in Bookings, NEW day \in Days, ReadForNotice(h, b, day)
      PROVE  PaidRequest(g)'
  BY <1>2 DEF ServedRow, PaidRequest, PaidFor, ReadForNotice
<1>3. ASSUME NEW h \in Slots, NEW b \in Bookings, NEW day \in Days, ReadForCheckOut(h, b, day)
      PROVE  PaidRequest(g)'
  BY <1>3 DEF ServedRow, PaidRequest, PaidFor, ReadForCheckOut
<1>4. ASSUME NEW h \in Slots, NEW b \in Bookings, ReadForCancel(h, b)
      PROVE  PaidRequest(g)'
  BY <1>4 DEF PaidRequest, PaidFor, ReadForCancel
<1>5. ASSUME NEW h \in Slots, NEW b \in Bookings, ReadForDecision(h, b, "approve")
      PROVE  PaidRequest(g)'
  BY <1>5 DEF ServedRow, PaidRequest, PaidFor, Firm, ReadForDecision
<1>6. ASSUME NEW h \in Slots, NEW b \in Bookings, ReadForDecision(h, b, "reject")
      PROVE  PaidRequest(g)'
  BY <1>6 DEF PaidRequest, PaidFor, ReadForDecision
<1>7. ASSUME NEW h \in Slots, NEW b \in Bookings, ReadPass(h, b)
      PROVE  PaidRequest(g)'
  BY <1>7 DEF ServedRow, PaidRequest, PaidFor, Firm, ReadPass
<1>8. ASSUME NEW h \in Slots, NEW e \in Events, DeliverWebhook(h, e)
      PROVE  PaidRequest(g)'
  BY <1>8 DEF PaidRequest, PaidFor, DeliverWebhook
<1>9. ASSUME NEW h \in Slots, NEW b \in Bookings, NEW bed \in Beds, NEW day \in Days,
            ReleaseExpiredHolds(h, b, bed, day)
      PROVE  PaidRequest(g)'
  BY <1>9 DEF PaidRequest, PaidFor, RequestOK, ReleaseExpiredHolds, Swept
<1>10. ASSUME NEW h \in Slots, FindLapsed(h)
      PROVE  PaidRequest(g)'
  BY <1>10 DEF PaidRequest, PaidFor, FindLapsed
<1>11. ASSUME NEW h \in Slots, NEW bed \in Beds, HoldBed(h, bed)
      PROVE  PaidRequest(g)'
  <2>1. req'[h].op = "order" /\ \A k \in Slots \ {h} : req'[k] = req[k]
    BY <1>11 DEF HoldBed, TypeOK, Idle
  <2>2. CASE g = h
    BY <2>1, <2>2 DEF PaidRequest
  <2>3. CASE g # h /\ req[g].op \in {"approve", "redeem", "notice", "checkout"}
    <3>1. req[g].b \in Bookings /\ req[g].b # req[h].b
      BY <1>11, <2>3 DEF HoldBed, RequestOK
    <3>2. /\ Active(req[g].b)' => Active(req[g].b)
          /\ alloc'[req[g].b].kind = alloc[req[g].b].kind
      BY <1>11, <2>1, <2>3, <3>1 DEF HoldBed, Swept, TypeOK, AllocRow
    <3> QED BY <1>11, <2>1, <2>3, <3>1, <3>2 DEF HoldBed, PaidRequest, PaidFor
  <2> QED BY <2>1, <2>2, <2>3 DEF PaidRequest
<1>12. ASSUME NEW h \in Slots, NEW bed \in Beds, HoldBedTaken(h, bed)
      PROVE  PaidRequest(g)'
  <2>1. req'[h].op \in {"idle", "hold"} /\ \A k \in Slots \ {h} : req'[k] = req[k]
    BY <1>12 DEF HoldBedTaken, TypeOK, Request, Idle
  <2> QED BY <1>12, <2>1 DEF HoldBedTaken, PaidRequest, PaidFor
<1>13. ASSUME NEW h \in Slots, NEW bed \in Beds, HoldBedDuplicate(h, bed)
      PROVE  PaidRequest(g)'
  BY <1>13 DEF PaidRequest, PaidFor, Idle, HoldBedDuplicate
<1>14. ASSUME NEW h \in Slots, NEW bed \in Beds, SeatWalkIn(h, bed)
      PROVE  PaidRequest(g)'
  BY <1>14 DEF PaidRequest, PaidFor, Idle, SeatWalkIn
<1>15. ASSUME NEW h \in Slots, NEW bed \in Beds, SeatWalkInTaken(h, bed)
      PROVE  PaidRequest(g)'
  BY <1>15 DEF PaidRequest, PaidFor, Idle, SeatWalkInTaken
<1>16. ASSUME NEW h \in Slots, AttachOrder(h)
      PROVE  PaidRequest(g)'
  BY <1>16 DEF PaidRequest, PaidFor, Idle, AttachOrder
<1>17. ASSUME NEW h \in Slots, RecordEvent(h)
      PROVE  PaidRequest(g)'
  BY <1>17 DEF PaidRequest, PaidFor, RecordEvent
<1>18. ASSUME NEW h \in Slots, DuplicateEvent(h)
      PROVE  PaidRequest(g)'
  BY <1>18 DEF PaidRequest, PaidFor, Idle, DuplicateEvent
<1>19. ASSUME NEW h \in Slots, NEW auto \in AutoConfirm, ApplyCaptured(h, auto)
      PROVE  PaidRequest(g)'
  <2>1. req[h].b \in Bookings
    BY <1>19 DEF ApplyCaptured, RequestOK
  <2>2. req'[h].op = "mark" /\ \A k \in Slots \ {h} : req'[k] = req[k]
    BY <1>19 DEF ApplyCaptured, TypeOK, Request
  <2>3. \A b \in Bookings :
           /\ Active(b)' => Active(b) /\ (alloc'[b].kind = "HOLD" => alloc[b].kind = "HOLD")
           /\ pass[b] # "NONE" => pass'[b] # "NONE"
           /\ tenancy[b].status # "NONE" => tenancy'[b].status # "NONE"
    BY <1>19, <2>1 DEF ApplyCaptured, MarkPaid, OnConfirmed, KindOf, TypeOK, AllocRow
  <2>4. payments \subseteq payments'
    BY <1>19 DEF ApplyCaptured, MarkPaid
  <2>5. CASE g = h
    BY <2>2, <2>5 DEF PaidRequest
  <2>6. CASE g # h
    BY <2>2, <2>3, <2>4, <2>6 DEF PaidRequest, PaidFor, RequestOK
  <2> QED BY <2>5, <2>6
<1>20. ASSUME NEW h \in Slots, ApplyFailed(h)
      PROVE  PaidRequest(g)'
  BY <1>20 DEF PaidRequest, PaidFor, ApplyFailed, ReleaseBooking, ReleasedRow
<1>21. ASSUME NEW h \in Slots, MarkProcessed(h)
      PROVE  PaidRequest(g)'
  BY <1>21 DEF PaidRequest, PaidFor, Idle, MarkProcessed
<1>22. ASSUME NEW h \in Slots, CancelMine(h)
      PROVE  PaidRequest(g)'
  BY <1>22 DEF PaidRequest, PaidFor, Idle, CancelMine, ReleaseBooking, ReleasedRow
<1>23. ASSUME NEW h \in Slots, Approve(h)
      PROVE  PaidRequest(g)'
  <2>1. /\ req' = [req EXCEPT ![h] = Idle] /\ payments' = payments /\ req[h].b \in Bookings
    BY <1>23 DEF Approve, RequestOK
  <2>2. \A b \in Bookings :
           /\ Active(b)' => Active(b) /\ (alloc'[b].kind = "HOLD" => alloc[b].kind = "HOLD")
           /\ pass[b] # "NONE" => pass'[b] # "NONE"
           /\ tenancy[b].status # "NONE" => tenancy'[b].status # "NONE"
    BY <1>23, <2>1 DEF Approve, OnConfirmed, KindOf, TypeOK, AllocRow
  <2>3. CASE g = h
    BY <2>1, <2>3 DEF PaidRequest, Idle, TypeOK
  <2>4. CASE g # h
    <3>1. req'[g] = req[g]
      BY <2>1, <2>4
    <3> QED BY <2>1, <2>2, <3>1 DEF PaidRequest, PaidFor, RequestOK
  <2> QED BY <2>3, <2>4
<1>24. ASSUME NEW h \in Slots, Reject(h)
      PROVE  PaidRequest(g)'
  BY <1>24 DEF PaidRequest, PaidFor, Idle, Reject, ReleaseBooking, ReleasedRow
<1>25. ASSUME NEW h \in Slots, RecordArrival(h)
      PROVE  PaidRequest(g)'
  BY <1>25 DEF PaidRequest, PaidFor, Idle, RecordArrival
<1>26. ASSUME NEW h \in Slots, PassAlreadyUsed(h)
      PROVE  PaidRequest(g)'
  BY <1>26 DEF PaidRequest, PaidFor, Idle, PassAlreadyUsed
<1>27. ASSUME NEW h \in Slots, GiveNotice(h)
      PROVE  PaidRequest(g)'
  BY <1>27 DEF PaidRequest, PaidFor, Idle, GiveNotice, ClosesOn
<1>28. ASSUME NEW h \in Slots, GiveNoticeRefused(h)
      PROVE  PaidRequest(g)'
  BY <1>28 DEF PaidRequest, PaidFor, Idle, GiveNoticeRefused
<1>29. ASSUME NEW h \in Slots, CheckOut(h)
      PROVE  PaidRequest(g)'
  BY <1>29 DEF PaidRequest, PaidFor, Idle, CheckOut, ReleasedRow
<1>30. ASSUME NEW h \in Slots, NEW x \in Bookings \X Pending, ExpireLapsed(h, x)
      PROVE  PaidRequest(g)'
  <2>1. req'[h].op \in {"idle", "expire"} /\ \A k \in Slots \ {h} : req'[k] = req[k]
    BY <1>30 DEF ExpireLapsed, TypeOK, Request, Idle
  <2>2. \A b \in Bookings : Active(b)' => Active(b) /\ alloc'[b].kind = alloc[b].kind
    BY <1>30 DEF ExpireLapsed, ReleaseBooking, ReleasedRow
  <2>3. CASE g = h
    BY <2>1, <2>3 DEF PaidRequest
  <2>4. CASE g # h
    BY <1>30, <2>1, <2>2, <2>4 DEF ExpireLapsed, ReleaseBooking, PaidRequest, PaidFor
  <2> QED BY <2>3, <2>4
<1>31. ASSUME NEW h \in Slots, Fail(h)
      PROVE  PaidRequest(g)'
  BY <1>31 DEF PaidRequest, PaidFor, Idle, Fail
<1>32. ASSUME NEW b \in Bookings, Lapse(b)
      PROVE  PaidRequest(g)'
  BY <1>32 DEF PaidRequest, PaidFor, Lapse
<1>33. CASE UNCHANGED vars
  BY <1>33 DEF PaidRequest, PaidFor, vars
<1> QED BY <1>1, <1>2, <1>3, <1>4, <1>5, <1>6, <1>7, <1>8, <1>9, <1>10, <1>11, <1>12,
       <1>13, <1>14, <1>15, <1>16, <1>17, <1>18, <1>19, <1>20, <1>21, <1>22, <1>23, <1>24,
       <1>25, <1>26, <1>27, <1>28, <1>29, <1>30, <1>31, <1>32, <1>33 DEF Next, Arrive,
       Continue

(* An empty database serves nobody. *)
LEMMA InitServed == Init => Served
BY DEF Init, Served, ServedRow, PaidRequest, PaidFor, Active, NoAlloc, NoBooking, NoTenancy,
       Idle, Firm

(* The rows agree with each other and with what is still to be done to     *)
(* them, in every reachable state.                                         *)
THEOREM ServedInvariant == Spec => []Served
<1>1. Core /\ Served /\ [Next]_vars => Served'
  BY ServedRowStep, PaidRequestStep DEF Served
<1> QED BY CoreInvariant, InitServed, <1>1, PTL DEF Spec

(* BR-012 and BR-019: an active claim belongs to a checkout under way or   *)
(* to a booking that was paid for or seated and is not over.               *)
THEOREM NoBedStranded == Spec => []NoStrandedClaim
<1>1. Served => NoStrandedClaim
  BY DEF Served, ServedRow, NoStrandedClaim
<1> QED BY ServedInvariant, <1>1, PTL

(* Whatever races with whatever, an online booking that got past checkout  *)
(* was paid for, and a confirmed one has its pass and its tenancy.         *)
THEOREM ConfirmedBookingIsReady == Spec => []ConfirmedIsReady
<1>1. Served => ConfirmedIsReady
  BY DEF Served, ServedRow, ConfirmedIsReady, Bookings
<1> QED BY ServedInvariant, <1>1, PTL

(***************************************************************************)
(* No notification is recorded and then forgotten                          *)
(***************************************************************************)

(* A request that has recorded an event goes on with it until the event is *)
(* marked, unless it dies.                                                 *)
LEMMA HandlerGoesOn ==
    ASSUME Core, [Next]_vars, NEW h \in Slots, req[h].op \in {"apply", "mark"}
    PROVE  \/ req'[h].op \in {"apply", "mark"} /\ req'[h].ev = req[h].ev
           \/ req[h].ev.id \in processed'
           \/ \E g \in Slots : Fail(g)
<1>1. req \in [Slots -> Request] /\ req[h] \in Request
  BY DEF Core, TypeOK
<1>2. ASSUME NEW g \in Slots, NEW r, Becomes(g, r), g # h PROVE req'[h] = req[h]
  BY <1>1, <1>2 DEF Becomes
<1>3. ASSUME NEW g \in Slots, Arrive(g) \/ FindLapsed(g) PROVE req'[h] = req[h]
  <2>1. g # h /\ \E r : Becomes(g, r)
    BY <1>3 DEF Arrive, FindLapsed, Free, Reads, CreateBooking, ReadForNotice, ReadForCheckOut,
       ReadForCancel, ReadForDecision, ReadPass, DeliverWebhook, ReleaseExpiredHolds
  <2> QED BY <1>2, <2>1
<1>4. ASSUME NEW g \in Slots, Done(g) \/ (\E r : Becomes(g, r)), req[g].op \notin {"apply", "mark"}
      PROVE  req'[h] = req[h]
  BY <1>2, <1>4 DEF Done
<1>5. ASSUME NEW g \in Slots,
             \/ \E bed \in Beds : \/ HoldBed(g, bed) \/ HoldBedTaken(g, bed) \/ HoldBedDuplicate(g, bed)
                                  \/ SeatWalkIn(g, bed) \/ SeatWalkInTaken(g, bed)
             \/ AttachOrder(g) \/ RecordEvent(g) \/ DuplicateEvent(g)
      PROVE  req'[h] = req[h]
  <2>1. (Done(g) \/ \E r : Becomes(g, r)) /\ req[g].op \notin {"apply", "mark"}
    BY <1>5 DEF At, Reads, HoldBed, HoldBedTaken, HoldBedDuplicate, SeatWalkIn, SeatWalkInTaken,
       AttachOrder, RecordEvent, DuplicateEvent
  <2> QED BY <1>4, <2>1
<1>6. ASSUME NEW g \in Slots,
             \/ CancelMine(g) \/ Approve(g) \/ Reject(g) \/ RecordArrival(g) \/ PassAlreadyUsed(g)
             \/ GiveNotice(g) \/ GiveNoticeRefused(g) \/ CheckOut(g)
             \/ \E x \in Bookings \X Pending : ExpireLapsed(g, x)
      PROVE  req'[h] = req[h]
  <2>1. (Done(g) \/ \E r : Becomes(g, r)) /\ req[g].op \notin {"apply", "mark"}
    BY <1>6 DEF At, CancelMine, Approve, Reject, RecordArrival, PassAlreadyUsed, GiveNotice,
       GiveNoticeRefused, CheckOut, ExpireLapsed
  <2> QED BY <1>4, <2>1
<1>7. ASSUME NEW g \in Slots, ApplyFailed(g) \/ \E auto \in AutoConfirm : ApplyCaptured(g, auto)
      PROVE  req'[h].op \in {"apply", "mark"} /\ req'[h].ev = req[h].ev
  <2>1. Becomes(g, [req[g] EXCEPT !.op = "mark"])
    BY <1>7 DEF ApplyFailed, ApplyCaptured
  <2>2. CASE g = h
    BY <1>1, <2>1, <2>2 DEF Becomes, Request
  <2> QED BY <1>2, <2>1, <2>2
<1>8. ASSUME NEW g \in Slots, MarkProcessed(g) PROVE req'[h] = req[h] \/ req[h].ev.id \in processed'
  BY <1>2, <1>8 DEF MarkProcessed, Done
<1>9. CASE (\E b \in Bookings : Lapse(b)) \/ UNCHANGED vars
  BY <1>9 DEF Lapse, vars
<1> QED BY <1>3, <1>5, <1>6, <1>7, <1>8, <1>9 DEF Next, Continue

(* Only a webhook request records an event and marks one, and goes on to   *)
(* handle what it recorded.                                                *)
LEMMA WhoRecords ==
    ASSUME Core, [Next]_vars
    PROVE  /\ processed \subseteq processed'
           /\ \A id \in events' \ events :
                 \E h \in Slots : req'[h].op = "apply" /\ req'[h].ev.id = id
<1>1. req \in [Slots -> Request]
  BY DEF Core, TypeOK
<1>2. ASSUME NEW h \in Slots, RecordEvent(h)
      PROVE  \A id \in events' \ events : req'[h].op = "apply" /\ req'[h].ev.id = id
  BY <1>1, <1>2 DEF RecordEvent, Becomes, Request
<1>3. ASSUME NEW h \in Slots, MarkProcessed(h) PROVE events' = events /\ processed \subseteq processed'
  BY <1>3 DEF MarkProcessed
<1>4. ASSUME NEW h \in Slots, Arrive(h) \/ FindLapsed(h) \/ Fail(h)
      PROVE  UNCHANGED <<events, processed>>
  BY <1>4 DEF Arrive, FindLapsed, Fail, CreateBooking, ReadForNotice, ReadForCheckOut, ReadForCancel,
     ReadForDecision, ReadPass, DeliverWebhook, ReleaseExpiredHolds, log
<1>5. ASSUME NEW h \in Slots, Continue(h), ~RecordEvent(h), ~MarkProcessed(h)
      PROVE  UNCHANGED <<events, processed>>
  BY <1>5 DEF Continue, HoldBed, HoldBedTaken, HoldBedDuplicate, SeatWalkIn, SeatWalkInTaken, AttachOrder,
     DuplicateEvent, ApplyCaptured, ApplyFailed, CancelMine, Approve, Reject, RecordArrival,
     PassAlreadyUsed, GiveNotice, GiveNoticeRefused, CheckOut, ExpireLapsed, log
<1>6. CASE (\E b \in Bookings : Lapse(b)) \/ UNCHANGED vars
  BY <1>6 DEF Lapse, vars, log
<1>7. ASSUME NEW h \in Slots, RecordEvent(h) PROVE processed' = processed
  BY <1>7 DEF RecordEvent
<1> QED BY <1>2, <1>3, <1>4, <1>5, <1>6, <1>7 DEF Next

(* EC-13: as long as no request dies between two of its steps, an event    *)
(* that was recorded is marked or has somebody at it, however deliveries   *)
(* are repeated, reordered or handled at once.  What a death costs is one  *)
(* of the hazards the README lists.                                        *)
THEOREM RecordedIsHandledUnlessSomebodyDies == Spec => [](failures = 0 => RecordedEventIsHandled)
<1>1. Init => (failures = 0 => RecordedEventIsHandled)
  BY DEF Init, RecordedEventIsHandled
<1>2. Core /\ [Next]_vars /\ (failures = 0 => RecordedEventIsHandled)
        => (failures = 0 => RecordedEventIsHandled)'
  <2> SUFFICES ASSUME Core, [Next]_vars, failures = 0 => RecordedEventIsHandled, failures' = 0,
                      NEW id \in events' \ processed'
               PROVE  \E h \in Slots : req'[h].op \in {"apply", "mark"} /\ req'[h].ev.id = id
    BY DEF RecordedEventIsHandled
  <2>1. failures = 0 /\ ~\E g \in Slots : Fail(g)
    <3>1. failures \in Nat
      BY RowsOK DEF Core, TypeOK, RowsAssumption
    <3>2. \A h \in Slots : Fail(h) => failures' = failures + 1
      BY DEF Fail
    <3>3. ASSUME NEW h \in Slots, Arrive(h) \/ FindLapsed(h) PROVE failures' = failures
      BY <3>3 DEF Arrive, FindLapsed, CreateBooking, ReadForNotice, ReadForCheckOut, ReadForCancel,
         ReadForDecision, ReadPass, DeliverWebhook, ReleaseExpiredHolds
    <3>4. ASSUME NEW h \in Slots, Continue(h) PROVE failures' = failures
      BY <3>4 DEF Continue, HoldBed, HoldBedTaken, HoldBedDuplicate, SeatWalkIn, SeatWalkInTaken,
         AttachOrder, RecordEvent, DuplicateEvent, ApplyCaptured, ApplyFailed, MarkProcessed, CancelMine,
         Approve, Reject, RecordArrival, PassAlreadyUsed, GiveNotice, GiveNoticeRefused, CheckOut,
         ExpireLapsed
    <3>5. ASSUME (\E b \in Bookings : Lapse(b)) \/ UNCHANGED vars PROVE failures' = failures
      BY <3>5 DEF Lapse, vars
    <3>6. failures' = failures \/ failures' = failures + 1
      BY <3>2, <3>3, <3>4, <3>5 DEF Next
    <3> QED BY <3>1, <3>2, <3>6
  <2>2. CASE id \in events
    <3>1. id \notin processed
      BY WhoRecords
    <3>2. PICK h \in Slots : req[h].op \in {"apply", "mark"} /\ req[h].ev.id = id
      BY <2>1, <2>2, <3>1 DEF RecordedEventIsHandled
    <3> QED BY <2>1, <3>2, HandlerGoesOn
  <2>3. CASE id \notin events
    BY <2>3, WhoRecords
  <2> QED BY <2>2, <2>3
<1> QED BY <1>1, <1>2, CoreInvariant, PTL DEF Spec

(***************************************************************************)
(* Requests that overlap: what no order of theirs takes from a tenant      *)
(***************************************************************************)

(* A checkout under way has a hold and no tenancy yet, and a notice has    *)
(* reached the claim, unless a repeated payment changed its kind first.    *)
KeptRow(b) ==
    /\ booking[b].status = "PENDING_PAYMENT" =>
          b \in OnlineKeys /\ alloc[b].kind = "HOLD" /\ tenancy[b].status = "NONE"
    /\ Active(b) => alloc[b].kind # "NONE"
    /\ tenancy[b].status = "NOTICE_GIVEN" /\ Active(b) =>
          alloc[b].end = tenancy[b].end \/ alloc[b].kind = "BOOKING"

(* The step of PaidBedGoesWithItsBooking and of OccupancyBeginsOnce, for   *)
(* one booking.                                                            *)
StepKeeps(b) ==
    /\ ~LostBed(b) /\ LostBed(b)' => booking[b].status \in Closed \/ tenancy[b].status = "ENDED"
    /\ tenancy[b].status # "NONE" =>
          /\ pass'[b] # pass[b] => pass[b] = "LIVE" /\ pass'[b] = "USED"
          /\ tenancy'[b].status = "ACTIVE" => tenancy'[b] = tenancy[b]

(* A booking whose status, tenancy and pass stay is as well off as before, *)
(* also when its lapsed hold is swept.                                     *)
LEMMA StaysKept ==
    ASSUME NEW c \in Bookings, KeptRow(c), booking'[c].status = booking[c].status,
           tenancy'[c] = tenancy[c], pass'[c] = pass[c],
           \/ alloc'[c] = alloc[c]
           \/ alloc[c].kind = "HOLD" /\ alloc'[c] = [alloc[c] EXCEPT !.status = "RELEASED"],
           alloc[c] \in AllocRow
    PROVE  KeptRow(c)' /\ StepKeeps(c)
<1>1. alloc'[c].kind = alloc[c].kind /\ alloc'[c].end = alloc[c].end /\ (Active(c)' => Active(c))
  BY DEF AllocRow, Active
<1>2. Active(c) /\ ~Active(c)' => alloc[c].kind = "HOLD"
  BY DEF Active
<1> QED BY <1>1, <1>2 DEF KeptRow, StepKeeps, LostBed

(* A booking that is closed, by whoever and from whatever state.           *)
LEMMA ReleasedKept ==
    ASSUME TypeOK, NEW b \in Bookings, NEW to \in Closed, ReleaseBooking(b, to),
           NEW c \in Bookings, KeptRow(c)
    PROVE  KeptRow(c)' /\ StepKeeps(c)
<1>1. /\ booking'[b].status = to /\ alloc'[b] = ReleasedRow(alloc[b])
      /\ tenancy' = tenancy /\ pass' = pass
      /\ \A d \in Bookings \ {b} : booking'[d] = booking[d] /\ alloc'[d] = alloc[d]
  BY DEF TypeOK, ReleaseBooking, BookingRow
<1>2. ~Active(b)' /\ to \notin Firm /\ to # "PENDING_PAYMENT"
  BY <1>1 DEF ReleasedRow, Active, TypeOK, AllocRow, Closed, Firm
<1>3. CASE c # b
  BY <1>1, <1>3, StaysKept DEF TypeOK
<1>4. CASE c = b
  BY <1>1, <1>2, <1>4 DEF KeptRow, StepKeeps, LostBed
<1> QED BY <1>3, <1>4

(* A new claim, of a checkout or of a walk-in.                             *)
LEMMA ClaimKept ==
    ASSUME Core, NEW h \in Slots, NEW bed \in Beds, HoldBed(h, bed) \/ SeatWalkIn(h, bed),
           NEW c \in Bookings, KeptRow(c)
    PROVE  KeptRow(c)' /\ StepKeeps(c)
<1> DEFINE b == req[h].b
<1>1. /\ b \in Bookings /\ ~Exists(b) /\ alloc[c] \in AllocRow /\ booking[c] \in BookingRow
      /\ RowOK(b) /\ (HoldBed(h, bed) => b \in OnlineKeys) /\ pass' = pass
  BY DEF Core, TypeOK, RequestOK, HoldBed, SeatWalkIn, At
<1>2. booking[b].status = "NONE" /\ tenancy[b].status = "NONE"
  BY <1>1 DEF RowOK, Exists
<1>3. CASE c # b
  <2>1. booking'[c].status = booking[c].status /\ tenancy'[c] = tenancy[c]
    BY <1>1, <1>3 DEF HoldBed, SeatWalkIn, Core, TypeOK
  <2>2. \/ alloc'[c] = alloc[c]
        \/ alloc[c].kind = "HOLD" /\ alloc'[c] = [alloc[c] EXCEPT !.status = "RELEASED"]
    BY <1>1, <1>3 DEF HoldBed, SeatWalkIn, Swept, LapsedHold, Core, TypeOK
  <2> QED BY <1>1, <2>1, <2>2, StaysKept
<1>4. CASE c = b /\ HoldBed(h, bed)
  <2>1. /\ booking'[b].status = "PENDING_PAYMENT" /\ tenancy' = tenancy
        /\ alloc'[b] = [status |-> "ACTIVE", kind |-> "HOLD", end |-> Forever]
    BY <1>1, <1>4 DEF HoldBed, Core, TypeOK, Swept
  <2> QED BY <1>1, <1>2, <1>4, <2>1 DEF KeptRow, StepKeeps, LostBed, Firm, Active
<1>5. CASE c = b /\ SeatWalkIn(h, bed)
  <2>1. /\ booking'[b].status = "CHECKED_IN" /\ tenancy'[b].status = "ACTIVE"
        /\ alloc'[b] = [status |-> "ACTIVE", kind |-> "TENANCY", end |-> Forever]
    BY <1>1, <1>5 DEF SeatWalkIn, Core, TypeOK
  <2> QED BY <1>2, <1>5, <2>1 DEF KeptRow, StepKeeps, LostBed, Active
<1> QED BY <1>3, <1>4, <1>5

(* A payment or an approval, however late: it makes the booking firm,      *)
(* keeps the claim as active as it was, and begins a tenancy only where    *)
(* there is none.                                                          *)
LEMMA PaidIsConfirmed ==
    ASSUME Core, NEW h \in Slots, Approve(h) \/ \E auto \in AutoConfirm : ApplyCaptured(h, auto)
    PROVE  \E b \in Bookings :
              /\ Exists(b) /\ booking'[b].status \in Firm
              /\ \A d \in Bookings \ {b} : /\ booking'[d] = booking[d] /\ alloc'[d] = alloc[d]
                                           /\ tenancy'[d] = tenancy[d] /\ pass'[d] = pass[d]
              /\ alloc'[b].end = alloc[b].end /\ (Active(b)' <=> Active(b))
              /\ ~Active(b) => alloc'[b] = alloc[b]
              /\ Active(b) => alloc'[b].kind \in {alloc[b].kind, "BOOKING", "TENANCY"}
              /\ \/ /\ tenancy'[b] = tenancy[b] /\ pass'[b] = pass[b]
                    /\ alloc'[b].kind \in {alloc[b].kind, "BOOKING"}
                 \/ /\ tenancy[b].status = "NONE"
                    /\ tenancy'[b] = [status |-> "ACTIVE", end |-> Forever]
<1> PICK b : b = req[h].b
  OBVIOUS
<1>1. b \in Bookings /\ Exists(b)
  BY DEF Approve, ApplyCaptured, At, Core, RequestOK
<1>2. /\ booking \in [Bookings -> BookingRow] /\ alloc \in [Bookings -> AllocRow]
      /\ tenancy \in [Bookings -> TenancyRow] /\ alloc[b] \in AllocRow
      /\ pass \in [Bookings -> {"NONE", "LIVE", "USED"}]
  BY <1>1 DEF Core, TypeOK
<1>3. PICK a : /\ a \in {alloc[b], KindOf(alloc[b], "BOOKING")}
               /\ \/ OnConfirmed(b, a) /\ booking' = [booking EXCEPT ![b].status = "CONFIRMED",
                                                                     ![b].window = "off"]
                  \/ /\ alloc' = [alloc EXCEPT ![b] = a] /\ UNCHANGED <<tenancy, pass>>
                     /\ booking' = [booking EXCEPT ![b].status = "PENDING_APPROVAL",
                                                   ![b].window = "open"]
  <2>1. CASE Approve(h)
    BY <2>1 DEF Approve
  <2>2. CASE ~Approve(h)
    BY <2>2 DEF ApplyCaptured, MarkPaid
  <2> QED BY <2>1, <2>2
<1>4. /\ a \in AllocRow /\ a.status = alloc[b].status /\ a.end = alloc[b].end
      /\ a.kind \in {alloc[b].kind, "BOOKING"}
      /\ alloc[b].status # "ACTIVE" => a = alloc[b]
  BY <1>2, <1>3 DEF KindOf, AllocRow
<1>5. /\ booking'[b].status \in Firm
      /\ \A d \in Bookings \ {b} : booking'[d] = booking[d]
  BY <1>1, <1>2, <1>3 DEF BookingRow, Firm
<1>6. CASE /\ alloc' = [alloc EXCEPT ![b] = a] /\ UNCHANGED <<tenancy, pass>>
  <2>1. alloc'[b] = a /\ \A d \in Bookings \ {b} : alloc'[d] = alloc[d]
    BY <1>1, <1>2, <1>6
  <2> QED BY <1>1, <1>4, <1>5, <1>6, <2>1 DEF Active
<1>7. CASE /\ tenancy[b].status = "NONE" /\ OnConfirmed(b, a)
  <2>1. /\ alloc' = [alloc EXCEPT ![b] = KindOf(a, "TENANCY")]
        /\ tenancy' = [tenancy EXCEPT ![b] = [status |-> "ACTIVE", end |-> Forever]]
        /\ pass' = [pass EXCEPT ![b] = "LIVE"]
    BY <1>7 DEF OnConfirmed
  <2>2. /\ alloc'[b] = KindOf(a, "TENANCY") /\ tenancy'[b] = [status |-> "ACTIVE", end |-> Forever]
        /\ \A d \in Bookings \ {b} : /\ alloc'[d] = alloc[d] /\ tenancy'[d] = tenancy[d]
                                     /\ pass'[d] = pass[d]
    BY <1>1, <1>2, <2>1
  <2>3. /\ KindOf(a, "TENANCY").status = a.status /\ KindOf(a, "TENANCY").end = a.end
        /\ a.status = "ACTIVE" => KindOf(a, "TENANCY").kind = "TENANCY"
        /\ a.status # "ACTIVE" => KindOf(a, "TENANCY") = a
    BY <1>4 DEF KindOf, AllocRow
  <2> QED BY <1>1, <1>4, <1>5, <1>7, <2>2, <2>3 DEF Active
<1> QED BY <1>3, <1>6, <1>7 DEF OnConfirmed

(* Whoever is made firm after the bed was taken had been closed.           *)
LEMMA FirmKept ==
    ASSUME Core, NEW h \in Slots, Approve(h) \/ \E auto \in AutoConfirm : ApplyCaptured(h, auto),
           NEW c \in Bookings, KeptRow(c)
    PROVE  KeptRow(c)' /\ StepKeeps(c)
<1>1. PICK b \in Bookings :
              /\ Exists(b) /\ booking'[b].status \in Firm
              /\ \A d \in Bookings \ {b} : /\ booking'[d] = booking[d] /\ alloc'[d] = alloc[d]
                                           /\ tenancy'[d] = tenancy[d] /\ pass'[d] = pass[d]
              /\ alloc'[b].end = alloc[b].end /\ (Active(b)' <=> Active(b))
              /\ ~Active(b) => alloc'[b] = alloc[b]
              /\ Active(b) => alloc'[b].kind \in {alloc[b].kind, "BOOKING", "TENANCY"}
              /\ \/ /\ tenancy'[b] = tenancy[b] /\ pass'[b] = pass[b]
                    /\ alloc'[b].kind \in {alloc[b].kind, "BOOKING"}
                 \/ /\ tenancy[b].status = "NONE"
                    /\ tenancy'[b] = [status |-> "ACTIVE", end |-> Forever]
  BY PaidIsConfirmed
<1>2. alloc[c] \in AllocRow /\ booking[c] \in BookingRow
  BY DEF Core, TypeOK
<1>3. CASE c # b
  BY <1>1, <1>2, <1>3, StaysKept
<1>4. CASE c = b
  <2>1. KeptRow(b)'
    BY <1>1, <1>4 DEF KeptRow, Firm
  <2>2. ~LostBed(b) /\ LostBed(b)' => booking[b].status \in Closed \/ tenancy[b].status = "ENDED"
    <3>1. booking[b].status \in {"PENDING_PAYMENT"} \union Firm \union Closed
      BY <1>1, <1>2, <1>4 DEF BookingRow, BookingStatus, Exists
    <3> QED BY <1>1, <1>4, <3>1 DEF KeptRow, LostBed
  <2> QED BY <1>1, <1>4, <2>1, <2>2 DEF StepKeeps
<1> QED BY <1>3, <1>4

(* The tenant arrives, gives notice and leaves.                            *)
LEMMA StayKept ==
    ASSUME Core, Served, NEW h \in Slots, RecordArrival(h) \/ GiveNotice(h) \/ CheckOut(h),
           NEW c \in Bookings, KeptRow(c)
    PROVE  KeptRow(c)' /\ StepKeeps(c)
<1> PICK b : b = req[h].b
  OBVIOUS
<1>1. b \in Bookings /\ Exists(b)
  BY DEF RecordArrival, GiveNotice, CheckOut, At, Core, RequestOK
<1>2. /\ booking \in [Bookings -> BookingRow] /\ alloc \in [Bookings -> AllocRow]
      /\ tenancy \in [Bookings -> TenancyRow] /\ alloc[c] \in AllocRow
      /\ booking[b] \in BookingRow /\ alloc[b] \in AllocRow
      /\ pass \in [Bookings -> {"NONE", "LIVE", "USED"}]
  BY <1>1 DEF Core, TypeOK
<1>3. CASE c # b
  <2>1. /\ booking'[c].status = booking[c].status /\ tenancy'[c] = tenancy[c]
        /\ alloc'[c] = alloc[c] /\ pass'[c] = pass[c]
    BY <1>1, <1>2, <1>3 DEF RecordArrival, GiveNotice, CheckOut
  <2> QED BY <1>2, <2>1, StaysKept
<1>4. ASSUME c = b PROVE booking[b].status # "PENDING_PAYMENT" \/ RecordArrival(h)
  <2>1. b \in OnlineKeys /\ (GiveNotice(h) \/ CheckOut(h)) => tenancy[b].status # "NONE"
    BY DEF GiveNotice, CheckOut, At, Served, PaidRequest
  <2> QED BY <1>4, <2>1 DEF KeptRow
<1>5. ASSUME c = b, RecordArrival(h) PROVE KeptRow(b)' /\ StepKeeps(b)
  <2>1. /\ booking'[b].status = "CHECKED_IN" /\ alloc' = alloc /\ tenancy' = tenancy
        /\ pass[b] = "LIVE" /\ pass'[b] = "USED"
    BY <1>1, <1>2, <1>5 DEF RecordArrival, BookingRow
  <2>2. booking[b].status \in {"PENDING_PAYMENT"} \union Firm \union Closed
    BY <1>1, <1>2 DEF BookingRow, BookingStatus, Exists
  <2> QED BY <1>5, <2>1, <2>2 DEF KeptRow, StepKeeps, LostBed, Active
<1>6. ASSUME c = b, GiveNotice(h) PROVE KeptRow(b)' /\ StepKeeps(b)
  <2>1. /\ tenancy'[b] = [status |-> "NOTICE_GIVEN", end |-> req[h].day] /\ booking' = booking
        /\ alloc'[b] = ClosesOn(alloc[b], req[h].day) /\ pass' = pass
    BY <1>1, <1>2, <1>6 DEF GiveNotice
  <2>2. Active(b) => alloc[b].kind \in {"BOOKING", "TENANCY"}
    <3>1. ServedRow(b) /\ ~RecordArrival(h)
      BY <1>1, <1>6 DEF Served, GiveNotice, RecordArrival, At
    <3>2. booking[b].status # "PENDING_PAYMENT"
      BY <1>4, <1>6, <3>1
    <3> QED BY <1>2, <1>6, <3>1, <3>2 DEF ServedRow, KeptRow, AllocRow
  <2>3. /\ alloc'[b].status = alloc[b].status /\ alloc'[b].kind = alloc[b].kind
        /\ Active(b) /\ alloc[b].kind = "TENANCY" => alloc'[b].end = req[h].day
    BY <1>2, <2>1 DEF ClosesOn, AllocRow, Active
  <2>4. booking[b].status # "PENDING_PAYMENT"
    <3>1. ~RecordArrival(h)
      BY <1>6 DEF GiveNotice, RecordArrival, At
    <3> QED BY <1>4, <1>6, <3>1
  <2>5. KeptRow(b)'
    BY <1>6, <2>1, <2>2, <2>3, <2>4 DEF KeptRow, Active
  <2> QED BY <2>1, <2>3, <2>5 DEF StepKeeps, LostBed, Active
<1>7. ASSUME c = b, CheckOut(h) PROVE KeptRow(b)' /\ StepKeeps(b)
  <2>1. /\ tenancy'[b].status = "ENDED" /\ booking' = booking /\ alloc'[b] = ReleasedRow(alloc[b])
        /\ pass' = pass
    BY <1>1, <1>2, <1>7 DEF CheckOut
  <2>2. ~Active(b)'
    BY <1>2, <2>1 DEF ReleasedRow, AllocRow, Active
  <2>3. booking[b].status # "PENDING_PAYMENT"
    <3>1. ~RecordArrival(h)
      BY <1>7 DEF CheckOut, RecordArrival, At
    <3> QED BY <1>4, <1>7, <3>1
  <2> QED BY <2>1, <2>2, <2>3 DEF KeptRow, StepKeeps, LostBed
<1> QED BY <1>3, <1>5, <1>6, <1>7

(* Every step, whatever it was decided on.                                 *)
LEMMA KeptStep ==
    ASSUME Core, Served, [Next]_vars, NEW c \in Bookings, KeptRow(c)
    PROVE  KeptRow(c)' /\ StepKeeps(c)
<1>1. /\ booking \in [Bookings -> BookingRow] /\ alloc[c] \in AllocRow /\ TypeOK
  BY DEF Core, TypeOK
<1>2. ASSUME UNCHANGED <<alloc, tenancy, pass>>, booking'[c].status = booking[c].status
      PROVE  KeptRow(c)' /\ StepKeeps(c)
  BY <1>1, <1>2, StaysKept
<1>3. ASSUME NEW h \in Slots, Arrive(h) \/ FindLapsed(h) \/ Fail(h) PROVE KeptRow(c)' /\ StepKeeps(c)
  <2>1. CASE \E b \in Bookings, bed \in Beds, day \in Days : ReleaseExpiredHolds(h, b, bed, day)
    <3>1. PICK bed \in Beds : /\ alloc' = Swept(bed)
                              /\ UNCHANGED <<booking, tenancy, pass>>
      BY <2>1 DEF ReleaseExpiredHolds
    <3>2. \/ alloc'[c] = alloc[c]
          \/ alloc[c].kind = "HOLD" /\ alloc'[c] = [alloc[c] EXCEPT !.status = "RELEASED"]
      BY <3>1 DEF Swept, LapsedHold
    <3> QED BY <1>1, <3>1, <3>2, StaysKept
  <2>2. CASE ~\E b \in Bookings, bed \in Beds, day \in Days : ReleaseExpiredHolds(h, b, bed, day)
    <3>1. UNCHANGED <<booking, alloc, tenancy, pass>>
      BY <1>3, <2>2 DEF Arrive, CreateBooking, ReadForNotice, ReadForCheckOut, ReadForCancel,
         ReadForDecision, ReadPass, DeliverWebhook, FindLapsed, Fail, rows
    <3> QED BY <1>2, <3>1
  <2> QED BY <2>1, <2>2
<1>4. ASSUME NEW h \in Slots, Continue(h) PROVE KeptRow(c)' /\ StepKeeps(c)
  <2>1. CASE \E bed \in Beds : HoldBed(h, bed) \/ SeatWalkIn(h, bed)
    BY <2>1, ClaimKept
  <2>2. CASE \/ ApplyFailed(h) \/ CancelMine(h) \/ Reject(h)
             \/ \E x \in Bookings \X Pending : ExpireLapsed(h, x)
    <3>1. PICK b \in Bookings, to \in Closed : ReleaseBooking(b, to)
      <4>1. CASE ApplyFailed(h) \/ CancelMine(h) \/ Reject(h)
        BY <4>1 DEF ApplyFailed, CancelMine, Reject, At, Core, RequestOK, Closed
      <4>2. CASE \E x \in Bookings \X Pending : ExpireLapsed(h, x)
        BY <4>2 DEF ExpireLapsed, Expiry, Closed
      <4> QED BY <2>2, <4>1, <4>2
    <3> QED BY <1>1, <3>1, ReleasedKept
  <2>3. CASE Approve(h) \/ \E auto \in AutoConfirm : ApplyCaptured(h, auto)
    BY <2>3, FirmKept
  <2>4. CASE RecordArrival(h) \/ GiveNotice(h) \/ CheckOut(h)
    BY <2>4, StayKept
  <2>5. CASE AttachOrder(h)
    <3>1. UNCHANGED <<alloc, tenancy, pass>> /\ booking'[c].status = booking[c].status
      BY <1>1, <2>5 DEF AttachOrder, BookingRow
    <3> QED BY <1>2, <3>1
  <2>6. CASE \/ \E bed \in Beds : \/ HoldBedTaken(h, bed) \/ HoldBedDuplicate(h, bed)
                                  \/ SeatWalkInTaken(h, bed)
             \/ RecordEvent(h) \/ DuplicateEvent(h) \/ MarkProcessed(h)
             \/ PassAlreadyUsed(h) \/ GiveNoticeRefused(h)
    <3>1. UNCHANGED <<booking, alloc, tenancy, pass>>
      BY <2>6 DEF HoldBedTaken, HoldBedDuplicate, SeatWalkInTaken, RecordEvent, DuplicateEvent,
         MarkProcessed, PassAlreadyUsed, GiveNoticeRefused, rows
    <3> QED BY <1>2, <3>1
  <2> QED BY <1>4, <2>1, <2>2, <2>3, <2>4, <2>5, <2>6 DEF Continue
<1>5. ASSUME NEW b \in Bookings, Lapse(b) PROVE KeptRow(c)' /\ StepKeeps(c)
  <2>1. UNCHANGED <<alloc, tenancy, pass>> /\ booking'[c].status = booking[c].status
    BY <1>1, <1>5 DEF Lapse, BookingRow
  <2> QED BY <1>2, <2>1
<1>6. CASE UNCHANGED vars
  BY <1>2, <1>6 DEF vars
<1> QED BY <1>3, <1>4, <1>5, <1>6 DEF Next

(* What the rows know of each other, whatever overlaps.                    *)
THEOREM RowsAreKept == Spec => [](\A b \in Bookings : KeptRow(b))
<1> DEFINE Kept == \A b \in Bookings : KeptRow(b)
<1>1. Init => Kept
  BY DEF Init, KeptRow, Active, NoBooking, NoAlloc, NoTenancy
<1>2. Core /\ Served /\ Kept /\ [Next]_vars => Kept'
  BY KeptStep
<1> QED BY <1>1, <1>2, CoreInvariant, ServedInvariant, PTL DEF Spec

(* markPaid keeps the bed off the market: no sweep, lapse, walk-in, other  *)
(* checkout or repeated payment takes a bed that was paid for, in any      *)
(* order of any number of requests.  Where one is missing the booking had  *)
(* been closed, or the tenancy had ended, and was brought back.            *)
THEOREM PaidBedIsNotTaken == Spec => PaidBedGoesWithItsBooking
<1> DEFINE Kept == \A b \in Bookings : KeptRow(b)
<1>1. ASSUME Core, Served, Kept, [Next]_vars
      PROVE  [\A b \in Bookings : ~LostBed(b) /\ LostBed(b)' =>
                 booking[b].status \in Closed \/ tenancy[b].status = "ENDED"]_vars
  BY <1>1, KeptStep DEF StepKeeps
<1> QED BY <1>1, CoreInvariant, ServedInvariant, RowsAreKept, PTL
        DEF Spec, PaidBedGoesWithItsBooking

(* onConfirmed gives out one pass and begins one tenancy, however often    *)
(* and from wherever the booking is confirmed.                             *)
THEOREM OneOccupancyEach == Spec => OccupancyBeginsOnce
<1> DEFINE Kept == \A b \in Bookings : KeptRow(b)
<1>1. ASSUME Core, Served, Kept, [Next]_vars
      PROVE  [\A b \in Bookings : tenancy[b].status # "NONE" =>
                 /\ pass'[b] # pass[b] => pass[b] = "LIVE" /\ pass'[b] = "USED"
                 /\ tenancy'[b].status = "ACTIVE" => tenancy'[b] = tenancy[b]]_vars
  BY <1>1, KeptStep DEF StepKeeps
<1> QED BY <1>1, CoreInvariant, ServedInvariant, RowsAreKept, PTL DEF Spec, OccupancyBeginsOnce

(* giveNotice moves the end of the claim with the end of the tenancy in    *)
(* any order of notices, refusals, payments and decisions, and misses only *)
(* a claim that a repeated payment had put back to BOOKING.                *)
THEOREM NoticeReachesLinkedClaim == Spec => []NoticeClosesLinkedClaim
<1>1. (\A b \in Bookings : KeptRow(b)) => NoticeClosesLinkedClaim
  BY DEF KeptRow, NoticeClosesLinkedClaim
<1> QED BY <1>1, RowsAreKept, PTL

(***************************************************************************)
(* The three screens agree on every day: what follows from NoOverlap for   *)
(* those who only count.  At most one claim runs on a bed on a day, so the *)
(* rows the dashboard counts stand for as many beds, those the board draws *)
(* as taken.                                                               *)
(***************************************************************************)

(* Of some days one is the first.                                          *)
LEMMA FirstDay ==
    ASSUME NEW S \in SUBSET Nat, S # {}
    PROVE  \E d \in S : \A e \in S : d <= e
<1> DEFINE T == {0..d : d \in S}
<1>1. T \subseteq FiniteSubsetsOf(Nat) /\ T # {}
  <2>1. ASSUME NEW d \in S PROVE 0..d \in FiniteSubsetsOf(Nat)
    <3>1. 0 \in Int /\ d \in Int /\ 0..d \in SUBSET Nat
      OBVIOUS
    <3>2. IsFiniteSet(0..d)
      BY <3>1, FS_Interval
    <3> QED BY <3>1, <3>2 DEF FiniteSubsetsOf
  <2> QED BY <2>1
<1>2. \E x \in T : \A y \in T : <<y, x>> \notin StrictSubsetOrdering(Nat)
  BY <1>1, FS_StrictSubsetOrderingWellFounded, WFMin
<1>3. PICK d \in S : \A e \in S : <<0..e, 0..d>> \notin StrictSubsetOrdering(Nat)
  BY <1>2
<1>4. ASSUME NEW e \in S, e < d PROVE FALSE
  <2>1. 0..e \subseteq 0..d /\ d \in 0..d /\ d \notin 0..e
    BY <1>4
  <2>2. <<0..e, 0..d>> \in StrictSubsetOrdering(Nat)
    BY <2>1 DEF StrictSubsetOrdering
  <2> QED BY <1>3, <2>2
<1> QED BY <1>3, <1>4

(* The claims that run on a day, on any bed.                               *)
Running(today) ==
    {b \in Bookings : Active(b) /\ booking[b].moveIn <= today /\ today < alloc[b].end}

TakenBeds(today) == {bed \in Beds : TagOf(bed, today) = "taken"}

(* An active claim is on a bed, for some days.                             *)
LEMMA ClaimHasDays ==
    ASSUME Core, NEW b \in Bookings, Active(b)
    PROVE  /\ booking[b].bed \in Beds /\ booking[b].moveIn \in Nat /\ alloc[b].end \in Nat
           /\ booking[b].moveIn < Forever
BY DaysOK DEF Core, TypeOK, RowOK, AllocRow, DaysAssumption

(* No bed has two claims that run.                                         *)
LEMMA OneRuns ==
    ASSUME Core, NoOverlap, NEW today \in Days, NEW a \in Running(today), NEW b \in Running(today),
           booking[a].bed = booking[b].bed
    PROVE  a = b
<1>1. today \in Nat
  BY DaysOK DEF DaysAssumption
<1>2. /\ booking[a].moveIn \in Nat /\ alloc[a].end \in Nat
      /\ booking[b].moveIn \in Nat /\ alloc[b].end \in Nat
  BY ClaimHasDays DEF Running
<1> QED BY <1>1, <1>2 DEF NoOverlap, Running

(* What the board draws of a bed, in terms of its claims.                  *)
LEMMA WhatIsDrawn ==
    ASSUME Core, NEW today \in Days, NEW bed \in Beds
    PROVE  /\ TagOf(bed, today) = "taken" <=> \E b \in Running(today) : booking[b].bed = bed
           /\ TagOf(bed, today) = "free" <=> ClaimsFrom(bed, today) = {}
<1> DEFINE running == {b \in ClaimsFrom(bed, today) : booking[b].moveIn <= today}
           coming == ClaimsFrom(bed, today) \ running
           first == {b \in coming : \A c \in coming : booking[b].moveIn <= booking[c].moveIn}
           reserved == {booking[b].moveIn : b \in first}
<1>1. running = {b \in Running(today) : booking[b].bed = bed}
  BY DEF ClaimsFrom, Running
<1>2. first = {} => coming = {}
  <2> SUFFICES ASSUME coming # {} PROVE first # {}
    OBVIOUS
  <2> DEFINE days == {booking[b].moveIn : b \in coming}
  <2>1. days \in SUBSET Nat /\ days # {}
    BY ClaimHasDays DEF ClaimsFrom
  <2>2. PICK d \in days : \A e \in days : d <= e
    BY <2>1, FirstDay
  <2> QED BY <2>2
<1>3. TagOf(bed, today) = IF running # {} THEN "taken" ELSE IF reserved # {} THEN "reserved" ELSE "free"
  BY DEF TagOf, StateOf, OccupancyFor
<1>4. reserved = {} <=> first = {}
  OBVIOUS
<1>5. running = {} /\ coming = {} <=> ClaimsFrom(bed, today) = {}
  OBVIOUS
<1>6. first \subseteq coming
  OBVIOUS
<1> HIDE DEF running, coming, first, reserved
<1> QED BY <1>1, <1>2, <1>3, <1>4, <1>5, <1>6

(* As many rows as beds.                                                   *)
LEMMA RowsAreBeds ==
    ASSUME Core, NoOverlap, NEW today \in Days
    PROVE  /\ Cardinality(Running(today)) = Cardinality(TakenBeds(today))
           /\ Cardinality(TakenBeds(today)) \in Nat /\ Cardinality(Beds) \in Nat
           /\ Cardinality(TakenBeds(today)) <= Cardinality(Beds)
<1> DEFINE R == Running(today)
           T == TakenBeds(today)
           f == [b \in R |-> booking[b].bed]
<1>1. IsFiniteSet(T) /\ Cardinality(T) <= Cardinality(Beds)
  BY BedsOK, FS_Subset DEF TakenBeds
<1>2. f \in [R -> T] /\ \A bed \in T : \E b \in R : f[b] = bed
  BY ClaimHasDays, WhatIsDrawn DEF TakenBeds, Running
<1>3. \A a, b \in R : f[a] = f[b] => a = b
  BY OneRuns
<1> HIDE DEF R, T, f
<1>4. f \in Injection(R, T) /\ f \in Surjection(R, T)
  BY <1>2, <1>3, Fun_IsInj, Fun_IsSurj
<1>5. Cardinality(R) = Cardinality(T)
  BY <1>1, <1>4, FS_Injection
<1> QED BY <1>1, <1>5, BedsOK, FS_CardinalityType DEF R, T

(* "So what the owner sees cannot drift from what booking enforces"        *)
(* (occupancyFor), "the number cannot disagree with reality" (countsFor):  *)
(* the board, the dashboard, the search and the constraint tell the same,  *)
(* whatever was booked, seated, given notice of and released before.       *)
THEOREM ScreensAlwaysAgree == Spec => []ScreensAgree
<1>1. ASSUME Core, NoOverlap PROVE ScreensAgree
  <2> SUFFICES ASSUME NEW today \in Days
      PROVE  /\ \A bed \in Beds :
                  LET free == TagOf(bed, today) = "free" IN
                  /\ free <=> bed \in FreeBeds(today)
                  /\ free <=> ~Claimed(alloc, bed, today, Forever, {})
                  /\ Cardinality(OccupancyFor(bed, today).availableFrom) <= 1
             /\ AvailableBeds(today) = Cardinality(Beds) - TagsDrawn("taken", today)
    BY DEF ScreensAgree
  <2>1. ASSUME NEW bed \in Beds PROVE TagOf(bed, today) = "free" <=> bed \in FreeBeds(today)
    BY <1>1, WhatIsDrawn DEF FreeBeds
  <2>2. ASSUME NEW bed \in Beds
        PROVE  TagOf(bed, today) = "free" <=> ~Claimed(alloc, bed, today, Forever, {})
    <3>1. Claimed(alloc, bed, today, Forever, {}) <=> ClaimsFrom(bed, today) # {}
      BY <1>1, ClaimHasDays DEF Claimed, ClaimsFrom, Active
    <3> QED BY <1>1, <3>1, WhatIsDrawn
  <2>3. ASSUME NEW bed \in Beds PROVE Cardinality(OccupancyFor(bed, today).availableFrom) <= 1
    <3> DEFINE ends == OccupancyFor(bed, today).availableFrom
    <3>1. ends = {alloc[b].end : b \in {b \in Running(today) : booking[b].bed = bed}} \ {Forever}
      BY DEF OccupancyFor, ClaimsFrom, Running
    <3>2. \A d, e \in ends : d = e
      BY <1>1, <3>1, OneRuns
    <3> HIDE DEF ends
    <3>3. ends = {} \/ \E d : ends = {d}
      BY <3>2
    <3>4. Cardinality(ends) \in {0, 1}
      BY <3>3, FS_EmptySet, FS_Singleton
    <3> QED BY <3>4 DEF ends
  <2>4. AvailableBeds(today) = Cardinality(Beds) - TagsDrawn("taken", today)
    <3>1. /\ TagsDrawn("taken", today) = Cardinality(TakenBeds(today))
          /\ AvailableBeds(today) =
                IF Cardinality(Running(today)) > Cardinality(Beds) THEN 0
                ELSE Cardinality(Beds) - Cardinality(Running(today))
      BY DEF TagsDrawn, TakenBeds, AvailableBeds, Running
    <3> QED BY <1>1, <3>1, RowsAreBeds
  <2> QED BY <2>1, <2>2, <2>3, <2>4
<1> QED BY <1>1, CoreInvariant, NoBedSoldTwice, PTL
=============================================================================
