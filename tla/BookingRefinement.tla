------------------------- MODULE BookingRefinement -------------------------
(***************************************************************************)
(* Booking implements BedClaims, for any number of bookings, beds and      *)
(* requests: each transaction that touches a claim is a step BedClaims     *)
(* allows, and every other step leaves the claims as they are.             *)
(***************************************************************************)
EXTENDS BookingProofs

(* Beside Core the mapping needs that a row of bed_allocations, released   *)
(* or not, belongs to a booking that exists, and that a notice on its way  *)
(* is for a day of the calendar.                                           *)
Allocated(b) == alloc[b].status # "NONE" => Exists(b)
NoticeDay(h) == req[h].op = "notice" => req[h].day \in Days

Traced ==
    /\ \A b \in Bookings : Allocated(b)
    /\ \A h \in Slots : NoticeDay(h)

(***************************************************************************)
(* What a step does to the claims                                          *)
(***************************************************************************)

(* One claim changes its kind, and only for one that is paid for.          *)
MadeFirm(b) ==
    \E a \in AllocRow :
        /\ alloc' = [alloc EXCEPT ![b] = a]
        /\ a.status = alloc[b].status /\ a.end = alloc[b].end
        /\ \/ a.kind = alloc[b].kind
           \/ Active(b) /\ a.kind \in {"BOOKING", "TENANCY"}

GivenUp(b) == alloc' = [alloc EXCEPT ![b] = ReleasedRow(alloc[b])]

ClaimsMove ==
    \/ alloc' = alloc
    \/ \E b \in Bookings : MadeFirm(b) \/ GivenUp(b)
    \/ \E bed \in Beds : alloc' = Swept(bed)

(* A payment or a decision makes the claim firm, or leaves it.             *)
LEMMA PaidIsFirm ==
    ASSUME TablesOK, NEW b \in Bookings, Forever \in Nat
    PROVE  /\ \A p, auto : MarkPaid(b, p, auto) => MadeFirm(b)
           /\ OnConfirmed(b, alloc[b]) => MadeFirm(b)
<1>1. alloc \in [Bookings -> AllocRow] /\ alloc[b] \in AllocRow
  BY DEF TablesOK
<1>2. ASSUME NEW a \in AllocRow, NEW kind \in {"BOOKING", "TENANCY"}
      PROVE  /\ KindOf(a, kind) \in AllocRow
             /\ KindOf(a, kind).status = a.status /\ KindOf(a, kind).end = a.end
             /\ KindOf(a, kind).kind = IF a.status = "ACTIVE" THEN kind ELSE a.kind
  BY DEF KindOf, AllocRow
<1>3. ASSUME NEW a \in AllocRow, a.status = alloc[b].status, a.end = alloc[b].end,
             a.kind = alloc[b].kind \/ (Active(b) /\ a.kind \in {"BOOKING", "TENANCY"}),
             OnConfirmed(b, a)
      PROVE  MadeFirm(b)
  <2>1. CASE tenancy[b].status # "NONE"
    BY <1>3, <2>1 DEF OnConfirmed, MadeFirm
  <2>2. CASE tenancy[b].status = "NONE"
    <3> PICK x : x = KindOf(a, "TENANCY")
      OBVIOUS
    <3>1. alloc' = [alloc EXCEPT ![b] = x]
      BY <1>3, <2>2 DEF OnConfirmed
    <3>2. x \in AllocRow /\ x.status = alloc[b].status /\ x.end = alloc[b].end
          /\ x.kind = IF a.status = "ACTIVE" THEN "TENANCY" ELSE a.kind
      BY <1>2, <1>3
    <3> QED BY <1>3, <3>1, <3>2 DEF MadeFirm, Active
  <2> QED BY <2>1, <2>2
<1>4. ASSUME NEW p, NEW auto, MarkPaid(b, p, auto) PROVE MadeFirm(b)
  <2> PICK paid : paid = KindOf(alloc[b], "BOOKING")
    OBVIOUS
  <2>1. /\ paid \in AllocRow /\ paid.status = alloc[b].status /\ paid.end = alloc[b].end
        /\ paid.kind = alloc[b].kind \/ (Active(b) /\ paid.kind \in {"BOOKING", "TENANCY"})
    BY <1>1, <1>2 DEF Active
  <2>2. OnConfirmed(b, paid) \/ alloc' = [alloc EXCEPT ![b] = paid]
    BY <1>4 DEF MarkPaid
  <2> QED BY <1>3, <2>1, <2>2 DEF MadeFirm
<1> QED BY <1>1, <1>3, <1>4

(* Every step that makes no claim lets claims as they are, makes one firm, *)
(* gives one up or sweeps a bed.                                           *)
LEMMA HowClaimsMove ==
    ASSUME Core, [Next]_vars
    PROVE  \/ ClaimsMove
           \/ \E h \in Slots, bed \in Beds : HoldBed(h, bed) \/ SeatWalkIn(h, bed)
           \/ \E h \in Slots : GiveNotice(h)
<1> USE DEF ClaimsMove
<1>1. TablesOK /\ Forever \in Nat
  BY DaysOK DEF Core, TypeOK, TablesOK, DaysAssumption
<1>2. \A h \in Slots : ~At(h, "idle") /\ ~At(h, "expire") => req[h].b \in Bookings
  BY DEF Core, RequestOK, At
<1>3. ASSUME NEW h \in Slots, Arrive(h) \/ FindLapsed(h) \/ Fail(h) PROVE ClaimsMove
  BY <1>3 DEF Arrive, FindLapsed, Fail, CreateBooking, ReadForNotice, ReadForCheckOut, ReadForCancel,
     ReadForDecision, ReadPass, DeliverWebhook, ReleaseExpiredHolds, rows
<1>4. ASSUME NEW h \in Slots,
             \/ \E bed \in Beds : HoldBedTaken(h, bed) \/ HoldBedDuplicate(h, bed) \/ SeatWalkInTaken(h, bed)
             \/ AttachOrder(h) \/ RecordEvent(h) \/ DuplicateEvent(h) \/ MarkProcessed(h)
             \/ RecordArrival(h) \/ PassAlreadyUsed(h) \/ GiveNoticeRefused(h)
      PROVE  alloc' = alloc
  BY <1>4 DEF HoldBedTaken, HoldBedDuplicate, SeatWalkInTaken, AttachOrder, RecordEvent, DuplicateEvent,
     MarkProcessed, RecordArrival, PassAlreadyUsed, GiveNoticeRefused, rows
<1>5. ASSUME NEW h \in Slots, (\E auto \in AutoConfirm : ApplyCaptured(h, auto)) \/ Approve(h)
      PROVE  ClaimsMove
  <2>1. req[h].b \in Bookings
    BY <1>2, <1>5 DEF ApplyCaptured, Approve, At
  <2> QED BY <1>1, <1>5, <2>1, PaidIsFirm DEF ApplyCaptured, Approve
<1>6. ASSUME NEW h \in Slots, ApplyFailed(h) \/ CancelMine(h) \/ Reject(h) \/ CheckOut(h)
      PROVE  ClaimsMove
  <2>1. req[h].b \in Bookings
    BY <1>2, <1>6 DEF ApplyFailed, CancelMine, Reject, CheckOut, At
  <2> QED BY <1>6, <2>1 DEF ApplyFailed, CancelMine, Reject, CheckOut, ReleaseBooking, GivenUp
<1>7. ASSUME NEW h \in Slots, NEW x \in Bookings \X Pending, ExpireLapsed(h, x) PROVE ClaimsMove
  BY <1>7 DEF ExpireLapsed, ReleaseBooking, GivenUp
<1>8. CASE (\E b \in Bookings : Lapse(b)) \/ UNCHANGED vars
  BY <1>8 DEF Lapse, vars
<1> QED BY <1>3, <1>4, <1>5, <1>6, <1>7, <1>8 DEF Next, Continue

(* Nobody but the desk makes a request for notice, and it asks for a day   *)
(* of the calendar.                                                        *)
LEMMA NoticeStep == Core /\ [Next]_vars /\ (\A h \in Slots : NoticeDay(h)) => \A g \in Slots : NoticeDay(g)'
<1> SUFFICES ASSUME Core, [Next]_vars, \A h \in Slots : NoticeDay(h), NEW g \in Slots PROVE NoticeDay(g)'
  OBVIOUS
<1>1. req \in [Slots -> Request]
  BY DEF Core, TypeOK
<1>2. CASE req'[g] = req[g] \/ req'[g].op # "notice"
  BY <1>2 DEF NoticeDay
<1>3. Idle.op = "idle" /\ \A op, b : [Idle EXCEPT !.op = op, !.b = b].op = op
  BY DEF Idle
<1>4. ASSUME NEW h \in Slots, NEW r, Becomes(h, r), r.op # "notice" PROVE NoticeDay(g)'
  BY <1>1, <1>2, <1>4 DEF Becomes
<1>5. ASSUME NEW h \in Slots, Done(h) PROVE NoticeDay(g)'
  BY <1>3, <1>4, <1>5 DEF Done
<1>6. ASSUME NEW h \in Slots, NEW b \in Bookings, NEW day \in Days, ReadForNotice(h, b, day)
      PROVE  NoticeDay(g)'
  <2> PICK r : r = [Idle EXCEPT !.op = "notice", !.b = b, !.day = day]
    OBVIOUS
  <2>1. r.day = day /\ req' = [req EXCEPT ![h] = r]
    BY <1>6 DEF ReadForNotice, Becomes, Idle
  <2>2. CASE g = h
    BY <1>1, <2>1, <2>2 DEF NoticeDay
  <2> QED BY <1>1, <1>2, <2>1, <2>2
<1>7. ASSUME NEW h \in Slots, NEW b \in Bookings, NEW day \in Days, CreateBooking(h, b, day)
      PROVE  NoticeDay(g)'
  <2> PICK r : r = [Idle EXCEPT !.op = "hold", !.b = b, !.day = day, !.beds = CandidateBeds(day)]
    OBVIOUS
  <2> QED BY <1>4, <1>7 DEF CreateBooking, Idle
<1>8. ASSUME NEW h \in Slots, NEW b \in Bookings, NEW day \in Days, ReadForCheckOut(h, b, day)
      PROVE  NoticeDay(g)'
  <2> PICK r : r = [Idle EXCEPT !.op = "checkout", !.b = b,
                    !.day = IF day < booking[b].moveIn THEN booking[b].moveIn ELSE day]
    OBVIOUS
  <2> QED BY <1>4, <1>8 DEF ReadForCheckOut, Idle
<1>9. ASSUME NEW h \in Slots, NEW b \in Bookings,
             \/ ReadForCancel(h, b) \/ ReadForDecision(h, b, "approve")
             \/ ReadForDecision(h, b, "reject") \/ ReadPass(h, b)
      PROVE  NoticeDay(g)'
  <2>1. PICK op \in {"cancel", "approve", "reject", "redeem"} : Reads(h, op, b)
    BY <1>9 DEF ReadForCancel, ReadForDecision, ReadPass
  <2> QED BY <1>3, <1>4, <2>1 DEF Reads
<1>10. ASSUME NEW h \in Slots, NEW e \in Events, DeliverWebhook(h, e) PROVE NoticeDay(g)'
  BY <1>4, <1>10 DEF DeliverWebhook, Idle
<1>11. ASSUME NEW h \in Slots, NEW b \in Bookings, NEW bed \in Beds, NEW day \in Days,
              ReleaseExpiredHolds(h, b, bed, day)
       PROVE  NoticeDay(g)'
  BY <1>4, <1>11 DEF ReleaseExpiredHolds, Idle
<1>12. ASSUME NEW h \in Slots, FindLapsed(h) PROVE NoticeDay(g)'
  BY <1>4, <1>12 DEF FindLapsed, Idle
<1>13. ASSUME NEW h \in Slots, NEW bed \in Beds,
              HoldBed(h, bed) \/ HoldBedTaken(h, bed) \/ HoldBedDuplicate(h, bed)
       PROVE  NoticeDay(g)'
  <2>1. CASE HoldBed(h, bed)
    BY <1>3, <1>4, <2>1 DEF HoldBed, Reads
  <2>2. CASE HoldBedTaken(h, bed)
    <3>1. [req[h] EXCEPT !.beds = req[h].beds \ {bed}].op = "hold"
      BY <1>1, <2>2 DEF HoldBedTaken, At, Request
    <3> QED BY <1>4, <1>5, <2>2, <3>1 DEF HoldBedTaken
  <2> QED BY <1>5, <1>13, <2>1, <2>2 DEF HoldBedDuplicate
<1>14. ASSUME NEW h \in Slots, NEW op \in Ops, op # "notice", Becomes(h, [req[h] EXCEPT !.op = op])
       PROVE  NoticeDay(g)'
  <2>1. [req[h] EXCEPT !.op = op].op = op
    BY <1>1 DEF Request
  <2> QED BY <1>4, <1>14, <2>1
<1>15. ASSUME NEW h \in Slots,
              RecordEvent(h) \/ ApplyFailed(h) \/ \E auto \in AutoConfirm : ApplyCaptured(h, auto)
       PROVE  NoticeDay(g)'
  BY <1>14, <1>15 DEF RecordEvent, ApplyFailed, ApplyCaptured, Ops
<1>16. ASSUME NEW h \in Slots, NEW x \in Bookings \X Pending, ExpireLapsed(h, x)
       PROVE  NoticeDay(g)'
  <2>1. [req[h] EXCEPT !.lapsed = req[h].lapsed \ {x}].op = "expire"
    BY <1>1, <1>16 DEF ExpireLapsed, At, Request
  <2> QED BY <1>4, <1>5, <1>16, <2>1 DEF ExpireLapsed
<1>17. CASE (\E b \in Bookings : Lapse(b)) \/ UNCHANGED vars
  BY <1>2, <1>17 DEF Lapse, vars
<1>18. ASSUME NEW h \in Slots,
              \/ \E bed \in Beds : SeatWalkIn(h, bed) \/ SeatWalkInTaken(h, bed)
              \/ AttachOrder(h) \/ DuplicateEvent(h) \/ MarkProcessed(h)
              \/ CancelMine(h) \/ Approve(h) \/ Reject(h) \/ RecordArrival(h) \/ PassAlreadyUsed(h)
              \/ GiveNotice(h) \/ GiveNoticeRefused(h) \/ CheckOut(h) \/ Fail(h)
       PROVE  NoticeDay(g)'
  BY <1>5, <1>18 DEF SeatWalkIn, SeatWalkInTaken, AttachOrder, DuplicateEvent, MarkProcessed, CancelMine,
     Approve, Reject, RecordArrival, PassAlreadyUsed, GiveNotice, GiveNoticeRefused, CheckOut, Fail
<1> QED BY <1>6, <1>7, <1>8, <1>9, <1>10, <1>11, <1>12, <1>13, <1>15, <1>16, <1>17, <1>18
        DEF Next, Arrive, Continue

(* No claim without its booking.                                           *)
LEMMA AllocatedStep ==
    Core /\ [Next]_vars /\ (\A b \in Bookings : Allocated(b)) => \A b \in Bookings : Allocated(b)'
<1> SUFFICES ASSUME Core, [Next]_vars, \A b \in Bookings : Allocated(b), NEW b \in Bookings
             PROVE  Allocated(b)'
  OBVIOUS
<1>1. alloc \in [Bookings -> AllocRow] /\ booking \in [Bookings -> BookingRow]
  BY DEF Core, TypeOK
<1>2. CASE NoNewClaim /\ ClaimsMove
  <2>1. alloc'[b].status # "NONE" => alloc[b].status # "NONE"
    <3>1. ASSUME NEW c \in Bookings, MadeFirm(c) \/ GivenUp(c) PROVE alloc'[b].status # "NONE" => alloc[b].status # "NONE"
      BY <1>1, <3>1 DEF MadeFirm, GivenUp, ReleasedRow, AllocRow
    <3>2. ASSUME NEW bed, alloc' = Swept(bed) PROVE alloc'[b].status # "NONE" => alloc[b].status # "NONE"
      BY <1>1, <3>2 DEF Swept, LapsedHold, Active, AllocRow
    <3> QED BY <1>2, <3>1, <3>2 DEF ClaimsMove
  <2> QED BY <1>2, <2>1 DEF NoNewClaim, Allocated, Exists
<1>3. ASSUME NEW h \in Slots, NEW bed \in Beds, HoldBed(h, bed) \/ SeatWalkIn(h, bed) PROVE Allocated(b)'
  <2>1. PICK status \in {"PENDING_PAYMENT", "CHECKED_IN"} :
          /\ booking'[b] = booking[b] \/ booking'[b].status = status
          /\ b # req[h].b => booking'[b] = booking[b]
    BY <1>1, <1>3 DEF HoldBed, SeatWalkIn
  <2>2. b = req[h].b => Exists(b)'
    BY <1>1, <1>3 DEF HoldBed, SeatWalkIn, Exists
  <2>3. b # req[h].b => (alloc'[b].status # "NONE" => alloc[b].status # "NONE")
    <3>1. CASE HoldBed(h, bed)
      BY <1>1, <3>1 DEF HoldBed, Swept, LapsedHold, Active, AllocRow
    <3>2. CASE SeatWalkIn(h, bed)
      BY <1>1, <3>2 DEF SeatWalkIn
    <3> QED BY <1>3, <3>1, <3>2
  <2> QED BY <2>1, <2>2, <2>3 DEF Allocated, Exists
<1>4. ASSUME NEW h \in Slots, GiveNotice(h) PROVE Allocated(b)'
  BY <1>1, <1>4 DEF GiveNotice, ClosesOn, AllocRow, Allocated, Exists
<1> QED BY <1>2, <1>3, <1>4, WhoClaims, HowClaimsMove

(* Claims always belong to bookings that exist, and notices to days of the *)
(* calendar.                                                               *)
THEOREM TracedInvariant == Spec => []Traced
<1>1. Init => Traced
  BY DEF Init, Traced, Allocated, NoticeDay, NoAlloc, Idle
<1>2. Core /\ Traced /\ [Next]_vars => Traced'
  BY AllocatedStep, NoticeStep DEF Traced
<1> QED BY <1>1, <1>2, CoreInvariant, PTL DEF Spec

(***************************************************************************)
(* The mapping                                                             *)
(***************************************************************************)

Bar == [b \in Bookings |-> ClaimOf(b)]

(* The claim a row of bed_allocations stands for.                          *)
LEMMA ClaimFields ==
    ASSUME NEW b \in Bookings, alloc[b] \in AllocRow
    PROVE  /\ ClaimOf(b).state = "held" <=> Active(b)
           /\ ClaimOf(b).state = "none" <=> alloc[b].status = "NONE"
           /\ ClaimOf(b).state = "ended" <=> alloc[b].status = "RELEASED"
           /\ ClaimOf(b).bed = booking[b].bed /\ ClaimOf(b).from = booking[b].moveIn
           /\ ClaimOf(b).to = alloc[b].end
           /\ ClaimOf(b).firm = (alloc[b].kind \in {"BOOKING", "TENANCY"})
<1>1. alloc[b].status \in {"NONE", "ACTIVE", "RELEASED"}
  BY DEF AllocRow
<1> QED BY <1>1 DEF ClaimOf, Active

(* A claim written out, and what a change of one field makes of it.        *)
Row(state, bed, from, to, firm) ==
    [state |-> state, bed |-> bed, from |-> from, to |-> to, firm |-> firm]
Standing(status) ==
    CASE status = "NONE" -> "none" [] status = "ACTIVE" -> "held" [] status = "RELEASED" -> "ended"
IsFirm(kind) == kind \in {"BOOKING", "TENANCY"}

(* A claim with one field changed is the row built with that field         *)
(* changed.                                                                *)
LEMMA RowChanges ==
    \A state, bed, from, to, firm, x :
        /\ [Row(state, bed, from, to, firm) EXCEPT !.firm = x] = Row(state, bed, from, to, x)
        /\ [Row(state, bed, from, to, firm) EXCEPT !.state = x] = Row(x, bed, from, to, firm)
        /\ [Row(state, bed, from, to, firm) EXCEPT !.to = x] = Row(state, bed, from, x, firm)
BY DEF Row

(* What the mapping makes of a booking, as a row of plain values.          *)
LEMMA ClaimIsRow ==
    \A b : ClaimOf(b) = Row(Standing(alloc[b].status), booking[b].bed, booking[b].moveIn, alloc[b].end,
                            IsFirm(alloc[b].kind))
BY DEF ClaimOf, Row, Standing, IsFirm

(* The same of the state after a step.                                     *)
LEMMA ClaimIsRowNext ==
    ASSUME TRUE
    PROVE  \A b : ClaimOf(b)' = Row(Standing(alloc'[b].status), booking'[b].bed, booking'[b].moveIn,
                                    alloc'[b].end, IsFirm(alloc'[b].kind))
BY DEF ClaimOf, Row, Standing, IsFirm

(* A claim of the same bed and first day is the same one, but for what     *)
(* becomes of its row.                                                     *)
LEMMA SameClaim ==
    ASSUME NEW b, booking'[b].bed = booking[b].bed, booking'[b].moveIn = booking[b].moveIn
    PROVE  /\ (/\ alloc'[b].end = alloc[b].end /\ alloc'[b].status = alloc[b].status
               /\ alloc'[b].kind = alloc[b].kind \/ (IsFirm(alloc'[b].kind) /\ IsFirm(alloc[b].kind)))
              => ClaimOf(b)' = ClaimOf(b)
           /\ (/\ alloc'[b].end = alloc[b].end /\ alloc'[b].status = alloc[b].status
               /\ IsFirm(alloc'[b].kind))
              => ClaimOf(b)' = [ClaimOf(b) EXCEPT !.firm = TRUE]
           /\ (/\ alloc'[b].end = alloc[b].end /\ alloc'[b].kind = alloc[b].kind
               /\ alloc'[b].status = "RELEASED")
              => ClaimOf(b)' = [ClaimOf(b) EXCEPT !.state = "ended"]
           /\ (alloc'[b].kind = alloc[b].kind /\ alloc'[b].status = alloc[b].status)
              => \A to : to = alloc'[b].end => ClaimOf(b)' = [ClaimOf(b) EXCEPT !.to = to]
<1>1. /\ \A k : IsFirm(k) \in BOOLEAN
      /\ Standing("RELEASED") = "ended"
  BY DEF IsFirm, Standing
<1>2. ASSUME alloc'[b].end = alloc[b].end, alloc'[b].status = alloc[b].status,
             alloc'[b].kind = alloc[b].kind \/ (IsFirm(alloc'[b].kind) /\ IsFirm(alloc[b].kind))
      PROVE  ClaimOf(b)' = ClaimOf(b)
  <2>1. IsFirm(alloc'[b].kind) = IsFirm(alloc[b].kind)
    BY <1>1, <1>2
  <2> QED BY <1>2, <2>1, ClaimIsRow, ClaimIsRowNext
<1>3. ASSUME alloc'[b].end = alloc[b].end, alloc'[b].status = alloc[b].status, IsFirm(alloc'[b].kind)
      PROVE  ClaimOf(b)' = [ClaimOf(b) EXCEPT !.firm = TRUE]
  <2>1. IsFirm(alloc'[b].kind) = TRUE
    BY <1>1, <1>3
  <2> QED BY <1>3, <2>1, ClaimIsRow, ClaimIsRowNext, RowChanges
<1>4. ASSUME alloc'[b].end = alloc[b].end, alloc'[b].kind = alloc[b].kind, alloc'[b].status = "RELEASED"
      PROVE  ClaimOf(b)' = [ClaimOf(b) EXCEPT !.state = "ended"]
  BY <1>1, <1>4, ClaimIsRow, ClaimIsRowNext, RowChanges
<1>5. ASSUME alloc'[b].kind = alloc[b].kind, alloc'[b].status = alloc[b].status, NEW to, to = alloc'[b].end
      PROVE  ClaimOf(b)' = [ClaimOf(b) EXCEPT !.to = to]
  BY <1>5, ClaimIsRow, ClaimIsRowNext, RowChanges
<1> QED BY <1>2, <1>3, <1>4, <1>5

(***************************************************************************)
(* The steps                                                               *)
(***************************************************************************)

(* Paying for a claim makes it firm, closing a booking gives its claim up, *)
(* and a sweep ends claims that nobody paid for.                           *)
LEMMA MovesMap ==
    ASSUME Core, Core', NoNewClaim, ClaimsMove
    PROVE  Bar' = Bar \/ Claims!Next
<1>1. alloc \in [Bookings -> AllocRow] /\ alloc' \in [Bookings -> AllocRow]
  BY DEF Core, TypeOK
<1>2. \A c \in Bookings : booking'[c].bed = booking[c].bed /\ booking'[c].moveIn = booking[c].moveIn
  BY DEF NoNewClaim
<1>3. \A c \in Bookings : alloc'[c] = alloc[c] => ClaimOf(c)' = ClaimOf(c)
  BY <1>2, SameClaim
<1>4. CASE alloc' = alloc
  BY <1>3, <1>4 DEF Bar
<1>5. ASSUME NEW b \in Bookings, MadeFirm(b) PROVE Bar' = Bar \/ Claims!Next
  <2>1. /\ \A c \in Bookings \ {b} : ClaimOf(c)' = ClaimOf(c)
        /\ alloc'[b].status = alloc[b].status /\ alloc'[b].end = alloc[b].end
        /\ alloc'[b].kind = alloc[b].kind \/ (Active(b) /\ IsFirm(alloc'[b].kind))
    BY <1>1, <1>3, <1>5 DEF MadeFirm, IsFirm
  <2>2. CASE alloc'[b].kind = alloc[b].kind \/ (IsFirm(alloc'[b].kind) /\ IsFirm(alloc[b].kind))
    <3>1. ClaimOf(b)' = ClaimOf(b)
      BY <1>2, <2>1, <2>2, SameClaim
    <3> QED BY <2>1, <3>1 DEF Bar
  <2>3. CASE Active(b) /\ IsFirm(alloc'[b].kind) /\ ~IsFirm(alloc[b].kind)
    <3>1. ClaimOf(b)' = [ClaimOf(b) EXCEPT !.firm = TRUE]
      BY <1>2, <2>1, <2>3, SameClaim
    <3>2. ClaimOf(b).state = "held" /\ ~ClaimOf(b).firm
      BY <1>1, <2>3, ClaimFields DEF IsFirm
    <3>3. Bar' = [Bar EXCEPT ![b] = [Bar[b] EXCEPT !.firm = TRUE]]
      BY <2>1, <3>1 DEF Bar
    <3>4. Claims!MakeFirm(b)
      BY <3>2, <3>3 DEF Claims!MakeFirm, Claims!Soft, Bar
    <3> QED BY <3>4 DEF Claims!Next
  <2> QED BY <2>1, <2>2, <2>3
<1>6. ASSUME NEW b \in Bookings, GivenUp(b) PROVE Bar' = Bar \/ Claims!Next
  <2>1. /\ \A c \in Bookings \ {b} : ClaimOf(c)' = ClaimOf(c)
        /\ alloc'[b] = ReleasedRow(alloc[b])
    BY <1>1, <1>3, <1>6 DEF GivenUp
  <2>2. CASE Active(b)
    <3>1. alloc'[b].end = alloc[b].end /\ alloc'[b].kind = alloc[b].kind /\ alloc'[b].status = "RELEASED"
      BY <1>1, <2>1, <2>2 DEF ReleasedRow, Active, AllocRow
    <3>2. ClaimOf(b)' = [ClaimOf(b) EXCEPT !.state = "ended"]
      BY <1>2, <3>1, SameClaim
    <3>3. ClaimOf(b).state = "held"
      BY <1>1, <2>2, ClaimFields
    <3>4. Bar' = [c \in Bookings |-> IF c \in {b} THEN [Bar[c] EXCEPT !.state = "ended"] ELSE Bar[c]]
      BY <2>1, <3>2 DEF Bar
    <3>5. Claims!GiveUp(b)
      BY <3>3, <3>4 DEF Claims!GiveUp, Claims!Ended, Bar
    <3> QED BY <3>5 DEF Claims!Next
  <2>3. CASE ~Active(b)
    BY <1>3, <2>1, <2>3 DEF ReleasedRow, Active, Bar
  <2> QED BY <2>2, <2>3
<1>7. ASSUME NEW bed \in Beds, alloc' = Swept(bed) PROVE Bar' = Bar \/ Claims!Next
  <2> DEFINE gone == {c \in Bookings : LapsedHold(c) /\ booking[c].bed = bed}
  <2>1. ASSUME NEW c \in gone
        PROVE  /\ ClaimOf(c)' = [ClaimOf(c) EXCEPT !.state = "ended"]
               /\ ClaimOf(c).state = "held" /\ ~ClaimOf(c).firm
    <3>1. /\ alloc'[c].end = alloc[c].end /\ alloc'[c].kind = alloc[c].kind
          /\ alloc'[c].status = "RELEASED"
      BY <1>1, <1>7 DEF Swept, AllocRow
    <3>2. Active(c) /\ alloc[c].kind = "HOLD"
      BY DEF LapsedHold
    <3> QED BY <1>1, <1>2, <3>1, <3>2, SameClaim, ClaimFields
  <2>2. \A c \in Bookings \ gone : ClaimOf(c)' = ClaimOf(c)
    BY <1>3, <1>7 DEF Swept
  <2>3. gone \subseteq Bookings
    OBVIOUS
  <2> HIDE DEF gone
  <2>4. Bar' = [c \in Bookings |-> IF c \in gone THEN [Bar[c] EXCEPT !.state = "ended"] ELSE Bar[c]]
    BY <2>1, <2>2 DEF Bar
  <2>5. \A c \in gone : Bar[c].state = "held" /\ ~Bar[c].firm
    BY <2>1, <2>3 DEF Bar
  <2>6. Claims!Sweep(gone)
    BY <2>4, <2>5 DEF Claims!Sweep, Claims!Ended, Claims!Soft, Bar
  <2> QED BY <2>3, <2>6 DEF Claims!Next
<1> QED BY <1>4, <1>5, <1>6, <1>7 DEF ClaimsMove

(* Notice on a tenancy closes its claim on another day.                    *)
LEMMA NoticeMaps ==
    ASSUME Core, Core', Traced, NEW h \in Slots, GiveNotice(h)
    PROVE  Bar' = Bar \/ Claims!Next
<1> PICK b, to : b = req[h].b /\ to = req[h].day
  OBVIOUS
<1>1. b \in Bookings /\ to \in Days /\ booking[b].moveIn < to
  BY DEF GiveNotice, At, Core, RequestOK, Traced, NoticeDay
<1>2. /\ alloc \in [Bookings -> AllocRow] /\ alloc' \in [Bookings -> AllocRow]
      /\ alloc' = [alloc EXCEPT ![b] = ClosesOn(alloc[b], to)] /\ booking' = booking
  BY DEF GiveNotice, Core, TypeOK
<1>3. \A c \in Bookings : alloc'[c] = alloc[c] => ClaimOf(c)' = ClaimOf(c)
  BY <1>2, SameClaim
<1>4. CASE ClosesOn(alloc[b], to) = alloc[b]
  BY <1>2, <1>3, <1>4 DEF Bar
<1>5. CASE ClosesOn(alloc[b], to) # alloc[b]
  <2>1. Active(b) /\ alloc[b].kind = "TENANCY"
    BY <1>5 DEF ClosesOn, Active
  <2>2. /\ alloc'[b].kind = alloc[b].kind /\ alloc'[b].status = alloc[b].status /\ alloc'[b].end = to
        /\ \A c \in Bookings \ {b} : alloc'[c] = alloc[c]
    BY <1>1, <1>2, <2>1 DEF ClosesOn, Active, AllocRow
  <2>3. ClaimOf(b)' = [ClaimOf(b) EXCEPT !.to = to]
    <3>1. UNCHANGED <<booking[b].bed, booking[b].moveIn>>
      BY <1>2
    <3>2. /\ alloc'[b].kind = alloc[b].kind /\ alloc'[b].status = alloc[b].status
          => \A t : t = alloc'[b].end => ClaimOf(b)' = [ClaimOf(b) EXCEPT !.to = t]
      BY <3>1, SameClaim
    <3> QED BY <2>2, <3>2
  <2>4. Bar' = [Bar EXCEPT ![b] = [Bar[b] EXCEPT !.to = to]]
    BY <1>3, <2>2, <2>3 DEF Bar
  <2>5. /\ ClaimOf(b).state = "held" /\ ClaimOf(b).firm /\ ClaimOf(b).from < to
        /\ ClaimOf(b).bed = booking[b].bed /\ ClaimOf(b).from = booking[b].moveIn
    BY <1>1, <1>2, <2>1, ClaimFields
  <2>6. ~Claimed(alloc, booking[b].bed, booking[b].moveIn, to, {b})
    BY <1>5 DEF GiveNotice, NoticeOverlaps
  <2>7. ASSUME NEW c \in Bookings \ {b}
        PROVE  ~(/\ ClaimOf(c).state = "held" /\ ClaimOf(c).bed = ClaimOf(b).bed
                 /\ ClaimOf(c).from < to /\ ClaimOf(b).from < ClaimOf(c).to)
    <3>1. ~(/\ Active(c) /\ booking[c].bed = booking[b].bed
            /\ booking[c].moveIn < to /\ booking[b].moveIn < alloc[c].end)
      BY <2>6 DEF Claimed, Active
    <3> QED BY <1>2, <2>5, <3>1, ClaimFields
  <2>8. Claims!EndOn(b, to)
    <3>1. Claims!Clear(ClaimOf(b).bed, ClaimOf(b).from, to, {b})
      BY <2>7 DEF Claims!Clear, Claims!Overlaps, Claims!Holds
    <3>2. /\ Bar[b] = ClaimOf(b)
          /\ Bar' = [c \in Bookings |-> IF c = b THEN [ClaimOf(b) EXCEPT !.to = to] ELSE ClaimOf(c)]
      BY <1>1, <2>4 DEF Bar
    <3> QED BY <1>1, <2>5, <3>1, <3>2 DEF Claims!EndOn, Bar
  <2> QED BY <1>1, <2>8 DEF Claims!Next
<1> QED BY <1>4, <1>5

(* What BedClaims asks of a claim that is taken, claim by claim.           *)
LEMMA Taken ==
    ASSUME NEW b \in Bookings, NEW bed \in Beds, NEW from \in Days, NEW firm \in BOOLEAN,
           NEW gone \in SUBSET Bookings, b \notin gone,
           ClaimOf(b).state = "none", ClaimOf(b)' = Row("held", bed, from, Forever, firm),
           \A c \in gone : /\ ClaimOf(c)' = [ClaimOf(c) EXCEPT !.state = "ended"]
                           /\ ClaimOf(c).state = "held" /\ ~ClaimOf(c).firm /\ ClaimOf(c).bed = bed,
           \A c \in Bookings \ gone : c # b => ClaimOf(c)' = ClaimOf(c),
           \A c \in Bookings \ gone : ~(/\ ClaimOf(c).state = "held" /\ ClaimOf(c).bed = bed
                                        /\ ClaimOf(c).from < Forever /\ from < ClaimOf(c).to)
    PROVE  Claims!Next
<1>1. Claims!Clear(bed, from, Forever, gone)
  BY DEF Claims!Clear, Claims!Overlaps, Claims!Holds
<1>2. \A g \in gone : Claims!Soft(g) /\ Claims!Holds(g, bed)
  BY DEF Claims!Soft, Claims!Holds
<1>3. Bar' = [c \in Bookings |->
                IF c = b THEN [state |-> "held", bed |-> bed, from |-> from, to |-> Forever, firm |-> firm]
                ELSE IF c \in gone THEN [Bar[c] EXCEPT !.state = "ended"] ELSE Bar[c]]
  BY DEF Bar, Row
<1>4. Claims!Ended(gone) = [c \in Bookings |->
                              IF c \in gone THEN [Bar[c] EXCEPT !.state = "ended"] ELSE Bar[c]]
  BY DEF Claims!Ended, Bar
<1>5. Bar' = [Claims!Ended(gone) EXCEPT ![b] =
                [state |-> "held", bed |-> bed, from |-> from, to |-> Forever, firm |-> firm]]
  BY <1>3, <1>4
<1>6. Claims!Take(b, bed, from, firm, gone)
  BY <1>1, <1>2, <1>5 DEF Claims!Take, Bar
<1> QED BY <1>6 DEF Claims!Next

(* A checkout takes a bed that is clear once the lapsed holds are swept,   *)
(* and a walk-in one that is clear as it stands.                           *)
LEMMA ClaimMaps ==
    ASSUME Core, Core', Traced, NEW h \in Slots, NEW bed \in Beds, HoldBed(h, bed) \/ SeatWalkIn(h, bed)
    PROVE  Claims!Next
<1> PICK b, from, firm : b = req[h].b /\ from = req[h].day /\ firm = IsFirm(alloc'[req[h].b].kind)
  OBVIOUS
<1>1. b \in Bookings /\ from \in Days /\ ~Exists(b)
  BY DEF HoldBed, SeatWalkIn, At, Core, RequestOK
<1>2. /\ alloc \in [Bookings -> AllocRow] /\ alloc' \in [Bookings -> AllocRow]
      /\ booking \in [Bookings -> BookingRow]
  BY DEF Core, TypeOK
<1>3. alloc[b].status = "NONE" /\ ClaimOf(b).state = "none"
  BY <1>1, <1>2, ClaimFields DEF Traced, Allocated
<1>4. Standing("ACTIVE") = "held" /\ firm \in BOOLEAN
  BY DEF Standing, IsFirm
<1>5. CASE HoldBed(h, bed)
  <2> DEFINE gone == {c \in Bookings : LapsedHold(c) /\ booking[c].bed = bed}
  <2>1. /\ alloc' = [Swept(bed) EXCEPT ![b] = [status |-> "ACTIVE", kind |-> "HOLD", end |-> Forever]]
        /\ booking' = [booking EXCEPT ![b] = [status |-> "PENDING_PAYMENT", bed |-> bed, moveIn |-> from,
                                              order |-> FALSE, window |-> "open"]]
        /\ ~Claimed(Swept(bed), bed, from, Forever, {})
    BY <1>5 DEF HoldBed
  <2>2. /\ alloc'[b].status = "ACTIVE" /\ alloc'[b].kind = "HOLD" /\ alloc'[b].end = Forever
        /\ booking'[b].bed = bed /\ booking'[b].moveIn = from
        /\ \A c \in Bookings : c # b => alloc'[c] = Swept(bed)[c] /\ booking'[c] = booking[c]
    BY <1>1, <1>2, <2>1 DEF Swept
  <2>3. ClaimOf(b)' = Row("held", bed, from, Forever, firm)
    BY <1>4, <2>2, ClaimIsRowNext
  <2>4. b \notin gone
    BY <1>3 DEF LapsedHold, Active
  <2>5. ASSUME NEW c \in gone
        PROVE  /\ ClaimOf(c)' = [ClaimOf(c) EXCEPT !.state = "ended"]
               /\ ClaimOf(c).state = "held" /\ ~ClaimOf(c).firm /\ ClaimOf(c).bed = bed
    <3>1. /\ alloc'[c].end = alloc[c].end /\ alloc'[c].kind = alloc[c].kind
          /\ alloc'[c].status = "RELEASED" /\ booking'[c] = booking[c]
      BY <1>2, <2>2, <2>4 DEF Swept, AllocRow
    <3>2. Active(c) /\ alloc[c].kind = "HOLD" /\ booking[c].bed = bed
      BY DEF LapsedHold
    <3> QED BY <1>2, <3>1, <3>2, SameClaim, ClaimFields
  <2>6. \A c \in Bookings \ gone : c # b => ClaimOf(c)' = ClaimOf(c)
    BY <2>2, SameClaim DEF Swept
  <2>7. ASSUME NEW c \in Bookings \ gone
        PROVE  ~(/\ ClaimOf(c).state = "held" /\ ClaimOf(c).bed = bed
                 /\ ClaimOf(c).from < Forever /\ from < ClaimOf(c).to)
    <3>1. Swept(bed)[c] = alloc[c]
      BY DEF Swept
    <3>2. ~(/\ alloc[c].status = "ACTIVE" /\ booking[c].bed = bed
            /\ booking[c].moveIn < Forever /\ from < alloc[c].end)
      BY <2>1, <3>1 DEF Claimed
    <3> QED BY <1>2, <3>2, ClaimFields DEF Active
  <2>8. gone \in SUBSET Bookings
    OBVIOUS
  <2> HIDE DEF gone
  <2> QED BY <1>1, <1>3, <1>4, <2>3, <2>4, <2>5, <2>6, <2>7, <2>8, Taken
<1>6. CASE SeatWalkIn(h, bed)
  <2>1. /\ alloc' = [alloc EXCEPT ![b] = [status |-> "ACTIVE", kind |-> "TENANCY", end |-> Forever]]
        /\ booking' = [booking EXCEPT ![b] = [status |-> "CHECKED_IN", bed |-> bed, moveIn |-> from,
                                              order |-> FALSE, window |-> "off"]]
        /\ ~Claimed(alloc, bed, from, Forever, {})
    BY <1>6 DEF SeatWalkIn
  <2>2. /\ alloc'[b].status = "ACTIVE" /\ alloc'[b].kind = "TENANCY" /\ alloc'[b].end = Forever
        /\ booking'[b].bed = bed /\ booking'[b].moveIn = from
        /\ \A c \in Bookings : c # b => alloc'[c] = alloc[c] /\ booking'[c] = booking[c]
    BY <1>1, <1>2, <2>1
  <2>3. ClaimOf(b)' = Row("held", bed, from, Forever, firm)
    BY <1>4, <2>2, ClaimIsRowNext
  <2>4. \A c \in Bookings : c # b => ClaimOf(c)' = ClaimOf(c)
    BY <2>2, SameClaim
  <2>5. ASSUME NEW c \in Bookings
        PROVE  ~(/\ ClaimOf(c).state = "held" /\ ClaimOf(c).bed = bed
                 /\ ClaimOf(c).from < Forever /\ from < ClaimOf(c).to)
    <3>1. ~(/\ alloc[c].status = "ACTIVE" /\ booking[c].bed = bed
            /\ booking[c].moveIn < Forever /\ from < alloc[c].end)
      BY <2>1 DEF Claimed
    <3> QED BY <1>2, <3>1, ClaimFields DEF Active
  <2> DEFINE gone == {c \in Bookings : FALSE}
  <2>6. gone \in SUBSET Bookings /\ b \notin gone /\ \A c : c \notin gone
    OBVIOUS
  <2> HIDE DEF gone
  <2>7. \A c \in gone : /\ ClaimOf(c)' = [ClaimOf(c) EXCEPT !.state = "ended"]
                       /\ ClaimOf(c).state = "held" /\ ~ClaimOf(c).firm /\ ClaimOf(c).bed = bed
    BY <2>6
  <2>8. \A c \in Bookings \ gone : c # b => ClaimOf(c)' = ClaimOf(c)
    BY <2>4
  <2>9. \A c \in Bookings \ gone : ~(/\ ClaimOf(c).state = "held" /\ ClaimOf(c).bed = bed
                                     /\ ClaimOf(c).from < Forever /\ from < ClaimOf(c).to)
    BY <2>5
  <2> QED BY <1>1, <1>3, <1>4, <2>3, <2>6, <2>7, <2>8, <2>9, Taken
<1> QED BY <1>5, <1>6

(* The booking tables implement BedClaims: in particular a claim that was  *)
(* paid for ends only by its own booking's doing, never because another    *)
(* checkout or walk-in swept the bed, and one that ended stays ended.      *)
THEOREM BookingImplementsBedClaims == Spec => ImplementsBedClaims
<1>1. Init => Claims!Init
  <2> SUFFICES ASSUME Init PROVE Claims!Init
    OBVIOUS
  <2>1. \A c \in Bookings : ClaimOf(c).state = "none"
    BY DEF Init, NoAlloc, ClaimOf
  <2> QED BY <2>1 DEF Claims!Init
<1>2. Core /\ Core' /\ Traced /\ [Next]_vars => Bar' = Bar \/ Claims!Next
  BY MovesMap, NoticeMaps, ClaimMaps, WhoClaims, HowClaimsMove
<1>3. Core /\ Core' /\ Traced /\ [Next]_vars => [Claims!Next]_[b \in Bookings |-> ClaimOf(b)]
  BY <1>2 DEF Bar
<1> QED BY <1>1, <1>3, CoreInvariant, TracedInvariant, PTL DEF Spec, ImplementsBedClaims, Claims!Spec

=============================================================================
