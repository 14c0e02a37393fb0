--------------------------- MODULE BillingProofs ---------------------------
(***************************************************************************)
(* Theorems about Billing, for any stays, any days and any number of       *)
(* tenancies, requests and jobs.  An invoice is for a period that begins   *)
(* at move-in or on the tenancy's billing day and ends, whatever notice    *)
(* was given in between, no later than the next one: so two periods that   *)
(* begin on different days do not overlap, and the unique index turns away *)
(* those that begin on the same day.  The sums of amounts are defined by   *)
(* recursion over sets, the list of periods by recursion over the turns of *)
(* a loop; what is said of them is shown of a smallest set, or a smallest  *)
(* number of turns, of which it is not so.                                 *)
(***************************************************************************)
EXTENDS Billing, FiniteSetTheorems, TLAPS

(* What the tenancy services leave in a row.                               *)
Stay == [status : {"NONE", "ACTIVE", "NOTICE_GIVEN", "ENDED"},
         start : Day \union {NoDate}, end : Day \union {NoDate},
         anchor : (1..31) \union {NoDate}, rent : Nat]

StayOK(s) ==
    /\ s \in Stay
    /\ s.status = "NONE" => s.end = NoDate
    /\ s.status # "NONE" => s.start \in Day
    /\ s.end # NoDate => IsUpTo(s.start, s.end)

(* A day on which a period of the stay may begin.                          *)
BillingDay(s, d) ==
    \/ d = s.start
    \/ IsBefore(s.start, d) /\ d = AnchorDayIn(d.month, Anchor(s))

OfStay(i, s) ==
    /\ s.status # "NONE"
    /\ BillingDay(s, i.from)
    /\ IsBefore(i.from, i.to) /\ IsUpTo(i.to, NextAnchorAfter(s, i.from))

OnCalendar(i) == i \in Invoice /\ OfStay(i, tenancy[i.tenancy])

OneForEachKey(S) == \A i, j \in S : Key(i) = Key(j) => i = j

(* What a payment has read is still there, and as much allocated to it.    *)
StillThere(was) ==
    \E i \in invoices : /\ Key(i) = Key(was) /\ i.amount = was.amount
                        /\ i.allocated >= was.allocated

Doing == [pc : Steps, todo : SUBSET Properties, drafts : SUBSET Invoice,
          t : Tenancies \union {None}, amount : Nat,
          target : {None} \union (Tenancies \X Day), seen : SUBSET Invoice]

SlotOK(w) ==
    /\ w \in Doing
    /\ OneForEachKey(w.drafts)
    /\ \A i \in w.drafts : OnCalendar(i) /\ i.allocated = 0 /\ i.status = "OPEN"
    /\ \A i \in w.seen : StillThere(i)

Counters == tick \in 1..Len(Clock) /\ payments \in 0..MaxPayments
            /\ failures \in 0..MaxFailures /\ orphans \subseteq Tenancies

Rows ==
    /\ tenancy \in [Tenancies -> Stay]
    /\ \A t \in Tenancies : StayOK(tenancy[t])
    /\ \A i \in invoices : OnCalendar(i)
    /\ OneForEachKey(invoices)
    /\ PaidIsCovered

Working ==
    /\ work \in [Slots -> Doing]
    /\ \A h \in Slots : SlotOK(work[h])

Inv == Counters /\ Rows /\ Working

(***************************************************************************)
(* The calendar                                                            *)
(***************************************************************************)

(* A month has 28 to 31 days.                                              *)
LEMMA MonthLength == ASSUME NEW m \in Nat PROVE DaysInMonth(m) \in 28..31
BY DEF DaysInMonth

(* Every month has a billing day.                                          *)
LEMMA AnchorIsDay ==
    ASSUME NEW m \in Nat, NEW a \in 1..31 PROVE AnchorDayIn(m, a) \in Day
<1>1. DaysInMonth(m) \in 28..31
  BY MonthLength
<1> QED BY <1>1 DEF AnchorDayIn, On, Day

(* Adding the lookahead to a day gives a day.                              *)
LEMMA PlusIsDay ==
    ASSUME NEW d \in Day PROVE PlusDays(d, LookaheadDays) \in Day
<1>1. d.month \in Nat /\ d.day \in 1..31 /\ d.day <= DaysInMonth(d.month)
  BY DEF Day
<1>2. DaysInMonth(d.month) \in 28..31 /\ DaysInMonth(d.month + 1) \in 28..31
  BY <1>1, MonthLength
<1> QED BY <1>1, <1>2 DEF PlusDays, On, Day, LookaheadDays

(* The next billing day is a later day.                                    *)
LEMMA NextAnchorIsLater ==
    ASSUME NEW s, StayOK(s), s.status # "NONE", NEW d \in Day
    PROVE  /\ Anchor(s) \in 1..31
           /\ NextAnchorAfter(s, d) \in Day
           /\ IsBefore(d, NextAnchorAfter(s, d))
<1>1. Anchor(s) \in 1..31
  BY DEF Anchor, StayOK, Stay, Day
<1>2. d.month \in Nat /\ d.month + 1 \in Nat
  BY DEF Day
<1>3. AnchorDayIn(d.month, Anchor(s)) \in Day /\ AnchorDayIn(d.month + 1, Anchor(s)) \in Day
  BY <1>1, <1>2, AnchorIsDay
<1>4. AnchorDayIn(d.month + 1, Anchor(s)).month = d.month + 1
  BY DEF AnchorDayIn, On
<1> QED BY <1>1, <1>2, <1>3, <1>4 DEF NextAnchorAfter, IsBefore

(* A period that begins on a billing day ends before the next can begin.   *)
LEMMA PeriodsDoNotMeet ==
    ASSUME NEW s, StayOK(s), s.status # "NONE", NEW a \in Day, NEW b \in Day,
           BillingDay(s, a), BillingDay(s, b), IsBefore(a, b)
    PROVE  IsUpTo(NextAnchorAfter(s, a), b)
<1>1. s.start \in Day /\ s.start.month \in Nat /\ s.start.day \in Nat
  BY DEF StayOK, Day
<1>2. a.month \in Nat /\ a.day \in Nat /\ b.month \in Nat /\ b.day \in Nat
  BY DEF Day
<1>3. b = AnchorDayIn(b.month, Anchor(s))
  BY <1>1, <1>2 DEF BillingDay, IsBefore
<1>4. CASE IsBefore(a, AnchorDayIn(a.month, Anchor(s)))
  <2>1. NextAnchorAfter(s, a) = AnchorDayIn(a.month, Anchor(s))
    BY <1>4 DEF NextAnchorAfter
  <2>2. AnchorDayIn(a.month, Anchor(s)).month = a.month
    BY DEF AnchorDayIn, On
  <2> QED BY <1>2, <1>3, <2>1, <2>2 DEF IsUpTo, IsBefore
<1>5. CASE ~IsBefore(a, AnchorDayIn(a.month, Anchor(s)))
  <2>1. NextAnchorAfter(s, a) = AnchorDayIn(a.month + 1, Anchor(s))
    BY <1>5 DEF NextAnchorAfter
  <2>2. AnchorDayIn(a.month + 1, Anchor(s)).month = a.month + 1
    BY DEF AnchorDayIn, On
  <2>3. b.month # a.month
    BY <1>3, <1>5
  <2> QED BY <1>2, <1>3, <2>1, <2>2, <2>3 DEF IsUpTo, IsBefore
<1> QED BY <1>4, <1>5

(* Of two different days one is before the other.                          *)
LEMMA DaysAreOrdered ==
    ASSUME NEW a \in Day, NEW b \in Day, a # b PROVE IsBefore(a, b) \/ IsBefore(b, a)
BY DEF Day, IsBefore

(* Days stand in one order.                                                *)
LEMMA UpToIsTransitive ==
    ASSUME NEW a \in Day, NEW b \in Day, NEW c \in Day, IsUpTo(a, b), IsUpTo(b, c)
    PROVE  IsUpTo(a, c)
BY DEF Day, IsUpTo, IsBefore

(***************************************************************************)
(* The price of a period                                                   *)
(***************************************************************************)

(* Days are counted in whole numbers.                                      *)
LEMMA CountIsInt == ASSUME NEW d \in Day PROVE DayNumber(d) \in Int
<1>1. d.month \in Nat /\ d.day \in Nat
  BY DEF Day
<1> DEFINE past == <<0, 31, 59, 90, 120, 151, 181, 212, 243, 273, 304, 334>>
<1>2. /\ d.month \div 12 \in Int /\ d.month % 12 \in 0..11
      /\ (d.month % 12) + 1 \in 1..12
  BY <1>1
<1>3. \A n \in 1..12 : past[n] \in Int
  OBVIOUS
<1>4. past[(d.month % 12) + 1] \in Int
  BY <1>2, <1>3
<1> HIDE DEF past
<1> QED
  <2> DEFINE y == d.month \div 12
             leapDays == (y + 3) \div 4 - (y + 99) \div 100 + (y + 399) \div 400
             extra == IF Leap(y) /\ d.month % 12 > 1 THEN 1 ELSE 0
  <2>1. y \in Int
    BY <1>2
  <2>2. leapDays \in Int /\ extra \in Int
    BY <2>1
  <2> HIDE DEF y, leapDays, extra
  <2>3. 365 * y + leapDays + past[(d.month % 12) + 1] + extra + d.day \in Int
    BY <1>1, <1>4, <2>1, <2>2
  <2> QED BY <2>3 DEF DayNumber, past, y, leapDays, extra

(* Rent for part of a month is a whole, non-negative number of paise.      *)
LEMMA ProRataIsNat ==
    ASSUME NEW rent \in Nat, NEW days \in Int, NEW inMonth \in 28..31
    PROVE  ProRataPaise(rent, days, inMonth) \in Nat
<1>1. CASE days <= 0 \/ days >= inMonth
  BY <1>1 DEF ProRataPaise
<1>2. CASE days > 0 /\ days < inMonth
  <2>1. rent * days \in Nat
    BY <1>2
  <2>2. ASSUME NEW n \in Nat PROVE Rounded(n, inMonth) \in Nat
    <3>1. inMonth = 28 \/ inMonth = 29 \/ inMonth = 30 \/ inMonth = 31
      OBVIOUS
    <3> QED BY <3>1 DEF Rounded
  <2> QED BY <1>2, <2>1, <2>2 DEF ProRataPaise
<1> QED BY <1>1, <1>2

(***************************************************************************)
(* Drafts                                                                  *)
(***************************************************************************)

(* What the calendar gives for a stay fits the stay.                       *)
LEMMA PeriodFits ==
    ASSUME NEW s, StayOK(s), s.status # "NONE", NEW cutoff \in Day,
           NEW from \in PeriodStarts(s, cutoff), NEW p, p = PeriodFrom(s, from)
    PROVE  /\ p.from = from /\ p.from \in Day /\ p.to \in Day /\ p.amount \in Nat
           /\ BillingDay(s, p.from)
           /\ IsBefore(p.from, p.to) /\ IsUpTo(p.to, NextAnchorAfter(s, p.from))
<1> DEFINE natural == NextAnchorAfter(s, from)
<1>1. /\ s.start \in Day /\ s.start.month \in Nat /\ cutoff.month \in Nat
      /\ s.end \in Day \union {NoDate} /\ s.rent \in Nat
      /\ Anchor(s) \in 1..31
  BY NextAnchorIsLater DEF StayOK, Stay, Day
<1>2. from \in Day /\ BillingDay(s, from)
  <2>1. CASE from = s.start
    BY <1>1, <2>1 DEF BillingDay
  <2>2. CASE from # s.start
    <3>1. PICK m \in s.start.month..cutoff.month : from = AnchorDayIn(m, Anchor(s))
      BY <2>2 DEF PeriodStarts
    <3>2. m \in Nat /\ from.month = m
      BY <1>1, <3>1 DEF AnchorDayIn, On
    <3>3. from \in Day
      BY <1>1, <3>1, <3>2, AnchorIsDay
    <3>4. IsUpTo(s.start, from)
      BY DEF PeriodStarts
    <3>5. IsBefore(s.start, from)
      BY <1>1, <2>2, <3>3, <3>4, DaysAreOrdered DEF IsUpTo
    <3> QED BY <3>1, <3>2, <3>3, <3>5 DEF BillingDay
  <2> QED BY <2>1, <2>2
<1>3. natural \in Day /\ IsBefore(from, natural)
  BY <1>2, NextAnchorIsLater
<1>4. ~Left(s, from)
  BY DEF PeriodStarts
<1> HIDE DEF natural
<1>5. p.from = from /\ p.to = IF Left(s, natural) THEN s.end ELSE natural
  BY DEF PeriodFrom, natural
<1>6. /\ p.to \in Day /\ IsBefore(from, p.to) /\ IsUpTo(p.to, natural)
  <2>1. CASE Left(s, natural)
    BY <1>1, <1>4, <1>5, <2>1 DEF Left, IsUpTo
  <2>2. CASE ~Left(s, natural)
    BY <1>3, <1>5, <2>2 DEF IsUpTo, IsBefore, Day
  <2> QED BY <2>1, <2>2
<1>7. p.amount \in Nat
  <2>1. DaysBetween(from, p.to) \in Int
    BY <1>2, <1>6, CountIsInt DEF DaysBetween
  <2>2. DaysInMonth(from.month) \in 28..31
    BY <1>2, MonthLength DEF Day
  <2>3. ProRataPaise(s.rent, DaysBetween(from, p.to), DaysInMonth(from.month)) \in Nat
    BY <1>1, <2>1, <2>2, ProRataIsNat
  <2>4. p.amount \in {s.rent, ProRataPaise(s.rent, DaysBetween(from, p.to),
                                           DaysInMonth(from.month))}
    BY <1>5 DEF PeriodFrom, natural
  <2> QED BY <1>1, <2>3, <2>4
<1> QED BY <1>2, <1>5, <1>6, <1>7 DEF natural

(* The clock shows a day, as long as it runs.                              *)
LEMMA ClockRuns == Len(Clock) \in Nat \ {0} /\ \A n \in 1..Len(Clock) : Clock[n] \in Day
<1>1. Clock \in Seq(Day) /\ Len(Clock) > 0
  BY StaysOK DEF StaysAssumption
<1>2. Len(Clock) \in Nat
  BY <1>1
<1>3. \A n \in 1..Len(Clock) : Clock[n] \in Day
  BY <1>1
<1> QED BY <1>1, <1>2, <1>3

(* What is billed up to is a day.                                          *)
LEMMA CutoffIsDay == ASSUME Counters PROVE Cutoff \in Day
<1>1. Today \in Day
  BY ClockRuns DEF Counters, Today
<1> QED BY <1>1, PlusIsDay DEF Cutoff

(* One batch of drafts is on the calendar and names no period twice.       *)
LEMMA DraftsFit ==
    ASSUME Counters, Rows, NEW p
    PROVE  /\ Drafts(p) \subseteq Invoice
           /\ OneForEachKey(Drafts(p))
           /\ \A i \in Drafts(p) : OnCalendar(i) /\ i.allocated = 0 /\ i.status = "OPEN"
<1>1. ASSUME NEW i \in Drafts(p)
      PROVE  /\ i.tenancy \in Tenancies
             /\ i = Draft(i.tenancy, PeriodFrom(tenancy[i.tenancy], i.from))
             /\ OnCalendar(i) /\ i.allocated = 0 /\ i.status = "OPEN"
  <2>0. PICK t \in BillableTenancies(p) :
            \E from \in PeriodStarts(tenancy[t], Cutoff) : i = Draft(t, PeriodFrom(tenancy[t], from))
    BY DEF Drafts, RentPeriods
  <2>1. PICK from \in PeriodStarts(tenancy[t], Cutoff) : i = Draft(t, PeriodFrom(tenancy[t], from))
    BY <2>0
  <2>2. t \in Tenancies /\ tenancy[t].status # "NONE" /\ StayOK(tenancy[t])
    BY DEF BillableTenancies, Rows
  <2> PICK period : period = PeriodFrom(tenancy[t], from)
    OBVIOUS
  <2>3. /\ period.from = from /\ period.from \in Day /\ period.to \in Day
        /\ period.amount \in Nat /\ BillingDay(tenancy[t], period.from)
        /\ IsBefore(period.from, period.to)
        /\ IsUpTo(period.to, NextAnchorAfter(tenancy[t], period.from))
    BY <2>2, CutoffIsDay, PeriodFits
  <2>4. i = [tenancy |-> t, from |-> from, to |-> period.to, amount |-> period.amount,
             allocated |-> 0, status |-> "OPEN"]
    BY <2>1, <2>3 DEF Draft
  <2>5. i \in Invoice
    BY <2>2, <2>3, <2>4 DEF Invoice, InvoiceStatus
  <2>6. OfStay(i, tenancy[t])
    BY <2>2, <2>3, <2>4 DEF OfStay
  <2>7. i.tenancy = t /\ i.from = from /\ i.allocated = 0 /\ i.status = "OPEN"
    BY <2>4
  <2>8. OnCalendar(i)
    BY <2>5, <2>6, <2>7 DEF OnCalendar
  <2> QED BY <2>1, <2>2, <2>7, <2>8
<1>2. OneForEachKey(Drafts(p))
  <2> SUFFICES ASSUME NEW i \in Drafts(p), NEW j \in Drafts(p), Key(i) = Key(j) PROVE i = j
    BY DEF OneForEachKey
  <2>1. i.tenancy = j.tenancy /\ i.from = j.from
    BY DEF Key
  <2>2. /\ i = Draft(i.tenancy, PeriodFrom(tenancy[i.tenancy], i.from))
        /\ j = Draft(j.tenancy, PeriodFrom(tenancy[j.tenancy], j.from))
    BY <1>1
  <2> QED BY <2>1, <2>2
<1> QED BY <1>1, <1>2 DEF OnCalendar

(***************************************************************************)
(* What a step may do to the tenancies, the invoices and the slots         *)
(***************************************************************************)

KeepsStays ==
    /\ tenancy' \in [Tenancies -> Stay]
    /\ \A t \in Tenancies :
          /\ StayOK(tenancy'[t])
          /\ tenancy[t].status # "NONE" => /\ tenancy'[t].status # "NONE"
                                           /\ tenancy'[t].start = tenancy[t].start
                                           /\ tenancy'[t].anchor = tenancy[t].anchor

FillsUp ==
    \A i \in invoices : \E j \in invoices' :
        /\ Key(j) = Key(i) /\ j.to = i.to /\ j.amount = i.amount
        /\ j.allocated >= i.allocated

KeepsInvoices ==
    /\ \A i \in invoices' : OnCalendar(i)
    /\ OneForEachKey(invoices')
    /\ PaidIsCovered'
    /\ FillsUp

KeepsWork == work' \in [Slots -> Doing] /\ \A h \in Slots : SlotOK(work'[h])

Keeps == Counters' /\ KeepsStays /\ KeepsInvoices /\ KeepsWork

(* What is assumed of the house, its tenancies and the amounts that are    *)
(* paid.                                                                   *)
LEMMA BillingFacts ==
    /\ MaxPayments \in Nat /\ MaxFailures \in Nat /\ Amounts \subseteq Nat
    /\ PropertyOf \in [Tenancies -> Properties] /\ Requests \subseteq Slots /\ Jobs \subseteq Slots
BY BillingOK DEF BillingAssumption, Slots

(* Such a step keeps the invariant: what was on the calendar of a tenancy  *)
(* stays on it, and what a slot has read is still there.                   *)
LEMMA KeepsInv == ASSUME Inv, Keeps PROVE Inv'
<1>1. ASSUME NEW i, OnCalendar(i) PROVE OnCalendar(i)'
  <2> PICK t : t = i.tenancy
    OBVIOUS
  <2>1. t \in Tenancies /\ i \in Invoice /\ OfStay(i, tenancy[t])
    BY <1>1 DEF OnCalendar, Invoice
  <2>2. /\ tenancy[t].status # "NONE" /\ tenancy'[t].status # "NONE"
        /\ tenancy'[t].start = tenancy[t].start /\ tenancy'[t].anchor = tenancy[t].anchor
    BY <2>1 DEF Keeps, KeepsStays, OfStay
  <2>3. Anchor(tenancy'[t]) = Anchor(tenancy[t])
    BY <2>2 DEF Anchor
  <2>4. /\ BillingDay(tenancy'[t], i.from) <=> BillingDay(tenancy[t], i.from)
        /\ NextAnchorAfter(tenancy'[t], i.from) = NextAnchorAfter(tenancy[t], i.from)
    BY <2>2, <2>3 DEF BillingDay, NextAnchorAfter
  <2>5. OfStay(i, tenancy'[t])
    BY <2>1, <2>2, <2>4 DEF OfStay
  <2> QED BY <2>1, <2>5 DEF OnCalendar, OfStay
<1>2. ASSUME NEW was \in Invoice, StillThere(was) PROVE StillThere(was)'
  <2>1. PICK i \in invoices : /\ Key(i) = Key(was) /\ i.amount = was.amount
                              /\ i.allocated >= was.allocated
    BY <1>2 DEF StillThere
  <2>2. PICK j \in invoices' : /\ Key(j) = Key(i) /\ j.amount = i.amount
                               /\ j.allocated >= i.allocated
    BY <2>1 DEF Keeps, KeepsInvoices, FillsUp
  <2>3. i \in Invoice /\ j \in Invoice
    BY DEF Keeps, KeepsInvoices, Inv, Rows, OnCalendar
  <2>4. j.allocated >= was.allocated
    BY <2>1, <2>2, <2>3 DEF Invoice
  <2> QED BY <2>1, <2>2, <2>4 DEF StillThere, Key
<1>3. Rows'
  <2>1. tenancy' \in [Tenancies -> Stay] /\ \A t \in Tenancies : StayOK(tenancy'[t])
    BY DEF Keeps, KeepsStays
  <2>2. /\ \A i \in invoices' : OnCalendar(i)'
        /\ OneForEachKey(invoices') /\ PaidIsCovered'
    BY <1>1 DEF Keeps, KeepsInvoices
  <2> QED BY <2>1, <2>2 DEF Rows
<1>4. Working'
  <2> SUFFICES ASSUME NEW h \in Slots PROVE SlotOK(work[h])'
    BY DEF Keeps, KeepsWork, Working
  <2> PICK w : w = work'[h]
    OBVIOUS
  <2>1. SlotOK(w)
    BY DEF Keeps, KeepsWork
  <2>2. SlotOK(w)'
    BY <1>1, <1>2, <2>1 DEF SlotOK, Doing
  <2> QED BY <2>2
<1> QED BY <1>3, <1>4 DEF Inv, Keeps

(* What stays as it is stays right.                                        *)
LEMMA Unchanged ==
    ASSUME Inv
    PROVE  /\ UNCHANGED tenancy => KeepsStays
           /\ UNCHANGED invoices => KeepsInvoices
           /\ UNCHANGED work => KeepsWork
<1>1. ASSUME UNCHANGED tenancy PROVE KeepsStays
  BY <1>1 DEF Inv, Rows, KeepsStays
<1>2. ASSUME UNCHANGED invoices PROVE KeepsInvoices
  <2>1. \A i \in invoices : i \in Invoice
    BY DEF Inv, Rows, OnCalendar
  <2>2. FillsUp
    BY <1>2, <2>1 DEF FillsUp, Invoice
  <2> QED BY <1>2, <2>2 DEF Inv, Rows, KeepsInvoices, PaidIsCovered
<1>3. ASSUME UNCHANGED work PROVE KeepsWork
  BY <1>3 DEF Inv, Working, KeepsWork
<1> QED BY <1>1, <1>2, <1>3

(* A slot takes up something else.                                         *)
LEMMA SlotGoes ==
    ASSUME Inv, NEW h \in Slots, NEW w, SlotOK(w), Goes(h, w)
    PROVE  KeepsWork
BY DEF Inv, Working, KeepsWork, Goes, SlotOK

(* A slot with nothing to do holds no drafts and has read nothing.         *)
LEMMA IdleIsOK == SlotOK(Idle)
BY DEF SlotOK, Idle, Doing, Steps, OneForEachKey

(* A slot holds well-formed drafts and readings.                           *)
LEMMA SlotIsOK == ASSUME Inv, NEW h \in Slots PROVE SlotOK(work[h]) /\ work[h] \in Doing
BY DEF Inv, Working, SlotOK

(***************************************************************************)
(* The steps                                                               *)
(***************************************************************************)

(* Whoever raises invoices drafts them from the tenancies as they are, and *)
(* goes on to the insert; a payment names the invoice it is meant for.     *)
LEMMA DraftStep ==
    ASSUME Inv, NEW h \in Slots, NEW p, NEW w, Goes(h, w), w \in Doing,
           w.drafts = Drafts(p), w.seen \in {{}, work[h].seen}, UNCHANGED <<tenancy, invoices>>
    PROVE  KeepsStays /\ KeepsInvoices /\ KeepsWork
<1>1. SlotOK(work[h])
  BY SlotIsOK
<1>2. /\ OneForEachKey(w.drafts)
      /\ \A i \in w.drafts : OnCalendar(i) /\ i.allocated = 0 /\ i.status = "OPEN"
  BY DraftsFit DEF Inv
<1>3. \A i \in w.seen : StillThere(i)
  BY <1>1 DEF SlotOK
<1>4. SlotOK(w)
  BY <1>2, <1>3 DEF SlotOK
<1> QED BY <1>4, SlotGoes, Unchanged

(* The request, the payment and the job draft invoices.                    *)
LEMMA GenerateStep ==
    ASSUME Inv, NEW h \in Slots,
           \/ \E p \in Properties : GenerateForProperty(h, p) \/ NextProperty(h, p)
           \/ \E t \in Tenancies, amount \in Amounts :
                 \E target \in {None} \union {Key(i) : i \in InvoicesOf(t)} :
                     FindTenancyForBilling(h, t, amount, target)
    PROVE  Keeps
<1>1. \A p : Drafts(p) \in SUBSET Invoice
  BY DraftsFit DEF Inv
<1>2. work[h] \in Doing
  BY SlotIsOK
<1>3. CASE \E p \in Properties : GenerateForProperty(h, p)
  <2>1. PICK p \in Properties : GenerateForProperty(h, p)
    BY <1>3
  <2> PICK w : w = [Idle EXCEPT !.pc = "create", !.drafts = Drafts(p)]
    OBVIOUS
  <2>2. w \in Doing /\ w.drafts = Drafts(p) /\ w.seen = {}
    BY <1>1 DEF Idle, Doing, Steps
  <2>3. Goes(h, w) /\ UNCHANGED <<tick, tenancy, invoices, money, failures>>
    BY <2>1 DEF GenerateForProperty
  <2>4. Counters'
    BY <2>3 DEF Inv, Counters, money
  <2> QED BY <2>2, <2>3, <2>4, DraftStep DEF Keeps
<1>4. CASE \E p \in Properties : NextProperty(h, p)
  <2>1. PICK p \in Properties : NextProperty(h, p)
    BY <1>4
  <2> PICK w : w = [work[h] EXCEPT !.pc = "create", !.todo = @ \ {p}, !.drafts = Drafts(p)]
    OBVIOUS
  <2>2. w \in Doing /\ w.drafts = Drafts(p) /\ w.seen = work[h].seen
    BY <1>1, <1>2 DEF Doing, Steps
  <2>3. Goes(h, w) /\ UNCHANGED <<tick, tenancy, invoices, money, failures>>
    BY <2>1 DEF NextProperty
  <2>4. Counters'
    BY <2>3 DEF Inv, Counters, money
  <2> QED BY <2>2, <2>3, <2>4, DraftStep DEF Keeps
<1>5. ASSUME NEW t \in Tenancies, NEW amount \in Amounts,
             NEW target \in {None} \union {Key(i) : i \in InvoicesOf(t)},
             FindTenancyForBilling(h, t, amount, target)
      PROVE  Keeps
  <2> PICK w : w = [Idle EXCEPT !.pc = "create", !.t = t, !.amount = amount,
                                !.target = target, !.drafts = Drafts(PropertyOf[t])]
    OBVIOUS
  <2>1. target \in {None} \union (Tenancies \X Day)
    BY DEF Key, InvoicesOf, Inv, Rows, OnCalendar, Invoice
  <2>2. w \in Doing /\ w.drafts = Drafts(PropertyOf[t]) /\ w.seen = {}
    BY <1>1, <2>1, BillingFacts DEF Idle, Doing, Steps
  <2>3. /\ Goes(h, w) /\ payments' = payments + 1 /\ payments < MaxPayments
        /\ UNCHANGED <<tick, tenancy, invoices, credit, orphans, failures>>
    BY <1>5 DEF FindTenancyForBilling
  <2>4. Counters'
    BY <2>3, BillingFacts DEF Inv, Counters
  <2> QED BY <2>2, <2>3, <2>4, DraftStep DEF Keeps
<1> QED BY <1>3, <1>4, <1>5

(* A slot that does not touch its readings and drops its drafts, or ends.  *)
LEMMA SlotMovesOn ==
    ASSUME Inv, NEW h \in Slots, NEW pc \in Steps
    PROVE  SlotOK([work[h] EXCEPT !.pc = pc, !.drafts = {}])
<1> PICK w : w = [work[h] EXCEPT !.pc = pc, !.drafts = {}]
  OBVIOUS
<1>1. SlotOK(work[h]) /\ work[h] \in Doing
  BY SlotIsOK
<1>2. w \in Doing /\ w.drafts = {} /\ w.seen = work[h].seen
  BY <1>1 DEF Doing
<1>3. SlotOK(w)
  BY <1>1, <1>2 DEF SlotOK, OneForEachKey
<1> QED BY <1>3

(* The unique index: no second invoice for a period, whoever drafted it.   *)
LEMMA CreateStep == ASSUME Inv, NEW h \in Slots, CreateInvoices(h) PROVE Keeps
<1>1. SlotOK(work[h]) /\ work[h] \in Doing
  BY SlotIsOK
<1> PICK new : new = Inserted(work[h].drafts)
  OBVIOUS
<1>2. /\ invoices' = invoices \union new
      /\ \A i \in new : OnCalendar(i) /\ i.status = "OPEN"
      /\ \A i \in new, j \in invoices : Key(j) # Key(i)
      /\ OneForEachKey(new)
  BY <1>1 DEF CreateInvoices, Inserted, SlotOK, OneForEachKey
<1>3. OneForEachKey(invoices')
  BY <1>2 DEF OneForEachKey, Inv, Rows
<1>4. PaidIsCovered'
  BY <1>2 DEF PaidIsCovered, Inv, Rows
<1>5. FillsUp
  BY <1>2 DEF FillsUp, Inv, Rows, OnCalendar, Invoice
<1>6. KeepsInvoices
  BY <1>2, <1>3, <1>4, <1>5 DEF KeepsInvoices, Inv, Rows
<1>7. KeepsWork
  <2>1. /\ SlotOK([work[h] EXCEPT !.pc = "open", !.drafts = {}])
        /\ SlotOK([work[h] EXCEPT !.pc = "next", !.drafts = {}])
    BY SlotMovesOn DEF Steps
  <2>2. PICK w : Goes(h, w) /\ w \in {Idle, [work[h] EXCEPT !.pc = "open", !.drafts = {}],
                                           [work[h] EXCEPT !.pc = "next", !.drafts = {}]}
    BY DEF CreateInvoices
  <2>3. SlotOK(w)
    BY <2>1, <2>2, IdleIsOK
  <2> QED BY <2>2, <2>3, SlotGoes
<1>8. Counters' /\ KeepsStays
  BY Unchanged DEF CreateInvoices, money, Inv, Counters
<1> QED BY <1>6, <1>7, <1>8 DEF Keeps

(* The job starts, a property fails, a process dies.                       *)
LEMMA JobStep ==
    ASSUME Inv, NEW h \in Slots, StartNightlyRun(h) \/ PropertyFails(h) \/ Fail(h)
    PROVE  Keeps
<1>1. PICK w : Goes(h, w) /\ w \in {Idle, [work[h] EXCEPT !.pc = "next", !.drafts = {}],
                                    [Idle EXCEPT !.pc = "next", !.todo = PropertiesWithTenants]}
  BY DEF StartNightlyRun, PropertyFails, SkipProperty, Fail
<1>2. SlotOK([work[h] EXCEPT !.pc = "next", !.drafts = {}])
  BY SlotMovesOn DEF Steps
<1>3. SlotOK([Idle EXCEPT !.pc = "next", !.todo = PropertiesWithTenants])
  BY DEF SlotOK, Idle, Doing, Steps, OneForEachKey, PropertiesWithTenants
<1>4. SlotOK(w)
  BY <1>1, <1>2, <1>3, IdleIsOK
<1>5. UNCHANGED <<tick, tenancy, invoices, money>> /\ failures' \in 0..MaxFailures
  BY BillingFacts DEF StartNightlyRun, PropertyFails, Fail, Inv, Counters
<1>6. Counters'
  BY <1>5 DEF Inv, Counters, money
<1> QED BY <1>1, <1>4, <1>5, <1>6, SlotGoes, Unchanged DEF Keeps

(* The transaction's read.                                                 *)
LEMMA ReadStep == ASSUME Inv, NEW h \in Slots, ReadOpenInvoices(h) PROVE Keeps
<1> PICK S : S = {i \in InvoicesOf(work[h].t) :
                     /\ i.status \in {"OPEN", "PARTIALLY_PAID"}
                     /\ work[h].target \in {None, Key(i)}}
  OBVIOUS
<1> PICK w : w = [work[h] EXCEPT !.pc = "settle", !.seen = S]
  OBVIOUS
<1>1. SlotOK(work[h]) /\ work[h] \in Doing
  BY SlotIsOK
<1>2. S \subseteq invoices /\ \A i \in S : i \in Invoice
  BY DEF InvoicesOf, Inv, Rows, OnCalendar
<1>3. \A i \in S : StillThere(i)
  BY <1>2 DEF StillThere, Invoice
<1>4. w \in Doing /\ w.drafts = work[h].drafts /\ w.seen = S
  BY <1>1, <1>2 DEF Doing, Steps
<1>5. SlotOK(w)
  BY <1>1, <1>3, <1>4 DEF SlotOK
<1>6. Goes(h, w) /\ UNCHANGED <<tick, tenancy, invoices, money, failures>>
  BY DEF ReadOpenInvoices
<1>7. Counters'
  BY <1>6 DEF Inv, Counters, money
<1> QED BY <1>5, <1>6, <1>7, SlotGoes, Unchanged DEF Keeps

(* What the writes of a payment make of one invoice.                       *)
Settled(i, applied) ==
    IF \E was \in DOMAIN applied : Key(was) = Key(i) /\ applied[was] > 0
    THEN LET was == CHOOSE w \in DOMAIN applied : Key(w) = Key(i)
         IN  SettledBy(i, was, applied[was])
    ELSE i

(* An invoice is settled on a reading that may be old: less was allocated  *)
(* to it then than now, so what the reading calls covered is covered.      *)
LEMMA SettledRow ==
    ASSUME Inv, NEW S \in SUBSET Invoice, \A was \in S : StillThere(was),
           NEW amount \in Nat, NEW applied \in [S -> 0..amount], NEW i \in invoices
    PROVE  LET r == Settled(i, applied) IN
           /\ r \in Invoice /\ r.tenancy = i.tenancy /\ r.from = i.from /\ r.to = i.to
           /\ r.amount = i.amount /\ r.allocated >= i.allocated
           /\ r.status = "PAID" => r.allocated >= r.amount
<1> PICK r : r = Settled(i, applied)
  OBVIOUS
<1>1. i \in Invoice /\ (i.status = "PAID" => i.allocated >= i.amount)
  BY DEF Inv, Rows, OnCalendar, PaidIsCovered
<1>2. CASE r = i
  BY <1>1, <1>2 DEF Invoice
<1>3. CASE \E was \in S : Key(was) = Key(i) /\ applied[was] > 0
  <2>1. PICK was \in S : Key(was) = Key(i) /\ r = SettledBy(i, was, applied[was])
    BY <1>3 DEF Settled
  <2>2. PICK j \in invoices : /\ Key(j) = Key(was) /\ j.amount = was.amount
                              /\ j.allocated >= was.allocated
    BY DEF StillThere
  <2>3. j = i
    BY <2>1, <2>2 DEF Inv, Rows, OneForEachKey
  <2> PICK n : n = applied[was]
    OBVIOUS
  <2>4. /\ n \in Nat /\ i.allocated \in Nat /\ i.amount \in Nat
        /\ was.allocated \in Nat /\ was.amount \in Nat
    BY <1>1 DEF Invoice
  <2> PICK st : st = IF CoversInvoice(was, n) THEN "PAID" ELSE "PARTIALLY_PAID"
    OBVIOUS
  <2>5. r = [i EXCEPT !.allocated = i.allocated + n, !.status = st]
    BY <2>1 DEF SettledBy
  <2>6. st \in InvoiceStatus /\ i.allocated + n \in Nat
    BY <2>4 DEF InvoiceStatus
  <2>7. /\ r \in Invoice /\ r.tenancy = i.tenancy /\ r.from = i.from /\ r.to = i.to
        /\ r.amount = i.amount /\ r.allocated = i.allocated + n /\ r.status = st
    BY <1>1, <2>5, <2>6 DEF Invoice
  <2>8. st = "PAID" => i.allocated + n >= i.amount
    BY <2>2, <2>3, <2>4 DEF CoversInvoice
  <2> QED BY <2>4, <2>7, <2>8
<1>4. CASE ~\E was \in S : Key(was) = Key(i) /\ applied[was] > 0
  BY <1>2, <1>4 DEF Settled
<1> QED BY <1>3, <1>4

(* However many payments settle the same invoices at the same time.        *)
LEMMA PayStep == ASSUME Inv, NEW h \in Slots, RecordPayment(h) PROVE Keeps
<1> PICK S : S = work[h].seen
  OBVIOUS
<1> PICK amount : amount = work[h].amount
  OBVIOUS
<1>1. SlotOK(work[h]) /\ work[h] \in Doing
  BY SlotIsOK
<1>2. S \in SUBSET Invoice /\ amount \in Nat /\ \A was \in S : StillThere(was)
  BY <1>1 DEF SlotOK, Doing
<1>3. PICK applied \in [S -> 0..amount] : invoices' = SettledInvoices(applied)
  BY DEF RecordPayment
<1>4. invoices' = {Settled(i, applied) : i \in invoices}
  BY <1>3 DEF SettledInvoices, Settled
<1>5. ASSUME NEW i \in invoices
      PROVE  LET r == Settled(i, applied) IN
             /\ r \in Invoice /\ r.tenancy = i.tenancy /\ r.from = i.from /\ r.to = i.to
             /\ r.amount = i.amount /\ r.allocated >= i.allocated
             /\ r.status = "PAID" => r.allocated >= r.amount
  BY <1>2, SettledRow
<1>6. \A r \in invoices' : OnCalendar(r)
  <2> SUFFICES ASSUME NEW r \in invoices' PROVE OnCalendar(r)
    OBVIOUS
  <2>1. PICK i \in invoices : r = Settled(i, applied)
    BY <1>4
  <2>2. r \in Invoice /\ r.tenancy = i.tenancy /\ r.from = i.from /\ r.to = i.to
    BY <1>5, <2>1
  <2>3. OfStay(i, tenancy[i.tenancy])
    BY DEF Inv, Rows, OnCalendar
  <2>4. OfStay(r, tenancy[r.tenancy])
    BY <2>2, <2>3 DEF OfStay
  <2> QED BY <2>2, <2>4 DEF OnCalendar
<1>7. OneForEachKey(invoices')
  <2> SUFFICES ASSUME NEW i \in invoices, NEW j \in invoices,
                      Key(Settled(i, applied)) = Key(Settled(j, applied))
               PROVE  i = j
    BY <1>4 DEF OneForEachKey
  <2>1. Key(Settled(i, applied)) = Key(i) /\ Key(Settled(j, applied)) = Key(j)
    BY <1>5 DEF Key
  <2> QED BY <2>1 DEF Inv, Rows, OneForEachKey
<1>8. PaidIsCovered'
  BY <1>4, <1>5 DEF PaidIsCovered
<1>9. FillsUp
  <2> SUFFICES ASSUME NEW i \in invoices
               PROVE  \E j \in invoices' : /\ Key(j) = Key(i) /\ j.to = i.to /\ j.amount = i.amount
                                           /\ j.allocated >= i.allocated
    BY DEF FillsUp
  <2>1. Settled(i, applied) \in invoices'
    BY <1>4
  <2> QED BY <1>5, <2>1 DEF Key
<1>10. KeepsInvoices
  BY <1>6, <1>7, <1>8, <1>9 DEF KeepsInvoices
<1>11. Goes(h, Idle) /\ UNCHANGED <<tick, tenancy, orphans, payments, failures>>
  BY DEF RecordPayment
<1>12. Counters'
  BY <1>11 DEF Inv, Counters
<1> QED BY <1>10, <1>11, <1>12, IdleIsOK, SlotGoes, Unchanged DEF Keeps

(* A tenancy keeps its first day and its billing day.                      *)
LEMMA TenancyChanges ==
    ASSUME Inv, NEW t \in Tenancies, NEW r, tenancy' = [tenancy EXCEPT ![t] = r], StayOK(r),
           tenancy[t].status # "NONE" => /\ r.status # "NONE" /\ r.start = tenancy[t].start
                                         /\ r.anchor = tenancy[t].anchor
    PROVE  KeepsStays
<1>1. tenancy \in [Tenancies -> Stay] /\ \A u \in Tenancies : StayOK(tenancy[u])
  BY DEF Inv, Rows
<1>2. r \in Stay
  BY DEF StayOK
<1>3. tenancy' \in [Tenancies -> Stay]
  BY <1>1, <1>2
<1>4. ASSUME NEW u \in Tenancies
      PROVE  /\ StayOK(tenancy'[u])
             /\ tenancy[u].status # "NONE" => /\ tenancy'[u].status # "NONE"
                                              /\ tenancy'[u].start = tenancy[u].start
                                              /\ tenancy'[u].anchor = tenancy[u].anchor
  <2>1. CASE u = t
    BY <1>1, <2>1
  <2>2. CASE u # t
    BY <1>1, <2>2
  <2> QED BY <2>1, <2>2
<1> QED BY <1>3, <1>4 DEF KeepsStays

(* Moving in, giving notice and leaving, on whatever day.                  *)
LEMMA TenancyStep ==
    ASSUME Inv, NEW t \in Tenancies,
           \/ \E stay \in Stays : MoveIn(t, stay)
           \/ \E day \in LeavingDays : GiveNotice(t, day) \/ CheckOut(t, day)
    PROVE  Keeps
<1>1. tenancy \in [Tenancies -> Stay] /\ StayOK(tenancy[t]) /\ tenancy[t] \in Stay
  BY DEF Inv, Rows
<1>2. UNCHANGED <<tick, invoices, payments, work, failures>> /\ orphans' \subseteq Tenancies
  BY DEF MoveIn, GiveNotice, CheckOut, money, Inv, Counters
<1>3. Counters'
  BY <1>2 DEF Inv, Counters
<1>4. ASSUME NEW stay \in Stays, MoveIn(t, stay) PROVE KeepsStays
  <2> PICK r : r = [status |-> "ACTIVE", start |-> stay.start, end |-> NoDate,
                    anchor |-> stay.anchor, rent |-> stay.rent]
    OBVIOUS
  <2>1. StayOK(r)
    BY StaysOK DEF StaysAssumption, Stay, StayOK
  <2>2. tenancy' = [tenancy EXCEPT ![t] = r] /\ tenancy[t].status = "NONE"
    BY <1>4 DEF MoveIn
  <2> QED BY <2>1, <2>2, TenancyChanges
<1>5. ASSUME NEW status \in {"NOTICE_GIVEN", "ENDED"}, NEW day \in Day,
             tenancy[t].status # "NONE", IsUpTo(tenancy[t].start, day),
             tenancy' = [tenancy EXCEPT ![t].status = status, ![t].end = day]
      PROVE  KeepsStays
  <2> PICK r : r = [tenancy[t] EXCEPT !.status = status, !.end = day]
    OBVIOUS
  <2>1. /\ r \in Stay /\ r.status = status /\ r.end = day
        /\ r.start = tenancy[t].start /\ r.anchor = tenancy[t].anchor
    BY <1>1 DEF Stay
  <2>2. StayOK(r)
    BY <1>1, <1>5, <2>1 DEF StayOK
  <2>3. tenancy' = [tenancy EXCEPT ![t] = r]
    BY <1>1, <1>5
  <2> QED BY <1>5, <2>1, <2>2, <2>3, TenancyChanges
<1>6. ASSUME NEW day \in LeavingDays, GiveNotice(t, day) \/ CheckOut(t, day) PROVE KeepsStays
  <2>1. day \in Day /\ tenancy[t].status # "NONE" /\ tenancy[t].start \in Day
    BY <1>1, <1>6, StaysOK DEF GiveNotice, CheckOut, StaysAssumption, StayOK
  <2> PICK last : last = IF IsBefore(day, tenancy[t].start) THEN tenancy[t].start ELSE day
    OBVIOUS
  <2>2. last \in Day /\ IsUpTo(tenancy[t].start, last)
    BY <2>1 DEF IsUpTo, IsBefore, Day
  <2>3. CASE GiveNotice(t, day)
    <3>1. IsUpTo(tenancy[t].start, day)
      BY <2>1, <2>3 DEF GiveNotice, IsUpTo, IsBefore, Day
    <3> QED BY <1>5, <2>1, <2>3, <3>1 DEF GiveNotice
  <2>4. CASE CheckOut(t, day)
    <3>1. tenancy' = [tenancy EXCEPT ![t].status = "ENDED", ![t].end = last]
      BY <2>4 DEF CheckOut
    <3> QED BY <1>5, <2>1, <2>2, <3>1
  <2> QED BY <1>6, <2>3, <2>4
<1> QED BY <1>2, <1>3, <1>4, <1>5, <1>6, Unchanged DEF Keeps

(***************************************************************************)
(* The theorems                                                            *)
(***************************************************************************)

(* Before anyone moves in there is no invoice, so no night is billed and   *)
(* nothing is owed.                                                        *)
LEMMA InitInv == Init => Inv
<1> SUFFICES ASSUME Init PROVE Inv
  OBVIOUS
<1>1. Counters
  BY BillingFacts, ClockRuns DEF Init, Counters
<1>2. NoStay \in Stay /\ StayOK(NoStay)
  BY DEF NoStay, Stay, StayOK
<1>3. Rows
  BY <1>2 DEF Init, Rows, OneForEachKey, PaidIsCovered
<1>4. Working
  BY IdleIsOK DEF Init, Working, SlotOK
<1> QED BY <1>1, <1>3, <1>4 DEF Inv

(* Every step keeps what is on the calendar and what the slots have read   *)
(* of it.                                                                  *)
LEMMA StepKeeps == ASSUME Inv, [Next]_vars PROVE Keeps
<1>1. ASSUME NEW h \in Requests,
             \/ \E p \in Properties : GenerateForProperty(h, p)
             \/ \E t \in Tenancies, amount \in Amounts :
                   \E target \in {None} \union {Key(i) : i \in InvoicesOf(t)} :
                       FindTenancyForBilling(h, t, amount, target)
             \/ CreateInvoices(h) \/ ReadOpenInvoices(h) \/ RecordPayment(h)
      PROVE  Keeps
  <2>1. h \in Slots
    BY BillingFacts
  <2> QED BY <1>1, <2>1, GenerateStep, CreateStep, ReadStep, PayStep
<1>2. ASSUME NEW j \in Jobs, Job(j) \/ PropertyFails(j) PROVE Keeps
  <2>1. j \in Slots
    BY BillingFacts
  <2> QED BY <1>2, <2>1, GenerateStep, CreateStep, JobStep DEF Job
<1>3. ASSUME NEW h \in Slots, Fail(h) PROVE Keeps
  BY <1>3, JobStep
<1>4. ASSUME NEW t \in Tenancies,
             \/ \E stay \in Stays : MoveIn(t, stay)
             \/ \E day \in LeavingDays : GiveNotice(t, day) \/ CheckOut(t, day)
      PROVE  Keeps
  BY <1>4, TenancyStep
<1>5. CASE NextDay
  <2>1. UNCHANGED <<tenancy, invoices, money, work, failures>> /\ tick' \in 1..Len(Clock)
    BY <1>5, ClockRuns DEF NextDay, Inv, Counters
  <2>2. Counters'
    BY <2>1 DEF Inv, Counters, money
  <2> QED BY <2>1, <2>2, Unchanged DEF Keeps
<1>6. CASE UNCHANGED vars
  <2>1. Counters'
    BY <1>6 DEF vars, Inv, Counters
  <2> QED BY <1>6, <2>1, Unchanged DEF Keeps, vars
<1> QED BY <1>1, <1>2, <1>3, <1>4, <1>5, <1>6 DEF Next

(* Inv holds in every state: every invoice, drafted or raised, is for a    *)
(* period of its tenancy's own calendar, no two of them for the same, and  *)
(* what a payment has read is still there when it writes.                  *)
THEOREM InvHolds == Spec => []Inv
<1>1. Inv /\ [Next]_vars => Inv'
  BY StepKeeps, KeepsInv
<1> QED BY <1>1, InitInv, PTL DEF Spec

(* (tenancy, cycleKey) stays a key of the invoices (createInvoices), and   *)
(* rows and requests keep the shape the schema and the handlers give them. *)
THEOREM RowsAreWellFormed == Spec => []Shapes
<1>1. ASSUME Inv PROVE Shapes
  <2>1. ASSUME NEW t \in Tenancies
        PROVE  /\ tenancy[t].status \in {"NONE", "ACTIVE", "NOTICE_GIVEN", "ENDED"}
               /\ tenancy[t].status # "NONE" => tenancy[t].start \in Day
               /\ tenancy[t].end # NoDate => IsUpTo(tenancy[t].start, tenancy[t].end)
    BY <1>1 DEF Inv, Rows, StayOK, Stay
  <2>2. /\ \A i \in invoices : i \in Invoice
        /\ \A i, j \in invoices : Key(i) = Key(j) => i = j
    BY <1>1 DEF Inv, Rows, OnCalendar, OneForEachKey
  <2>3. ASSUME NEW h \in Slots
        PROVE  /\ work[h].pc \in Steps /\ work[h].todo \subseteq Properties
               /\ \A i \in work[h].drafts \union work[h].seen : i \in Invoice
    BY <1>1 DEF Inv, Working, Doing
  <2> QED BY <1>1, <2>1, <2>2, <2>3 DEF Shapes, Inv, Counters
<1> QED BY <1>1, InvHolds, PTL

(* No night is billed twice (cycleKeyFor, rentPeriods), whoever raises the *)
(* invoices and whatever notice is given between the look and the insert.  *)
THEOREM NoNightIsBilledTwice == Spec => []NoDayBilledTwice
<1>1. ASSUME Inv PROVE NoDayBilledTwice
  <2> SUFFICES ASSUME NEW i \in invoices, NEW j \in invoices, i.tenancy = j.tenancy, i # j
               PROVE  IsUpTo(i.to, j.from) \/ IsUpTo(j.to, i.from)
    BY DEF NoDayBilledTwice
  <2> PICK s : s = tenancy[i.tenancy]
    OBVIOUS
  <2>1. /\ i \in Invoice /\ j \in Invoice /\ OfStay(i, s) /\ OfStay(j, s) /\ i.from # j.from
    BY <1>1 DEF Inv, Rows, OnCalendar, OneForEachKey, Key
  <2>2. /\ i.from \in Day /\ j.from \in Day /\ i.to \in Day /\ j.to \in Day
        /\ i.tenancy \in Tenancies
    BY <2>1 DEF Invoice
  <2>3. StayOK(s) /\ s.status # "NONE"
    BY <1>1, <2>1, <2>2 DEF Inv, Rows, OfStay
  <2>4. /\ NextAnchorAfter(s, i.from) \in Day /\ NextAnchorAfter(s, j.from) \in Day
    BY <2>2, <2>3, NextAnchorIsLater
  <2>5. CASE IsBefore(i.from, j.from)
    <3>1. IsUpTo(NextAnchorAfter(s, i.from), j.from)
      BY <2>1, <2>2, <2>3, <2>5, PeriodsDoNotMeet DEF OfStay
    <3> QED BY <2>1, <2>2, <2>4, <3>1, UpToIsTransitive DEF OfStay
  <2>6. CASE IsBefore(j.from, i.from)
    <3>1. IsUpTo(NextAnchorAfter(s, j.from), i.from)
      BY <2>1, <2>2, <2>3, <2>6, PeriodsDoNotMeet DEF OfStay
    <3> QED BY <2>1, <2>2, <2>4, <3>1, UpToIsTransitive DEF OfStay
  <2> QED BY <2>1, <2>2, <2>5, <2>6, DaysAreOrdered
<1> QED BY <1>1, InvHolds, PTL

(* What is marked PAID was paid in full (recordPayment), however many      *)
(* payments were settled on the same reading: so nobody who owes drops off *)
(* the list of those to chase.                                             *)
THEOREM PaidMeansPaid == Spec => []PaidIsCovered
<1>1. Inv => PaidIsCovered
  BY DEF Inv, Rows
<1> QED BY <1>1, InvHolds, PTL

(* No step takes back an invoice, its period, its amount or what was       *)
(* allocated to it.                                                        *)
THEOREM InvoicesOnlyGrow == Spec => InvoicesOnlyFillUp
<1>1. Inv /\ [Next]_vars => FillsUp
  BY StepKeeps DEF Keeps, KeepsInvoices
<1>2. Inv /\ [Next]_vars =>
        [\A i \in invoices : \E j \in invoices' :
            Key(j) = Key(i) /\ j.to = i.to /\ j.amount = i.amount
            /\ j.allocated >= i.allocated]_invoices
  BY <1>1 DEF FillsUp
<1> QED BY <1>2, InvHolds, PTL DEF Spec, InvoicesOnlyFillUp

(***************************************************************************)
(* Sums of amounts.  A total is defined by recursion over the set, one     *)
(* chosen element after the other; what is said of totals here is shown of *)
(* a smallest set of which it is not so.                                   *)
(***************************************************************************)

(* The sum as the community modules define it, and a sum in any order.     *)
SumsTo(it, f, S) ==
    it = [s \in SUBSET S |-> IF s = {} THEN 0
                             ELSE LET x == CHOOSE x \in s : TRUE IN f[x] + it[s \ {x}]]

Additive(g, f, S) ==
    /\ g \in [SUBSET S -> Int] /\ g[{}] = 0
    /\ \A s \in SUBSET S : \A x \in s : g[s] = f[x] + g[s \ {x}]

(* Of some sets one is smallest: it has no element too many.               *)
LEMMA OneIsSmallest ==
    ASSUME NEW S, IsFiniteSet(S), NEW T \in SUBSET SUBSET S, T # {}
    PROVE  \E s \in T : \A x \in s : s \ {x} \notin T
<1>1. T \subseteq FiniteSubsetsOf(S)
  BY FS_Subset DEF FiniteSubsetsOf
<1>2. \E s \in T : \A r \in T : <<r, s>> \notin StrictSubsetOrdering(S)
  BY <1>1, FS_StrictSubsetOrderingWellFounded, WFMin
<1>3. PICK s \in T : \A r \in T : <<r, s>> \notin StrictSubsetOrdering(S)
  BY <1>2
<1>4. ASSUME NEW x \in s, s \ {x} \in T PROVE FALSE
  <2>1. <<s \ {x}, s>> \in StrictSubsetOrdering(S)
    BY DEF StrictSubsetOrdering
  <2> QED BY <1>3, <1>4, <2>1
<1> QED BY <1>3, <1>4

(* Sums exist: with one element more, each sum with it is one without it   *)
(* and its own.                                                            *)
LEMMA SumExists ==
    ASSUME NEW S, IsFiniteSet(S), NEW f, \A x \in S : f[x] \in Int
    PROVE  \E g : Additive(g, f, S)
<1> DEFINE T == {s \in SUBSET S : ~\E g : Additive(g, f, s)}
<1>1. SUFFICES ASSUME T # {} PROVE FALSE
  OBVIOUS
<1>2. PICK s \in T : \A x \in s : s \ {x} \notin T
  BY <1>1, OneIsSmallest
<1>3. s \in SUBSET S /\ ~\E g : Additive(g, f, s)
  BY DEF T
<1>4. CASE s = {}
  <2>1. Additive([r \in {{}} |-> 0], f, s)
    BY <1>4 DEF Additive
  <2> QED BY <1>3, <2>1
<1>5. ASSUME NEW x \in s PROVE FALSE
  <2> DEFINE less == s \ {x}
  <2>1. PICK g : Additive(g, f, less)
    BY <1>2, <1>3 DEF T
  <2>2. /\ less \in SUBSET s /\ x \notin less /\ f[x] \in Int
        /\ \A r \in SUBSET s : r \ {x} \in SUBSET less
        /\ \A r \in SUBSET s : x \notin r => r \in SUBSET less
    BY <1>3
  <2> HIDE DEF less
  <2> DEFINE h == [r \in SUBSET s |-> IF x \in r THEN f[x] + g[r \ {x}] ELSE g[r]]
  <2>3. h \in [SUBSET s -> Int] /\ h[{}] = 0
    BY <2>1, <2>2 DEF Additive
  <2>4. ASSUME NEW r \in SUBSET s, NEW y \in r PROVE h[r] = f[y] + h[r \ {y}]
    <3>1. f[y] \in Int /\ r \ {y} \in SUBSET s
      BY <1>3
    <3>2. CASE y = x
      BY <2>2, <3>1, <3>2
    <3>3. CASE y # x /\ x \in r
      <4> PICK q : q = r \ {x}
        OBVIOUS
      <4>1. q \in SUBSET less /\ y \in q /\ q \ {y} \in SUBSET less
        BY <2>2, <3>3
      <4>2. (r \ {y}) \ {x} = q \ {y}
        OBVIOUS
      <4>3. g[q] = f[y] + g[q \ {y}] /\ g[q \ {y}] \in Int
        BY <2>1, <4>1 DEF Additive
      <4>4. h[r] = f[x] + g[q] /\ h[r \ {y}] = f[x] + g[q \ {y}]
        BY <3>1, <3>3, <4>2
      <4> QED BY <2>2, <3>1, <4>3, <4>4
    <3>4. CASE x \notin r
      <4>1. r \in SUBSET less
        BY <2>2, <3>4
      <4>2. g[r] = f[y] + g[r \ {y}]
        BY <2>1, <4>1 DEF Additive
      <4>3. h[r] = g[r] /\ h[r \ {y}] = g[r \ {y}]
        BY <3>1, <3>4
      <4> QED BY <4>2, <4>3
    <3> QED BY <3>2, <3>3, <3>4
  <2>5. Additive(h, f, s)
    BY <2>3, <2>4 DEF Additive
  <2> QED BY <1>3, <2>5
<1> QED BY <1>4, <1>5

(* The sum in the order in which elements are chosen is that in any order. *)
LEMMA SumIsOne ==
    ASSUME NEW S, IsFiniteSet(S), NEW f, NEW g, Additive(g, f, S), NEW it, SumsTo(it, f, S)
    PROVE  \A s \in SUBSET S : it[s] = g[s]
<1> DEFINE T == {s \in SUBSET S : it[s] # g[s]}
<1>1. SUFFICES ASSUME T # {} PROVE FALSE
  OBVIOUS
<1>2. PICK s \in T : \A x \in s : s \ {x} \notin T
  BY <1>1, OneIsSmallest
<1>3. s \in SUBSET S /\ it[s] # g[s]
  BY DEF T
<1>4. CASE s = {}
  <2>1. it[s] = 0
    BY <1>3, <1>4 DEF SumsTo
  <2> QED BY <1>3, <1>4, <2>1 DEF Additive
<1>5. CASE s # {}
  <2> PICK x : x = CHOOSE y \in s : TRUE
    OBVIOUS
  <2>1. x \in s /\ s \ {x} \in SUBSET S
    BY <1>3, <1>5
  <2>2. it[s] = f[x] + it[s \ {x}]
    BY <1>3, <1>5 DEF SumsTo
  <2>3. it[s \ {x}] = g[s \ {x}]
    BY <1>2, <2>1
  <2> QED BY <1>3, <2>1, <2>2, <2>3 DEF Additive
<1> QED BY <1>4, <1>5

(* A sum is one of each part.                                              *)
LEMMA SumOfPart ==
    ASSUME NEW S, NEW f, NEW g, Additive(g, f, S), NEW R \in SUBSET S
    PROVE  Additive([s \in SUBSET R |-> g[s]], f, R)
BY DEF Additive

(* A sum in any order is one in the order in which elements are chosen.    *)
LEMMA SumFound ==
    ASSUME NEW S, IsFiniteSet(S), NEW f, NEW g, Additive(g, f, S)
    PROVE  SumsTo(g, f, S)
<1> DEFINE it == [s \in SUBSET S |-> IF s = {} THEN 0
                                     ELSE LET x == CHOOSE x \in s : TRUE IN f[x] + g[s \ {x}]]
<1>1. ASSUME NEW s \in SUBSET S PROVE it[s] = g[s]
  <2>1. CASE s = {}
    BY <2>1 DEF Additive
  <2>2. CASE s # {}
    <3> PICK x : x = CHOOSE y \in s : TRUE
      OBVIOUS
    <3>1. x \in s
      BY <2>2
    <3>2. it[s] = f[x] + g[s \ {x}]
      BY <2>2
    <3> QED BY <3>1, <3>2 DEF Additive
  <2> QED BY <2>1, <2>2
<1>2. g = [s \in SUBSET S |-> g[s]]
  BY DEF Additive
<1> HIDE DEF it
<1>3. it = [s \in SUBSET S |-> it[s]]
  BY DEF it
<1>4. g = it
  BY <1>1, <1>2, <1>3
<1> QED BY <1>4 DEF it, SumsTo

(* What CHOOSE takes of a set is of it.                                     *)
LEMMA OneOfThem == \A S : \A s \in SUBSET S : s # {} => (CHOOSE x \in s : TRUE) \in S
OBVIOUS

(* A total is a sum in any order.                                          *)
LEMMA TotalIsSum ==
    ASSUME NEW S, IsFiniteSet(S), NEW f, NEW g, Additive(g, f, S)
    PROVE  SumFunctionOnSet(f, S) = g[S]
<1> DEFINE it == CHOOSE it : SumsTo(it, f, S)
<1>1. SumFunctionOnSet(f, S) = it[S]
  BY DEF SumFunctionOnSet, FoldFunctionOnSet, MapThenFoldSet, SumsTo
<1>2. SumsTo(it, f, S)
  <2>1. SumsTo(g, f, S)
    BY SumFound
  <2> HIDE DEF SumsTo
  <2> QED BY <2>1
<1> HIDE DEF it
<1> QED BY <1>1, <1>2, SumIsOne

(* Sums of the same things compare as the things do.                       *)
LEMMA SumsCompare ==
    ASSUME NEW S, IsFiniteSet(S), NEW a, NEW b, NEW c, NEW ga, NEW gb, NEW gc,
           Additive(ga, a, S), Additive(gb, b, S), Additive(gc, c, S),
           \A x \in S : a[x] \in Int /\ b[x] \in Int /\ c[x] \in Int /\ a[x] - b[x] <= c[x]
    PROVE  \A s \in SUBSET S : ga[s] - gb[s] <= gc[s]
<1> DEFINE T == {s \in SUBSET S : ~(ga[s] - gb[s] <= gc[s])}
<1>1. SUFFICES ASSUME T # {} PROVE FALSE
  OBVIOUS
<1>2. PICK s \in T : \A x \in s : s \ {x} \notin T
  BY <1>1, OneIsSmallest
<1>3. s \in SUBSET S /\ ~(ga[s] - gb[s] <= gc[s])
  BY DEF T
<1>4. CASE s = {}
  BY <1>3, <1>4 DEF Additive
<1>5. ASSUME NEW x \in s PROVE FALSE
  <2> PICK r : r = s \ {x}
    OBVIOUS
  <2>1. r \in SUBSET S /\ ga[r] - gb[r] <= gc[r]
    BY <1>2, <1>3 DEF T
  <2>2. /\ ga[s] = a[x] + ga[r] /\ gb[s] = b[x] + gb[r] /\ gc[s] = c[x] + gc[r]
        /\ ga[r] \in Int /\ gb[r] \in Int /\ gc[r] \in Int
    BY <1>3, <2>1 DEF Additive
  <2>3. a[x] \in Int /\ b[x] \in Int /\ c[x] \in Int /\ a[x] - b[x] <= c[x]
    BY <1>3
  <2> QED BY <1>3, <2>1, <2>2, <2>3
<1> QED BY <1>4, <1>5

(* The sum over two parts is the two sums.                                 *)
LEMMA SumOfParts ==
    ASSUME NEW S, IsFiniteSet(S), NEW f, NEW g, Additive(g, f, S), \A x \in S : f[x] \in Int,
           NEW A \in SUBSET S, NEW B \in SUBSET S, A \intersect B = {}
    PROVE  g[A \union B] = g[A] + g[B]
<1> DEFINE T == {s \in SUBSET S : \E u \in SUBSET S :
                     s \intersect B = {} /\ u = s \union B /\ g[u] # g[s] + g[B]}
<1>1. SUFFICES ASSUME T # {} PROVE FALSE
  <2> PICK u : u = A \union B
    OBVIOUS
  <2>1. u \in SUBSET S /\ (g[u] = g[A] + g[B] => g[A \union B] = g[A] + g[B])
    OBVIOUS
  <2>2. g[u] = g[A] + g[B]
    BY <2>1
  <2> QED BY <2>1, <2>2
<1>2. PICK s \in T : \A x \in s : s \ {x} \notin T
  BY <1>1, OneIsSmallest
<1>3. PICK u \in SUBSET S : /\ s \in SUBSET S /\ s \intersect B = {} /\ u = s \union B
                           /\ g[u] # g[s] + g[B]
  BY DEF T
<1>4. CASE s = {}
  <2>1. u = B
    BY <1>3, <1>4
  <2>2. g[B] \in Int /\ g[s] = 0
    <3>1. g \in [SUBSET S -> Int] /\ g[{}] = 0
      BY DEF Additive
    <3> QED BY <1>4, <3>1
  <2> QED BY <1>3, <2>1, <2>2
<1>5. ASSUME NEW x \in s PROVE FALSE
  <2> PICK r : r = s \ {x}
    OBVIOUS
  <2> PICK v : v = u \ {x}
    OBVIOUS
  <2>1. /\ r \in SUBSET S /\ r \intersect B = {} /\ x \in S /\ x \in u
        /\ v \in SUBSET S /\ v = r \union B
    BY <1>3
  <2>2. g[v] = g[r] + g[B]
    BY <1>2, <2>1 DEF T
  <2>3. g[s] = f[x] + g[r]
    BY <1>3 DEF Additive
  <2>4. g[u] = f[x] + g[v]
    <3>1. x \in u
      BY <1>3
    <3>2. \A y \in u : g[u] = f[y] + g[u \ {y}]
      BY DEF Additive
    <3> QED BY <3>1, <3>2
  <2>5. f[x] \in Int /\ g[r] \in Int /\ g[B] \in Int
    BY <2>1 DEF Additive
  <2> QED BY <1>3, <2>2, <2>3, <2>4, <2>5
<1> QED BY <1>4, <1>5

(* What adds nothing adds up to nothing, and what takes away nothing to no *)
(* less.                                                                   *)
LEMMA SumIsNat ==
    ASSUME NEW S, IsFiniteSet(S), NEW f, NEW g, Additive(g, f, S), \A x \in S : f[x] \in Nat
    PROVE  \A s \in SUBSET S : g[s] \in Nat /\ ((\A x \in s : f[x] = 0) => g[s] = 0)
<1> DEFINE T == {s \in SUBSET S : ~(g[s] \in Nat /\ ((\A x \in s : f[x] = 0) => g[s] = 0))}
<1>1. SUFFICES ASSUME T # {} PROVE FALSE
  OBVIOUS
<1>2. PICK s \in T : \A x \in s : s \ {x} \notin T
  BY <1>1, OneIsSmallest
<1>3. s \in SUBSET S
  BY DEF T
<1>4. CASE s = {}
  BY <1>4 DEF Additive
<1>5. ASSUME NEW x \in s PROVE FALSE
  <2> PICK r : r = s \ {x}
    OBVIOUS
  <2>1. r \in SUBSET S /\ g[r] \in Nat /\ ((\A y \in r : f[y] = 0) => g[r] = 0)
    BY <1>2, <1>3 DEF T
  <2>2. g[s] = f[x] + g[r] /\ f[x] \in Nat
    BY <1>3 DEF Additive
  <2>3. g[s] \in Nat /\ ((\A y \in s : f[y] = 0) => g[s] = 0)
    BY <2>1, <2>2
  <2> QED BY <2>3
<1> QED BY <1>4, <1>5

(***************************************************************************)
(* What a payment applies                                                  *)
(***************************************************************************)

(* No two of the invoices begin on one day.                                *)
OneADay(S) == \A i, j \in S : i.from = j.from => i = j

(* Of some invoices one is the latest.                                     *)
LEMMA OneIsLatest ==
    ASSUME NEW S \in SUBSET Invoice, IsFiniteSet(S), S # {}
    PROVE  \E i \in S : \A j \in S : IsUpTo(j.from, i.from)
<1> DEFINE T == {s \in SUBSET S : s # {} /\ ~\E i \in s : \A j \in s : IsUpTo(j.from, i.from)}
<1>1. SUFFICES ASSUME T # {} PROVE FALSE
  OBVIOUS
<1>2. PICK s \in T : \A x \in s : s \ {x} \notin T
  BY <1>1, OneIsSmallest
<1>3. /\ s \in SUBSET S /\ s # {} /\ ~\E i \in s : \A j \in s : IsUpTo(j.from, i.from)
      /\ \A i \in s : i.from \in Day
  BY DEF T, Invoice
<1>4. PICK x \in s : TRUE
  BY <1>3
<1>5. PICK y \in s : y # x /\ \A j \in s \ {x} : IsUpTo(j.from, y.from)
  <2>1. IsUpTo(x.from, x.from)
    BY <1>3 DEF IsUpTo, IsBefore, Day
  <2>2. PICK r : r = s \ {x}
    OBVIOUS
  <2>3. r # {}
    BY <1>3, <2>1, <2>2
  <2>4. r \in SUBSET S /\ r \notin T
    BY <1>2, <1>3, <2>2
  <2>5. PICK y \in r : \A j \in r : IsUpTo(j.from, y.from)
    BY <2>3, <2>4 DEF T
  <2>6. y \in s /\ y # x
    BY <2>2, <2>5
  <2> QED BY <2>2, <2>5, <2>6
<1>6. PICK j \in s : ~IsUpTo(j.from, y.from)
  BY <1>3
<1>7. ~IsUpTo(x.from, y.from)
  BY <1>5, <1>6
<1>8. IsUpTo(y.from, x.from) /\ IsUpTo(x.from, x.from)
  <2>1. x.from \in Day /\ y.from \in Day
    BY <1>3
  <2> QED BY <1>7, <2>1 DEF IsUpTo, IsBefore, Day
<1>9. \A k \in s : IsUpTo(k.from, x.from)
  BY <1>3, <1>5, <1>8, UpToIsTransitive
<1> QED BY <1>3, <1>9

(* Oldest first, as far as the money goes: no more is applied than there   *)
(* is money.                                                               *)
LEMMA AppliedIsPaid ==
    ASSUME NEW S \in SUBSET Invoice, IsFiniteSet(S), OneADay(S), NEW amount \in Nat,
           NEW applied \in [S -> 0..amount], OldestFirst(applied, S, amount)
    PROVE  Total(LAMBDA i : applied[i], S) \in 0..amount
<1> DEFINE owed == [i \in S |-> Outstanding(i)]
<1>1. \A i \in S : owed[i] \in Nat /\ applied[i] \in Nat
  BY DEF Invoice, Outstanding
<1>2. applied = [i \in S |-> applied[i]]
  OBVIOUS
<1>3. \A s \in SUBSET S : IsFiniteSet(s)
  BY FS_Subset
<1>4. \A R \in SUBSET S : Total(Outstanding, R) = SumFunctionOnSet([i \in R |-> owed[i]], R)
  <2>1. \A R \in SUBSET S : [i \in R |-> Outstanding(i)] = [i \in R |-> owed[i]]
    OBVIOUS
  <2> QED BY <2>1 DEF Total
<1> HIDE DEF owed
<1>5. PICK go : Additive(go, owed, S)
  BY <1>1, SumExists
<1>6. PICK ga : Additive(ga, applied, S)
  BY <1>1, SumExists
<1>7. ASSUME NEW R \in SUBSET S PROVE Total(Outstanding, R) = go[R]
  <2> DEFINE part == [i \in R |-> owed[i]]
  <2>1. Additive([s \in SUBSET R |-> go[s]], owed, R)
    BY <1>5, SumOfPart
  <2>2. Additive([s \in SUBSET R |-> go[s]], part, R)
    BY <2>1 DEF Additive
  <2> HIDE DEF part
  <2>3. SumFunctionOnSet(part, R) = [s \in SUBSET R |-> go[s]][R]
    BY <1>3, <2>2, TotalIsSum
  <2> QED BY <1>4, <2>3 DEF part
<1>8. Total(LAMBDA i : applied[i], S) = ga[S]
  <2>1. Total(LAMBDA i : applied[i], S) = SumFunctionOnSet(applied, S)
    BY <1>2 DEF Total
  <2> QED BY <1>6, <2>1, TotalIsSum
<1> DEFINE Down(s) == \A i \in s : Earlier(i, S) \subseteq s
           T == {s \in SUBSET S : Down(s) /\ ga[s] # IF go[s] < amount THEN go[s] ELSE amount}
<1>9. \A s \in SUBSET S : go[s] \in Nat /\ ga[s] \in Nat
  BY <1>1, <1>5, <1>6, SumIsNat
<1>10. T = {}
  <2> SUFFICES ASSUME T # {} PROVE FALSE
    OBVIOUS
  <2>1. PICK s \in T : \A x \in s : s \ {x} \notin T
    <3>1. T \in SUBSET SUBSET S
      OBVIOUS
    <3> HIDE DEF T
    <3> QED BY <3>1, OneIsSmallest
  <2>2. s \in SUBSET S /\ Down(s) /\ ga[s] # IF go[s] < amount THEN go[s] ELSE amount
    BY DEF T
  <2>3. CASE s = {}
    BY <1>5, <1>6, <2>2, <2>3 DEF Additive
  <2>4. CASE s # {}
    <3>1. PICK x \in s : \A j \in s : IsUpTo(j.from, x.from)
      BY <1>3, <2>2, <2>4, OneIsLatest
    <3> PICK r : r = s \ {x}
      OBVIOUS
    <3>2. \A i \in S : i.from \in Day
      BY DEF Invoice
    <3>3. r = Earlier(x, S)
      <4>1. ASSUME NEW j \in r PROVE IsBefore(j.from, x.from)
        <5>1. j \in S /\ x \in S /\ j # x
          BY <2>2
        <5>2. j.from # x.from
          BY <5>1 DEF OneADay
        <5> QED BY <3>1, <3>2, <5>1, <5>2, DaysAreOrdered DEF IsUpTo
      <4>2. ~IsBefore(x.from, x.from)
        BY <2>2, <3>2 DEF IsBefore, Day
      <4> QED BY <2>2, <4>1, <4>2 DEF Earlier
    <3>4. Down(r)
      <4> SUFFICES ASSUME NEW i \in r, NEW j \in Earlier(i, S) PROVE j \in r
        OBVIOUS
      <4>1. j \in s /\ IsBefore(j.from, i.from) /\ i \in s
        BY <2>2 DEF Earlier
      <4>2. j # x
        BY <3>1, <4>1 DEF IsUpTo
      <4> QED BY <4>1, <4>2
    <3>5. r \in SUBSET S /\ ga[r] = IF go[r] < amount THEN go[r] ELSE amount
      BY <2>1, <2>2, <3>4 DEF T
    <3>6. ga[s] = applied[x] + ga[r] /\ go[s] = owed[x] + go[r]
      <4>1. ga[s] = applied[x] + ga[r]
        BY <1>6, <2>2 DEF Additive
      <4>2. go[s] = owed[x] + go[r]
        BY <1>5, <2>2 DEF Additive
      <4> QED BY <4>1, <4>2
    <3>7. x \in S /\ owed[x] = Outstanding(x)
      BY <2>2 DEF owed
    <3> PICK left : left = amount - go[r]
      OBVIOUS
    <3>8. applied[x] = IF left <= 0 THEN 0 ELSE IF left < owed[x] THEN left ELSE owed[x]
      <4>1. Total(Outstanding, Earlier(x, S)) = go[r]
        BY <1>7, <3>3, <3>5
      <4> QED BY <3>7, <4>1 DEF OldestFirst
    <3>9. owed[x] \in Nat /\ go[r] \in Nat /\ applied[x] \in Nat
      BY <1>1, <1>9, <3>5, <3>7
    <3> QED BY <2>2, <3>5, <3>6, <3>8, <3>9
  <2> QED BY <2>3, <2>4
<1>11. S \notin T /\ Down(S)
  BY <1>10 DEF Earlier
<1>12. ga[S] = IF go[S] < amount THEN go[S] ELSE amount
  BY <1>11 DEF T
<1> QED BY <1>8, <1>9, <1>12

(***************************************************************************)
(* Credit                                                                  *)
(***************************************************************************)

(* A function of finitely many things takes finitely many values.          *)
LEMMA ImageIsFinite ==
    ASSUME NEW f, IsFiniteSet(DOMAIN f), f = [x \in DOMAIN f |-> f[x]]
    PROVE  IsFiniteSet({f[x] : x \in DOMAIN f})
<1>1. f \in Surjection(DOMAIN f, {f[x] : x \in DOMAIN f})
  BY DEF Surjection
<1> QED BY <1>1, FS_Surjection

(* There are finitely many drafts: a stay has a period a month, and one    *)
(* from its first day.                                                     *)
LEMMA DraftsAreFinite ==
    ASSUME Counters, Rows, NEW p
    PROVE  IsFiniteSet(Drafts(p))
<1>1. ASSUME NEW t \in BillableTenancies(p)
      PROVE  IsFiniteSet({Draft(t, period) : period \in RentPeriods(tenancy[t], Cutoff)})
  <2> PICK s : s = tenancy[t]
    OBVIOUS
  <2> PICK first : first = s.start.month
    OBVIOUS
  <2> PICK last : last = Cutoff.month
    OBVIOUS
  <2>1. first \in Int /\ last \in Int
    BY CutoffIsDay DEF BillableTenancies, Rows, StayOK, Day
  <2>2. IsFiniteSet(first..last)
    BY <2>1, FS_Interval
  <2> DEFINE f == [m \in first..last |-> AnchorDayIn(m, Anchor(s))]
  <2>3. IsFiniteSet({f[m] : m \in DOMAIN f})
    <3>1. DOMAIN f = first..last /\ f = [m \in DOMAIN f |-> f[m]]
      OBVIOUS
    <3> HIDE DEF f
    <3> QED BY <2>2, <3>1, ImageIsFinite
  <2>4. IsFiniteSet({f[m] : m \in DOMAIN f} \union {s.start})
    BY <2>3, FS_AddElement
  <2>5. PeriodStarts(s, Cutoff) \subseteq {f[m] : m \in DOMAIN f} \union {s.start}
    BY DEF PeriodStarts
  <2>6. IsFiniteSet(PeriodStarts(s, Cutoff))
    <3> HIDE DEF f
    <3> QED BY <2>4, <2>5, FS_Subset
  <2> DEFINE d == [from \in PeriodStarts(s, Cutoff) |-> Draft(t, PeriodFrom(s, from))]
  <2>7. IsFiniteSet({d[from] : from \in DOMAIN d})
    <3>1. DOMAIN d = PeriodStarts(s, Cutoff) /\ d = [from \in DOMAIN d |-> d[from]]
      OBVIOUS
    <3> HIDE DEF d
    <3> QED BY <2>6, <3>1, ImageIsFinite
  <2>8. {Draft(t, period) : period \in RentPeriods(s, Cutoff)} = {d[from] : from \in DOMAIN d}
    BY DEF RentPeriods
  <2> HIDE DEF d
  <2> QED BY <2>7, <2>8
<1> DEFINE g == [t \in BillableTenancies(p) |->
                    {Draft(t, period) : period \in RentPeriods(tenancy[t], Cutoff)}]
<1>2. IsFiniteSet(BillableTenancies(p))
  BY BillingOK, FS_Subset DEF BillingAssumption, BillableTenancies
<1>3. IsFiniteSet({g[t] : t \in DOMAIN g})
  <2>1. DOMAIN g = BillableTenancies(p) /\ g = [t \in DOMAIN g |-> g[t]]
    OBVIOUS
  <2> HIDE DEF g
  <2> QED BY <1>2, <2>1, ImageIsFinite
<1>4. \A S \in {g[t] : t \in DOMAIN g} : IsFiniteSet(S)
  BY <1>1
<1>5. Drafts(p) = UNION {g[t] : t \in DOMAIN g}
  BY DEF Drafts
<1> HIDE DEF g
<1> QED BY <1>3, <1>4, <1>5, FS_UNION

(* What a slot holds is finite, and what it has read is one tenancy's, so  *)
(* that each invoice has a day to itself.                                  *)
ReadingOK(w) == IsFiniteSet(w.drafts) /\ IsFiniteSet(w.seen) /\ OneADay(w.seen)

(* What no payment may break: the credit a tenancy has is never below 0.   *)
CreditInv ==
    /\ IsFiniteSet(invoices) /\ credit \in [Tenancies -> Nat]
    /\ \A h \in Slots : ReadingOK(work[h])

(* Every other slot holds what it held.                                    *)
LEMMA SlotReads ==
    ASSUME Inv, CreditInv, NEW h \in Slots, NEW w, ReadingOK(w), Goes(h, w),
           IsFiniteSet(invoices'), credit' \in [Tenancies -> Nat]
    PROVE  CreditInv'
<1>1. work \in [Slots -> Doing]
  BY DEF Inv, Working
<1>2. \A k \in Slots : work'[k] = IF k = h THEN w ELSE work[k]
  BY <1>1 DEF Goes
<1>3. \A k \in Slots : ReadingOK(work'[k])
  BY <1>2 DEF CreditInv
<1> QED BY <1>3 DEF CreditInv, ReadingOK, OneADay

(* A slot that does nothing holds nothing.                                 *)
LEMMA NothingRead == ReadingOK(Idle)
BY FS_EmptySet DEF ReadingOK, OneADay, Idle

(* A slot that ends or moves on without drafts reads no more than it has.  *)
LEMMA EmptyHands ==
    ASSUME Inv, NEW h \in Slots, NEW todo, NEW pc,
           NEW w \in {Idle, [Idle EXCEPT !.pc = "next", !.todo = todo],
                      [work[h] EXCEPT !.pc = pc, !.drafts = {}]}
    PROVE  w.drafts = {} /\ w.seen \in {{}, work[h].seen}
<1>1. work[h] \in Doing
  BY SlotIsOK
<1>2. CASE w = Idle
  BY <1>2 DEF Idle
<1>3. CASE w = [Idle EXCEPT !.pc = "next", !.todo = todo]
  BY <1>3 DEF Idle
<1>4. CASE w = [work[h] EXCEPT !.pc = pc, !.drafts = {}]
  BY <1>1, <1>4 DEF Doing
<1> QED BY <1>2, <1>3, <1>4

(* A slot takes up work without money: what it holds was drafted just now, *)
(* or is what it held, or nothing.                                         *)
LEMMA HoldsDrafts ==
    ASSUME Inv, CreditInv, NEW h \in Slots, NEW w, NEW p, Goes(h, w),
           w.drafts \in {{}, Drafts(p), work[h].drafts}, w.seen \in {{}, work[h].seen},
           UNCHANGED <<invoices, credit>>
    PROVE  CreditInv'
<1>1. IsFiniteSet(Drafts(p)) /\ IsFiniteSet({})
  BY DraftsAreFinite, FS_EmptySet DEF Inv
<1>2. ReadingOK(work[h])
  BY DEF CreditInv
<1>3. ReadingOK(w)
  BY <1>1, <1>2 DEF ReadingOK, OneADay
<1> QED BY <1>3, SlotReads DEF CreditInv

(* Raising invoices and turning to the next property.                      *)
LEMMA RaisingKeepsCredit ==
    ASSUME Inv, CreditInv, NEW h \in Slots,
           \/ \E p \in Properties : GenerateForProperty(h, p) \/ NextProperty(h, p)
           \/ \E t \in Tenancies, amount \in Amounts :
                 \E target \in {None} \union {Key(i) : i \in InvoicesOf(t)} :
                     FindTenancyForBilling(h, t, amount, target)
           \/ StartNightlyRun(h) \/ PropertyFails(h) \/ Fail(h)
    PROVE  CreditInv'
<1>1. work[h] \in Doing
  BY SlotIsOK
<1>2. ASSUME NEW p \in Properties, GenerateForProperty(h, p) PROVE CreditInv'
  <2> PICK w : w = [Idle EXCEPT !.pc = "create", !.drafts = Drafts(p)]
    OBVIOUS
  <2>1. w.drafts = Drafts(p) /\ w.seen = {}
    BY DEF Idle
  <2>2. Goes(h, w) /\ UNCHANGED <<invoices, credit>>
    BY <1>2 DEF GenerateForProperty, money
  <2> QED BY <2>1, <2>2, HoldsDrafts
<1>3. ASSUME NEW p \in Properties, NextProperty(h, p) PROVE CreditInv'
  <2> PICK w : w = [work[h] EXCEPT !.pc = "create", !.todo = @ \ {p}, !.drafts = Drafts(p)]
    OBVIOUS
  <2>1. w.drafts = Drafts(p) /\ w.seen = work[h].seen
    BY <1>1 DEF Doing
  <2>2. Goes(h, w) /\ UNCHANGED <<invoices, credit>>
    BY <1>3 DEF NextProperty, money
  <2> QED BY <2>1, <2>2, HoldsDrafts
<1>4. ASSUME NEW t \in Tenancies, NEW amount \in Amounts,
             NEW target \in {None} \union {Key(i) : i \in InvoicesOf(t)},
             FindTenancyForBilling(h, t, amount, target)
      PROVE  CreditInv'
  <2> PICK w : w = [Idle EXCEPT !.pc = "create", !.t = t, !.amount = amount,
                                !.target = target, !.drafts = Drafts(PropertyOf[t])]
    OBVIOUS
  <2>1. w.drafts = Drafts(PropertyOf[t]) /\ w.seen = {}
    BY DEF Idle
  <2>2. Goes(h, w) /\ UNCHANGED <<invoices, credit>>
    BY <1>4 DEF FindTenancyForBilling
  <2> QED BY <2>1, <2>2, HoldsDrafts
<1>5. ASSUME StartNightlyRun(h) \/ PropertyFails(h) \/ Fail(h) PROVE CreditInv'
  <2>1. PICK w : Goes(h, w) /\ w \in {Idle, [work[h] EXCEPT !.pc = "next", !.drafts = {}],
                                      [Idle EXCEPT !.pc = "next", !.todo = PropertiesWithTenants]}
    BY <1>5 DEF StartNightlyRun, PropertyFails, SkipProperty, Fail
  <2>2. w.drafts = {} /\ w.seen \in {{}, work[h].seen}
    BY <2>1, EmptyHands
  <2>3. UNCHANGED <<invoices, credit>>
    BY <1>5 DEF StartNightlyRun, PropertyFails, Fail, money
  <2> QED BY <2>1, <2>2, <2>3, HoldsDrafts
<1> QED BY <1>2, <1>3, <1>4, <1>5

(* The insert adds finitely many invoices.                                 *)
LEMMA InsertKeepsCredit ==
    ASSUME Inv, CreditInv, NEW h \in Slots, CreateInvoices(h) PROVE CreditInv'
<1>1. work[h] \in Doing /\ ReadingOK(work[h])
  BY SlotIsOK DEF CreditInv
<1>2. IsFiniteSet(Inserted(work[h].drafts))
  BY <1>1, FS_Subset DEF ReadingOK, Inserted
<1>3. IsFiniteSet(invoices') /\ credit' \in [Tenancies -> Nat]
  BY <1>2, FS_Union DEF CreateInvoices, money, CreditInv
<1>4. PICK w : Goes(h, w) /\ w \in {Idle, [work[h] EXCEPT !.pc = "open", !.drafts = {}],
                                       [work[h] EXCEPT !.pc = "next", !.drafts = {}]}
  BY DEF CreateInvoices
<1>5. w.drafts = {} /\ w.seen \in {{}, work[h].seen}
  BY <1>4, EmptyHands
<1>6. ReadingOK(w)
  BY <1>1, <1>5, FS_EmptySet DEF ReadingOK, OneADay
<1> QED BY <1>3, <1>4, <1>6, SlotReads

(* Of one tenancy no two invoices begin on a day.                          *)
LEMMA ReadKeepsCredit ==
    ASSUME Inv, CreditInv, NEW h \in Slots, ReadOpenInvoices(h) PROVE CreditInv'
<1> PICK S : S = {i \in InvoicesOf(work[h].t) :
                     /\ i.status \in {"OPEN", "PARTIALLY_PAID"}
                     /\ work[h].target \in {None, Key(i)}}
  OBVIOUS
<1> PICK w : w = [work[h] EXCEPT !.pc = "settle", !.seen = S]
  OBVIOUS
<1>1. work[h] \in Doing /\ ReadingOK(work[h])
  BY SlotIsOK DEF CreditInv
<1>2. S \subseteq invoices /\ \A i \in S : i.tenancy = work[h].t
  BY DEF InvoicesOf
<1>3. OneADay(S)
  BY <1>2 DEF OneADay, Inv, Rows, OneForEachKey, Key
<1>4. IsFiniteSet(S)
  BY <1>2, FS_Subset DEF CreditInv
<1>5. w.drafts = work[h].drafts /\ w.seen = S
  BY <1>1 DEF Doing
<1>6. ReadingOK(w)
  BY <1>1, <1>3, <1>4, <1>5 DEF ReadingOK
<1>7. Goes(h, w) /\ UNCHANGED <<invoices, credit>>
  BY DEF ReadOpenInvoices, money
<1> QED BY <1>6, <1>7, SlotReads DEF CreditInv

(* No payment applies more than there is.                                  *)
LEMMA PayKeepsCredit ==
    ASSUME Inv, CreditInv, NEW h \in Slots, RecordPayment(h) PROVE CreditInv'
<1> PICK S : S = work[h].seen
  OBVIOUS
<1> PICK amount : amount = work[h].amount
  OBVIOUS
<1>1. work[h] \in Doing /\ ReadingOK(work[h])
  BY SlotIsOK DEF CreditInv
<1>2. S \in SUBSET Invoice /\ amount \in Nat /\ IsFiniteSet(S) /\ OneADay(S)
  BY <1>1 DEF Doing, ReadingOK
<1>3. PICK applied \in [S -> 0..amount] :
          /\ OldestFirst(applied, S, amount)
          /\ invoices' = SettledInvoices(applied)
          /\ credit' = [credit EXCEPT ![work[h].t] =
                            @ + amount - Total(LAMBDA i : applied[i], S)]
  BY DEF RecordPayment
<1> PICK n : n = Total(LAMBDA i : applied[i], S)
  OBVIOUS
<1>4. n \in 0..amount
  BY <1>2, <1>3, AppliedIsPaid
<1>5. credit' \in [Tenancies -> Nat]
  <2>1. credit \in [Tenancies -> Nat]
    BY DEF CreditInv
  <2>2. credit' = [credit EXCEPT ![work[h].t] = @ + amount - n]
    BY <1>3
  <2>3. \A m \in Nat : m + amount - n \in Nat
    BY <1>2, <1>4
  <2> QED BY <2>1, <2>2, <2>3
<1>6. IsFiniteSet(invoices')
  <2> DEFINE f == [i \in invoices |-> Settled(i, applied)]
  <2>1. invoices' = {f[i] : i \in DOMAIN f}
    BY <1>3 DEF SettledInvoices, Settled
  <2>2. DOMAIN f = invoices /\ f = [i \in DOMAIN f |-> f[i]]
    OBVIOUS
  <2> HIDE DEF f
  <2> QED BY <2>1, <2>2, ImageIsFinite DEF CreditInv
<1>7. Goes(h, Idle)
  BY DEF RecordPayment
<1> QED BY <1>5, <1>6, <1>7, NothingRead, SlotReads

(* Every step of every slot, and those of the tenancies and of the clock.  *)
LEMMA CreditStep == ASSUME Inv, CreditInv, [Next]_vars PROVE CreditInv'
<1>1. ASSUME NEW h \in Requests,
             \/ \E p \in Properties : GenerateForProperty(h, p)
             \/ \E t \in Tenancies, amount \in Amounts :
                   \E target \in {None} \union {Key(i) : i \in InvoicesOf(t)} :
                       FindTenancyForBilling(h, t, amount, target)
             \/ CreateInvoices(h) \/ ReadOpenInvoices(h) \/ RecordPayment(h)
      PROVE  CreditInv'
  <2>1. h \in Slots
    BY BillingFacts
  <2> QED BY <1>1, <2>1, RaisingKeepsCredit, InsertKeepsCredit, ReadKeepsCredit, PayKeepsCredit
<1>2. ASSUME NEW j \in Jobs, Job(j) \/ PropertyFails(j) PROVE CreditInv'
  <2>1. j \in Slots
    BY BillingFacts
  <2> QED BY <1>2, <2>1, RaisingKeepsCredit, InsertKeepsCredit DEF Job
<1>3. ASSUME NEW h \in Slots, Fail(h) PROVE CreditInv'
  BY <1>3, RaisingKeepsCredit
<1>4. ASSUME UNCHANGED <<invoices, credit, work>> PROVE CreditInv'
  BY <1>4 DEF CreditInv, ReadingOK, OneADay
<1>5. CASE NextDay \/ \E t \in Tenancies : \/ \E stay \in Stays : MoveIn(t, stay)
                                           \/ \E day \in LeavingDays : GiveNotice(t, day) \/ CheckOut(t, day)
  <2>1. UNCHANGED <<invoices, credit, work>>
    BY <1>5 DEF NextDay, MoveIn, GiveNotice, CheckOut, money
  <2> QED BY <1>4, <2>1
<1>6. CASE UNCHANGED vars
  BY <1>4, <1>6 DEF vars
<1> QED BY <1>1, <1>2, <1>3, <1>5, <1>6 DEF Next

(* A payment is set off against what it read of one tenancy, oldest first, *)
(* and what is left of it is credit: whatever was raised, read or paid     *)
(* meanwhile, the rows set off never come to more than the payment.        *)
THEOREM CreditInvariant == Spec => [](Inv /\ CreditInv)
<1>1. Init => CreditInv
  <2> SUFFICES ASSUME Init PROVE CreditInv
    OBVIOUS
  <2>1. \A h \in Slots : work[h] = Idle
    BY DEF Init
  <2>2. \A h \in Slots : ReadingOK(work[h])
    BY <2>1, NothingRead
  <2> QED BY <2>2, FS_EmptySet DEF Init, CreditInv
<1>2. Inv /\ CreditInv /\ [Next]_vars => (Inv /\ CreditInv)'
  BY StepKeeps, KeepsInv, CreditStep
<1> QED BY <1>1, <1>2, InitInv, PTL DEF Spec

(***************************************************************************)
(* Somebody to chase                                                       *)
(***************************************************************************)

(* What an invoice has outstanding is what is to be paid and was not.      *)
LEMMA OutstandingIsNat ==
    ASSUME NEW i \in Invoice
    PROVE  /\ Outstanding(i) \in Nat /\ i.amount \in Nat /\ i.allocated \in Nat
           /\ i.amount - i.allocated <= Outstanding(i)
           /\ i.allocated >= i.amount => Outstanding(i) = 0
BY DEF Outstanding, Invoice

(* A total over some of the invoices is the sum of that part.              *)
LEMMA OutstandingOfPart ==
    ASSUME NEW S, IsFiniteSet(S), NEW g, Additive(g, [i \in S |-> Outstanding(i)], S),
           NEW R \in SUBSET S
    PROVE  Total(Outstanding, R) = g[R]
<1> DEFINE all == [i \in S |-> Outstanding(i)]
           part == [i \in R |-> Outstanding(i)]
           h == [s \in SUBSET R |-> g[s]]
<1>1. \A i \in R : all[i] = part[i]
  OBVIOUS
<1>2. Total(Outstanding, R) = SumFunctionOnSet(part, R)
  BY DEF Total
<1> HIDE DEF all, part
<1>3. Additive(h, all, R)
  BY SumOfPart DEF all
<1>4. Additive(h, part, R)
  <2> HIDE DEF h
  <2> QED BY <1>1, <1>3 DEF Additive
<1>5. SumFunctionOnSet(part, R) = h[R]
  <2> HIDE DEF h
  <2> QED BY <1>4, FS_Subset, TotalIsSum
<1> QED BY <1>2, <1>5

(* The dues of the tenants of a list add up to what is outstanding of      *)
(* their invoices.                                                         *)
LEMMA DuesAddUp ==
    ASSUME Inv, CreditInv, NEW D \in SUBSET Tenancies, NEW S \in SUBSET invoices,
           \A t \in D : InvoicesOf(t) \subseteq S,
           NEW g, Additive(g, [i \in S |-> Outstanding(i)], S)
    PROVE  Total(Dues, D) = g[{i \in S : i.tenancy \in D /\ i.allocated < i.amount}]
<1> DEFINE dues == [t \in D |-> Dues(t)]
           Owed(d) == {i \in S : i.tenancy \in d /\ i.allocated < i.amount}
<1>1. IsFiniteSet(S) /\ IsFiniteSet(D) /\ S \subseteq Invoice
  BY FS_Subset, BillingOK DEF CreditInv, BillingAssumption, Inv, Rows, OnCalendar
<1>2. \A t \in D : Dues(t) = g[Unpaid(t)]
  <2>1. \A t \in D : Unpaid(t) \in SUBSET S
    BY DEF Unpaid
  <2> QED BY <1>1, <2>1, OutstandingOfPart DEF Dues
<1>3. \A i \in S : [j \in S |-> Outstanding(j)][i] \in Int
  BY <1>1, OutstandingIsNat
<1>4. \A t \in D : dues[t] \in Int
  <2>1. \A t \in D : Unpaid(t) \in SUBSET S
    BY DEF Unpaid
  <2> QED BY <1>2, <2>1 DEF Additive
<1>5. Total(Dues, D) = SumFunctionOnSet(dues, D)
  BY DEF Total
<1>6. \A t \in D : dues[t] = Dues(t)
  OBVIOUS
<1> HIDE DEF dues
<1>7. PICK gd : Additive(gd, dues, D)
  BY <1>1, <1>4, SumExists
<1>8. SumFunctionOnSet(dues, D) = gd[D]
  BY <1>1, <1>7, TotalIsSum
<1> DEFINE T == {d \in SUBSET D : \E u \in SUBSET S : u = Owed(d) /\ gd[d] # g[u]}
<1>9. T = {}
  <2> SUFFICES ASSUME T # {} PROVE FALSE
    OBVIOUS
  <2>1. PICK d \in T : \A t \in d : d \ {t} \notin T
    <3>1. T \in SUBSET SUBSET D
      OBVIOUS
    <3> HIDE DEF T
    <3> QED BY <1>1, <3>1, OneIsSmallest
  <2>2. PICK u \in SUBSET S : d \in SUBSET D /\ u = Owed(d) /\ gd[d] # g[u]
    BY DEF T
  <2>3. CASE d = {}
    <3>1. u = {}
      BY <2>2, <2>3
    <3> QED BY <1>7, <2>2, <2>3, <3>1 DEF Additive
  <2>4. ASSUME NEW t \in d PROVE FALSE
    <3> PICK r : r = d \ {t}
      OBVIOUS
    <3> PICK v : v = Owed(r)
      OBVIOUS
    <3> PICK w : w = Unpaid(t)
      OBVIOUS
    <3>1. t \in D /\ r \in SUBSET D
      BY <2>2
    <3>2. v \in SUBSET S /\ w \in SUBSET S /\ v \intersect w = {} /\ u = v \union w
      <4>1. InvoicesOf(t) \subseteq S
        BY <3>1
      <4>2. w = {i \in S : i.tenancy = t /\ i.allocated < i.amount}
        BY <4>1 DEF Unpaid, InvoicesOf
      <4> QED BY <2>2, <4>2
    <3>3. gd[r] = g[v]
      BY <2>1, <3>1, <3>2 DEF T
    <3>4. gd[d] = dues[t] + gd[r]
      BY <1>7, <2>2 DEF Additive
    <3>5. dues[t] = g[w]
      BY <1>2, <1>6, <3>1
    <3>6. g[v \union w] = g[v] + g[w]
      BY <1>1, <1>3, <3>2, SumOfParts
    <3>7. g[u] = g[v] + g[w]
      <4>1. u = v \union w
        BY <3>2
      <4> QED BY <3>6, <4>1
    <3>8. g[v] \in Int /\ g[w] \in Int
      BY <3>2 DEF Additive
    <3> QED BY <2>2, <3>3, <3>4, <3>5, <3>7, <3>8
  <2> QED BY <2>3, <2>4
<1> PICK u : u = Owed(D)
  OBVIOUS
<1>10. u \in SUBSET S /\ gd[D] = g[u]
  BY <1>9 DEF T
<1> QED BY <1>5, <1>8, <1>10

(* The summary is of all invoices, the list of those to chase; what is not *)
(* on the list is paid.                                                    *)
LEMMA ChaseHolds == ASSUME Inv, CreditInv PROVE SomebodyToChase
<1> SUFFICES ASSUME NEW p \in Properties
             PROVE  SummaryOutstanding(p) <= Total(Dues, TenanciesForDues(p))
  BY DEF SomebodyToChase
<1> DEFINE S == {i \in invoices : PropertyOf[i.tenancy] = p}
           D == TenanciesForDues(p)
           amounts == [i \in S |-> i.amount]
           allocated == [i \in S |-> i.allocated]
           outstanding == [i \in S |-> Outstanding(i)]
<1>1. IsFiniteSet(S) /\ S \subseteq Invoice
  BY FS_Subset DEF CreditInv, Inv, Rows, OnCalendar
<1>2. \A i \in S : /\ amounts[i] \in Int /\ allocated[i] \in Int /\ outstanding[i] \in Nat
                   /\ amounts[i] - allocated[i] <= outstanding[i]
                   /\ i.allocated >= i.amount => outstanding[i] = 0
  BY <1>1, OutstandingIsNat
<1>3. /\ Total(LAMBDA i : i.amount, S) = SumFunctionOnSet(amounts, S)
      /\ Total(LAMBDA i : i.allocated, S) = SumFunctionOnSet(allocated, S)
  BY DEF Total
<1>4. D \in SUBSET Tenancies /\ \A t \in D : InvoicesOf(t) \subseteq S
  BY DEF TenanciesForDues, BillableTenancies, InvoicesOf
<1>5. \A i \in S : i.allocated < i.amount => i.tenancy \in D
  <2> SUFFICES ASSUME NEW i \in S, i.allocated < i.amount PROVE i.tenancy \in D
    OBVIOUS
  <2>1. i \in Invoice /\ i.status # "PAID"
    BY <1>1 DEF Inv, Rows, PaidIsCovered, Invoice
  <2>2. i.tenancy \in Tenancies /\ PropertyOf[i.tenancy] = p /\ i \in InvoicesOf(i.tenancy)
    BY <2>1 DEF Invoice, InvoicesOf
  <2> QED BY <2>1, <2>2 DEF TenanciesForDues, BillableTenancies
<1>6. SummaryOutstanding(p) =
        LET owed == Total(LAMBDA i : i.amount, S) - Total(LAMBDA i : i.allocated, S)
        IN  IF owed > 0 THEN owed ELSE 0
  BY DEF SummaryOutstanding
<1> HIDE DEF amounts, allocated, outstanding, S, D
<1>7. PICK ga : Additive(ga, amounts, S)
  BY <1>1, <1>2, SumExists
<1>8. PICK gb : Additive(gb, allocated, S)
  BY <1>1, <1>2, SumExists
<1>9. PICK go : Additive(go, outstanding, S)
  BY <1>1, <1>2, SumExists
<1>10. /\ Total(LAMBDA i : i.amount, S) = ga[S] /\ Total(LAMBDA i : i.allocated, S) = gb[S]
       /\ ga[S] \in Int /\ gb[S] \in Int
  <2>1. S \in SUBSET S
    OBVIOUS
  <2>2. SumFunctionOnSet(amounts, S) = ga[S]
    BY <1>1, <1>2, <1>7, <2>1, TotalIsSum
  <2>3. SumFunctionOnSet(allocated, S) = gb[S]
    BY <1>1, <1>2, <1>8, <2>1, TotalIsSum
  <2>4. ga[S] \in Int /\ gb[S] \in Int
    BY <1>7, <1>8, <2>1 DEF Additive
  <2> QED BY <1>3, <2>2, <2>3, <2>4
<1>11. ga[S] - gb[S] <= go[S]
  BY <1>1, <1>2, <1>7, <1>8, <1>9, SumsCompare
<1> DEFINE u == {i \in S : i.tenancy \in D /\ i.allocated < i.amount}
           v == S \ u
<1>12. Total(Dues, D) = go[u]
  <2>1. S \in SUBSET invoices
    BY DEF S
  <2> QED BY <1>4, <1>9, <2>1, DuesAddUp DEF outstanding
<1>13. u \in SUBSET S /\ v \in SUBSET S /\ u \intersect v = {} /\ S = u \union v
  OBVIOUS
<1>14. \A i \in v : outstanding[i] = 0
  <2>1. ASSUME NEW i \in v PROVE i.allocated >= i.amount
    <3>1. i \in Invoice /\ ~(i.allocated < i.amount)
      BY <1>1, <1>5
    <3> QED BY <3>1 DEF Invoice
  <2> QED BY <1>2, <2>1
<1> HIDE DEF u, v
<1>15. go[u] \in Nat /\ go[v] = 0
  BY <1>1, <1>2, <1>9, <1>13, <1>14, SumIsNat
<1>16. go[S] = go[u]
  <2>1. go[u \union v] = go[u] + go[v]
    BY <1>1, <1>2, <1>9, <1>13, SumOfParts
  <2>2. S = u \union v
    BY <1>13
  <2>3. go[S] = go[u] + go[v]
    BY <2>1, <2>2
  <2> QED BY <1>15, <2>3
<1> PICK m : m = ga[S] - gb[S]
  OBVIOUS
<1>17. m \in Int /\ m <= go[u] /\ SummaryOutstanding(p) = IF m > 0 THEN m ELSE 0
  BY <1>6, <1>10, <1>11, <1>16
<1>18. SummaryOutstanding(p) <= Total(Dues, D)
  BY <1>12, <1>15, <1>17
<1> QED BY <1>18 DEF D

(* "Told owners money was outstanding and gave them nobody to chase": the  *)
(* tenants on the list owe at least what the summary shows, whatever was   *)
(* raised, paid at once on one reading, and whoever has left.              *)
THEOREM ThereIsSomebodyToChase == Spec => []SomebodyToChase
<1>1. Inv /\ CreditInv => SomebodyToChase
  BY ChaseHolds
<1> QED BY <1>1, CreditInvariant, PTL

(* Rows and requests keep their shape, and no payment applies more than it *)
(* brought, so that what is left of it as credit is never less than        *)
(* nothing.                                                                *)
THEOREM TypeCorrect == Spec => []TypeOK
<1>1. CreditInv => credit \in [Tenancies -> Nat]
  BY DEF CreditInv
<1> QED BY <1>1, RowsAreWellFormed, CreditInvariant, PTL DEF TypeOK

(***************************************************************************)
(* The loop of rentPeriods                                                 *)
(***************************************************************************)

(* Of some numbers one is smallest.                                        *)
LEMMA SmallestNumber ==
    ASSUME NEW T \in SUBSET Nat, T # {} PROVE \E n \in T : \A m \in T : n <= m
<1>1. PICK N \in T : TRUE
  OBVIOUS
<1> DEFINE S == {n \in T : n <= N}
           I == [n \in S |-> 0..n]
           R == {I[n] : n \in S}
<1>2. N \in S /\ S \subseteq 0..N /\ \A n \in S : I[n] = 0..n /\ I[n] \in SUBSET (0..N)
  <2>1. N \in S /\ S \subseteq 0..N
    <3>1. N \in Nat /\ N <= N
      OBVIOUS
    <3>2. N \in S
      BY <3>1
    <3>3. \A n \in T : n \in Nat /\ (n <= N => n \in 0..N)
      BY <3>1
    <3> QED BY <3>2, <3>3
  <2>2. \A n \in S : I[n] = 0..n
    OBVIOUS
  <2>3. \A n \in 0..N : 0..n \in SUBSET (0..N)
    OBVIOUS
  <2> HIDE DEF I, S
  <2> QED BY <2>1, <2>2, <2>3
<1> HIDE DEF I
<1>3. R \subseteq FiniteSubsetsOf(0..N) /\ R # {} /\ IsFiniteSet(0..N)
  <2>1. IsFiniteSet(0..N)
    BY FS_Interval
  <2> QED BY <1>2, <2>1, FS_Subset DEF FiniteSubsetsOf
<1>4. \E r \in R : \A q \in R : <<q, r>> \notin StrictSubsetOrdering(0..N)
  <2> HIDE DEF R
  <2> QED BY <1>3, FS_StrictSubsetOrderingWellFounded, WFMin
<1>5. PICK n \in S : \A m \in S : <<I[m], I[n]>> \notin StrictSubsetOrdering(0..N)
  BY <1>4
<1>6. ASSUME NEW m \in T, m < n PROVE FALSE
  <2>1. m \in S /\ n \in Nat /\ m \in Nat
    BY <1>6
  <2>2. I[m] = 0..m /\ I[n] = 0..n
    BY <1>2, <2>1
  <2>3. I[m] \subseteq I[n] /\ n \notin I[m] /\ n \in I[n]
    BY <1>6, <2>1, <2>2
  <2>4. <<I[m], I[n]>> \in StrictSubsetOrdering(0..N)
    BY <1>2, <2>1, <2>3 DEF StrictSubsetOrdering
  <2> QED BY <1>5, <2>1, <2>4
<1> QED BY <1>6

(* One turn of the loop, and the loop as a function of the turns left.     *)
Turn(f, s, c, n, d) ==
    IF IsBefore(c, d) \/ n = 0 \/ Left(s, d)
    THEN <<>>
    ELSE LET p == PeriodFrom(s, d) IN <<p>> \o f[n - 1][p.to]

Loop(f, N, s, c) == f = [n \in 0..N |-> [d \in Day |-> Turn(f, s, c, n, d)]]

(* The loop ends, however many turns it may take.                          *)
LEMMA LoopExists == \A s, c : \A N \in Nat : \E f : Loop(f, N, s, c)
<1> SUFFICES ASSUME NEW s, NEW c PROVE \A N \in Nat : \E f : Loop(f, N, s, c)
  OBVIOUS
<1> DEFINE T == {N \in Nat : ~\E f : Loop(f, N, s, c)}
<1>1. SUFFICES ASSUME T # {} PROVE FALSE
  OBVIOUS
<1>2. PICK N \in T : \A m \in T : N <= m
  <2>1. T \in SUBSET Nat
    OBVIOUS
  <2> HIDE DEF T
  <2> QED BY <1>1, <2>1, SmallestNumber
<1>3. N \in Nat /\ ~\E f : Loop(f, N, s, c)
  BY DEF T
<1>4. CASE N = 0
  <2> DEFINE f == [n \in 0..0 |-> [d \in Day |-> <<>>]]
  <2>1. \A n \in 0..0, d \in Day : Turn(f, s, c, n, d) = <<>>
    BY DEF Turn
  <2>2. Loop(f, 0, s, c)
    <3> HIDE DEF Turn
    <3> QED BY <2>1 DEF Loop
  <2> QED BY <1>3, <1>4, <2>2
<1>5. CASE N # 0
  <2>1. N - 1 \in Nat /\ N - 1 \notin T
    BY <1>2, <1>3, <1>5
  <2>2. PICK g : Loop(g, N - 1, s, c)
    BY <2>1 DEF T
  <2> DEFINE f == [n \in 0..N |-> [d \in Day |-> Turn(g, s, c, n, d)]]
  <2>3. \A n \in 0..N : n # 0 => f[n - 1] = g[n - 1]
    <3> SUFFICES ASSUME NEW n \in 0..N, n # 0 PROVE f[n - 1] = g[n - 1]
      OBVIOUS
    <3>1. n - 1 \in 0..N /\ n - 1 \in 0..(N - 1)
      BY <1>3
    <3>2. g[n - 1] = [d \in Day |-> Turn(g, s, c, n - 1, d)]
      BY <2>2, <3>1 DEF Loop
    <3> QED BY <3>1, <3>2
  <2> HIDE DEF f
  <2>4. \A n \in 0..N, d \in Day : Turn(f, s, c, n, d) = Turn(g, s, c, n, d)
    BY <2>3 DEF Turn
  <2>5. Loop(f, N, s, c)
    BY <2>4 DEF Loop, f
  <2> QED BY <1>3, <2>5
<1> QED BY <1>4, <1>5

(* What the loop comes to is what one turn makes of the turns after it.    *)
LEMMA LoopTurns ==
    \A s, c : \E f : /\ PeriodsInTurn(s, c) = f[MaxPeriods][s.start]
                     /\ \A n \in 0..MaxPeriods, d \in Day : f[n][d] = Turn(f, s, c, n, d)
<1> SUFFICES ASSUME NEW s, NEW c
             PROVE  \E f : /\ PeriodsInTurn(s, c) = f[MaxPeriods][s.start]
                           /\ \A n \in 0..MaxPeriods, d \in Day : f[n][d] = Turn(f, s, c, n, d)
  OBVIOUS
<1> DEFINE f == CHOOSE f : Loop(f, MaxPeriods, s, c)
<1>1. Loop(f, MaxPeriods, s, c)
  BY LoopExists DEF MaxPeriods
<1>2. PeriodsInTurn(s, c) = f[MaxPeriods][s.start]
  BY DEF PeriodsInTurn, Loop, Turn
<1> HIDE DEF f
<1>3. \A n \in 0..MaxPeriods, d \in Day : f[n][d] = Turn(f, s, c, n, d)
  <2> SUFFICES ASSUME NEW n \in 0..MaxPeriods, NEW d \in Day PROVE f[n][d] = Turn(f, s, c, n, d)
    OBVIOUS
  <2>1. f[n] = [e \in Day |-> Turn(f, s, c, n, e)]
    BY <1>1 DEF Loop
  <2> QED BY <2>1
<1> QED BY <1>2, <1>3

(***************************************************************************)
(* The periods of a stay follow each other                                 *)
(***************************************************************************)

Period == [from : Day, to : Day, amount : Nat]

(* The first days of the periods from some day on.                         *)
StartsFrom(d, s, c) == {e \in PeriodStarts(s, c) : IsUpTo(d, e)}

(* The periods of a stay from some day on, one after the other.            *)
Tiling(ps, d, s, c) ==
    /\ ps \in Seq(Period)
    /\ {ps[n] : n \in DOMAIN ps} = {PeriodFrom(s, e) : e \in StartsFrom(d, s, c)}
    /\ \A n \in DOMAIN ps :
          /\ ps[n].from = IF n = 1 THEN d ELSE ps[n - 1].to
          /\ IsBefore(ps[n].from, ps[n].to)
          /\ n > 1 => ps[n].from.day = AnchorDayIn(ps[n].from.month, Anchor(s)).day
    /\ ps # <<>> => IsBefore(c, ps[Len(ps)].to) \/ ps[Len(ps)].to = s.end

(* No day is before itself, and days before days are before them.          *)
LEMMA BeforeIsOrder ==
    ASSUME NEW a \in Day, NEW b \in Day
    PROVE  /\ IsUpTo(a, a) /\ ~IsBefore(a, a)
           /\ IsBefore(a, b) => IsUpTo(a, b) /\ ~IsUpTo(b, a)
BY DEF Day, IsUpTo, IsBefore

(* Where the loop ends no period begins.                                   *)
LEMMA NothingBegins ==
    ASSUME NEW s, StayOK(s), s.status # "NONE", NEW c \in Day, NEW d \in Day,
           IsBefore(c, d) \/ Left(s, d)
    PROVE  Tiling(<<>>, d, s, c)
<1>1. ASSUME NEW e \in StartsFrom(d, s, c) PROVE FALSE
  <2>1. e \in PeriodStarts(s, c) /\ IsUpTo(d, e) /\ IsUpTo(e, c) /\ ~Left(s, e)
    BY DEF StartsFrom, PeriodStarts
  <2>2. e \in Day
    BY <2>1, PeriodFits
  <2>3. CASE IsBefore(c, d)
    BY <2>1, <2>2, <2>3, UpToIsTransitive DEF IsUpTo
  <2>4. CASE Left(s, d)
    <3>1. s.end \in Day /\ IsUpTo(s.end, d) /\ s.end # NoDate
      BY <2>4 DEF Left, StayOK, Stay
    <3>2. IsUpTo(s.end, e)
      BY <2>1, <2>2, <3>1, UpToIsTransitive
    <3> QED BY <2>1, <3>1, <3>2 DEF Left
  <2> QED BY <2>3, <2>4
<1> QED BY <1>1 DEF Tiling

(* A period is the one that begins on its first day.                       *)
LEMMA PeriodIsOfItsDay ==
    ASSUME NEW s, StayOK(s), s.status # "NONE", NEW c \in Day, NEW e \in PeriodStarts(s, c)
    PROVE  PeriodFrom(s, e) \in Period /\ PeriodFrom(s, e).from = e
<1> PICK p : p = PeriodFrom(s, e)
  OBVIOUS
<1>1. p.from = e /\ p.from \in Day /\ p.to \in Day /\ p.amount \in Nat
  BY PeriodFits
<1>2. p = [from |-> p.from, to |-> p.to, amount |-> p.amount]
  BY DEF PeriodFrom
<1> QED BY <1>1, <1>2 DEF Period

(* After a billing day comes another, unless the cutoff is before it.      *)
LEMMA NextBegins ==
    ASSUME NEW s, StayOK(s), s.status # "NONE", NEW c \in Day, NEW d \in PeriodStarts(s, c),
           NEW to, to = NextAnchorAfter(s, d), IsUpTo(to, c), ~Left(s, to)
    PROVE  to \in PeriodStarts(s, c)
<1>1. d \in Day /\ BillingDay(s, d) /\ IsUpTo(s.start, d)
  BY PeriodFits DEF PeriodStarts
<1>2. to \in Day /\ IsBefore(d, to) /\ Anchor(s) \in 1..31 /\ s.start \in Day
  BY <1>1, NextAnchorIsLater DEF StayOK
<1>3. PICK m \in {d.month, d.month + 1} : to = AnchorDayIn(m, Anchor(s))
  BY DEF NextAnchorAfter
<1>4. to.month = m
  BY <1>3 DEF AnchorDayIn, On
<1>5. IsUpTo(s.start, to)
  BY <1>1, <1>2, UpToIsTransitive DEF IsUpTo, IsBefore, Day
<1>6. m \in s.start.month..c.month
  BY <1>1, <1>2, <1>4, <1>5 DEF IsUpTo, IsBefore, Day
<1> QED BY <1>3, <1>5, <1>6 DEF PeriodStarts

(* One period more.                                                        *)
LEMMA OneMorePeriod ==
    ASSUME NEW s, StayOK(s), s.status # "NONE", NEW c \in Day, NEW d \in PeriodStarts(s, c),
           NEW p, p = PeriodFrom(s, d), NEW q, Tiling(q, p.to, s, c)
    PROVE  Tiling(<<p>> \o q, d, s, c)
<1> PICK ps : ps = <<p>> \o q
  OBVIOUS
<1>1. /\ p \in Period /\ p.from = d /\ d \in Day /\ p.to \in Day
      /\ BillingDay(s, d) /\ IsBefore(d, p.to) /\ IsUpTo(p.to, NextAnchorAfter(s, d))
  BY PeriodIsOfItsDay, PeriodFits
<1>2. /\ ps \in Seq(Period) /\ Len(ps) = Len(q) + 1 /\ Len(q) \in Nat
      /\ DOMAIN ps = 1..(Len(q) + 1) /\ DOMAIN q = 1..Len(q)
      /\ ps[1] = p /\ \A n \in 1..Len(q) : ps[n + 1] = q[n]
  <2>1. q \in Seq(Period) /\ <<p>> \in Seq(Period)
    BY <1>1 DEF Tiling
  <2> QED BY <2>1
<1>3. StartsFrom(d, s, c) = {d} \union StartsFrom(p.to, s, c)
  <2>1. IsUpTo(d, d)
    BY <1>1, BeforeIsOrder
  <2>2. ASSUME NEW e \in StartsFrom(d, s, c), e # d PROVE IsUpTo(p.to, e)
    <3>1. e \in PeriodStarts(s, c) /\ IsUpTo(d, e)
      BY DEF StartsFrom
    <3>2. e \in Day /\ BillingDay(s, e)
      BY <3>1, PeriodFits
    <3>3. IsBefore(d, e)
      BY <1>1, <2>2, <3>1, <3>2, DaysAreOrdered DEF IsUpTo
    <3>4. IsUpTo(NextAnchorAfter(s, d), e) /\ NextAnchorAfter(s, d) \in Day
      BY <1>1, <3>2, <3>3, PeriodsDoNotMeet, NextAnchorIsLater
    <3> QED BY <1>1, <3>2, <3>4, UpToIsTransitive
  <2>3. ASSUME NEW e \in StartsFrom(p.to, s, c) PROVE e \in StartsFrom(d, s, c)
    <3>1. e \in PeriodStarts(s, c) /\ IsUpTo(p.to, e)
      BY DEF StartsFrom
    <3>2. e \in Day
      BY <3>1, PeriodFits
    <3>3. IsUpTo(d, p.to)
      BY <1>1, BeforeIsOrder
    <3> QED BY <1>1, <3>1, <3>2, <3>3, UpToIsTransitive DEF StartsFrom
  <2> QED BY <2>1, <2>2, <2>3 DEF StartsFrom
<1>4. {ps[n] : n \in DOMAIN ps} = {PeriodFrom(s, e) : e \in StartsFrom(d, s, c)}
  <2>1. {q[n] : n \in 1..Len(q)} = {PeriodFrom(s, e) : e \in StartsFrom(p.to, s, c)}
    BY <1>2 DEF Tiling
  <2>2. {ps[n] : n \in 1..(Len(q) + 1)} = {p} \union {q[n] : n \in 1..Len(q)}
    <3>1. \A n \in 1..(Len(q) + 1) : n = 1 \/ (n - 1 \in 1..Len(q) /\ ps[n] = q[n - 1])
      BY <1>2
    <3>2. \A n \in 1..Len(q) : n + 1 \in 1..(Len(q) + 1)
      BY <1>2
    <3>3. ASSUME NEW n \in 1..(Len(q) + 1)
          PROVE  ps[n] \in {p} \union {q[k] : k \in 1..Len(q)}
      BY <1>2, <3>1
    <3>4. ASSUME NEW k \in 1..Len(q) PROVE q[k] \in {ps[n] : n \in 1..(Len(q) + 1)}
      BY <1>2, <3>2
    <3>5. p \in {ps[n] : n \in 1..(Len(q) + 1)}
      BY <1>2
    <3> QED BY <3>3, <3>4, <3>5
  <2>3. {PeriodFrom(s, e) : e \in StartsFrom(d, s, c)} =
            {p} \union {PeriodFrom(s, e) : e \in StartsFrom(p.to, s, c)}
    BY <1>3
  <2> QED BY <1>2, <2>1, <2>2, <2>3
<1>5. ASSUME NEW n \in 1..Len(q)
      PROVE  /\ q[n].from = IF n = 1 THEN p.to ELSE q[n - 1].to
             /\ IsBefore(q[n].from, q[n].to)
             /\ q[n].from.day = AnchorDayIn(q[n].from.month, Anchor(s)).day
  <2>1. q[n] \in {PeriodFrom(s, e) : e \in StartsFrom(p.to, s, c)}
    BY <1>2 DEF Tiling
  <2>2. PICK e \in PeriodStarts(s, c) : q[n] = PeriodFrom(s, e) /\ IsUpTo(p.to, e)
    BY <2>1 DEF StartsFrom
  <2>3. q[n].from = e /\ e \in Day /\ BillingDay(s, e)
    BY <2>2, PeriodFits
  <2>4. e # s.start
    <3>1. IsUpTo(s.start, d) /\ s.start \in Day
      BY DEF PeriodStarts, StayOK
    <3>2. IsUpTo(d, p.to) /\ IsUpTo(d, e)
      BY <1>1, <2>2, <2>3, BeforeIsOrder, UpToIsTransitive
    <3>3. IsUpTo(s.start, p.to)
      BY <1>1, <3>1, <3>2, UpToIsTransitive
    <3>4. IsBefore(d, e)
      BY <1>1, <2>2, <2>3, <3>2, BeforeIsOrder, UpToIsTransitive, DaysAreOrdered
    <3> QED BY <1>1, <2>3, <3>1, <3>4, BeforeIsOrder
  <2>5. e = AnchorDayIn(e.month, Anchor(s))
    BY <2>3, <2>4 DEF BillingDay
  <2> QED BY <1>2, <2>3, <2>5 DEF Tiling
<1>6. ASSUME NEW n \in DOMAIN ps
      PROVE  /\ ps[n].from = IF n = 1 THEN d ELSE ps[n - 1].to
             /\ IsBefore(ps[n].from, ps[n].to)
             /\ n > 1 => ps[n].from.day = AnchorDayIn(ps[n].from.month, Anchor(s)).day
  <2>1. CASE n = 1
    BY <1>1, <1>2, <2>1
  <2>2. CASE n # 1
    <3> PICK m : m = n - 1
      OBVIOUS
    <3>1. m \in 1..Len(q) /\ ps[n] = q[m] /\ n > 1
      BY <1>2, <2>2
    <3>2. ps[m] = IF m = 1 THEN p ELSE q[m - 1]
      BY <1>2, <3>1
    <3> QED BY <1>5, <2>2, <3>1, <3>2
  <2> QED BY <2>1, <2>2
<1>7. IsBefore(c, ps[Len(ps)].to) \/ ps[Len(ps)].to = s.end
  <2>1. CASE Len(q) # 0
    <3>1. ps[Len(ps)] = q[Len(q)] /\ q # <<>>
      BY <1>2, <2>1
    <3> QED BY <3>1 DEF Tiling
  <2>2. CASE Len(q) = 0
    <3>1. ps[Len(ps)] = p
      BY <1>2, <2>2
    <3>2. StartsFrom(p.to, s, c) = {}
      BY <1>2, <2>2 DEF Tiling
    <3> PICK natural : natural = NextAnchorAfter(s, d)
      OBVIOUS
    <3>3. p.to = IF Left(s, natural) THEN s.end ELSE natural
      BY DEF PeriodFrom
    <3>4. CASE ~Left(s, natural)
      <4>1. p.to \notin PeriodStarts(s, c)
        BY <1>1, <3>2, BeforeIsOrder DEF StartsFrom
      <4>2. ~IsUpTo(p.to, c)
        BY <3>3, <3>4, <4>1, NextBegins
      <4> QED BY <3>1, <4>2 DEF IsUpTo
    <3> QED BY <3>1, <3>3, <3>4
  <2> QED BY <1>2, <2>1, <2>2
<1>8. Tiling(ps, d, s, c)
  BY <1>2, <1>4, <1>6, <1>7 DEF Tiling
<1> QED BY <1>8

(* Turns enough for a stay from some day on: one for each month, and one   *)
(* for the days before the first billing day.                              *)
Enough(n, d, s, c) ==
    n >= c.month - d.month + (IF d = AnchorDayIn(d.month, Anchor(s)) THEN 1 ELSE 2)

(* Of one turn less there is enough for what follows a period.             *)
LEMMA OneTurnLess ==
    ASSUME NEW s, StayOK(s), s.status # "NONE", NEW c \in Day, NEW d \in Day, BillingDay(s, d),
           NEW n \in Nat, Enough(n, d, s, c), NEW to, to = NextAnchorAfter(s, d)
    PROVE  to \in Day /\ BillingDay(s, to) /\ Enough(n - 1, to, s, c)
<1>1. to \in Day /\ IsBefore(d, to) /\ Anchor(s) \in 1..31 /\ s.start \in Day
  BY NextAnchorIsLater DEF StayOK
<1>2. \A m : AnchorDayIn(m, Anchor(s)).month = m
  BY DEF AnchorDayIn, On
<1>3. to = AnchorDayIn(to.month, Anchor(s))
  BY <1>2 DEF NextAnchorAfter
<1>4. IsBefore(s.start, to)
  <2>1. d = s.start \/ IsBefore(s.start, d)
    BY DEF BillingDay
  <2>2. CASE d = s.start
    BY <1>1, <2>2
  <2>3. CASE IsBefore(s.start, d)
    <3>1. IsUpTo(s.start, to)
      BY <1>1, <2>3, BeforeIsOrder, UpToIsTransitive
    <3>2. s.start # to
      BY <1>1, <2>3, BeforeIsOrder
    <3> QED BY <1>1, <3>1, <3>2, BeforeIsOrder, DaysAreOrdered
  <2> QED BY <2>1, <2>2, <2>3
<1>5. Enough(n - 1, to, s, c)
  <2>1. c.month \in Int /\ d.month \in Int /\ to.month \in Int
    BY <1>1 DEF Day
  <2>2. CASE IsBefore(d, AnchorDayIn(d.month, Anchor(s)))
    <3>1. to = AnchorDayIn(d.month, Anchor(s)) /\ to.month = d.month
      BY <1>2, <2>2 DEF NextAnchorAfter
    <3>2. d # AnchorDayIn(d.month, Anchor(s))
      BY <1>1, <2>2, <3>1, BeforeIsOrder
    <3>3. n >= c.month - d.month + 2
      BY <3>2 DEF Enough
    <3>4. n - 1 >= c.month - to.month + 1
      BY <2>1, <3>1, <3>3
    <3> QED BY <1>3, <3>4 DEF Enough
  <2>3. CASE ~IsBefore(d, AnchorDayIn(d.month, Anchor(s)))
    <3>1. to.month = d.month + 1
      BY <1>2, <2>3 DEF NextAnchorAfter
    <3>2. n >= c.month - d.month + 1
      BY <2>1 DEF Enough
    <3>3. n - 1 >= c.month - to.month + 1
      BY <2>1, <3>1, <3>2
    <3> QED BY <1>3, <3>3 DEF Enough
  <2> QED BY <2>2, <2>3
<1> QED BY <1>1, <1>3, <1>4, <1>5 DEF BillingDay

(* With turns enough the loop gives the periods of a stay, one after the   *)
(* other.                                                                  *)
LEMMA LoopTiles ==
    ASSUME NEW s, StayOK(s), s.status # "NONE", NEW c \in Day, NEW N \in Nat, NEW f,
           \A n \in 0..N, d \in Day : f[n][d] = Turn(f, s, c, n, d)
    PROVE  \A n \in 0..N, d \in Day :
               Left(s, d) \/ (BillingDay(s, d) /\ Enough(n, d, s, c)) => Tiling(f[n][d], d, s, c)
<1> DEFINE Ready(n, d) == Left(s, d) \/ (BillingDay(s, d) /\ Enough(n, d, s, c))
           T == {n \in 0..N : \E d \in Day : Ready(n, d) /\ ~Tiling(f[n][d], d, s, c)}
<1>1. SUFFICES ASSUME T # {} PROVE FALSE
  OBVIOUS
<1>2. PICK n \in T : \A m \in T : n <= m
  <2>1. T \in SUBSET Nat
    OBVIOUS
  <2> HIDE DEF T
  <2> QED BY <1>1, <2>1, SmallestNumber
<1>3. n \in 0..N /\ \E d \in Day : Ready(n, d) /\ ~Tiling(f[n][d], d, s, c)
  BY DEF T
<1>4. PICK d \in Day : Ready(n, d) /\ ~Tiling(f[n][d], d, s, c)
  BY <1>3
<1>5. ~IsBefore(c, d) /\ ~Left(s, d)
  <2> SUFFICES ASSUME IsBefore(c, d) \/ Left(s, d) PROVE FALSE
    OBVIOUS
  <2>1. f[n][d] = <<>>
    BY <1>3 DEF Turn
  <2> QED BY <1>4, <2>1, NothingBegins
<1>6. BillingDay(s, d) /\ Enough(n, d, s, c)
  BY <1>4, <1>5
<1>7. n # 0
  <2>1. c.month \in Int /\ d.month \in Int /\ d.month <= c.month
    BY <1>5 DEF Day, IsBefore
  <2> QED BY <1>3, <1>6, <2>1 DEF Enough
<1> PICK m : m = n - 1
  OBVIOUS
<1>8. m \in 0..N /\ m \notin T
  BY <1>2, <1>3, <1>7
<1>9. d \in PeriodStarts(s, c)
  <2>1. s.start \in Day /\ IsUpTo(s.start, d)
    BY <1>6, BeforeIsOrder DEF StayOK, BillingDay
  <2>2. d = s.start \/ d = AnchorDayIn(d.month, Anchor(s))
    BY <1>6 DEF BillingDay
  <2>3. d.month \in s.start.month..c.month
    BY <1>5, <2>1 DEF Day, IsUpTo, IsBefore
  <2> QED BY <1>5, <2>1, <2>2, <2>3 DEF PeriodStarts, IsUpTo
<1> PICK p : p = PeriodFrom(s, d)
  OBVIOUS
<1> PICK q : q = f[m][p.to]
  OBVIOUS
<1>10. f[n][d] = <<p>> \o q
  <2>1. f[n][d] = Turn(f, s, c, n, d)
    BY <1>3
  <2> QED BY <1>5, <1>7, <2>1 DEF Turn
<1>11. p.to \in Day /\ Ready(m, p.to)
  <2> PICK natural : natural = NextAnchorAfter(s, d)
    OBVIOUS
  <2>1. p.to = IF Left(s, natural) THEN s.end ELSE natural
    BY DEF PeriodFrom
  <2>2. CASE Left(s, natural)
    <3>1. s.end \in Day /\ p.to = s.end
      BY <2>1, <2>2 DEF Left, StayOK, Stay
    <3> QED BY <2>2, <3>1, BeforeIsOrder DEF Left
  <2>3. CASE ~Left(s, natural)
    <3>1. natural \in Day /\ BillingDay(s, natural) /\ Enough(m, natural, s, c)
      BY <1>3, <1>6, OneTurnLess
    <3> QED BY <2>1, <2>3, <3>1
  <2> QED BY <2>2, <2>3
<1>12. Tiling(q, p.to, s, c)
  BY <1>8, <1>11 DEF T
<1>13. Tiling(<<p>> \o q, d, s, c)
  BY <1>9, <1>12, OneMorePeriod
<1> QED BY <1>4, <1>10, <1>13

(* The tenancy services write the move-in day once, and it is one of a     *)
(* stay there may be.                                                      *)
StartsAreGiven ==
    \A t \in Tenancies : tenancy[t].status # "NONE" =>
        \E stay \in Stays : tenancy[t].start = stay.start

(* No step gives a tenancy another move-in day.                            *)
LEMMA StartsStep == ASSUME Inv, StartsAreGiven, [Next]_vars PROVE StartsAreGiven'
<1>0. tenancy \in [Tenancies -> Stay]
  BY DEF Inv, Rows
<1>1. ASSUME NEW t \in Tenancies, NEW stay \in Stays, MoveIn(t, stay) PROVE StartsAreGiven'
  BY <1>0, <1>1 DEF MoveIn, StartsAreGiven
<1>2. ASSUME \A t \in Tenancies : /\ tenancy'[t].start = tenancy[t].start
                                  /\ tenancy'[t].status # "NONE" => tenancy[t].status # "NONE"
      PROVE  StartsAreGiven'
  BY <1>2 DEF StartsAreGiven
<1>3. ASSUME NEW t \in Tenancies, NEW day \in LeavingDays, GiveNotice(t, day) \/ CheckOut(t, day)
      PROVE  StartsAreGiven'
  BY <1>0, <1>2, <1>3 DEF GiveNotice, CheckOut, Stay
<1>4. ASSUME UNCHANGED tenancy PROVE StartsAreGiven'
  BY <1>2, <1>4
<1>5. ASSUME NEW h \in Slots,
             \/ \E p \in Properties : GenerateForProperty(h, p) \/ NextProperty(h, p)
             \/ \E t \in Tenancies, amount \in Amounts :
                   \E target \in {None} \union {Key(i) : i \in InvoicesOf(t)} :
                       FindTenancyForBilling(h, t, amount, target)
             \/ StartNightlyRun(h) \/ PropertyFails(h) \/ Fail(h)
             \/ CreateInvoices(h) \/ ReadOpenInvoices(h) \/ RecordPayment(h)
      PROVE  UNCHANGED tenancy
  BY <1>5 DEF GenerateForProperty, NextProperty, FindTenancyForBilling, StartNightlyRun,
              PropertyFails, Fail, CreateInvoices, ReadOpenInvoices, RecordPayment
<1>6. CASE NextDay \/ UNCHANGED vars
  BY <1>4, <1>6 DEF NextDay, vars
<1> QED BY <1>1, <1>3, <1>4, <1>5, <1>6, BillingFacts DEF Next, Job

(* No stay is longer than the turns the loop takes, fifty years.           *)
StaysAreShort ==
    \A stay \in Stays, n \in 1..Len(Clock) : Clock[n].month - stay.start.month + 3 <= MaxPeriods

(* What is said of the periods of one stay.                                *)
TilesStay(ps, s, c) ==
    /\ {ps[n] : n \in DOMAIN ps} = RentPeriods(s, c)
    /\ \A n \in DOMAIN ps :
          /\ ps[n].from = IF n = 1 THEN s.start ELSE ps[n - 1].to
          /\ IsBefore(ps[n].from, ps[n].to)
          /\ n > 1 => ps[n].from.day = AnchorDayIn(ps[n].from.month, Anchor(s)).day
    /\ ps # <<>> => \/ IsBefore(c, ps[Len(ps)].to)
                     \/ ps[Len(ps)].to = s.end

(* Of every stay that is short enough.                                     *)
LEMMA TilesHold == ASSUME StaysAreShort, Inv, StartsAreGiven PROVE PeriodsTileTheStay
<1> SUFFICES ASSUME NEW t \in Tenancies, tenancy[t].status # "NONE"
             PROVE  TilesStay(PeriodsInTurn(tenancy[t], Cutoff), tenancy[t], Cutoff)
  BY DEF PeriodsTileTheStay, TilesStay
<1> PICK s : s = tenancy[t]
  OBVIOUS
<1> PICK c : c = Cutoff
  OBVIOUS
<1> PICK ps : ps = PeriodsInTurn(s, c)
  OBVIOUS
<1>1. StayOK(s) /\ s.status # "NONE" /\ s.start \in Day /\ c \in Day
  BY CutoffIsDay DEF Inv, Rows, StayOK
<1>2. MaxPeriods >= c.month - s.start.month + 2 /\ c.month - s.start.month \in Int
  <2>1. PICK stay \in Stays : s.start = stay.start
    BY DEF StartsAreGiven
  <2>2. tick \in 1..Len(Clock) /\ Today \in Day /\ s.start.month \in Int
    BY <1>1, ClockRuns DEF Inv, Counters, Today, Day
  <2>3. Today.month - s.start.month + 3 <= MaxPeriods /\ Today.month \in Int
    BY <2>1, <2>2 DEF StaysAreShort, Today, Day
  <2>4. c.month \in {Today.month, Today.month + 1}
    BY DEF Cutoff, PlusDays, On
  <2> PICK m : m = Today.month
    OBVIOUS
  <2>5. m \in Int /\ m - s.start.month + 3 <= MaxPeriods /\ c.month \in {m, m + 1}
    BY <2>3, <2>4
  <2>6. s.start.month \in Int
    BY <2>2
  <2> QED BY <2>5, <2>6 DEF MaxPeriods
<1>3. PICK f : /\ ps = f[MaxPeriods][s.start]
               /\ \A n \in 0..MaxPeriods, d \in Day : f[n][d] = Turn(f, s, c, n, d)
  BY LoopTurns
<1>4. Tiling(ps, s.start, s, c)
  <2>1. BillingDay(s, s.start) /\ Enough(MaxPeriods, s.start, s, c)
    BY <1>2 DEF BillingDay, Enough, MaxPeriods
  <2> PICK N : N = MaxPeriods
    OBVIOUS
  <2>2. N \in Nat /\ N \in 0..N
    BY DEF MaxPeriods
  <2>3. \A n \in 0..N, d \in Day : f[n][d] = Turn(f, s, c, n, d)
    BY <1>3
  <2>4. \A n \in 0..N, d \in Day :
            Left(s, d) \/ (BillingDay(s, d) /\ Enough(n, d, s, c)) => Tiling(f[n][d], d, s, c)
    BY <1>1, <2>2, <2>3, LoopTiles
  <2>5. Tiling(f[N][s.start], s.start, s, c)
    BY <1>1, <2>1, <2>2, <2>4
  <2> QED BY <1>3, <2>5
<1>5. StartsFrom(s.start, s, c) = PeriodStarts(s, c)
  BY DEF StartsFrom, PeriodStarts
<1>6. TilesStay(ps, s, c)
  BY <1>4, <1>5 DEF Tiling, TilesStay, RentPeriods
<1> QED BY <1>6

(* The periods a stay owes follow each other without a gap, from move-in   *)
(* until the cutoff has passed or the tenant has left, and a short month   *)
(* moves no later billing day: of every stay of less than fifty years.     *)
THEOREM PeriodsLeaveNoGap == ASSUME StaysAreShort PROVE Spec => []PeriodsTileTheStay
<1>1. Init => StartsAreGiven
  BY DEF Init, StartsAreGiven, NoStay
<1>2. Inv /\ StartsAreGiven /\ [Next]_vars => StartsAreGiven'
  BY StartsStep
<1>3. Inv /\ StartsAreGiven => PeriodsTileTheStay
  BY TilesHold
<1> QED BY <1>1, <1>2, <1>3, InvHolds, PTL DEF Spec
=============================================================================
