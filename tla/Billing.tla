------------------------------ MODULE Billing ------------------------------
(***************************************************************************)
(* Rent: what tenants are invoiced, what they pay, and what the owner is   *)
(* shown.                                                                  *)
(*                                                                         *)
(* Nobody keeps a list of what is still to be billed.  The nightly job,    *)
(* every look at the rent page and every payment derive the periods each   *)
(* tenancy owes by now and insert the invoices that are missing; the       *)
(* unique index over (tenancy, period start) turns the others away.  The   *)
(* read of the tenancies and the insert are separate round trips, and so   *)
(* are, inside the transaction that records a payment, the read of the     *)
(* open invoices and the writes that settle them (READ COMMITTED, no row   *)
(* lock).  A slot of `work' holds what a request or the job has read.      *)
(***************************************************************************)
EXTENDS RentCycle, FiniteSets, FiniteSetsExt

CONSTANTS
    Tenancies,
    Properties,
    PropertyOf,     \* the property of each tenancy
    Stays,          \* move-in day, billing day and rent a tenancy may have
    Clock,          \* the days on which something happens, in order
    LeavingDays,    \* days a tenant may leave on
    Amounts,        \* what the owner may record as received
    Requests,       \* requests the API serves at a time
    Jobs,           \* instances that run the nightly job
    MaxPayments,    \* bound on the payments recorded
    MaxFailures,    \* bound on the processes that die and the properties that fail
    None            \* no tenancy, no property, no invoice

LookaheadDays == 7

Slots == Requests \union Jobs

BillingAssumption ==
    /\ IsFiniteSet(Tenancies) /\ PropertyOf \in [Tenancies -> Properties]
    /\ Requests \intersect Jobs = {}
    /\ Amounts \subseteq Nat \ {0}
    /\ MaxPayments \in Nat /\ MaxFailures \in Nat
    /\ None \notin Tenancies \union Properties

StaysAssumption ==
    /\ \A s \in Stays : /\ s.start \in Day /\ s.anchor \in (1..31) \union {NoDate}
                        /\ s.rent \in Nat /\ s.online \in BOOLEAN
                        /\ s.online => s.anchor = s.start.day
    /\ NoDate \notin Day /\ NoDate \notin 1..31 /\ LeavingDays \subseteq Day
    /\ Clock \in Seq(Day) /\ Len(Clock) > 0

ASSUME BillingOK == BillingAssumption
ASSUME StaysOK == StaysAssumption

VARIABLES
    tick,       \* today is Clock[tick]
    tenancy,    \* tenancies: the stay, and whether it still runs
    invoices,   \* invoices, with the sum of the allocations to each
    credit,     \* of each tenancy: captured and not allocated to any invoice
    orphans,    \* tenancies whose online payment names no tenancy
    payments,   \* payments recorded by the owner so far
    work,       \* what each slot is doing and has read
    failures

vars == <<tick, tenancy, invoices, credit, orphans, payments, work, failures>>
money == <<credit, orphans, payments>>

Today == Clock[tick]
Cutoff == PlusDays(Today, LookaheadDays)

NoStay == [status |-> "NONE", start |-> NoDate, end |-> NoDate, anchor |-> NoDate,
           rent |-> 0]

(* cycleKey is the period's first day.  VOID exists and nothing sets it.   *)
InvoiceStatus == {"OPEN", "PARTIALLY_PAID", "PAID"}

Key(i) == <<i.tenancy, i.from>>

(* Payments that overlap may allocate more than there is to pay.           *)
Outstanding(i) == IF i.allocated < i.amount THEN i.amount - i.allocated ELSE 0
InvoicesOf(t) == {i \in invoices : i.tenancy = t}
Unpaid(t) == {i \in InvoicesOf(t) : i.allocated < i.amount}

Total(Of(_), S) == SumFunctionOnSet([x \in S |-> Of(x)], S)

(***************************************************************************)
(* Work in progress                                                        *)
(***************************************************************************)

Steps == {"idle", "next", "create", "open", "settle"}

Idle == [pc |-> "idle", todo |-> {}, drafts |-> {}, t |-> None, amount |-> 0,
         target |-> None, seen |-> {}]

At(h, pc) == work[h].pc = pc
Goes(h, w) == work' = [work EXCEPT ![h] = w]

(***************************************************************************)
(* Raising invoices                                                        *)
(***************************************************************************)

(* Variant: a tenant who has given notice is not billed any more.          *)
ActiveOnly(p) == {t \in Tenancies : PropertyOf[t] = p /\ tenancy[t].status = "ACTIVE"}

BillableTenancies(p) ==
    {t \in Tenancies : PropertyOf[t] = p /\ tenancy[t].status \in {"ACTIVE", "NOTICE_GIVEN"}}

Draft(t, p) == [tenancy |-> t, from |-> p.from, to |-> p.to, amount |-> p.amount,
                allocated |-> 0, status |-> "OPEN"]

(* The invoices one property should have by now. *)
Drafts(p) ==
    UNION {{Draft(t, period) : period \in RentPeriods(tenancy[t], Cutoff)} :
              t \in BillableTenancies(p)}

(* Variant: the index is over the whole row. *)
InsertedUnlessSame(drafts) == drafts \ invoices

(* skipDuplicates. *)
Inserted(drafts) == {i \in drafts : \A j \in invoices : Key(j) # Key(i)}

(* The owner asks for invoices, or opens the rent page. *)
GenerateForProperty(h, p) ==
    /\ h \in Requests /\ At(h, "idle")
    /\ Goes(h, [Idle EXCEPT !.pc = "create", !.drafts = Drafts(p)])
    /\ UNCHANGED <<tick, tenancy, invoices, money, failures>>

(* A request that raised invoices is done, a payment goes on, and the job  *)
(* turns to its next property.                                             *)
CreateInvoices(h) ==
    /\ At(h, "create")
    /\ invoices' = invoices \union Inserted(work[h].drafts)
    /\ IF work[h].t # None
       THEN Goes(h, [work[h] EXCEPT !.pc = "open", !.drafts = {}])
       ELSE IF work[h].todo = {} THEN Goes(h, Idle)
       ELSE Goes(h, [work[h] EXCEPT !.pc = "next", !.drafts = {}])
    /\ UNCHANGED <<tick, tenancy, money, failures>>

PropertiesWithTenants == {p \in Properties : BillableTenancies(p) # {}}

StartNightlyRun(j) ==
    /\ j \in Jobs /\ At(j, "idle") /\ PropertiesWithTenants # {}
    /\ Goes(j, [Idle EXCEPT !.pc = "next", !.todo = PropertiesWithTenants])
    /\ UNCHANGED <<tick, tenancy, invoices, money, failures>>

NextProperty(j, p) ==
    /\ At(j, "next") /\ p \in work[j].todo
    /\ Goes(j, [work[j] EXCEPT !.pc = "create", !.todo = @ \ {p}, !.drafts = Drafts(p)])
    /\ UNCHANGED <<tick, tenancy, invoices, money, failures>>

(* "One bad property must not stop the rest of the estate being billed." *)
SkipProperty(j) ==
    IF work[j].todo = {} THEN Idle ELSE [work[j] EXCEPT !.pc = "next", !.drafts = {}]

PropertyFails(j) ==
    /\ j \in Jobs /\ At(j, "create") /\ failures < MaxFailures
    /\ failures' = failures + 1
    /\ Goes(j, SkipProperty(j))
    /\ UNCHANGED <<tick, tenancy, invoices, money>>

(***************************************************************************)
(* Recording a payment                                                     *)
(***************************************************************************)

(* Whatever became of the tenancy: somebody who left may still owe.        *)
FindTenancyForBilling(h, t, amount, target) ==
    /\ h \in Requests /\ At(h, "idle") /\ payments < MaxPayments
    /\ tenancy[t].status # "NONE"
    /\ target \in {None} \union {Key(i) : i \in InvoicesOf(t)}
    /\ payments' = payments + 1
    /\ Goes(h, [Idle EXCEPT !.pc = "create", !.t = t, !.amount = amount,
                            !.target = target, !.drafts = Drafts(PropertyOf[t])])
    /\ UNCHANGED <<tick, tenancy, invoices, credit, orphans, failures>>

(* The transaction's read. *)
ReadOpenInvoices(h) ==
    /\ At(h, "open")
    /\ Goes(h, [work[h] EXCEPT !.pc = "settle",
                   !.seen = {i \in InvoicesOf(work[h].t) :
                                /\ i.status \in {"OPEN", "PARTIALLY_PAID"}
                                /\ work[h].target \in {None, Key(i)}}])
    /\ UNCHANGED <<tick, tenancy, invoices, money, failures>>

Earlier(i, seen) == {j \in seen : IsBefore(j.from, i.from)}

(* The loop of recordPayment: oldest first, each as far as the money goes. *)
OldestFirst(applied, seen, amount) ==
    \A i \in seen :
        LET left == amount - Total(Outstanding, Earlier(i, seen)) IN
        applied[i] = IF left <= 0 THEN 0
                     ELSE IF left < Outstanding(i) THEN left ELSE Outstanding(i)

(* Variant: an invoice is paid once it is the last the money reached.      *)
PaidIfMoneyRemains(was, applied) == applied > 0 /\ applied <= Outstanding(was)

CoversInvoice(was, applied) == was.allocated + applied >= was.amount

(* Variant: the amount paid is stored, and written as it was read.         *)
SettledAsRead(i, was, applied) ==
    [i EXCEPT !.allocated = was.allocated + applied,
              !.status = IF CoversInvoice(was, applied) THEN "PAID" ELSE "PARTIALLY_PAID"]

(* The writes, decided on the invoice as it was read (was): an allocation  *)
(* is a row of its own, the status is overwritten.                         *)
SettledBy(i, was, applied) ==
    [i EXCEPT !.allocated = @ + applied,
              !.status = IF CoversInvoice(was, applied) THEN "PAID" ELSE "PARTIALLY_PAID"]

SettledInvoices(applied) ==
    {IF \E was \in DOMAIN applied : Key(was) = Key(i) /\ applied[was] > 0
     THEN LET was == CHOOSE w \in DOMAIN applied : Key(w) = Key(i)
          IN  SettledBy(i, was, applied[was])
     ELSE i : i \in invoices}

(* What is left over stays on the payment as credit. *)
RecordPayment(h) ==
    LET seen == work[h].seen  amount == work[h].amount IN
    /\ At(h, "settle")
    /\ \E applied \in [seen -> 0..amount] :
          /\ OldestFirst(applied, seen, amount)
          /\ invoices' = SettledInvoices(applied)
          /\ credit' = [credit EXCEPT ![work[h].t] =
                            @ + amount - Total(LAMBDA i : applied[i], seen)]
    /\ Goes(h, Idle)
    /\ UNCHANGED <<tick, tenancy, orphans, payments, failures>>

(***************************************************************************)
(* The tenancies, as the booking and tenancy services leave them           *)
(***************************************************************************)

(* Seated at the desk, or confirmed after the first month's rent was paid  *)
(* online, with the move-in day as billing day: markPaid records that      *)
(* payment without a tenancy.                                              *)
MoveIn(t, stay) ==
    /\ tenancy[t].status = "NONE"
    /\ tenancy' = [tenancy EXCEPT ![t] =
          [status |-> "ACTIVE", start |-> stay.start, end |-> NoDate,
           anchor |-> stay.anchor, rent |-> stay.rent]]
    /\ orphans' = IF stay.online THEN orphans \union {t} ELSE orphans
    /\ UNCHANGED <<tick, invoices, credit, payments, work, failures>>

GiveNotice(t, day) ==
    /\ tenancy[t].status = "ACTIVE" /\ IsBefore(tenancy[t].start, day)
    /\ tenancy' = [tenancy EXCEPT ![t].status = "NOTICE_GIVEN", ![t].end = day]
    /\ UNCHANGED <<tick, invoices, money, work, failures>>

CheckOut(t, day) ==
    /\ tenancy[t].status \in {"ACTIVE", "NOTICE_GIVEN"}
    /\ tenancy' = [tenancy EXCEPT ![t].status = "ENDED",
          ![t].end = IF IsBefore(day, tenancy[t].start) THEN tenancy[t].start ELSE day]
    /\ UNCHANGED <<tick, invoices, money, work, failures>>

NextDay ==
    /\ tick < Len(Clock)
    /\ tick' = tick + 1
    /\ UNCHANGED <<tenancy, invoices, money, work, failures>>

(* The process dies between two steps; an open transaction is rolled back. *)
Fail(h) ==
    /\ ~At(h, "idle") /\ failures < MaxFailures
    /\ failures' = failures + 1
    /\ Goes(h, Idle)
    /\ UNCHANGED <<tick, tenancy, invoices, money>>

(***************************************************************************)
(* The system                                                              *)
(***************************************************************************)

Init ==
    /\ tick = 1
    /\ tenancy = [t \in Tenancies |-> NoStay]
    /\ invoices = {}
    /\ credit = [t \in Tenancies |-> 0]
    /\ orphans = {} /\ payments = 0
    /\ work = [h \in Slots |-> Idle]
    /\ failures = 0

Job(j) ==
    \/ StartNightlyRun(j)
    \/ \E p \in Properties : NextProperty(j, p)
    \/ CreateInvoices(j)

Next ==
    \/ \E h \in Requests :
          \/ \E p \in Properties : GenerateForProperty(h, p)
          \/ \E t \in Tenancies, amount \in Amounts :
                \E target \in {None} \union {Key(i) : i \in InvoicesOf(t)} :
                    FindTenancyForBilling(h, t, amount, target)
          \/ CreateInvoices(h) \/ ReadOpenInvoices(h) \/ RecordPayment(h)
    \/ \E j \in Jobs : Job(j) \/ PropertyFails(j)
    \/ \E h \in Slots : Fail(h)
    \/ \E t \in Tenancies : \/ \E stay \in Stays : MoveIn(t, stay)
                            \/ \E day \in LeavingDays : GiveNotice(t, day) \/ CheckOut(t, day)
    \/ NextDay

Spec == Init /\ [][Next]_vars

(* Cron starts the job every night, and a run that is not cut short goes   *)
(* on to its end.  No request has to come in.                              *)
Fairness == \A j \in Jobs : WF_vars(Job(j))

FairSpec == Spec /\ Fairness

(***************************************************************************)
(* The rent page                                                           *)
(***************************************************************************)

(* Variant: only those who still live there. *)
CurrentOnly(p) == BillableTenancies(p)

(* Those to bill, and those who have left with an invoice not PAID.        *)
TenanciesForDues(p) ==
    BillableTenancies(p) \union
    {t \in Tenancies : /\ PropertyOf[t] = p
                       /\ tenancy[t].status \notin {"ACTIVE", "NOTICE_GIVEN"}
                       /\ \E i \in InvoicesOf(t) : i.status # "PAID"}

(* What the page says a tenant owes, from the amounts and not the status.  *)
Dues(t) == Total(Outstanding, Unpaid(t))

(* collectionTotals, over every invoice the property ever raised. *)
SummaryOutstanding(p) ==
    LET raised == {i \in invoices : PropertyOf[i.tenancy] = p}
        owed == Total(LAMBDA i : i.amount, raised) - Total(LAMBDA i : i.allocated, raised)
    IN  IF owed > 0 THEN owed ELSE 0

(***************************************************************************)
(* Properties                                                              *)
(***************************************************************************)

Invoice == [tenancy : Tenancies, from : Day, to : Day, amount : Nat,
            allocated : Nat, status : InvoiceStatus]

(* Rows and requests have the shape the schema and the handlers give them, *)
(* and (tenancy, cycleKey) is a key of the invoices.                       *)
Shapes ==
    /\ tick \in 1..Len(Clock)
    /\ \A t \in Tenancies :
          /\ tenancy[t].status \in {"NONE", "ACTIVE", "NOTICE_GIVEN", "ENDED"}
          /\ tenancy[t].status # "NONE" => tenancy[t].start \in Day
          /\ tenancy[t].end # NoDate => IsUpTo(tenancy[t].start, tenancy[t].end)
    /\ \A i \in invoices : i \in Invoice
    /\ \A i, j \in invoices : Key(i) = Key(j) => i = j
    /\ orphans \subseteq Tenancies
    /\ payments \in 0..MaxPayments /\ failures \in 0..MaxFailures
    /\ \A h \in Slots : /\ work[h].pc \in Steps
                         /\ work[h].todo \subseteq Properties
                         /\ \A i \in work[h].drafts \union work[h].seen : i \in Invoice

(* And no payment leaves less than nothing as credit.                      *)
TypeOK == Shapes /\ credit \in [Tenancies -> Nat]

(* Nobody pays for one night twice (cycleKeyFor): whichever of the job,    *)
(* the rent page and a payment raises the invoices, and whatever notice is *)
(* given between their reads and their inserts, the periods a tenant was   *)
(* invoiced for share no day.                                              *)
NoDayBilledTwice ==
    \A i, j \in invoices :
        i.tenancy = j.tenancy /\ i # j => IsUpTo(i.to, j.from) \/ IsUpTo(j.to, i.from)

(* The loop of rentPeriods covers a stay from move-in on without a gap,    *)
(* until the cutoff has passed or the tenant has left, and every period    *)
(* but the first begins on the billing day: a short month does not move    *)
(* it for good (nextAnchorAfter).                                          *)
PeriodsTileTheStay ==
    \A t \in Tenancies : tenancy[t].status # "NONE" =>
        LET stay == tenancy[t]  ps == PeriodsInTurn(stay, Cutoff) IN
        /\ {ps[n] : n \in DOMAIN ps} = RentPeriods(stay, Cutoff)
        /\ \A n \in DOMAIN ps :
              /\ ps[n].from = IF n = 1 THEN stay.start ELSE ps[n - 1].to
              /\ IsBefore(ps[n].from, ps[n].to)
              /\ n > 1 => ps[n].from.day = AnchorDayIn(ps[n].from.month, Anchor(stay)).day
        /\ ps # <<>> => \/ IsBefore(Cutoff, ps[Len(ps)].to)
                         \/ ps[Len(ps)].to = stay.end

(* An invoice marked PAID is covered by the allocations to it, however     *)
(* payments that read it at the same time overwrite its status: so nobody  *)
(* who owes drops off the rent page (listTenanciesForDues).                *)
PaidIsCovered == \A i \in invoices : i.status = "PAID" => i.allocated >= i.amount

(* The summary counts every invoice, the list only some tenants: "told     *)
(* owners money was outstanding and gave them nobody to chase" (dues).     *)
(* Those listed owe at least what the summary says is outstanding.         *)
SomebodyToChase ==
    \A p \in Properties :
        SummaryOutstanding(p) <= Total(Dues, TenanciesForDues(p))

(* An invoice keeps its period and its amount for good, and what was       *)
(* allocated to it stays allocated, also when two payments settle it from  *)
(* the same reading (recordPayment).                                       *)
InvoicesOnlyFillUp ==
    [][\A i \in invoices : \E j \in invoices' :
          Key(j) = Key(i) /\ j.to = i.to /\ j.amount = i.amount
          /\ j.allocated >= i.allocated]_invoices

(* Some period that should have been invoiced by now was not. *)
Behind(t) ==
    /\ tenancy[t].status \in {"ACTIVE", "NOTICE_GIVEN"}
    /\ ~(PeriodStarts(tenancy[t], Cutoff) \subseteq {i.from : i \in InvoicesOf(t)})

(* A tenant who stays is billed in the end, though single properties fail, *)
(* processes die and tenants give notice (generateEverywhere).             *)
EveryPeriodIsBilled == \A t \in Tenancies : Behind(t) ~> ~Behind(t)

(* "Every payment resolves to an invoice or is explicitly unapplied"       *)
(* (BR-035): a tenant who paid the first month online is not shown as      *)
(* owing it, or has the money as credit.                                   *)
FirstMonthPaidOnlineCounts ==
    \A t \in orphans :
        credit[t] > 0 \/ \A i \in Unpaid(t) : i.from # tenancy[t].start
=============================================================================
