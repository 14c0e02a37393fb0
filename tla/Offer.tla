------------------------------- MODULE Offer -------------------------------
(***************************************************************************)
(* What a tenant is shown before booking, and what is charged.             *)
(*                                                                         *)
(* The pages of the web application are built from a copy of the listing   *)
(* that may be old.  They show one line for a kind of room: the beds that  *)
(* are free, the lowest rent, a deposit.  The API then picks the bed, and  *)
(* the bed sets the price.                                                 *)
(***************************************************************************)
EXTENDS Integers, FiniteSets, FiniteSetsExt

CONSTANTS
    Rooms, Beds, RoomOf,
    Sharings,       \* kinds of room: one line each
    Rates,          \* pairs of a rent and a deposit
    Overrides,      \* rents of a bed of its own, or None
    Days,           \* days one may move in on; the least is today
    Forever,        \* a day after all of them: a claim without an end
    Fee,            \* PLATFORM_CONVENIENCE_FEE_PAISE
    CommissionBps,  \* PLATFORM_COMMISSION_BPS
    MaxChanges,     \* bound on what owners and other tenants do
    None

OfferAssumption ==
    /\ IsFiniteSet(Rooms) /\ IsFiniteSet(Beds)
    /\ RoomOf \in [Beds -> Rooms] /\ Rates \subseteq Nat \X Nat
    /\ Overrides \subseteq Nat \union {None} /\ Days \subseteq Nat
    /\ Forever \in Nat /\ \A d \in Days : d < Forever
    /\ {Fee, CommissionBps, MaxChanges} \subseteq Nat

VARIABLES
    sharing,    \* of each room
    rate,       \* base rent and deposit of each room
    override,   \* of each bed
    claim,      \* active allocation of each bed: the days from..to, or None
    freePeriod, \* the owner pays no commission yet
    copy,       \* the listing as the web server has it: a line for each kind
    form,       \* the lines the form was given, and what was entered
    walk,       \* candidates that are left
    bill,       \* what came of it
    changes, disturbed

vars == <<sharing, rate, override, claim, freePeriod, copy, form, walk, bill, changes, disturbed>>

Today == Min(Days)
RentOf(b) == IF override[b] # None THEN override[b] ELSE rate[RoomOf[b]][1]
BedsIn(s) == {b \in Beds : sharing[RoomOf[b]] = s}

(***************************************************************************)
(* What is shown                                                           *)
(***************************************************************************)

(* Nothing claims the bed from the day on, now or later. *)
FreeFrom(b, d) == claim[b] # None => claim[b].to <= d

(* Variant: nobody is in it tonight. *)
EmptyTonight == {b \in Beds : claim[b] # None => Today \notin claim[b].from..(claim[b].to - 1)}

FreeBeds == {b \in Beds : FreeFrom(b, Today)}

(* Of all the beds, taken or not, and of the rooms themselves. *)
LowestRent(s) ==
    Min({RentOf(b) : b \in BedsIn(s)} \union {rate[r][1] : r \in {q \in Rooms : sharing[q] = s}})

(* The deposit is that of the first room of the kind; they come in no      *)
(* particular order.                                                       *)
Line(s, first) ==
    [rent |-> LowestRent(s), free |-> Cardinality(BedsIn(s) \intersect FreeBeds),
     deposit |-> rate[first][2]]

Offered == {sharing[r] : r \in Rooms}

Unfilled == [lines |-> None, chosen |-> None, day |-> None]
Open == bill.state = "open"

(* A copy older than a minute is served once more while a new one is       *)
(* fetched: nothing bounds its age.                                        *)
Revalidates ==
    /\ Open /\ form = Unfilled
    /\ \E first \in [Offered -> Rooms] :
          /\ \A s \in Offered : sharing[first[s]] = s
          /\ copy' = [s \in Offered |-> Line(s, first[s])]
    /\ disturbed' = FALSE
    /\ UNCHANGED <<sharing, rate, override, claim, freePeriod, form, walk, bill, changes>>

(* The form offers the kinds with a free bed: it starts with the one the   *)
(* link names, if it is among them, or else the cheapest, and the tenant   *)
(* may take any.                                                           *)
Fills(s, d) ==
    /\ Open /\ copy # None /\ form = Unfilled
    /\ s \in DOMAIN copy /\ copy[s].free > 0
    /\ form' = [lines |-> copy, chosen |-> s, day |-> d]
    /\ UNCHANGED <<sharing, rate, override, claim, freePeriod, copy, walk, bill, changes, disturbed>>

Shown == form.lines[form.chosen]
ShownTotal == Shown.rent + Shown.deposit + Fee

(***************************************************************************)
(* What is charged                                                         *)
(***************************************************************************)

CandidateBeds(s, d) ==
    {[bed |-> b, base |-> rate[RoomOf[b]][1], rent |-> RentOf(b), deposit |-> rate[RoomOf[b]][2]] :
        b \in {k \in BedsIn(s) : FreeFrom(k, d)}}

Unpriced == [rent |-> 0, deposit |-> 0, total |-> 0, owner |-> 0, platform |-> 0]
Closed == [state |-> "open", bed |-> None, price |-> Unpriced, cheaper |-> FALSE]

Refused == [Closed EXCEPT !.state = "refused"]

Shortlists ==
    /\ Open /\ form # Unfilled /\ walk = None
    /\ LET found == CandidateBeds(form.chosen, form.day) IN
          IF found = {} THEN bill' = Refused /\ UNCHANGED walk
          ELSE walk' = found /\ UNCHANGED bill
    /\ UNCHANGED <<sharing, rate, override, claim, freePeriod, copy, form, changes, disturbed>>

Commission(rent) == IF freePeriod THEN 0 ELSE (rent * CommissionBps + 5000) \div 10000

(* Variant: the commission is put on top of what the tenant pays. *)
SurchargedPrice(c) ==
    [rent |-> c.rent, deposit |-> c.deposit, total |-> c.rent + c.deposit + Fee + Commission(c.rent),
     owner |-> c.rent + c.deposit, platform |-> Commission(c.rent) + Fee]

PriceBooking(c) ==
    [rent |-> c.rent, deposit |-> c.deposit, total |-> c.rent + c.deposit + Fee,
     owner |-> c.rent + c.deposit - Commission(c.rent), platform |-> Commission(c.rent) + Fee]

(* In the order of the rents of the rooms; one taken meanwhile is left out. *)
Holds(c) ==
    /\ Open /\ walk # None /\ c \in walk /\ \A e \in walk : c.base <= e.base
    /\ IF FreeFrom(c.bed, form.day)
       THEN /\ claim' = [claim EXCEPT ![c.bed] = [from |-> form.day, to |-> Forever]]
            /\ bill' = [state |-> "charged", bed |-> c.bed, price |-> PriceBooking(c),
                        cheaper |-> \E e \in walk : e.rent < c.rent]
            /\ walk' = None
       ELSE /\ bill' = IF walk = {c} THEN Refused ELSE bill
            /\ walk' = walk \ {c}
            /\ UNCHANGED claim
    /\ UNCHANGED <<sharing, rate, override, freePeriod, copy, form, changes, disturbed>>

(***************************************************************************)
(* Meanwhile                                                               *)
(***************************************************************************)

Changes ==
    /\ Open /\ changes < MaxChanges /\ changes' = changes + 1
    /\ UNCHANGED <<sharing, freePeriod, copy, form, walk, bill>>

(* Somebody else books a bed, or is seated in it. *)
IsClaimed(b, from) ==
    /\ Changes /\ FreeFrom(b, from)
    /\ claim' = [claim EXCEPT ![b] = [from |-> from, to |-> Forever]]
    /\ disturbed' = TRUE
    /\ UNCHANGED <<rate, override>>

(* Whoever had it leaves; a bed more does no harm. *)
IsReleased(b) ==
    /\ Changes /\ claim[b] # None
    /\ claim' = [claim EXCEPT ![b] = None]
    /\ UNCHANGED <<rate, override, disturbed>>

UpdatesRoom(r, new) ==
    /\ Changes /\ rate[r] # new
    /\ rate' = [rate EXCEPT ![r] = new]
    /\ disturbed' = TRUE
    /\ UNCHANGED <<override, claim>>

UpdatesBed(b, rent) ==
    /\ Changes /\ rent # None /\ override[b] # rent
    /\ override' = [override EXCEPT ![b] = rent]
    /\ disturbed' = TRUE
    /\ UNCHANGED <<rate, claim>>

(***************************************************************************)
(* The system                                                              *)
(***************************************************************************)

Claims == {None} \union {[from |-> d, to |-> e] : d \in Days, e \in Days \union {Forever}}

Init ==
    /\ sharing \in [Rooms -> Sharings] /\ rate \in [Rooms -> Rates]
    /\ override \in [Beds -> Overrides]
    /\ claim \in [Beds -> {c \in Claims : c = None \/ c.from < c.to}]
    /\ freePeriod \in BOOLEAN
    /\ copy = None /\ form = Unfilled /\ walk = None /\ bill = Closed
    /\ changes = 0 /\ disturbed = FALSE

Next ==
    \/ Revalidates \/ Shortlists
    \/ \E s \in Sharings, d \in Days : Fills(s, d)
    \/ walk # None /\ \E c \in walk : Holds(c)
    \/ \E b \in Beds : IsReleased(b) \/ \E d \in Days : IsClaimed(b, d)
    \/ \E b \in Beds, rent \in Overrides : UpdatesBed(b, rent)
    \/ \E r \in Rooms, new \in Rates : UpdatesRoom(r, new)

Spec == Init /\ [][Next]_vars

(***************************************************************************)
(* Properties                                                              *)
(***************************************************************************)

(* All the beds of a kind cost the same. *)
Uniform(s) ==
    /\ Cardinality({RentOf(b) : b \in BedsIn(s)}) = 1
    /\ Cardinality({rate[r] : r \in {q \in Rooms : sharing[q] = s}}) = 1
    /\ \A b \in BedsIn(s) : RentOf(b) = rate[RoomOf[b]][1]

(* "What a tenant is shown cannot disagree with what booking would allow"  *)
(* (freeBedsByProperty): what the form offered is not refused, whatever    *)
(* day is chosen, and costs the rent shown or more - and what was shown to *)
(* the rupee, where the beds of the kind do not differ - unless somebody   *)
(* took a bed or changed a rent after the copy was fetched.                *)
OfferIsKept ==
    ~disturbed =>
        /\ bill.state # "refused"
        /\ bill.state = "charged" =>
              /\ bill.price.rent >= Shown.rent
              /\ Uniform(form.chosen) => bill.price.total = ShownTotal

(* "Every figure shown before payment, because a surprise at the end is    *)
(* how a booking becomes a refund" (BookForm): what is charged is what was *)
(* shown, if nothing changed meanwhile.                                    *)
ShownIsCharged == bill.state = "charged" /\ ~disturbed => bill.price.total = ShownTotal

(* "We pick the cheapest free one" (createBooking): none of the candidates *)
(* that were left cost less.                                               *)
CheapestIsHeld == ~bill.cheaper
=============================================================================
