----------------------------- MODULE Settlement -----------------------------
(***************************************************************************)
(* What becomes of the money of a confirmed booking.                       *)
(*                                                                         *)
(* The owner's share of a payment stays on hold at the gateway.  The desk  *)
(* redeems the tenant's pass, records the arrival, and then asks the       *)
(* gateway to release the share.  A job sweeps, every hour, the bookings   *)
(* whose grace period is over: it repeats a release that failed, and where *)
(* nobody came it splits the money, the deposit to the tenant and the rest *)
(* to the owner.  With Razorpay each of these is several calls; between    *)
(* two of them, and between a call and the update that records it, the     *)
(* process may die or the call may fail, with or without effect.           *)
(***************************************************************************)
EXTENDS Naturals, FiniteSets

CONSTANTS
    Bookings,       \* confirmed bookings, each paid for online, with its order
    Desks,          \* requests the API serves at a time
    Jobs,           \* instances that run the no-show job
    Rent, Deposit, Commission, Fee,     \* paise, see priceBooking
    MaxFailures,    \* bound on failed calls and on processes that die
    None            \* no booking

Workers == Desks \union Jobs

(* The price of a booking; a no-show without a deposit has nothing to      *)
(* refund and is left out.                                                 *)
PriceAssumption ==
    /\ Rent \in Nat \ {0} /\ Deposit \in Nat \ {0} /\ Fee \in Nat
    /\ Commission \in 0..Rent

WorkersAssumption ==
    Desks \intersect Jobs = {} /\ None \notin Bookings /\ MaxFailures \in Nat

ASSUME PriceOK == PriceAssumption
ASSUME WorkersOK == WorkersAssumption

OwnerShare == Rent + Deposit - Commission
Charged == Rent + Deposit + Fee

VARIABLES
    row,        \* bookings: status and the settlement columns
    arrived,    \* a CHECK_IN event exists and the pass is used
    grace,      \* the pass is still valid, or the job may settle
    transfer,   \* at the gateway: the owner's share
    refunds,    \* at the gateway: refunds under the key no-show:<booking>
    worker,     \* what each request and each run of the job is doing
    failures

vars == <<row, arrived, grace, transfer, refunds, worker, failures>>
gateway == <<transfer, refunds>>

Row == [status : {"CONFIRMED", "CHECKED_IN", "CANCELLED"},
        settlement : {"HELD", "RELEASED", "SPLIT", "FAILED"},
        released : Nat, refunded : Nat]

Transfer == [onHold : BOOLEAN, reversed : Nat]

(* The calls to the gateway, in the order a split makes them; a release    *)
(* makes the last two.                                                     *)
Calls == {"findRefund", "listHeld", "reverse", "refund", "listForRelease", "release"}

Steps == Calls \union {"idle", "cancel", "arrive", "next", "record", "recordFailed"}

(* `split' is FALSE for a release; `seen' is amount_reversed of the held   *)
(* transfer as it was listed; `todo' what is left of a sweep.              *)
Worker == [pc : Steps, b : Bookings \union {None}, todo : SUBSET Bookings,
           split : BOOLEAN, seen : Nat, released : Nat, refunded : Nat]

Idle == [pc |-> "idle", b |-> None, todo |-> {}, split |-> FALSE,
         seen |-> 0, released |-> 0, refunded |-> 0]

At(w, pc) == worker[w].pc = pc
Goes(w, r) == worker' = [worker EXCEPT ![w] = r]
GoesTo(w, pc) == Goes(w, [worker[w] EXCEPT !.pc = pc])
On(w) == worker[w].b

Least(m, n) == IF m < n THEN m ELSE n

(***************************************************************************)
(* The desk                                                                *)
(***************************************************************************)

(* Variant: money first, arrival after. *)
ReadPassAndPay(d, b) ==
    /\ At(d, "idle") /\ grace[b] = "open"
    /\ ~arrived[b] /\ row[b].status = "CONFIRMED"
    /\ Goes(d, [Idle EXCEPT !.pc = "listForRelease", !.b = b])
    /\ UNCHANGED <<row, arrived, grace, gateway, failures>>

(* assertRedeemable. *)
ReadPass(d, b) ==
    /\ At(d, "idle") /\ grace[b] = "open"
    /\ ~arrived[b] /\ row[b].status = "CONFIRMED"
    /\ Goes(d, [Idle EXCEPT !.pc = "arrive", !.b = b])
    /\ UNCHANGED <<row, arrived, grace, gateway, failures>>

(* Commits before any money moves. *)
RecordArrival(d) ==
    /\ At(d, "arrive") /\ ~arrived[On(d)]
    /\ arrived' = [arrived EXCEPT ![On(d)] = TRUE]
    /\ row' = [row EXCEPT ![On(d)].status = "CHECKED_IN"]
    /\ GoesTo(d, "listForRelease")
    /\ UNCHANGED <<grace, gateway, failures>>

PassAlreadyUsed(d) ==
    /\ At(d, "arrive") /\ arrived[On(d)]
    /\ Goes(d, Idle)
    /\ UNCHANGED <<row, arrived, grace, gateway, failures>>

(* A tenant cancels a confirmed booking: settlement is left alone. *)
ReadForCancel(d, b) ==
    /\ At(d, "idle") /\ row[b].status = "CONFIRMED"
    /\ Goes(d, [Idle EXCEPT !.pc = "cancel", !.b = b])
    /\ UNCHANGED <<row, arrived, grace, gateway, failures>>

CancelMine(d) ==
    /\ At(d, "cancel")
    /\ row' = [row EXCEPT ![On(d)].status = "CANCELLED"]
    /\ Goes(d, Idle)
    /\ UNCHANGED <<arrived, grace, gateway, failures>>

(***************************************************************************)
(* The no-show job                                                         *)
(***************************************************************************)

(* Variant: those that failed before are not taken up again. *)
UnsettledHeld ==
    {b \in Bookings : /\ grace[b] = "past" /\ row[b].settlement = "HELD"
                      /\ row[b].status \in {"CONFIRMED", "CHECKED_IN"}}

Unsettled ==
    {b \in Bookings : /\ grace[b] = "past"
                      /\ row[b].settlement \in {"HELD", "FAILED"}
                      /\ row[b].status \in {"CONFIRMED", "CHECKED_IN"}}

StartSweep(j) ==
    /\ At(j, "idle") /\ Unsettled # {}
    /\ Goes(j, [Idle EXCEPT !.pc = "next", !.todo = Unsettled])
    /\ UNCHANGED <<row, arrived, grace, gateway, failures>>

(* hasCheckedIn decides what is owed. *)
SettleNext(j, b) ==
    /\ At(j, "next") /\ b \in worker[j].todo
    /\ LET taken == [Idle EXCEPT !.b = b, !.todo = worker[j].todo \ {b}]
       IN  IF arrived[b]
           THEN Goes(j, [taken EXCEPT !.pc = "listForRelease"])
           ELSE Goes(j, [taken EXCEPT !.pc = "findRefund", !.split = TRUE])
    /\ UNCHANGED <<row, arrived, grace, gateway, failures>>

(***************************************************************************)
(* Razorpay, call by call                                                  *)
(***************************************************************************)

(* The answer of a call that took effect arrives, or it is lost and the    *)
(* caller sees an error.                                                   *)
Answered(w, r) ==
    \/ Goes(w, r) /\ UNCHANGED failures
    \/ /\ failures < MaxFailures /\ failures' = failures + 1
       /\ GoesTo(w, "recordFailed")

(* Variant: does not look for its own earlier refund. *)
FindNoRefund(w) ==
    /\ At(w, "findRefund")
    /\ GoesTo(w, "listHeld")
    /\ UNCHANGED <<row, arrived, grace, gateway, failures>>

(* A refund under our key is ours: the split counts as done. *)
FindRefund(w) ==
    /\ At(w, "findRefund")
    /\ IF refunds[On(w)] > 0
       THEN Goes(w, [worker[w] EXCEPT !.pc = "record", !.refunded = Deposit])
       ELSE GoesTo(w, "listHeld")
    /\ UNCHANGED <<row, arrived, grace, gateway, failures>>

(* Nothing on hold means nothing to reverse, which throws. *)
ListHeld(w) ==
    /\ At(w, "listHeld")
    /\ IF transfer[On(w)].onHold
       THEN Goes(w, [worker[w] EXCEPT !.pc = "reverse", !.seen = transfer[On(w)].reversed])
       ELSE GoesTo(w, "recordFailed")
    /\ UNCHANGED <<row, arrived, grace, gateway, failures>>

(* What is there is reversed even if it is not enough.  The gateway does   *)
(* not reverse more than the transfer.                                     *)
Reverse(w) ==
    LET t == transfer[On(w)]
        amount == Least(OwnerShare - worker[w].seen, Deposit)
    IN  /\ At(w, "reverse")
        /\ IF amount > 0 /\ t.reversed + amount <= OwnerShare
           THEN /\ transfer' = [transfer EXCEPT ![On(w)].reversed = @ + amount]
                /\ Answered(w, [worker[w] EXCEPT !.pc =
                        IF amount = Deposit THEN "refund" ELSE "recordFailed"])
           ELSE GoesTo(w, "recordFailed") /\ UNCHANGED <<transfer, failures>>
        /\ UNCHANGED <<row, arrived, grace, refunds>>

(* The gateway does not refund more than was paid. *)
Refund(w) ==
    /\ At(w, "refund")
    /\ IF (refunds[On(w)] + 1) * Deposit <= Charged
       THEN /\ refunds' = [refunds EXCEPT ![On(w)] = @ + 1]
            /\ Answered(w, [worker[w] EXCEPT !.pc = "listForRelease", !.refunded = Deposit])
       ELSE GoesTo(w, "recordFailed") /\ UNCHANGED <<refunds, failures>>
    /\ UNCHANGED <<row, arrived, grace, transfer>>

(* Nothing on hold: alreadySettled, and nothing released by this call. *)
ListForRelease(w) ==
    /\ At(w, "listForRelease")
    /\ IF transfer[On(w)].onHold
       THEN Goes(w, [worker[w] EXCEPT !.pc = "release", !.seen = transfer[On(w)].reversed])
       ELSE GoesTo(w, "record")
    /\ UNCHANGED <<row, arrived, grace, gateway, failures>>

Release(w) ==
    /\ At(w, "release")
    /\ transfer' = [transfer EXCEPT ![On(w)].onHold = FALSE]
    /\ Answered(w, [worker[w] EXCEPT !.pc = "record",
                                     !.released = OwnerShare - worker[w].seen])
    /\ UNCHANGED <<row, arrived, grace, refunds>>

(***************************************************************************)
(* recordSettlement                                                        *)
(***************************************************************************)

(* A request ends; a sweep takes its next booking. *)
Finished(w) ==
    Goes(w, IF worker[w].todo = {} THEN Idle
            ELSE [Idle EXCEPT !.pc = "next", !.todo = worker[w].todo])

RecordSettled(w) ==
    /\ At(w, "record")
    /\ row' = [row EXCEPT ![On(w)] =
                 [@ EXCEPT !.settlement = IF worker[w].split THEN "SPLIT" ELSE "RELEASED",
                           !.released = worker[w].released,
                           !.refunded = IF worker[w].split THEN worker[w].refunded
                                        ELSE row[On(w)].refunded]]
    /\ Finished(w)
    /\ UNCHANGED <<arrived, grace, gateway, failures>>

(* Written down for the job to try again. *)
RecordFailed(w) ==
    /\ At(w, "recordFailed")
    /\ row' = [row EXCEPT ![On(w)].settlement = "FAILED"]
    /\ Finished(w)
    /\ UNCHANGED <<arrived, grace, gateway, failures>>

(***************************************************************************)
(* Time and failure                                                        *)
(***************************************************************************)

(* The day of the last valid minute of the pass ends, and the next sweep   *)
(* is half an hour away (cron runs on Indian hours, days are UTC): longer  *)
(* than a request, whose calls time out, is under way.                     *)
GraceEnds(b) ==
    /\ grace[b] = "open" /\ \A d \in Desks : On(d) # b
    /\ grace' = [grace EXCEPT ![b] = "past"]
    /\ UNCHANGED <<row, arrived, gateway, worker, failures>>

(* Variant: the error is swallowed. *)
CallIsSwallowed(w) ==
    /\ worker[w].pc \in Calls \union {"record"} /\ failures < MaxFailures
    /\ failures' = failures + 1
    /\ GoesTo(w, "record")
    /\ UNCHANGED <<row, arrived, grace, gateway>>

(* A call that the gateway, or an update that the database, refuses before *)
(* it has any effect.                                                      *)
CallFails(w) ==
    /\ worker[w].pc \in Calls \union {"record"} /\ failures < MaxFailures
    /\ failures' = failures + 1
    /\ GoesTo(w, "recordFailed")
    /\ UNCHANGED <<row, arrived, grace, gateway>>

(* The process dies, or a read or recordSettlement(FAILED) throws, which   *)
(* ends the request or the whole sweep.                                    *)
Dies(w) ==
    /\ ~At(w, "idle") /\ failures < MaxFailures
    /\ failures' = failures + 1
    /\ Goes(w, Idle)
    /\ UNCHANGED <<row, arrived, grace, gateway>>

(***************************************************************************)
(* The system                                                              *)
(***************************************************************************)

Init ==
    /\ row = [b \in Bookings |-> [status |-> "CONFIRMED", settlement |-> "HELD",
                                  released |-> 0, refunded |-> 0]]
    /\ arrived = [b \in Bookings |-> FALSE]
    /\ grace = [b \in Bookings |-> "open"]
    /\ transfer = [b \in Bookings |-> [onHold |-> TRUE, reversed |-> 0]]
    /\ refunds = [b \in Bookings |-> 0]
    /\ worker = [w \in Workers |-> Idle]
    /\ failures = 0

Arrive(d) == \E b \in Bookings : ReadPass(d, b) \/ ReadForCancel(d, b)

Continue(w) ==
    \/ RecordArrival(w) \/ PassAlreadyUsed(w) \/ CancelMine(w)
    \/ \E b \in Bookings : SettleNext(w, b)
    \/ FindRefund(w) \/ ListHeld(w) \/ Reverse(w) \/ Refund(w)
    \/ ListForRelease(w) \/ Release(w)
    \/ RecordSettled(w) \/ RecordFailed(w)

Next ==
    \/ \E d \in Desks : Arrive(d)
    \/ \E j \in Jobs : StartSweep(j)
    \/ \E w \in Workers : Continue(w) \/ CallFails(w) \/ Dies(w)
    \/ \E b \in Bookings : GraceEnds(b)

Spec == Init /\ [][Next]_vars

(* Days pass, cron starts the job every hour, and what was started goes on *)
(* unless it dies.                                                         *)
Fairness ==
    /\ \A b \in Bookings : WF_vars(GraceEnds(b))
    /\ \A j \in Jobs : WF_vars(StartSweep(j))
    /\ \A w \in Workers : WF_vars(Continue(w))

FairSpec == Spec /\ Fairness

(***************************************************************************)
(* Properties                                                              *)
(***************************************************************************)

(* The rows and the gateway's objects have their shape, and the gateway    *)
(* has neither reversed more than the share nor refunded more than was     *)
(* charged; a request or sweep between two bookings remembers neither.     *)
TypeOK ==
    /\ row \in [Bookings -> Row]
    /\ arrived \in [Bookings -> BOOLEAN]
    /\ grace \in [Bookings -> {"open", "past"}]
    /\ transfer \in [Bookings -> Transfer]
    /\ refunds \in [Bookings -> Nat]
    /\ worker \in [Workers -> Worker]
    /\ \A w \in Workers : On(w) = None <=> worker[w].pc \in {"idle", "next"}
    /\ failures \in 0..MaxFailures
    /\ \A b \in Bookings : /\ transfer[b].reversed <= OwnerShare
                           /\ refunds[b] * Deposit <= Charged

(* "A refund that double-returns is the worst class of bug this system can *)
(* have" (PaymentGateway): whatever fails and is retried, with one         *)
(* instance of the job the deposit goes back at most once, only after it   *)
(* was taken back from the owner's share, and never to a tenant who came.  *)
RefundedOnce ==
    \A b \in Bookings :
        refunds[b] > 0 => /\ refunds[b] = 1 /\ ~arrived[b]
                          /\ Deposit <= transfer[b].reversed

(* "The money has not moved yet" (PaymentGateway): the owner's share comes *)
(* off hold only for a tenant who came, or for one who did not, after the  *)
(* grace period and after the deposit went back.                           *)
HeldUntilDue ==
    \A b \in Bookings :
        ~transfer[b].onHold => arrived[b] \/ (grace[b] = "past" /\ refunds[b] > 0)

(* "Where the money ended up, once the gateway has answered"               *)
(* (recordSettlement): a row never claims a settlement the gateway did not *)
(* make, and an amount on it that is not zero is the one that moved.       *)
RowIsTrue ==
    \A b \in Bookings :
        /\ row[b].settlement = "RELEASED" => ~transfer[b].onHold /\ arrived[b]
        /\ row[b].settlement = "SPLIT" => refunds[b] > 0 /\ ~arrived[b]
        /\ row[b].released > 0 => /\ ~transfer[b].onHold
                                  /\ row[b].released = OwnerShare - transfer[b].reversed
        /\ row[b].refunded > 0 => row[b].refunded = refunds[b] * Deposit

(* "The sweep retries the payment" (redeem): the owner of a tenant who     *)
(* came is paid in the end, whatever fails on the way, unless the booking  *)
(* is cancelled over the arrival.                                          *)
ArrivalIsPaid ==
    \A b \in Bookings :
        arrived[b] ~> \/ row[b].settlement = "RELEASED" /\ ~transfer[b].onHold
                      \/ row[b].status = "CANCELLED"

(* "Without this, money strands" (NoShowJob): once a no-show is settled,   *)
(* nothing of the owner's share is left on hold.                           *)
SplitLeavesNothingHeld ==
    \A b \in Bookings : row[b].settlement = "SPLIT" => ~transfer[b].onHold

(* "Both settle operations must be safe to call twice" (PaymentGateway):   *)
(* however often a split is tried, the owner gives up the deposit and no   *)
(* more.                                                                   *)
ReversedOnce == \A b \in Bookings : transfer[b].reversed <= Deposit

=============================================================================
