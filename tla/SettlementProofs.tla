-------------------------- MODULE SettlementProofs --------------------------
(***************************************************************************)
(* Theorems about Settlement, for any number of bookings, desks, instances *)
(* of the job and failures, and for any price.  Core, TypeOK strengthened  *)
(* with what a request or a sweep relies on between two calls, is          *)
(* inductive; Sole adds what is only true while one instance runs the job. *)
(***************************************************************************)
EXTENDS Settlement, TLAPS

DeskSteps == {"idle", "cancel", "arrive", "listForRelease", "release", "record", "recordFailed"}
JobSteps == Steps \ {"cancel", "arrive"}

(* A desk is at the money of a booking only while its pass is valid, the   *)
(* job only afterwards: so they never meet.                                *)
DeskMay(r) ==
    /\ r.pc \in DeskSteps /\ r.todo = {} /\ ~r.split
    /\ r.pc \notin {"idle", "cancel"} => grace[r.b] = "open"

JobMay(r) ==
    /\ r.pc \in JobSteps
    /\ r.b # None => grace[r.b] = "past"
    /\ \A b \in r.todo : grace[b] = "past"

(* What a worker has read about a booking, or done, and nobody undoes.     *)
Knows(r) ==
    /\ r.seen <= OwnerShare
    /\ r.pc \in {"findRefund", "listHeld", "reverse", "refund"} => r.split
    /\ r.split => r.b # None /\ ~arrived[r.b]
    /\ r.pc \in {"listForRelease", "release", "record"} =>
          IF r.split THEN refunds[r.b] > 0 ELSE arrived[r.b]
    /\ r.pc = "refund" => Deposit <= transfer[r.b].reversed
    /\ r.pc = "record" /\ ~r.split => ~transfer[r.b].onHold

WorkerOK(w, r) ==
    /\ w \in Desks => DeskMay(r)
    /\ w \in Jobs => JobMay(r)
    /\ Knows(r)

(* What the row and the gateway know of each other.                        *)
MoneyOK(b) ==
    /\ refunds[b] > 0 => /\ grace[b] = "past" /\ ~arrived[b]
                         /\ Deposit <= transfer[b].reversed
    /\ ~transfer[b].onHold => arrived[b] \/ refunds[b] > 0
    /\ row[b].settlement = "RELEASED" => ~transfer[b].onHold /\ arrived[b]
    /\ row[b].settlement = "SPLIT" => refunds[b] > 0

Core ==
    /\ TypeOK
    /\ \A w \in Workers : WorkerOK(w, worker[w])
    /\ \A b \in Bookings : MoneyOK(b)

(* TypeOK is about the tables, and about each worker. *)
TablesOK ==
    /\ row \in [Bookings -> Row]
    /\ arrived \in [Bookings -> BOOLEAN]
    /\ grace \in [Bookings -> {"open", "past"}]
    /\ transfer \in [Bookings -> Transfer]
    /\ refunds \in [Bookings -> Nat]
    /\ failures \in 0..MaxFailures
    /\ \A b \in Bookings : /\ transfer[b].reversed <= OwnerShare
                           /\ refunds[b] * Deposit <= Charged

Shape(r) == r \in Worker /\ (r.b = None <=> r.pc \in {"idle", "next"})

(* The type invariant speaks of the tables and, apart from them, of each   *)
(* worker.                                                                 *)
LEMMA TypeParts == TypeOK <=> /\ TablesOK /\ worker \in [Workers -> Worker]
                              /\ \A w \in Workers : Shape(worker[w])
BY DEF TypeOK, TablesOK, Shape, On

(* The price of a booking is made of amounts in paise. *)
LEMMA PriceIsInPaise ==
    /\ OwnerShare \in Nat /\ Charged \in Nat /\ Deposit \in Nat /\ Deposit > 0
    /\ Deposit <= OwnerShare
BY PriceOK DEF PriceAssumption, OwnerShare, Charged

(* A worker is a desk or a job, and not both.                              *)
LEMMA WhoWorks == Workers = Desks \union Jobs /\ Desks \intersect Jobs = {} /\ None \notin Bookings
BY WorkersOK DEF WorkersAssumption, Workers

(* The initial state has the invariant. *)
LEMMA InitCore == Init => Core
<1> SUFFICES ASSUME Init PROVE Core
  OBVIOUS
<1>1. TypeOK
  BY PriceIsInPaise, WorkersOK DEF Init, TypeOK, WorkersAssumption, Row, Transfer, Worker, Idle,
     Steps, Calls, On
<1>2. \A w \in Workers : WorkerOK(w, Idle)
  BY PriceIsInPaise, WhoWorks DEF WorkerOK, DeskMay, JobMay, Knows, DeskSteps, JobSteps, Steps, Idle
<1>3. \A b \in Bookings : MoneyOK(b)
  BY DEF Init, MoneyOK
<1> QED BY <1>1, <1>2, <1>3 DEF Core, Init

(* What no step of a worker takes back: so what another worker knows stays *)
(* true.                                                                   *)
Kept ==
    /\ grace' = grace
    /\ \A b \in Bookings :
          /\ arrived[b] => arrived'[b]
          /\ arrived'[b] # arrived[b] => grace[b] = "open"
          /\ refunds[b] <= refunds'[b]
          /\ transfer[b].reversed <= transfer'[b].reversed
          /\ ~transfer[b].onHold => ~transfer'[b].onHold

(* What a worker knows of its booking stays true while others only add to  *)
(* what is settled.                                                        *)
LEMMA StaysTrue ==
    ASSUME TablesOK, TablesOK', Kept, NEW v \in Workers, NEW r, Shape(r), WorkerOK(v, r)
    PROVE  WorkerOK(v, r)'
<1>1. CASE r.b = None
  <2>1. \A b \in r.todo : b \in Bookings
    BY DEF Shape, Worker
  <2> QED BY <1>1, <2>1 DEF Shape, WorkerOK, DeskMay, JobMay, Knows, Kept
<1>2. CASE r.b # None
  <2> DEFINE b == r.b
  <2>1. b \in Bookings /\ \A c \in r.todo : c \in Bookings
    BY <1>2 DEF Shape, Worker
  <2>2. /\ grace' = grace
        /\ arrived[b] => arrived'[b]
        /\ arrived'[b] # arrived[b] => grace[b] = "open"
        /\ refunds[b] > 0 => refunds'[b] > 0
        /\ Deposit <= transfer[b].reversed => Deposit <= transfer'[b].reversed
        /\ ~transfer[b].onHold => ~transfer'[b].onHold
    BY <2>1, PriceIsInPaise DEF Kept, TablesOK, Transfer
  <2>3. r.split => grace[b] = "past"
    BY <1>2, WhoWorks DEF WorkerOK, DeskMay, JobMay
  <2> QED BY <1>2, <2>1, <2>2, <2>3 DEF WorkerOK, DeskMay, JobMay, Knows
<1> QED BY <1>1, <1>2

(* A step of a worker: it has only to be shown what the worker knows       *)
(* afterwards, and what becomes of the money.                              *)
LEMMA WorkerStep ==
    ASSUME Core, NEW w \in Workers, NEW r, Shape(r), Goes(w, r),
           TablesOK', Kept, WorkerOK(w, r)', \A b \in Bookings : MoneyOK(b)'
    PROVE  Core'
<1>1. worker' = [worker EXCEPT ![w] = r] /\ worker \in [Workers -> Worker] /\ r \in Worker
  BY TypeParts DEF Core, Goes, Shape
<1>2. /\ worker' \in [Workers -> Worker] /\ worker'[w] = r
      /\ \A v \in Workers \ {w} : worker'[v] = worker[v]
  BY <1>1
<1>3. \A v \in Workers : Shape(worker[v])'
  BY <1>2, TypeParts DEF Core, Shape
<1>4. TypeOK'
  BY <1>2, <1>3 DEF TypeOK, TablesOK, Shape, On
<1>5. ASSUME NEW v \in Workers PROVE WorkerOK(v, worker[v])'
  <2>1. CASE v = w
    BY <1>2, <2>1 DEF WorkerOK, DeskMay, JobMay, Knows
  <2>2. CASE v # w
    <3>1. WorkerOK(v, worker[v]) /\ Shape(worker[v]) /\ TablesOK
      BY TypeParts DEF Core
    <3>2. worker'[v] = worker[v]
      BY <1>2, <2>2
    <3> QED BY <3>1, <3>2, StaysTrue DEF WorkerOK, DeskMay, JobMay, Knows
  <2> QED BY <2>1, <2>2
<1> QED BY <1>4, <1>5 DEF Core

(* A step that only reads, fails or gives up.                              *)
LEMMA ReadStep ==
    ASSUME Core, NEW w \in Workers, NEW r, Shape(r), Goes(w, r),
           UNCHANGED <<row, arrived, grace, gateway>>, failures' \in 0..MaxFailures,
           WorkerOK(w, r)
    PROVE  Core'
<1>1. TablesOK /\ TablesOK'
  BY TypeParts DEF Core, TablesOK, gateway
<1>2. Kept
  BY <1>1 DEF Kept, gateway, TablesOK, Transfer
<1>3. WorkerOK(w, r)'
  BY DEF WorkerOK, DeskMay, JobMay, Knows, gateway
<1>4. \A b \in Bookings : MoneyOK(b)'
  BY DEF Core, MoneyOK, gateway
<1> QED BY <1>1, <1>2, <1>3, <1>4, WorkerStep

(***************************************************************************)
(* The steps                                                               *)
(***************************************************************************)

(* A worker with nothing to do knows nothing that could become false.      *)
LEMMA IdleOK == Shape(Idle) /\ \A w \in Workers : WorkerOK(w, Idle)
BY PriceIsInPaise, WhoWorks DEF Shape, Worker, WorkerOK, DeskMay, JobMay, Knows, DeskSteps,
   JobSteps, Steps, Calls, Idle

(* Reading the pass, and reading the booking for a cancellation.           *)
LEMMA DeskReads ==
    ASSUME Core, NEW d \in Desks, NEW b \in Bookings, ReadPass(d, b) \/ ReadForCancel(d, b)
    PROVE  Core'
<1>1. d \in Workers /\ d \notin Jobs /\ b # None
  BY WhoWorks
<1>2. CASE ReadPass(d, b)
  <2> DEFINE r == [Idle EXCEPT !.pc = "arrive", !.b = b]
  <2>1. Shape(r)
    BY <1>1 DEF Shape, Worker, Steps, Calls, Idle
  <2>2. WorkerOK(d, r)
    BY <1>1, <1>2, PriceIsInPaise DEF ReadPass, WorkerOK, DeskMay, Knows, DeskSteps, Idle
  <2> QED BY <1>1, <1>2, <2>1, <2>2, ReadStep DEF ReadPass, Core, TypeOK
<1>3. CASE ReadForCancel(d, b)
  <2> DEFINE r == [Idle EXCEPT !.pc = "cancel", !.b = b]
  <2>1. Shape(r)
    BY <1>1 DEF Shape, Worker, Steps, Calls, Idle
  <2>2. WorkerOK(d, r)
    BY <1>1, PriceIsInPaise DEF WorkerOK, DeskMay, Knows, DeskSteps, Idle
  <2> QED BY <1>1, <1>3, <2>1, <2>2, ReadStep DEF ReadForCancel, Core, TypeOK
<1> QED BY <1>2, <1>3

(* The sweep, and what it decides for one booking.                         *)
LEMMA JobReads ==
    ASSUME Core, NEW j \in Workers, NEW b \in Bookings,
           (j \in Jobs /\ StartSweep(j)) \/ SettleNext(j, b)
    PROVE  Core'
<1>1. CASE j \in Jobs /\ StartSweep(j)
  <2> DEFINE r == [Idle EXCEPT !.pc = "next", !.todo = Unsettled]
  <2>1. Shape(r)
    BY DEF Unsettled, Shape, Worker, Steps, Calls, Idle
  <2>2. WorkerOK(j, r)
    BY <1>1, PriceIsInPaise, WhoWorks DEF Unsettled, WorkerOK, JobMay, Knows, JobSteps, Steps, Idle
  <2> QED BY <1>1, <2>1, <2>2, ReadStep DEF StartSweep, Core, TypeOK
<1>2. CASE SettleNext(j, b)
  <2> DEFINE taken == [Idle EXCEPT !.b = b, !.todo = worker[j].todo \ {b}]
  <2>1. j \in Jobs /\ j \notin Desks /\ grace[b] = "past" /\ worker[j].todo \subseteq Bookings
          /\ \A c \in worker[j].todo : grace[c] = "past"
    BY <1>2, WhoWorks, TypeParts DEF SettleNext, At, Core, WorkerOK, DeskMay, DeskSteps, JobMay,
       Shape, Worker
  <2>2. CASE arrived[b]
    <3> DEFINE r == [taken EXCEPT !.pc = "listForRelease"]
    <3>1. Shape(r)
      BY <2>1, WhoWorks DEF Shape, Worker, Steps, Calls, Idle
    <3>2. WorkerOK(j, r)
      BY <2>1, <2>2, PriceIsInPaise DEF WorkerOK, JobMay, Knows, JobSteps, Steps, Calls, Idle
    <3> QED BY <1>2, <2>2, <3>1, <3>2, ReadStep DEF SettleNext, Core, TypeOK
  <2>3. CASE ~arrived[b]
    <3> DEFINE r == [taken EXCEPT !.pc = "findRefund", !.split = TRUE]
    <3>1. Shape(r)
      BY <2>1, WhoWorks DEF Shape, Worker, Steps, Calls, Idle
    <3>2. WorkerOK(j, r)
      BY <2>1, <2>3, PriceIsInPaise, WhoWorks DEF WorkerOK, JobMay, Knows, JobSteps, Steps, Calls,
         Idle
    <3> QED BY <1>2, <2>3, <3>1, <3>2, ReadStep DEF SettleNext, Core, TypeOK
  <2> QED BY <2>2, <2>3
<1> QED BY <1>1, <1>2

(* A call is about a booking, and one of a split is made by the job.       *)
Working == Calls \union {"record", "recordFailed"}

(* A worker between two calls has a booking: the desk has one in its grace *)
(* period and never splits it, the job one that is past it.                *)
LEMMA WorkingOn ==
    ASSUME Core, NEW w \in Workers, worker[w].pc \in Working
    PROVE  /\ On(w) \in Bookings /\ On(w) # None
           /\ Shape(worker[w]) /\ WorkerOK(w, worker[w])
           /\ w \in Desks => ~worker[w].split /\ grace[On(w)] = "open"
           /\ w \in Jobs => w \notin Desks /\ grace[On(w)] = "past"
<1>1. Shape(worker[w]) /\ WorkerOK(w, worker[w])
  BY TypeParts DEF Core
<1>2. On(w) \in Bookings /\ On(w) # None
  BY <1>1, WhoWorks DEF Shape, Worker, Working, Calls, On
<1> QED BY <1>1, <1>2, WhoWorks DEF WorkerOK, DeskMay, JobMay, Working, Calls, On

(* What is written down as failed claims nothing.                          *)
LEMMA FailedOK ==
    ASSUME Core, NEW w \in Workers, worker[w].pc \in Calls \union {"record"}
    PROVE  LET r == [worker[w] EXCEPT !.pc = "recordFailed"] IN Shape(r) /\ WorkerOK(w, r)
<1> DEFINE r == [worker[w] EXCEPT !.pc = "recordFailed"]
<1>1. /\ On(w) \in Bookings /\ On(w) # None /\ Shape(worker[w]) /\ WorkerOK(w, worker[w])
  BY WorkingOn DEF Working
<1>2. worker[w].b = On(w)
  BY DEF On
<1>3. Shape(r)
  BY <1>1, <1>2 DEF Shape, Worker, Steps, Calls
<1>4. /\ r.b = worker[w].b /\ r.todo = worker[w].todo /\ r.split = worker[w].split
      /\ r.seen = worker[w].seen /\ r.pc = "recordFailed"
  BY <1>1 DEF Shape, Worker
<1>5. WorkerOK(w, r)
  BY <1>1, <1>2, <1>4 DEF WorkerOK, DeskMay, JobMay, Knows, DeskSteps, JobSteps, Steps, Calls
<1> QED BY <1>3, <1>5

(* Nothing is done, whether the pass was used, a call was refused, or the  *)
(* process died.                                                           *)
LEMMA NothingDone ==
    ASSUME Core, NEW w \in Workers, PassAlreadyUsed(w) \/ CallFails(w) \/ Dies(w)
    PROVE  Core'
<1>1. failures' \in 0..MaxFailures
  BY WorkersOK DEF Core, TypeOK, PassAlreadyUsed, CallFails, Dies, WorkersAssumption
<1>2. CASE PassAlreadyUsed(w) \/ Dies(w)
  BY <1>1, <1>2, IdleOK, ReadStep DEF PassAlreadyUsed, Dies
<1>3. CASE CallFails(w)
  BY <1>1, <1>3, FailedOK, ReadStep DEF CallFails, GoesTo
<1> QED BY <1>2, <1>3

(* The calls that only look.                                               *)
LEMMA CallsLook ==
    ASSUME Core, NEW w \in Workers, FindRefund(w) \/ ListHeld(w) \/ ListForRelease(w)
    PROVE  Core'
<1>1. worker[w].pc \in Calls
  BY DEF FindRefund, ListHeld, ListForRelease, At, Calls
<1>2. /\ On(w) \in Bookings /\ On(w) # None /\ Shape(worker[w]) /\ WorkerOK(w, worker[w])
      /\ On(w) = worker[w].b /\ transfer[On(w)].reversed \in Nat
      /\ transfer[On(w)].reversed <= OwnerShare
  BY <1>1, WorkingOn DEF Working, On, Core, TypeOK, Transfer
<1>3. UNCHANGED <<row, arrived, grace, gateway>> /\ failures' \in 0..MaxFailures
  BY DEF FindRefund, ListHeld, ListForRelease, Core, TypeOK
<1>4. CASE FindRefund(w) /\ refunds[On(w)] > 0
  <2> DEFINE q == [worker[w] EXCEPT !.pc = "record", !.refunded = Deposit]
  <2>1. Shape(q)
    BY <1>2, PriceIsInPaise DEF Shape, Worker, Steps
  <2>2. /\ q.b = worker[w].b /\ q.todo = worker[w].todo /\ q.split = worker[w].split
        /\ q.seen = worker[w].seen /\ q.pc = "record"
    BY <1>2 DEF Shape, Worker
  <2>3. WorkerOK(w, q)
    BY <1>2, <1>4, <2>2 DEF FindRefund, At, WorkerOK, DeskMay, JobMay, Knows, DeskSteps, JobSteps, Steps
  <2> QED BY <1>3, <1>4, <2>1, <2>3, ReadStep DEF FindRefund
<1>5. CASE FindRefund(w) /\ ~(refunds[On(w)] > 0)
  <2> DEFINE q == [worker[w] EXCEPT !.pc = "listHeld"]
  <2>1. Shape(q)
    BY <1>2 DEF Shape, Worker, Steps, Calls
  <2>2. /\ q.b = worker[w].b /\ q.todo = worker[w].todo /\ q.split = worker[w].split
        /\ q.seen = worker[w].seen /\ q.pc = "listHeld"
    BY <1>2 DEF Shape, Worker
  <2>3. WorkerOK(w, q)
    BY <1>2, <1>5, <2>2 DEF FindRefund, At, WorkerOK, DeskMay, JobMay, Knows, DeskSteps, JobSteps, Steps, Calls
  <2> QED BY <1>3, <1>5, <2>1, <2>3, ReadStep DEF FindRefund, GoesTo
<1>6. CASE ListHeld(w) /\ transfer[On(w)].onHold
  <2> DEFINE q == [worker[w] EXCEPT !.pc = "reverse", !.seen = transfer[On(w)].reversed]
  <2>1. Shape(q)
    BY <1>2 DEF Shape, Worker, Steps, Calls
  <2>2. /\ q.b = worker[w].b /\ q.todo = worker[w].todo /\ q.split = worker[w].split
        /\ q.seen = transfer[On(w)].reversed /\ q.pc = "reverse"
    BY <1>2 DEF Shape, Worker
  <2>3. WorkerOK(w, q)
    BY <1>2, <1>6, <2>2 DEF ListHeld, At, WorkerOK, DeskMay, JobMay, Knows, DeskSteps, JobSteps, Steps, Calls
  <2> QED BY <1>3, <1>6, <2>1, <2>3, ReadStep DEF ListHeld
<1>7. CASE ListHeld(w) /\ ~transfer[On(w)].onHold
  BY <1>1, <1>3, <1>7, FailedOK, ReadStep DEF ListHeld, GoesTo
<1>8. CASE ListForRelease(w) /\ transfer[On(w)].onHold
  <2> DEFINE q == [worker[w] EXCEPT !.pc = "release", !.seen = transfer[On(w)].reversed]
  <2>1. Shape(q)
    BY <1>2 DEF Shape, Worker, Steps, Calls
  <2>2. /\ q.b = worker[w].b /\ q.todo = worker[w].todo /\ q.split = worker[w].split
        /\ q.seen = transfer[On(w)].reversed /\ q.pc = "release"
    BY <1>2 DEF Shape, Worker
  <2>3. WorkerOK(w, q)
    BY <1>2, <1>8, <2>2 DEF ListForRelease, At, WorkerOK, DeskMay, JobMay, Knows, DeskSteps, JobSteps, Steps, Calls
  <2> QED BY <1>3, <1>8, <2>1, <2>3, ReadStep DEF ListForRelease
<1>9. CASE ListForRelease(w) /\ ~transfer[On(w)].onHold
  <2> DEFINE q == [worker[w] EXCEPT !.pc = "record"]
  <2>1. Shape(q)
    BY <1>2 DEF Shape, Worker, Steps
  <2>2. /\ q.b = worker[w].b /\ q.todo = worker[w].todo /\ q.split = worker[w].split
        /\ q.seen = worker[w].seen /\ q.pc = "record"
    BY <1>2 DEF Shape, Worker
  <2>3. WorkerOK(w, q)
    BY <1>2, <1>9, <2>2 DEF ListForRelease, At, WorkerOK, DeskMay, JobMay, Knows, DeskSteps, JobSteps, Steps
  <2> QED BY <1>3, <1>9, <2>1, <2>3, ReadStep DEF ListForRelease, GoesTo
<1> QED BY <1>4, <1>5, <1>6, <1>7, <1>8, <1>9

(* The arrival commits while the pass is valid.                            *)
LEMMA Arrives == ASSUME Core, NEW w \in Workers, RecordArrival(w) PROVE Core'
<1> DEFINE b == On(w)
<1> PICK r : r = [worker[w] EXCEPT !.pc = "listForRelease"]
  OBVIOUS
<1>1. /\ Shape(worker[w]) /\ WorkerOK(w, worker[w]) /\ worker[w].pc = "arrive"
      /\ w \in Desks /\ w \notin Jobs /\ worker[w].b = b
  BY TypeParts, WhoWorks DEF RecordArrival, At, On, Core, WorkerOK, JobMay, JobSteps
<1>2. b \in Bookings /\ b # None /\ grace[b] = "open"
  BY <1>1, WhoWorks DEF Shape, Worker, WorkerOK, DeskMay
<1>3. /\ arrived \in [Bookings -> BOOLEAN] /\ arrived' = [arrived EXCEPT ![b] = TRUE]
      /\ row \in [Bookings -> Row] /\ row' = [row EXCEPT ![b].status = "CHECKED_IN"]
      /\ UNCHANGED <<grace, transfer, refunds, failures>>
  BY DEF RecordArrival, Core, TypeOK, gateway
<1>4. TablesOK /\ TablesOK'
  BY <1>2, <1>3, TypeParts DEF Core, TablesOK, Row
<1>5. Kept
  <2>1. \A c \in Bookings : /\ arrived[c] => arrived'[c]
                            /\ arrived'[c] # arrived[c] => grace[c] = "open"
    BY <1>2, <1>3
  <2>2. \A c \in Bookings : refunds[c] \in Nat /\ transfer[c].reversed \in Nat
    BY <1>4 DEF TablesOK, Transfer
  <2>3. UNCHANGED <<grace, transfer, refunds>>
    BY <1>3
  <2> QED BY <2>1, <2>2, <2>3 DEF Kept
<1>6. Shape(r)
  BY <1>1, <1>2 DEF Shape, Worker, Steps, Calls
<1>7. /\ r.b = b /\ r.todo = worker[w].todo /\ r.split = worker[w].split
      /\ r.seen = worker[w].seen /\ r.pc = "listForRelease"
  BY <1>1 DEF Shape, Worker
<1>8. arrived'[b]
  BY <1>2, <1>3
<1>9. WorkerOK(w, r)'
  BY <1>1, <1>2, <1>3, <1>7, <1>8 DEF WorkerOK, DeskMay, JobMay, Knows, DeskSteps
<1>10. ASSUME NEW c \in Bookings PROVE MoneyOK(c)'
  <2>1. row'[c].settlement = row[c].settlement
    BY <1>3 DEF Row
  <2>2. refunds[b] = 0
    BY <1>2, <1>4 DEF Core, MoneyOK, TablesOK
  <2> QED BY <1>2, <1>3, <2>1, <2>2 DEF Core, MoneyOK
<1> QED BY <1>4, <1>5, <1>6, <1>9, <1>10, WorkerStep DEF RecordArrival, GoesTo

(* A cancellation changes the status of the booking and nothing else.      *)
LEMMA Cancels == ASSUME Core, NEW w \in Workers, CancelMine(w) PROVE Core'
<1> DEFINE b == On(w)
<1>1. Shape(worker[w]) /\ worker[w].pc = "cancel" /\ worker[w].b = b
  BY TypeParts DEF CancelMine, At, On, Core
<1>2. b \in Bookings
  BY <1>1, WhoWorks DEF Shape, Worker
<1>3. /\ row \in [Bookings -> Row] /\ row' = [row EXCEPT ![b].status = "CANCELLED"]
      /\ UNCHANGED <<arrived, grace, transfer, refunds, failures>>
  BY DEF CancelMine, Core, TypeOK, gateway
<1>4. TablesOK /\ TablesOK'
  BY <1>2, <1>3, TypeParts DEF Core, TablesOK, Row
<1>5. Kept
  BY <1>3, <1>4 DEF Kept, TablesOK, Transfer
<1>6. WorkerOK(w, Idle)'
  BY <1>4, <1>5, TypeParts, IdleOK, StaysTrue
<1>7. ASSUME NEW c \in Bookings PROVE MoneyOK(c)'
  <2>1. row'[c].settlement = row[c].settlement
    BY <1>3 DEF Row
  <2> QED BY <1>3, <2>1 DEF Core, MoneyOK
<1> QED BY <1>4, <1>5, <1>6, <1>7, IdleOK, WorkerStep DEF CancelMine

(* What a worker that has written down its result goes on to.              *)
AfterBooking(w) ==
    IF worker[w].todo = {} THEN Idle ELSE [Idle EXCEPT !.pc = "next", !.todo = worker[w].todo]

(* When it is through with a booking the job takes the next one it found,  *)
(* or rests.                                                               *)
LEMMA AfterBookingOK ==
    ASSUME Core, NEW w \in Workers, worker[w].pc \in Working
    PROVE  Shape(AfterBooking(w)) /\ WorkerOK(w, AfterBooking(w))
<1> DEFINE r == [Idle EXCEPT !.pc = "next", !.todo = worker[w].todo]
<1>1. Shape(worker[w]) /\ WorkerOK(w, worker[w])
  BY WorkingOn
<1>2. CASE worker[w].todo = {}
  BY <1>2, IdleOK DEF AfterBooking
<1>3. CASE worker[w].todo # {}
  <2>1. w \in Jobs /\ w \notin Desks /\ \A b \in worker[w].todo : grace[b] = "past"
    BY <1>1, <1>3, WhoWorks DEF WorkerOK, DeskMay, JobMay
  <2>2. Shape(r)
    BY <1>1 DEF Shape, Worker, Steps, Idle
  <2>3. WorkerOK(w, r)
    BY <2>1, PriceIsInPaise DEF WorkerOK, JobMay, Knows, JobSteps, Steps, Idle
  <2> QED BY <1>3, <2>2, <2>3 DEF AfterBooking
<1> QED BY <1>2, <1>3

(* What is recorded as settled is what the worker knows.                   *)
LEMMA Records == ASSUME Core, NEW w \in Workers, RecordSettled(w) \/ RecordFailed(w) PROVE Core'
<1> DEFINE b == On(w)
           r == worker[w]
<1> PICK q : q = AfterBooking(w)
  OBVIOUS
<1>1. r.pc \in Working /\ Goes(w, q)
  BY DEF RecordSettled, RecordFailed, At, Working, Finished, AfterBooking
<1>2. b \in Bookings /\ b # None /\ Shape(r) /\ WorkerOK(w, r) /\ r.b = b
  BY <1>1, WorkingOn DEF On
<1>3. TablesOK /\ UNCHANGED <<arrived, grace, transfer, refunds, failures>>
  BY TypeParts DEF RecordSettled, RecordFailed, Core, gateway
<1>4. row[b] \in Row /\ row \in [Bookings -> Row]
  BY <1>2, <1>3 DEF TablesOK
<1>5. PICK new \in Row :
        /\ row' = [row EXCEPT ![b] = new]
        /\ new.settlement = "RELEASED" => ~transfer[b].onHold /\ arrived[b]
        /\ new.settlement = "SPLIT" => refunds[b] > 0
  <2>1. CASE RecordSettled(w)
    <3> DEFINE settled == [row[b] EXCEPT !.settlement = IF r.split THEN "SPLIT" ELSE "RELEASED",
                                         !.released = r.released,
                                         !.refunded = IF r.split THEN r.refunded ELSE row[b].refunded]
    <3>1. r.released \in Nat /\ r.refunded \in Nat /\ r.split \in BOOLEAN /\ r.pc = "record"
      BY <1>2, <2>1 DEF RecordSettled, At, Shape, Worker
    <3>2. settled \in Row /\ settled.settlement = IF r.split THEN "SPLIT" ELSE "RELEASED"
      BY <1>4, <3>1 DEF Row
    <3>3. IF r.split THEN refunds[b] > 0 ELSE ~transfer[b].onHold /\ arrived[b]
      BY <1>2, <3>1 DEF WorkerOK, Knows
    <3>4. row' = [row EXCEPT ![b] = settled]
      BY <2>1, <1>4 DEF RecordSettled
    <3> HIDE DEF settled
    <3> QED BY <3>2, <3>3, <3>4
  <2>2. CASE RecordFailed(w)
    <3> DEFINE failed == [row[b] EXCEPT !.settlement = "FAILED"]
    <3>1. failed \in Row /\ failed.settlement = "FAILED"
      BY <1>4 DEF Row
    <3>2. row' = [row EXCEPT ![b] = failed]
      BY <2>2 DEF RecordFailed
    <3> QED BY <3>1, <3>2
  <2> QED BY <2>1, <2>2
<1>6. TablesOK'
  BY <1>3, <1>4, <1>5 DEF TablesOK
<1>7. Kept
  BY <1>3 DEF Kept, TablesOK, Transfer
<1>8. Shape(q) /\ WorkerOK(w, q)
  BY <1>1, AfterBookingOK
<1>9. WorkerOK(w, q)'
  BY <1>3, <1>6, <1>7, <1>8, StaysTrue
<1>10. ASSUME NEW c \in Bookings PROVE MoneyOK(c)'
  <2>1. MoneyOK(c)
    BY DEF Core
  <2>2. CASE c = b
    <3>1. row'[b] = new
      BY <1>2, <1>4, <1>5
    <3> QED BY <1>3, <1>5, <2>1, <2>2, <3>1 DEF MoneyOK
  <2>3. CASE c # b
    <3>1. row'[c] = row[c]
      BY <1>4, <1>5, <2>3
    <3> QED BY <1>3, <2>1, <3>1 DEF MoneyOK
  <2> QED BY <2>2, <2>3
<1> QED BY <1>1, <1>6, <1>7, <1>8, <1>9, <1>10, WorkerStep

(* Part of the owner's share is taken back, and the answer may be lost.    *)
LEMMA Reverses == ASSUME Core, NEW w \in Workers, Reverse(w) PROVE Core'
<1> DEFINE b == On(w)
           amount == Least(OwnerShare - worker[w].seen, Deposit)
<1>1. worker[w].pc = "reverse" /\ worker[w].pc \in Calls \union {"record"} /\ worker[w].pc \in Working
  BY DEF Reverse, At, Calls, Working
<1>2. /\ b \in Bookings /\ b # None /\ Shape(worker[w]) /\ WorkerOK(w, worker[w])
      /\ worker[w].b = b /\ grace[b] = "past" /\ w \notin Desks
  BY <1>1, WorkingOn, WhoWorks DEF On, WorkerOK, Knows
<1>3. amount \in Nat /\ amount <= Deposit
  BY <1>2, PriceIsInPaise DEF Shape, Worker, WorkerOK, Knows, Least
<1>4. TablesOK
  BY TypeParts DEF Core
<1>5. CASE ~(amount > 0 /\ transfer[b].reversed + amount <= OwnerShare)
  <2>1. GoesTo(w, "recordFailed") /\ UNCHANGED <<row, arrived, grace, gateway, failures>>
    BY <1>5 DEF Reverse, gateway
  <2> QED BY <1>1, <2>1, FailedOK, ReadStep DEF GoesTo, Core, TypeOK
<1>6. CASE amount > 0 /\ transfer[b].reversed + amount <= OwnerShare
  <2>1. /\ transfer' = [transfer EXCEPT ![b].reversed = @ + amount]
        /\ UNCHANGED <<row, arrived, grace, refunds>>
        /\ Answered(w, [worker[w] EXCEPT !.pc = IF amount = Deposit THEN "refund" ELSE "recordFailed"])
    BY <1>6 DEF Reverse
  <2>2. /\ transfer \in [Bookings -> Transfer] /\ transfer' \in [Bookings -> Transfer]
        /\ \A c \in Bookings : transfer'[c].onHold = transfer[c].onHold
        /\ \A c \in Bookings \ {b} : transfer'[c] = transfer[c]
        /\ transfer'[b].reversed = transfer[b].reversed + amount
    BY <1>2, <1>3, <1>4, <1>6, <2>1 DEF TablesOK, Transfer
  <2>3. failures' \in 0..MaxFailures
    BY <1>4, <2>1, WorkersOK DEF Answered, TablesOK, WorkersAssumption
  <2>4. TablesOK'
    BY <1>4, <1>6, <2>1, <2>2, <2>3 DEF TablesOK
  <2>5. \A c \in Bookings : transfer[c].reversed \in Nat /\ transfer[c].reversed <= transfer'[c].reversed
    BY <1>3, <1>6, <2>2 DEF Transfer
  <2>6. Kept
    BY <1>4, <2>1, <2>2, <2>5 DEF Kept, TablesOK
  <2>7. ASSUME NEW c \in Bookings PROVE MoneyOK(c)'
    <3>1. MoneyOK(c) /\ transfer'[c].reversed \in Nat
      BY <2>2 DEF Core, Transfer
    <3> QED BY <2>1, <2>2, <2>5, <3>1, PriceIsInPaise DEF MoneyOK
  <2>8. PICK r : /\ Goes(w, r) /\ Shape(r) /\ WorkerOK(w, r)'
    <3>1. CASE Goes(w, [worker[w] EXCEPT !.pc = "recordFailed"])
      <4> PICK r : r = [worker[w] EXCEPT !.pc = "recordFailed"]
        OBVIOUS
      <4>1. Shape(r) /\ WorkerOK(w, r)
        BY <1>1, FailedOK
      <4>2. WorkerOK(w, r)'
        BY <1>4, <2>4, <2>6, <4>1, StaysTrue
      <4> QED BY <3>1, <4>1, <4>2
    <3>2. CASE amount = Deposit /\ Goes(w, [worker[w] EXCEPT !.pc = "refund"])
      <4> PICK r : r = [worker[w] EXCEPT !.pc = "refund"]
        OBVIOUS
      <4>1. Shape(r)
        BY <1>2 DEF Shape, Worker, Steps, Calls
      <4>2. /\ r.b = b /\ r.todo = worker[w].todo /\ r.split = worker[w].split
            /\ r.seen = worker[w].seen /\ r.pc = "refund"
        BY <1>2 DEF Shape, Worker
      <4>3. Deposit <= transfer'[b].reversed
        BY <1>2, <2>2, <2>5, <3>2, PriceIsInPaise
      <4>4. WorkerOK(w, r)'
        BY <1>1, <1>2, <2>1, <4>2, <4>3 DEF WorkerOK, DeskMay, JobMay, Knows, JobSteps, Steps, Calls
      <4> QED BY <3>2, <4>1, <4>4
    <3> QED BY <2>1, <3>1, <3>2 DEF Answered, GoesTo
  <2> QED BY <2>4, <2>6, <2>7, <2>8, WorkerStep
<1> QED BY <1>5, <1>6


(* The deposit goes back, and the answer may be lost.                      *)
LEMMA Refunds == ASSUME Core, NEW w \in Workers, Refund(w) PROVE Core'
<1> DEFINE b == On(w)
<1>1. worker[w].pc = "refund" /\ worker[w].pc \in Calls \union {"record"} /\ worker[w].pc \in Working
  BY DEF Refund, At, Calls, Working
<1>2. /\ b \in Bookings /\ b # None /\ Shape(worker[w]) /\ WorkerOK(w, worker[w])
      /\ worker[w].b = b /\ grace[b] = "past" /\ w \notin Desks /\ w \in Jobs
      /\ worker[w].split /\ ~arrived[b] /\ Deposit <= transfer[b].reversed
  BY <1>1, WorkingOn, WhoWorks DEF On, WorkerOK, Knows
<1>3. TablesOK
  BY TypeParts DEF Core
<1>4. CASE ~((refunds[b] + 1) * Deposit <= Charged)
  <2>1. GoesTo(w, "recordFailed") /\ UNCHANGED <<row, arrived, grace, gateway, failures>>
    BY <1>4 DEF Refund, gateway
  <2> QED BY <1>1, <2>1, FailedOK, ReadStep DEF GoesTo, Core, TypeOK
<1>5. CASE (refunds[b] + 1) * Deposit <= Charged
  <2>1. /\ refunds' = [refunds EXCEPT ![b] = @ + 1]
        /\ UNCHANGED <<row, arrived, grace, transfer>>
        /\ Answered(w, [worker[w] EXCEPT !.pc = "listForRelease", !.refunded = Deposit])
    BY <1>5 DEF Refund
  <2>2. /\ refunds' \in [Bookings -> Nat] /\ refunds'[b] = refunds[b] + 1 /\ refunds'[b] > 0
        /\ \A c \in Bookings \ {b} : refunds'[c] = refunds[c]
        /\ \A c \in Bookings : refunds[c] \in Nat /\ refunds[c] <= refunds'[c]
    BY <1>2, <1>3, <2>1 DEF TablesOK
  <2>3. failures' \in 0..MaxFailures
    BY <1>3, <2>1, WorkersOK DEF Answered, TablesOK, WorkersAssumption
  <2>4. \A c \in Bookings : refunds'[c] * Deposit <= Charged
    BY <1>3, <1>5, <2>2 DEF TablesOK
  <2>5. TablesOK'
    BY <1>3, <2>1, <2>2, <2>3, <2>4 DEF TablesOK
  <2>6. Kept
    <3>1. \A c \in Bookings : transfer[c].reversed \in Nat
      BY <1>3 DEF TablesOK, Transfer
    <3> QED BY <2>1, <2>2, <3>1 DEF Kept
  <2>7. ASSUME NEW c \in Bookings PROVE MoneyOK(c)'
    BY <1>2, <2>1, <2>2 DEF Core, MoneyOK
  <2>8. PICK r : Goes(w, r) /\ Shape(r) /\ WorkerOK(w, r)'
    <3>1. CASE Goes(w, [worker[w] EXCEPT !.pc = "recordFailed"])
      <4> PICK r : r = [worker[w] EXCEPT !.pc = "recordFailed"]
        OBVIOUS
      <4>1. Shape(r) /\ WorkerOK(w, r)
        BY <1>1, FailedOK
      <4>2. WorkerOK(w, r)'
        BY <1>3, <2>5, <2>6, <4>1, StaysTrue
      <4> QED BY <3>1, <4>1, <4>2
    <3>2. CASE Goes(w, [worker[w] EXCEPT !.pc = "listForRelease", !.refunded = Deposit])
      <4> PICK r : r = [worker[w] EXCEPT !.pc = "listForRelease", !.refunded = Deposit]
        OBVIOUS
      <4>1. Shape(r)
        BY <1>2, PriceIsInPaise DEF Shape, Worker, Steps, Calls
      <4>2. /\ r.b = b /\ r.todo = worker[w].todo /\ r.split = worker[w].split
            /\ r.seen = worker[w].seen /\ r.pc = "listForRelease"
        BY <1>2 DEF Shape, Worker
      <4>3. WorkerOK(w, r)'
        BY <1>1, <1>2, <2>1, <2>2, <4>2 DEF WorkerOK, DeskMay, JobMay, Knows, JobSteps, Steps, Calls
      <4> QED BY <3>2, <4>1, <4>3
    <3> QED BY <2>1, <3>1, <3>2 DEF Answered, GoesTo
  <2> QED BY <2>5, <2>6, <2>7, <2>8, WorkerStep
<1> QED BY <1>4, <1>5

(* The owner's share comes off hold, and the answer may be lost.           *)
LEMMA Releases == ASSUME Core, NEW w \in Workers, Release(w) PROVE Core'
<1> DEFINE b == On(w)
<1>1. worker[w].pc = "release" /\ worker[w].pc \in Calls \union {"record"} /\ worker[w].pc \in Working
  BY DEF Release, At, Calls, Working
<1>2. /\ b \in Bookings /\ b # None /\ Shape(worker[w]) /\ WorkerOK(w, worker[w]) /\ worker[w].b = b
      /\ IF worker[w].split THEN refunds[b] > 0 ELSE arrived[b]
  BY <1>1, WorkingOn DEF On, WorkerOK, Knows
<1>3. OwnerShare - worker[w].seen \in Nat
  BY <1>2, PriceIsInPaise DEF Shape, Worker, WorkerOK, Knows
<1>4. TablesOK
  BY TypeParts DEF Core
<1>5. /\ transfer' = [transfer EXCEPT ![b].onHold = FALSE]
      /\ UNCHANGED <<row, arrived, grace, refunds>>
      /\ Answered(w, [worker[w] EXCEPT !.pc = "record", !.released = OwnerShare - worker[w].seen])
  BY DEF Release
<1>6. /\ transfer' \in [Bookings -> Transfer] /\ transfer'[b].onHold = FALSE
      /\ \A c \in Bookings \ {b} : transfer'[c] = transfer[c]
      /\ \A c \in Bookings : transfer[c].reversed \in Nat /\ transfer'[c].reversed = transfer[c].reversed
  <2> PICK t : t = [transfer[b] EXCEPT !.onHold = FALSE]
    OBVIOUS
  <2>1. transfer \in [Bookings -> Transfer]
    BY <1>4 DEF TablesOK
  <2>2. /\ t \in Transfer /\ t.onHold = FALSE /\ t.reversed = transfer[b].reversed
        /\ \A c \in Bookings : transfer[c].reversed \in Nat
    BY <1>2, <2>1 DEF Transfer
  <2>3. transfer' = [transfer EXCEPT ![b] = t]
    BY <1>5
  <2>4. \A c \in Bookings : transfer'[c] = IF c = b THEN t ELSE transfer[c]
    BY <1>2, <2>1, <2>3
  <2> QED BY <1>2, <2>1, <2>2, <2>3, <2>4
<1>7. failures' \in 0..MaxFailures
  BY <1>4, <1>5, WorkersOK DEF Answered, TablesOK, WorkersAssumption
<1>8. TablesOK'
  BY <1>4, <1>5, <1>6, <1>7 DEF TablesOK
<1>9. Kept
  <2>1. \A c \in Bookings : refunds[c] \in Nat
    BY <1>4 DEF TablesOK
  <2>2. UNCHANGED <<arrived, grace, refunds>>
    BY <1>5
  <2> QED BY <1>6, <2>1, <2>2 DEF Kept
<1>10. ASSUME NEW c \in Bookings PROVE MoneyOK(c)'
  <2>1. MoneyOK(c)
    BY DEF Core
  <2>2. UNCHANGED <<row, arrived, grace, refunds>>
    BY <1>5
  <2> QED BY <1>2, <1>6, <2>1, <2>2 DEF MoneyOK
<1>11. PICK r : Goes(w, r) /\ Shape(r) /\ WorkerOK(w, r)'
  <2>1. CASE Goes(w, [worker[w] EXCEPT !.pc = "recordFailed"])
    <3> PICK r : r = [worker[w] EXCEPT !.pc = "recordFailed"]
      OBVIOUS
    <3>1. Shape(r) /\ WorkerOK(w, r)
      BY <1>1, FailedOK
    <3>2. WorkerOK(w, r)'
      BY <1>4, <1>8, <1>9, <3>1, StaysTrue
    <3> QED BY <2>1, <3>1, <3>2
  <2>2. CASE Goes(w, [worker[w] EXCEPT !.pc = "record", !.released = OwnerShare - worker[w].seen])
    <3> PICK r : r = [worker[w] EXCEPT !.pc = "record", !.released = OwnerShare - worker[w].seen]
      OBVIOUS
    <3>1. Shape(r)
      BY <1>2, <1>3 DEF Shape, Worker, Steps, Calls
    <3>2. /\ r.b = b /\ r.todo = worker[w].todo /\ r.split = worker[w].split
          /\ r.seen = worker[w].seen /\ r.pc = "record"
      BY <1>2 DEF Shape, Worker
    <3>3. UNCHANGED <<arrived, grace, refunds>>
      BY <1>5
    <3>4. WorkerOK(w, r)'
      BY <1>1, <1>2, <1>6, <3>2, <3>3 DEF WorkerOK, DeskMay, JobMay, Knows, DeskSteps, JobSteps, Steps, Calls
    <3> QED BY <2>2, <3>1, <3>4
  <2> QED BY <1>5, <2>1, <2>2 DEF Answered, GoesTo
<1> QED BY <1>8, <1>9, <1>10, <1>11, WorkerStep

(* The grace period ends when no desk is at the booking.                   *)
LEMMA GraceIsOver == ASSUME Core, NEW b \in Bookings, GraceEnds(b) PROVE Core'
<1>1. /\ grace[b] = "open" /\ \A d \in Desks : worker[d].b # b
      /\ grace' = [grace EXCEPT ![b] = "past"]
      /\ UNCHANGED <<row, arrived, gateway, worker, failures>>
  BY DEF GraceEnds, On
<1>2. grace \in [Bookings -> {"open", "past"}]
  BY DEF Core, TypeOK
<1>3. /\ grace' \in [Bookings -> {"open", "past"}] /\ grace'[b] = "past"
      /\ \A c \in Bookings \ {b} : grace'[c] = grace[c]
  BY <1>1, <1>2
<1>4. UNCHANGED <<row, arrived, transfer, refunds, worker, failures>>
  BY <1>1 DEF gateway
<1>5. TypeOK'
  BY <1>3, <1>4 DEF Core, TypeOK, On
<1>6. ASSUME NEW w \in Workers PROVE WorkerOK(w, worker[w])'
  <2>1. WorkerOK(w, worker[w]) /\ Shape(worker[w])
    BY TypeParts DEF Core
  <2>2. worker[w].pc \notin {"idle", "next"} => worker[w].b \in Bookings
    BY <2>1, WhoWorks DEF Shape, Worker
  <2>3. CASE w \in Desks
    BY <1>1, <1>3, <1>4, <2>1, <2>2, <2>3, WhoWorks DEF WorkerOK, DeskMay, Knows, DeskSteps
  <2>4. CASE w \in Jobs
    BY <1>3, <1>4, <2>1, <2>4, WhoWorks DEF WorkerOK, JobMay, Knows, Shape, Worker
  <2> QED BY <2>3, <2>4, WhoWorks
<1>7. ASSUME NEW c \in Bookings PROVE MoneyOK(c)'
  BY <1>3, <1>4 DEF Core, MoneyOK
<1> QED BY <1>5, <1>6, <1>7 DEF Core

(* Every step keeps Core.                                                  *)
LEMMA StepKeepsCore == Core /\ [Next]_vars => Core'
<1> SUFFICES ASSUME Core, [Next]_vars PROVE Core'
  OBVIOUS
<1>1. ASSUME NEW w \in Workers, Continue(w) PROVE Core'
  BY <1>1, JobReads, NothingDone, CallsLook, Arrives, Cancels, Records, Reverses, Refunds, Releases
     DEF Continue
<1>2. ASSUME NEW d \in Desks, Arrive(d) PROVE Core'
  BY <1>2, DeskReads DEF Arrive
<1>3. ASSUME NEW j \in Jobs, StartSweep(j) PROVE Core'
  <2>1. Unsettled # {} /\ Unsettled \subseteq Bookings
    BY <1>3 DEF StartSweep, Unsettled
  <2>2. PICK b \in Bookings : TRUE
    BY <2>1
  <2> QED BY <1>3, <2>2, JobReads, WhoWorks
<1>4. CASE UNCHANGED vars
  BY <1>4 DEF vars, gateway, Core, TypeOK, WorkerOK, DeskMay, JobMay, Knows, MoneyOK, On
<1> QED BY <1>1, <1>2, <1>3, <1>4, NothingDone, GraceIsOver DEF Next

(***************************************************************************)
(* Theorems                                                                *)
(***************************************************************************)

(* The inductive invariant holds in every state.                           *)
THEOREM CoreHolds == Spec => []Core
BY InitCore, StepKeepsCore, PTL DEF Spec

(* The rows and the gateway's objects have their shape, and the gateway    *)
(* neither reverses more than the share nor refunds more than was charged. *)
THEOREM TypeCorrect == Spec => []TypeOK
<1>1. Core => TypeOK
  BY DEF Core
<1> QED BY <1>1, CoreHolds, PTL

(* The owner's share comes off hold only for a tenant who came, or after   *)
(* the grace period and the refund (Release, settleNoShow), however many   *)
(* instances run the job.                                                  *)
THEOREM ShareIsHeldUntilDue == Spec => []HeldUntilDue
<1>1. Core => HeldUntilDue
  BY DEF Core, MoneyOK, HeldUntilDue
<1> QED BY <1>1, CoreHolds, PTL

(***************************************************************************)
(* While one instance runs the job                                         *)
(***************************************************************************)

(* NoShowJob has no lock: that the deployment starts one API process is    *)
(* what keeps two sweeps apart.                                            *)
OneJob == \A i, j \in Jobs : i = j

(* What a worker was told of the money is still so, and it claims no more  *)
(* than moved.                                                             *)
Current(r) ==
    /\ r.pc \in {"idle", "next", "cancel", "arrive"} => r.released = 0 /\ r.refunded = 0
    /\ r.pc \in {"listHeld", "reverse", "refund"} => refunds[r.b] = 0
    /\ r.pc = "reverse" => transfer[r.b].onHold
    /\ r.pc \in {"reverse", "release"} => r.seen = transfer[r.b].reversed
    /\ r.released # 0 => /\ ~transfer[r.b].onHold
                         /\ r.released = OwnerShare - transfer[r.b].reversed
    /\ r.refunded # 0 => r.refunded = Deposit /\ refunds[r.b] = 1

(* So does the row.                                                        *)
BooksOK(b) ==
    /\ refunds[b] \in {0, 1}
    /\ row[b].released # 0 => /\ ~transfer[b].onHold
                              /\ row[b].released = OwnerShare - transfer[b].reversed
    /\ row[b].refunded # 0 => row[b].refunded = Deposit /\ refunds[b] = 1

Sole ==
    /\ \A w \in Workers : Current(worker[w])
    /\ \A b \in Bookings : BooksOK(b)

(* Before the first call nothing is paid out, so nothing is out of date.   *)
LEMMA InitSole == Init => Sole
BY DEF Init, Sole, Current, BooksOK, Idle

(* Money moves only for the booking a call is about, and only the job      *)
(* takes any of it back.                                                   *)
Moves(w) ==
    /\ \A c \in Bookings : /\ c # On(w) => transfer'[c] = transfer[c] /\ refunds'[c] = refunds[c]
                           /\ ~transfer[c].onHold => ~transfer'[c].onHold
    /\ \/ UNCHANGED gateway
       \/ /\ worker[w].pc \in Calls
          /\ w \in Desks => \A c \in Bookings : /\ transfer'[c].reversed = transfer[c].reversed
                                                /\ refunds'[c] = refunds[c]

(* What a worker has read of the gateway stays current while another moves *)
(* money: they are on different bookings.                                  *)
LEMMA OthersStayCurrent ==
    ASSUME OneJob, Core, Sole, NEW w \in Workers, NEW v \in Workers, v # w,
           worker'[v] = worker[v], Moves(w)
    PROVE  Current(worker[v])'
<1> DEFINE r == worker[v]
<1>1. Current(r) /\ Shape(r) /\ WorkerOK(v, r)
  BY TypeParts DEF Core, Sole
<1>2. CASE UNCHANGED gateway
  BY <1>1, <1>2 DEF Current, gateway
<1>3. CASE ~UNCHANGED gateway
  <2>1. worker[w].pc \in Calls /\ worker[w].pc \in Working
    BY <1>3 DEF Moves, Working
  <2>2. /\ On(w) \in Bookings
        /\ w \in Desks => grace[On(w)] = "open"
        /\ w \in Jobs => w \notin Desks /\ grace[On(w)] = "past"
    BY <2>1, WorkingOn
  <2>3. CASE r.pc \in {"idle", "next", "cancel", "arrive"}
    BY <1>1, <2>3 DEF Current
  <2>4. CASE r.pc \notin {"idle", "next", "cancel", "arrive"}
    <3>1. r.b \in Bookings
      BY <1>1, <2>4, WhoWorks DEF Shape, Worker
    <3>2. v \in Desks => grace[r.b] = "open"
      BY <1>1, <2>4 DEF WorkerOK, DeskMay
    <3>3. v \in Jobs => grace[r.b] = "past"
      BY <1>1, <3>1, WhoWorks DEF WorkerOK, JobMay
    <3>4. CASE r.b # On(w)
      <4>1. transfer'[r.b] = transfer[r.b] /\ refunds'[r.b] = refunds[r.b]
        BY <3>1, <3>4 DEF Moves
      <4> QED BY <1>1, <4>1 DEF Current
    <3>5. CASE r.b = On(w)
      <4>1. v \in Desks /\ v \notin Jobs /\ w \in Desks
        BY <2>2, <3>2, <3>3, <3>5, WhoWorks DEF OneJob
      <4>2. /\ transfer'[r.b].reversed = transfer[r.b].reversed /\ refunds'[r.b] = refunds[r.b]
            /\ ~transfer[r.b].onHold => ~transfer'[r.b].onHold
        BY <1>3, <3>1, <4>1 DEF Moves
      <4>3. r.pc # "reverse"
        BY <1>1, <4>1 DEF WorkerOK, DeskMay, DeskSteps
      <4> QED BY <1>1, <4>2, <4>3 DEF Current
    <3> QED BY <3>4, <3>5
  <2> QED BY <2>3, <2>4
<1> QED BY <1>2, <1>3

(* A step has the invariant of a single job if its worker, and the books   *)
(* of every booking, have their part of it.                                *)
LEMMA SoleStep ==
    ASSUME OneJob, Core, Sole, NEW w \in Workers, NEW r, Goes(w, r), Moves(w), Current(r)',
           \A b \in Bookings : BooksOK(b)'
    PROVE  Sole'
<1>1. worker' = [worker EXCEPT ![w] = r] /\ worker \in [Workers -> Worker]
  BY TypeParts DEF Core, Goes
<1>2. worker'[w] = r /\ \A v \in Workers \ {w} : worker'[v] = worker[v]
  BY <1>1
<1>3. Current(worker[w])'
  BY <1>2 DEF Current
<1>4. \A v \in Workers \ {w} : Current(worker[v])'
  BY <1>2, OthersStayCurrent
<1> QED BY <1>3, <1>4 DEF Sole

(* A step at which no money moves, and nothing is written down.            *)
LEMMA SoleRead ==
    ASSUME OneJob, Core, Sole, NEW w \in Workers, NEW r, Goes(w, r), UNCHANGED gateway,
           Current(r), \A b \in Bookings : /\ row'[b].released = row[b].released
                                           /\ row'[b].refunded = row[b].refunded
    PROVE  Sole'
<1>1. Moves(w)
  BY DEF Moves, gateway
<1>2. Current(r)'
  BY DEF Current, gateway
<1>3. \A b \in Bookings : BooksOK(b)'
  BY DEF Sole, BooksOK, gateway
<1> QED BY <1>1, <1>2, <1>3, SoleStep

(* A worker that has made no call has nothing that could be out of date.   *)
LEMMA FreshIsCurrent == ASSUME NEW r, r.released = 0, r.refunded = 0,
                               r.pc \in {"idle", "next", "cancel", "arrive", "listForRelease", "findRefund"}
                        PROVE  Current(r)
BY DEF Current

(* A worker whose call fails keeps what it had paid out and refunded.      *)
LEMMA FailedIsCurrent ==
    ASSUME Core, Sole, NEW w \in Workers, worker[w].pc \in Calls \union {"record"}
    PROVE  Current([worker[w] EXCEPT !.pc = "recordFailed"])
<1> PICK r : r = [worker[w] EXCEPT !.pc = "recordFailed"]
  OBVIOUS
<1>1. Current(worker[w]) /\ Shape(worker[w])
  BY TypeParts DEF Sole, Core
<1>2. /\ r.b = worker[w].b /\ r.released = worker[w].released /\ r.refunded = worker[w].refunded
      /\ r.pc = "recordFailed"
  BY <1>1 DEF Shape, Worker
<1>3. Current(r)
  BY <1>1, <1>2 DEF Current
<1> QED BY <1>3

(* The desk, the sweep, and what fails.                                    *)
LEMMA SoleDesk ==
    ASSUME OneJob, Core, Sole, NEW w \in Workers, NEW b \in Bookings,
           \/ ReadPass(w, b) \/ ReadForCancel(w, b) \/ RecordArrival(w) \/ CancelMine(w)
           \/ StartSweep(w) \/ SettleNext(w, b) \/ PassAlreadyUsed(w) \/ CallFails(w) \/ Dies(w)
    PROVE  Sole'
<1>1. UNCHANGED gateway
  BY DEF ReadPass, ReadForCancel, RecordArrival, CancelMine, StartSweep, SettleNext,
     PassAlreadyUsed, CallFails, Dies
<1>2. ASSUME NEW c \in Bookings
      PROVE  row'[c].released = row[c].released /\ row'[c].refunded = row[c].refunded
  <2>1. row \in [Bookings -> Row]
    BY DEF Core, TypeOK
  <2>2. \/ row' = row
        \/ row' = [row EXCEPT ![On(w)].status = "CHECKED_IN"]
        \/ row' = [row EXCEPT ![On(w)].status = "CANCELLED"]
    BY DEF ReadPass, ReadForCancel, RecordArrival, CancelMine, StartSweep, SettleNext,
       PassAlreadyUsed, CallFails, Dies
  <2> QED BY <2>1, <2>2 DEF Row
<1>3. PICK r : Goes(w, r) /\ Current(r)
  <2>1. CASE \/ ReadPass(w, b) \/ ReadForCancel(w, b) \/ CancelMine(w) \/ StartSweep(w)
             \/ SettleNext(w, b) \/ PassAlreadyUsed(w) \/ Dies(w)
    <3>1. PICK r : /\ Goes(w, r)
                   /\ \/ r = [Idle EXCEPT !.pc = "arrive", !.b = b]
                      \/ r = [Idle EXCEPT !.pc = "cancel", !.b = b]
                      \/ r = [Idle EXCEPT !.pc = "next", !.todo = Unsettled]
                      \/ \E todo : r = [[Idle EXCEPT !.b = b, !.todo = todo] EXCEPT !.pc = "listForRelease"]
                      \/ \E todo : r = [[Idle EXCEPT !.b = b, !.todo = todo] EXCEPT !.pc = "findRefund",
                                                                                    !.split = TRUE]
                      \/ r = Idle
      BY <2>1 DEF ReadPass, ReadForCancel, CancelMine, StartSweep, SettleNext, PassAlreadyUsed, Dies
    <3>2. /\ r.released = 0 /\ r.refunded = 0
          /\ r.pc \in {"idle", "next", "cancel", "arrive", "listForRelease", "findRefund"}
      <4>1. /\ Idle \in Worker /\ Idle.released = 0 /\ Idle.refunded = 0 /\ Idle.pc = "idle"
        BY IdleOK DEF Idle, Shape
      <4> QED BY <3>1, <4>1 DEF Worker
    <3> QED BY <3>1, <3>2, FreshIsCurrent
  <2>2. CASE CallFails(w)
    BY <2>2, FailedIsCurrent DEF CallFails, GoesTo
  <2>3. CASE RecordArrival(w)
    <3> PICK r : r = [worker[w] EXCEPT !.pc = "listForRelease"]
      OBVIOUS
    <3>1. Current(worker[w]) /\ Shape(worker[w]) /\ worker[w].pc = "arrive" /\ Goes(w, r)
      BY <2>3, TypeParts DEF Sole, Core, RecordArrival, At, GoesTo
    <3>2. r.pc = "listForRelease" /\ r.released = 0 /\ r.refunded = 0
      BY <3>1 DEF Shape, Worker, Current
    <3> QED BY <3>1, <3>2, FreshIsCurrent
  <2> QED BY <2>1, <2>2, <2>3
<1> QED BY <1>1, <1>2, <1>3, SoleRead

(* The calls that only look: what they read is the case.                   *)
LEMMA SoleLook ==
    ASSUME OneJob, Core, Sole, NEW w \in Workers,
           FindRefund(w) \/ ListHeld(w) \/ ListForRelease(w)
    PROVE  Sole'
<1> DEFINE b == worker[w].b
           u == worker[w]
<1>1. /\ u.pc \in {"findRefund", "listHeld", "listForRelease"} /\ u.pc \in Calls \union {"record"}
      /\ u.pc \in Working
  BY DEF FindRefund, ListHeld, ListForRelease, At, Calls, Working
<1>2. b \in Bookings /\ On(w) = b /\ Shape(u) /\ Current(u) /\ WorkerOK(w, u)
  BY <1>1, WorkingOn DEF Sole, On
<1>3. refunds[b] \in Nat /\ transfer[b].onHold \in BOOLEAN /\ transfer[b].reversed \in Nat
  BY <1>2 DEF Core, TypeOK, Transfer
<1>4. UNCHANGED gateway /\ UNCHANGED row
  BY DEF FindRefund, ListHeld, ListForRelease
<1>5. PICK r : Goes(w, r) /\ Current(r)
  <2>1. CASE FindRefund(w) /\ refunds[b] > 0
    <3> PICK r : r = [u EXCEPT !.pc = "record", !.refunded = Deposit]
      OBVIOUS
    <3>1. r.b = b /\ r.pc = "record" /\ r.released = u.released /\ r.refunded = Deposit
      BY <1>2 DEF Shape, Worker
    <3>2. refunds[b] = 1
      BY <1>2, <1>3, <2>1 DEF Sole, BooksOK
    <3>3. Current(r)
      BY <1>2, <3>1, <3>2 DEF Current
    <3> QED BY <1>2, <2>1, <3>3 DEF FindRefund
  <2>2. CASE FindRefund(w) /\ ~(refunds[b] > 0)
    <3> PICK r : r = [u EXCEPT !.pc = "listHeld"]
      OBVIOUS
    <3>1. r.b = b /\ r.pc = "listHeld" /\ r.released = u.released /\ r.refunded = u.refunded
      BY <1>2 DEF Shape, Worker
    <3>2. Current(r)
      BY <1>2, <1>3, <2>2, <3>1 DEF Current
    <3> QED BY <1>2, <2>2, <3>2 DEF FindRefund, GoesTo
  <2>3. CASE ListHeld(w) /\ transfer[b].onHold
    <3> PICK r : r = [u EXCEPT !.pc = "reverse", !.seen = transfer[b].reversed]
      OBVIOUS
    <3>1. /\ r.b = b /\ r.pc = "reverse" /\ r.released = u.released /\ r.refunded = u.refunded
          /\ r.seen = transfer[b].reversed
      BY <1>2 DEF Shape, Worker
    <3>2. u.pc = "listHeld"
      BY <2>3 DEF ListHeld, At
    <3>3. Current(r)
      BY <1>2, <2>3, <3>1, <3>2 DEF Current
    <3> QED BY <1>2, <2>3, <3>3 DEF ListHeld
  <2>4. CASE ListForRelease(w) /\ transfer[b].onHold
    <3> PICK r : r = [u EXCEPT !.pc = "release", !.seen = transfer[b].reversed]
      OBVIOUS
    <3>1. /\ r.b = b /\ r.pc = "release" /\ r.released = u.released /\ r.refunded = u.refunded
          /\ r.seen = transfer[b].reversed
      BY <1>2 DEF Shape, Worker
    <3>2. Current(r)
      BY <1>2, <3>1 DEF Current
    <3> QED BY <1>2, <2>4, <3>2 DEF ListForRelease
  <2>5. CASE ListForRelease(w) /\ ~transfer[b].onHold
    <3> PICK r : r = [u EXCEPT !.pc = "record"]
      OBVIOUS
    <3>1. r.b = b /\ r.pc = "record" /\ r.released = u.released /\ r.refunded = u.refunded
      BY <1>2 DEF Shape, Worker
    <3>2. Current(r)
      BY <1>2, <3>1 DEF Current
    <3> QED BY <1>2, <2>5, <3>2 DEF ListForRelease, GoesTo
  <2>6. CASE ListHeld(w) /\ ~transfer[b].onHold
    BY <1>1, <1>2, <2>6, FailedIsCurrent DEF ListHeld, GoesTo
  <2> QED BY <2>1, <2>2, <2>3, <2>4, <2>5, <2>6
<1> QED BY <1>4, <1>5, SoleRead

(* What is written down is what the worker did, which is the case.         *)
LEMMA SoleRecords ==
    ASSUME OneJob, Core, Sole, NEW w \in Workers, RecordSettled(w) \/ RecordFailed(w)
    PROVE  Sole'
<1> DEFINE b == On(w)
           u == worker[w]
<1> PICK q : q = AfterBooking(w)
  OBVIOUS
<1>1. u.pc \in Working /\ Goes(w, q)
  BY DEF RecordSettled, RecordFailed, At, Working, Finished, AfterBooking
<1>2. b \in Bookings /\ u.b = b /\ Shape(u) /\ Current(u) /\ row \in [Bookings -> Row]
  BY <1>1, WorkingOn DEF Sole, On, Core, TypeOK
<1>3. UNCHANGED gateway /\ UNCHANGED <<transfer, refunds>>
  BY DEF RecordSettled, RecordFailed, gateway
<1>4. Moves(w)
  BY <1>3 DEF Moves
<1>5. Current(q)'
  <2>1. q.pc \in {"idle", "next"} /\ q.released = 0 /\ q.refunded = 0
    BY DEF AfterBooking, Idle
  <2> QED BY <2>1 DEF Current
<1>6. /\ \A c \in Bookings \ {b} : row'[c] = row[c]
      /\ row'[b].released \in {row[b].released, u.released}
      /\ row'[b].refunded \in {row[b].refunded, u.refunded}
  <2>1. CASE RecordSettled(w)
    BY <1>2, <2>1 DEF RecordSettled, Row
  <2>2. CASE RecordFailed(w)
    BY <1>2, <2>2 DEF RecordFailed, Row
  <2> QED BY <2>1, <2>2
<1>7. ASSUME NEW c \in Bookings PROVE BooksOK(c)'
  <2>1. BooksOK(c)
    BY DEF Sole
  <2> QED BY <1>2, <1>3, <1>6, <2>1 DEF BooksOK, Current
<1> QED BY <1>1, <1>4, <1>5, <1>7, SoleStep

(* A refund is only asked for when there is none.                          *)
LEMMA SoleRefunds ==
    ASSUME OneJob, Core, Sole, NEW w \in Workers, Refund(w)
    PROVE  Sole'
<1> DEFINE b == worker[w].b
           u == worker[w]
<1>1. u.pc = "refund" /\ u.pc \in Calls /\ u.pc \in Calls \union {"record"} /\ u.pc \in Working
  BY DEF Refund, At, Calls, Working
<1>2. /\ b \in Bookings /\ On(w) = b /\ Shape(u) /\ Current(u) /\ w \notin Desks
      /\ refunds[b] = 0 /\ u.refunded = 0
  BY <1>1, WorkingOn, WhoWorks DEF Sole, Current, On, WorkerOK, Knows
<1>3. /\ refunds \in [Bookings -> Nat] /\ transfer' = transfer /\ UNCHANGED row
  BY DEF Refund, Core, TypeOK
<1>4. CASE UNCHANGED refunds
  <2>1. GoesTo(w, "recordFailed")
    BY <1>2, <1>3, <1>4 DEF Refund
  <2> QED BY <1>1, <1>3, <1>4, <2>1, FailedIsCurrent, SoleRead DEF GoesTo, gateway
<1>5. CASE ~UNCHANGED refunds
  <2>1. /\ refunds' = [refunds EXCEPT ![b] = @ + 1]
        /\ Answered(w, [u EXCEPT !.pc = "listForRelease", !.refunded = Deposit])
    BY <1>2, <1>5 DEF Refund
  <2>2. refunds'[b] = 1 /\ \A c \in Bookings \ {b} : refunds'[c] = refunds[c]
    BY <1>2, <1>3, <2>1
  <2>3. Moves(w)
    BY <1>1, <1>2, <1>3, <2>2 DEF Moves
  <2>4. PICK r : Goes(w, r) /\ Current(r)'
    <3>1. CASE Goes(w, [u EXCEPT !.pc = "recordFailed"])
      <4> PICK r : r = [u EXCEPT !.pc = "recordFailed"]
        OBVIOUS
      <4>1. r.b = b /\ r.pc = "recordFailed" /\ r.released = u.released /\ r.refunded = u.refunded
        BY <1>2 DEF Shape, Worker
      <4>2. Current(r)'
        BY <1>2, <1>3, <4>1 DEF Current
      <4> QED BY <3>1, <4>2
    <3>2. CASE Goes(w, [u EXCEPT !.pc = "listForRelease", !.refunded = Deposit])
      <4> PICK r : r = [u EXCEPT !.pc = "listForRelease", !.refunded = Deposit]
        OBVIOUS
      <4>1. r.b = b /\ r.pc = "listForRelease" /\ r.released = u.released /\ r.refunded = Deposit
        BY <1>2 DEF Shape, Worker
      <4>2. Current(r)'
        BY <1>2, <1>3, <2>2, <4>1 DEF Current
      <4> QED BY <3>2, <4>2
    <3> QED BY <2>1, <3>1, <3>2 DEF Answered, GoesTo
  <2>5. ASSUME NEW c \in Bookings PROVE BooksOK(c)'
    <3>1. BooksOK(c)
      BY DEF Sole
    <3> QED BY <1>2, <1>3, <2>2, <3>1 DEF BooksOK
  <2> QED BY <2>3, <2>4, <2>5, SoleStep
<1> QED BY <1>4, <1>5

(* Only what is on hold is reversed, so no amount that was written down    *)
(* becomes wrong.                                                          *)
LEMMA SoleReverses ==
    ASSUME OneJob, Core, Sole, NEW w \in Workers, Reverse(w)
    PROVE  Sole'
<1> DEFINE b == worker[w].b
           u == worker[w]
           amount == Least(OwnerShare - u.seen, Deposit)
<1>1. u.pc = "reverse" /\ u.pc \in Calls /\ u.pc \in Calls \union {"record"} /\ u.pc \in Working
  BY DEF Reverse, At, Calls, Working
<1>2. /\ b \in Bookings /\ On(w) = b /\ Shape(u) /\ Current(u) /\ w \notin Desks
      /\ refunds[b] = 0 /\ transfer[b].onHold /\ u.released = 0 /\ u.refunded = 0
  BY <1>1, WorkingOn, WhoWorks DEF Sole, Current, On, WorkerOK, Knows
<1>3. transfer \in [Bookings -> Transfer] /\ refunds' = refunds /\ UNCHANGED row
  BY DEF Reverse, Core, TypeOK
<1>4. CASE UNCHANGED transfer /\ GoesTo(w, "recordFailed")
  BY <1>1, <1>3, <1>4, FailedIsCurrent, SoleRead DEF GoesTo, gateway
<1>5. CASE /\ transfer' = [transfer EXCEPT ![b].reversed = @ + amount]
           /\ Answered(w, [u EXCEPT !.pc = IF amount = Deposit THEN "refund" ELSE "recordFailed"])
  <2>1. /\ \A c \in Bookings \ {b} : transfer'[c] = transfer[c]
        /\ \A c \in Bookings : transfer'[c].onHold = transfer[c].onHold
    BY <1>2, <1>3, <1>5 DEF Transfer
  <2>2. Moves(w)
    BY <1>1, <1>2, <1>3, <2>1 DEF Moves
  <2>3. PICK r : Goes(w, r) /\ Current(r)'
    <3>1. PICK r : Goes(w, r) /\ \/ r = [u EXCEPT !.pc = "recordFailed"]
                                 \/ r = [u EXCEPT !.pc = "refund"]
      BY <1>5 DEF Answered, GoesTo
    <3>2. /\ r.b = b /\ r.pc \in {"refund", "recordFailed"} /\ r.released = 0 /\ r.refunded = 0
      BY <1>2, <3>1 DEF Shape, Worker
    <3>3. Current(r)'
      BY <1>2, <1>3, <3>2 DEF Current
    <3> QED BY <3>1, <3>3
  <2>4. ASSUME NEW c \in Bookings PROVE BooksOK(c)'
    <3>1. BooksOK(c)
      BY DEF Sole
    <3> QED BY <1>2, <1>3, <2>1, <3>1 DEF BooksOK
  <2> QED BY <2>2, <2>3, <2>4, SoleStep
<1> QED BY <1>2, <1>4, <1>5 DEF Reverse

(* What is released is what was on hold when it was listed.                *)
LEMMA SoleReleases ==
    ASSUME OneJob, Core, Sole, NEW w \in Workers, Release(w)
    PROVE  Sole'
<1> DEFINE b == worker[w].b
           u == worker[w]
<1>1. u.pc = "release" /\ u.pc \in Calls /\ u.pc \in Calls \union {"record"} /\ u.pc \in Working
  BY DEF Release, At, Calls, Working
<1>2. /\ b \in Bookings /\ On(w) = b /\ Shape(u) /\ Current(u) /\ u.seen = transfer[b].reversed
  BY <1>1, WorkingOn DEF Sole, Current, On
<1>3. /\ transfer \in [Bookings -> Transfer] /\ transfer' = [transfer EXCEPT ![b].onHold = FALSE]
      /\ refunds' = refunds /\ UNCHANGED row
      /\ Answered(w, [u EXCEPT !.pc = "record", !.released = OwnerShare - u.seen])
  BY <1>2 DEF Release, Core, TypeOK
<1>4. /\ \A c \in Bookings \ {b} : transfer'[c] = transfer[c]
      /\ ~transfer'[b].onHold
      /\ \A c \in Bookings : transfer'[c].reversed = transfer[c].reversed
  BY <1>2, <1>3 DEF Transfer
<1>5. Moves(w)
  BY <1>1, <1>2, <1>3, <1>4 DEF Moves
<1>6. PICK r : Goes(w, r) /\ Current(r)'
  <2>1. PICK r : Goes(w, r) /\ \/ r = [u EXCEPT !.pc = "recordFailed"]
                               \/ r = [u EXCEPT !.pc = "record", !.released = OwnerShare - u.seen]
    BY <1>3 DEF Answered, GoesTo
  <2>2. /\ r.b = b /\ r.pc \in {"record", "recordFailed"} /\ r.refunded = u.refunded
        /\ r.released \in {u.released, OwnerShare - u.seen}
    BY <1>2, <2>1 DEF Shape, Worker
  <2>3. Current(r)'
    BY <1>2, <1>3, <1>4, <2>2 DEF Current
  <2> QED BY <2>1, <2>3
<1>7. ASSUME NEW c \in Bookings PROVE BooksOK(c)'
  <2>1. BooksOK(c)
    BY DEF Sole
  <2> QED BY <1>2, <1>3, <1>4, <2>1 DEF BooksOK
<1> QED BY <1>5, <1>6, <1>7, SoleStep

(* Every step keeps the invariant of a single job.                         *)
LEMMA StepKeepsSole == OneJob /\ Core /\ Sole /\ [Next]_vars => Sole'
<1> SUFFICES ASSUME OneJob, Core, Sole, [Next]_vars PROVE Sole'
  OBVIOUS
<1>1. ASSUME NEW w \in Workers, Continue(w) PROVE Sole'
  <2>1. CASE \E b \in Bookings : SettleNext(w, b)
    BY <2>1, SoleDesk
  <2>2. CASE RecordArrival(w) \/ PassAlreadyUsed(w) \/ CancelMine(w)
    <3>1. On(w) \in Bookings
      BY <2>2, TypeParts, WhoWorks DEF Core, RecordArrival, PassAlreadyUsed, CancelMine, At, On,
         Shape, Worker
    <3> QED BY <2>2, <3>1, SoleDesk
  <2>3. CASE FindRefund(w) \/ ListHeld(w) \/ ListForRelease(w)
    BY <2>3, SoleLook
  <2> QED BY <1>1, <2>1, <2>2, <2>3, SoleRecords, SoleRefunds, SoleReverses, SoleReleases
          DEF Continue
<1>2. ASSUME NEW d \in Desks, Arrive(d) PROVE Sole'
  BY <1>2, SoleDesk, WhoWorks DEF Arrive
<1>3. ASSUME NEW j \in Jobs, StartSweep(j) PROVE Sole'
  <2>1. PICK b \in Bookings : TRUE
    BY <1>3 DEF StartSweep, Unsettled
  <2> QED BY <1>3, <2>1, SoleDesk, WhoWorks
<1>4. ASSUME NEW w \in Workers, CallFails(w) \/ Dies(w) PROVE Sole'
  <2>1. CASE \E b \in Bookings : TRUE
    BY <1>4, <2>1, SoleDesk
  <2>2. CASE ~\E b \in Bookings : TRUE
    <3>1. CASE CallFails(w)
      BY <3>1, <2>2, WorkingOn DEF CallFails, Working
    <3>2. CASE Dies(w)
      <4>1. Goes(w, Idle) /\ UNCHANGED gateway /\ Current(Idle)
        BY <3>2 DEF Dies, Current, Idle
      <4> QED BY <2>2, <4>1, SoleRead
    <3> QED BY <1>4, <3>1, <3>2
  <2> QED BY <2>1, <2>2
<1>5. CASE \E b \in Bookings : GraceEnds(b)
  BY <1>5 DEF GraceEnds, gateway, Sole, Current, BooksOK
<1>6. CASE UNCHANGED vars
  BY <1>6 DEF vars, gateway, Sole, Current, BooksOK
<1> QED BY <1>1, <1>2, <1>3, <1>4, <1>5, <1>6 DEF Next

(* With one instance of the job, Sole holds in every state.                *)
THEOREM SoleHolds == ASSUME OneJob PROVE Spec => []Sole
<1>1. OneJob
  OBVIOUS
<1> QED BY <1>1, InitSole, StepKeepsSole, CoreHolds, PTL DEF Spec

(* The deposit goes back at most once, after it was taken back from the    *)
(* owner's share, and never to a tenant who came (settleNoShow,            *)
(* findNoShowRefund): whatever fails and however often it is tried.        *)
THEOREM DepositGoesBackOnce == ASSUME OneJob PROVE Spec => []RefundedOnce
<1>1. Core /\ Sole => RefundedOnce
  BY DEF Core, Sole, MoneyOK, BooksOK, RefundedOnce
<1> QED BY <1>1, CoreHolds, SoleHolds, PTL

(* recordSettlement writes down what the gateway did and nothing else.     *)
THEOREM RowsAreTrue == ASSUME OneJob PROVE Spec => []RowIsTrue
<1>1. ASSUME Core, Sole PROVE RowIsTrue
  <2> SUFFICES ASSUME NEW b \in Bookings
               PROVE  /\ row[b].settlement = "RELEASED" => ~transfer[b].onHold /\ arrived[b]
                      /\ row[b].settlement = "SPLIT" => refunds[b] > 0 /\ ~arrived[b]
                      /\ row[b].released > 0 => /\ ~transfer[b].onHold
                                                /\ row[b].released = OwnerShare - transfer[b].reversed
                      /\ row[b].refunded > 0 => row[b].refunded = refunds[b] * Deposit
    BY DEF RowIsTrue
  <2>1. MoneyOK(b) /\ BooksOK(b) /\ row[b] \in Row
    BY <1>1 DEF Core, Sole, TypeOK
  <2>2. row[b].refunded # 0 => row[b].refunded = refunds[b] * Deposit
    BY <2>1, PriceIsInPaise DEF BooksOK
  <2> QED BY <2>1, <2>2 DEF MoneyOK, BooksOK, Row
<1> QED BY <1>1, CoreHolds, SoleHolds, PTL

=============================================================================
