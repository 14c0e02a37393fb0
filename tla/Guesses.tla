------------------------------ MODULE Guesses ------------------------------
(***************************************************************************)
(* The two secrets short enough to be guessed: the one-time code a person  *)
(* signs in with, and the six digits a tenant reads out at the desk.       *)
(*                                                                         *)
(* Both are protected by counters in the database, and every check of a    *)
(* counter and the write that moves it are separate round trips.  A        *)
(* request is therefore judged by what it read when it came in, and as     *)
(* many requests as the API serves at a time may be past the check when    *)
(* the limit is reached.  The properties say that this is all there is to  *)
(* gain: each limit is exceeded by the requests in flight and no more.     *)
(***************************************************************************)
EXTENDS Naturals, FiniteSets

CONSTANTS
    Phones,
    Challenges,     \* one-time codes that may be sent
    PhoneOf,        \* the number each of them is sent to
    Properties,
    Passes,         \* move-in passes of live bookings
    HomeOf,         \* the property each pass is for
    Requests,       \* requests the API serves at a time
    OtpMaxAttempts, OtpMaxRequests, MaxCodeAttempts,
    MaxTyped,       \* bound on how often a pass's code is typed in
    MaxDeaths,      \* bound on the requests that are cut short
    None

GuessesAssumption ==
    /\ IsFiniteSet(Requests) /\ IsFiniteSet(Challenges)
    /\ PhoneOf \in [Challenges -> Phones] /\ HomeOf \in [Passes -> Properties]
    /\ OtpMaxAttempts \in Nat \ {0} /\ OtpMaxRequests \in Nat \ {0}
    /\ MaxCodeAttempts \in Nat \ {0}
    /\ MaxTyped \in Nat /\ MaxDeaths \in Nat

ASSUME GuessesOK == GuessesAssumption

VARIABLES
    challenge,  \* otp challenges, the sessions issued for each, and (history)
                \* how many verifications had found it unused when it was used
    account,    \* the user row of each number
    desk,       \* properties: wrong codes counted, and whether typing is locked
    typed,      \* attempts counted on each pass
    work,       \* what each request is doing, and on which row
    deaths

vars == <<challenge, account, desk, typed, work, deaths>>

(* A code lives for five minutes and counts towards the limit for an hour. *)
Age == {"unsent", "fresh", "expired", "old"}

Unsent == [age |-> "unsent", consumed |-> FALSE, attempts |-> 0, sessions |-> 0, readers |-> 0]

Idle == [pc |-> "idle", on |-> None]

At(h, pc, on) == work[h] = [pc |-> pc, on |-> on]
Goes(h, pc, on) == work' = [work EXCEPT ![h] = [pc |-> pc, on |-> on]]
Ends(h) == work' = [work EXCEPT ![h] = Idle]

(***************************************************************************)
(* Signing in                                                              *)
(***************************************************************************)

(* countOtpRequestsSince. *)
Recent(p) == {c \in Challenges : PhoneOf[c] = p /\ challenge[c].age \in {"fresh", "expired"}}

MayRequest(p) == Cardinality(Recent(p)) < OtpMaxRequests

RequestOtp(h, p) ==
    /\ work[h] = Idle /\ MayRequest(p)
    /\ Goes(h, "send", p)
    /\ UNCHANGED <<challenge, account, desk, typed, deaths>>

CreateOtpChallenge(h, c) ==
    /\ At(h, "send", PhoneOf[c]) /\ challenge[c].age = "unsent"
    /\ challenge' = [challenge EXCEPT ![c].age = "fresh"]
    /\ Ends(h)
    /\ UNCHANGED <<account, desk, typed, deaths>>

(* Variant: whether the code was used is not looked at. *)
VerifiableAnyTime(c) ==
    /\ challenge[c].age = "fresh"
    /\ challenge[c].attempts < OtpMaxAttempts

(* Variant: off by one. *)
VerifiableOnceMore(c) ==
    /\ challenge[c].age = "fresh" /\ ~challenge[c].consumed
    /\ challenge[c].attempts <= OtpMaxAttempts

Verifiable(c) ==
    /\ challenge[c].age = "fresh" /\ ~challenge[c].consumed
    /\ challenge[c].attempts < OtpMaxAttempts

(* The code is compared with the row that was read. *)
VerifyOtp(h, c, pc) ==
    /\ work[h] = Idle /\ Verifiable(c) /\ pc \in {"wrong", "right"}
    /\ Goes(h, pc, c)
    /\ UNCHANGED <<challenge, account, desk, typed, deaths>>

IncrementOtpAttempts(h, c) ==
    /\ At(h, "wrong", c)
    /\ challenge' = [challenge EXCEPT ![c].attempts = @ + 1]
    /\ IF challenge[c].attempts + 1 >= OtpMaxAttempts THEN Goes(h, "exhausted", c) ELSE Ends(h)
    /\ UNCHANGED <<account, desk, typed, deaths>>

(* The requests that judged the code right and have yet to consume it.     *)
FoundRight(c) == {h \in Requests : work[h].pc = "right" /\ work[h].on = c}

(* Unconditional: the row may have been consumed since it was read.        *)
Consumed(c) ==
    [challenge[c] EXCEPT
        !.consumed = TRUE,
        !.readers = IF challenge[c].consumed THEN @ ELSE Cardinality(FoundRight(c))]

ConsumeExhausted(h, c) ==
    /\ At(h, "exhausted", c)
    /\ challenge' = [challenge EXCEPT ![c] = Consumed(c)]
    /\ Ends(h)
    /\ UNCHANGED <<account, desk, typed, deaths>>

ConsumeOtpChallenge(h, c) ==
    /\ At(h, "right", c)
    /\ challenge' = [challenge EXCEPT ![c] = Consumed(c)]
    /\ Goes(h, "others", c)
    /\ UNCHANGED <<account, desk, typed, deaths>>

ConsumeOtherChallenges(h, c) ==
    /\ At(h, "others", c)
    /\ challenge' = [d \in Challenges |->
          IF PhoneOf[d] = PhoneOf[c] /\ d # c /\ challenge[d].age # "unsent"
          THEN Consumed(d) ELSE challenge[d]]
    /\ Goes(h, "account", c)
    /\ UNCHANGED <<account, desk, typed, deaths>>

(* The upsert keeps the row there is, whoever made it. *)
FoundOrCreated(status) == IF status = "NONE" THEN "ACTIVE" ELSE status

FindOrCreateUser(h, c) ==
    LET p == PhoneOf[c] IN
    /\ At(h, "account", c)
    /\ account' = [account EXCEPT ![p] = FoundOrCreated(@)]
    /\ IF account[p] = "SUSPENDED" THEN Ends(h)
       ELSE Goes(h, IF account[p] = "UNCLAIMED" THEN "claim" ELSE "issue", c)
    /\ UNCHANGED <<challenge, desk, typed, deaths>>

ClaimUser(h, c) ==
    /\ At(h, "claim", c)
    /\ account' = [account EXCEPT ![PhoneOf[c]] = "ACTIVE"]
    /\ Goes(h, "issue", c)
    /\ UNCHANGED <<challenge, desk, typed, deaths>>

IssueTokens(h, c) ==
    /\ At(h, "issue", c)
    /\ challenge' = [challenge EXCEPT ![c].sessions = @ + 1]
    /\ Ends(h)
    /\ UNCHANGED <<account, desk, typed, deaths>>

(* addMember and seatWalkIn know a number before its owner ever signs in.  *)
EnteredByStaff(p) ==
    /\ account[p] = "NONE"
    /\ account' = [account EXCEPT ![p] = "UNCLAIMED"]
    /\ UNCHANGED <<challenge, desk, typed, work, deaths>>

(* The request window, then the life of the code, pass. *)
Ages(c) ==
    /\ challenge[c].age \in {"fresh", "expired"}
    /\ challenge' = [challenge EXCEPT ![c].age = IF @ = "fresh" THEN "expired" ELSE "old"]
    /\ UNCHANGED <<account, desk, typed, work, deaths>>

(***************************************************************************)
(* Typing a pass's code at the desk                                        *)
(***************************************************************************)

(* Variant: the lock is written and never looked at. *)
CodeNeverLocked(h, p) ==
    /\ work[h] = Idle
    /\ Goes(h, "typed", p)
    /\ UNCHANGED <<challenge, account, desk, typed, deaths>>

CodeLockedUntil(h, p) ==
    /\ work[h] = Idle /\ ~desk[p].locked
    /\ Goes(h, "typed", p)
    /\ UNCHANGED <<challenge, account, desk, typed, deaths>>

Reaches(failures) == failures >= MaxCodeAttempts

(* No live pass of this property has that code. *)
RecordCodeFailure(h, p) ==
    /\ At(h, "typed", p)
    /\ desk' = [desk EXCEPT ![p].failures = @ + 1]
    /\ IF Reaches(desk[p].failures + 1) THEN Goes(h, "lock", p) ELSE Ends(h)
    /\ UNCHANGED <<challenge, account, typed, deaths>>

LockCodes(h, p) ==
    /\ At(h, "lock", p)
    /\ desk' = [desk EXCEPT ![p] = [failures |-> 0, locked |-> TRUE]]
    /\ Ends(h)
    /\ UNCHANGED <<challenge, account, typed, deaths>>

Cleared(d) == IF d.failures > 0 THEN [failures |-> 0, locked |-> FALSE] ELSE d

ClearCodeFailures(h, pass) ==
    LET p == HomeOf[pass] IN
    /\ At(h, "typed", p) /\ typed[pass] < MaxTyped
    /\ desk' = [desk EXCEPT ![p] = Cleared(@)]
    /\ Goes(h, "count", pass)
    /\ UNCHANGED <<challenge, account, typed, deaths>>

(* Above MaxCodeAttempts it is refused, and the pass has to be scanned. *)
CountAttempt(h, pass) ==
    /\ At(h, "count", pass)
    /\ typed' = [typed EXCEPT ![pass] = @ + 1]
    /\ Ends(h)
    /\ UNCHANGED <<challenge, account, desk, deaths>>

LockEnds(p) ==
    /\ desk[p].locked
    /\ desk' = [desk EXCEPT ![p].locked = FALSE]
    /\ UNCHANGED <<challenge, account, typed, work, deaths>>

Dies(h) ==
    /\ work[h] # Idle /\ deaths < MaxDeaths
    /\ deaths' = deaths + 1
    /\ Ends(h)
    /\ UNCHANGED <<challenge, account, desk, typed>>

(***************************************************************************)
(* The system                                                              *)
(***************************************************************************)

Init ==
    /\ challenge = [c \in Challenges |-> Unsent]
    /\ account \in [Phones -> {"NONE", "SUSPENDED"}]
    /\ desk = [p \in Properties |-> [failures |-> 0, locked |-> FALSE]]
    /\ typed = [pass \in Passes |-> 0]
    /\ work = [h \in Requests |-> Idle]
    /\ deaths = 0

SignIn(h) ==
    \/ \E p \in Phones : RequestOtp(h, p)
    \/ \E c \in Challenges :
          \/ CreateOtpChallenge(h, c)
          \/ \E pc \in {"wrong", "right"} : VerifyOtp(h, c, pc)
          \/ IncrementOtpAttempts(h, c) \/ ConsumeExhausted(h, c)
          \/ ConsumeOtpChallenge(h, c) \/ ConsumeOtherChallenges(h, c)
          \/ FindOrCreateUser(h, c) \/ ClaimUser(h, c) \/ IssueTokens(h, c)

Desk(h) ==
    \/ \E p \in Properties : \/ CodeLockedUntil(h, p) \/ RecordCodeFailure(h, p)
                             \/ LockCodes(h, p)
    \/ \E pass \in Passes : ClearCodeFailures(h, pass) \/ CountAttempt(h, pass)

Next ==
    \/ \E h \in Requests : SignIn(h) \/ Desk(h) \/ Dies(h)
    \/ \E p \in Phones : EnteredByStaff(p)
    \/ \E c \in Challenges : Ages(c)
    \/ \E p \in Properties : LockEnds(p)

Spec == Init /\ [][Next]_vars

(***************************************************************************)
(* Properties                                                              *)
(***************************************************************************)

SignInSteps == {"wrong", "right", "exhausted", "others", "account", "claim", "issue"}

Doing ==
    [pc : {"idle"}, on : {None}] \union [pc : {"send"}, on : Phones]
    \union [pc : SignInSteps, on : Challenges]
    \union [pc : {"typed", "lock"}, on : Properties] \union [pc : {"count"}, on : Passes]

(* Rows and requests have the shape the schema and the handlers give them. *)
TypeOK ==
    /\ challenge \in [Challenges -> [age : Age, consumed : BOOLEAN, attempts : Nat,
                                     sessions : Nat, readers : Nat]]
    /\ account \in [Phones -> {"NONE", "UNCLAIMED", "ACTIVE", "SUSPENDED"}]
    /\ desk \in [Properties -> [failures : Nat, locked : BOOLEAN]]
    /\ typed \in [Passes -> Nat]
    /\ work \in [Requests -> Doing]
    /\ deaths \in 0..MaxDeaths

Served == Cardinality(Requests)

(* Every counter is read before and written after: it passes its limit by *)
(* no more than the requests that had read it in time.  So a code is       *)
(* guessed wrong as often as verifyOtp allows and once more for each       *)
(* further request, a number is sent that many codes in a window           *)
(* (requestOtp), and at a building that many wrong ones are typed          *)
(* (recordCodeFailure), one more for each process that died between the    *)
(* last and the lock.                                                      *)
LimitsAreKept ==
    /\ \A c \in Challenges : challenge[c].attempts < OtpMaxAttempts + Served
    /\ \A p \in Phones : Cardinality(Recent(p)) < OtpMaxRequests + Served
    /\ \A p \in Properties : desk[p].failures < MaxCodeAttempts + Served + deaths

(* A code signs in nobody before it is consumed, and after that no more    *)
(* than had judged it right and were about to consume it when it was first *)
(* consumed: nobody who reads the row later, however the updates of        *)
(* consumeOtpChallenge, which look at nothing, and of                      *)
(* consumeOtherChallengesForPhone fall.                                    *)
CodeIsSpent ==
    \A c \in Challenges :
        /\ challenge[c].sessions <= challenge[c].readers
        /\ challenge[c].sessions > 0 => challenge[c].consumed

(* "a hashed, short-lived, single-use code" (03_System_Architecture.md): a *)
(* code signs in once.  It does not hold: two verifications that have both *)
(* read the row unused both sign in.                                       *)
CodeIsOnce == \A c \in Challenges : challenge[c].sessions <= 1

(* A lock stops the guessing: while it lasts, the only wrong codes counted *)
(* at the building are those of requests that were past the check when it  *)
(* was set, whoever sets it a second time or clears the count meanwhile.   *)
LockStopsGuessing == \A p \in Properties : desk[p].locked => desk[p].failures < Served
=============================================================================
