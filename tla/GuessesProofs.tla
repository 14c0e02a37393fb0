---------------------------- MODULE GuessesProofs ----------------------------
(***************************************************************************)
(* Theorems about Guesses, for any number of phones, codes, buildings and  *)
(* requests and any limits.  Every limit is kept because what has been     *)
(* counted, together with the requests that have passed the check and have *)
(* yet to count, never exceeds it by more than the requests there are:     *)
(* Inv counts both.                                                        *)
(***************************************************************************)
EXTENDS Guesses, FiniteSetTheorems, TLAPS

(* The requests that are at one of some steps, about x.                    *)
Holding(steps, x) == {h \in Requests : work[h].pc \in steps /\ work[h].on = x}
HowMany(steps, x) == Cardinality(Holding(steps, x))

Verified == {"right", "others", "account", "claim", "issue"}
HasConsumed == {"others", "account", "claim", "issue"}

AttemptsOK(c) == challenge[c].attempts + HowMany({"wrong"}, c) < OtpMaxAttempts + Served
SendsOK(p) == Cardinality(Recent(p)) + HowMany({"send"}, p) < OtpMaxRequests + Served
FailuresOK(p) == desk[p].failures < MaxCodeAttempts + HowMany({"lock"}, p) + deaths
SpentOK(c) ==
    /\ challenge[c].consumed => challenge[c].sessions + HowMany(Verified, c) <= challenge[c].readers
    /\ ~challenge[c].consumed => challenge[c].sessions = 0 /\ Holding(HasConsumed, c) = {}
LockOK(p) == desk[p].locked => desk[p].failures + HowMany({"typed"}, p) < Served

Inv ==
    /\ TypeOK
    /\ \A c \in Challenges : AttemptsOK(c) /\ SpentOK(c)
    /\ \A p \in Phones : SendsOK(p)
    /\ \A p \in Properties : FailuresOK(p) /\ LockOK(p)

(* What is assumed of the requests, of the limits and of who a code or a   *)
(* pass belongs to.                                                        *)
LEMMA GuessesFacts ==
    /\ IsFiniteSet(Requests) /\ IsFiniteSet(Challenges)
    /\ PhoneOf \in [Challenges -> Phones] /\ HomeOf \in [Passes -> Properties]
    /\ OtpMaxAttempts \in Nat \ {0} /\ OtpMaxRequests \in Nat \ {0}
    /\ MaxCodeAttempts \in Nat \ {0} /\ MaxTyped \in Nat /\ MaxDeaths \in Nat
BY GuessesOK DEF GuessesAssumption

(* Requests are counted in natural numbers, and there are only so many.    *)
LEMMA CountsAreNat ==
    /\ Served \in Nat
    /\ \A steps, x : /\ IsFiniteSet(Holding(steps, x))
                     /\ HowMany(steps, x) \in Nat /\ HowMany(steps, x) <= Served
    /\ \A p : IsFiniteSet(Recent(p)) /\ Cardinality(Recent(p)) \in Nat
<1>1. Served \in Nat
  BY GuessesFacts, FS_CardinalityType DEF Served
<1>2. \A steps, x : /\ IsFiniteSet(Holding(steps, x)) /\ HowMany(steps, x) <= Served
  BY GuessesFacts, FS_Subset DEF Holding, HowMany, Served
<1>3. \A p : IsFiniteSet(Recent(p))
  BY GuessesFacts, FS_Subset DEF Recent
<1> QED BY <1>1, <1>2, <1>3, FS_CardinalityType DEF HowMany

(* The same of the state after a step.                                     *)
LEMMA CountsAreNatNext ==
    ASSUME TRUE
    PROVE  /\ \A steps, x : /\ IsFiniteSet(Holding(steps, x)')
                            /\ HowMany(steps, x)' \in Nat /\ HowMany(steps, x)' <= Served
           /\ \A p : IsFiniteSet(Recent(p)') /\ Cardinality(Recent(p)') \in Nat
<1>1. \A steps, x : /\ IsFiniteSet(Holding(steps, x)') /\ HowMany(steps, x)' <= Served
  BY GuessesFacts, FS_Subset DEF Holding, HowMany, Served
<1>2. \A p : IsFiniteSet(Recent(p)')
  BY GuessesFacts, FS_Subset DEF Recent
<1> QED BY <1>1, <1>2, FS_CardinalityType DEF HowMany

(* A request that takes a step joins at most one group, and leaves the     *)
(* others.                                                                 *)
Joins(w, steps, x) == w.pc \in steps /\ w.on = x

(* When one request moves, a count changes by that request and by no       *)
(* other.                                                                  *)
LEMMA OneMoves ==
    ASSUME work \in [Requests -> Doing], NEW h \in Requests, NEW w,
           work' = [work EXCEPT ![h] = w]
    PROVE  \A steps, x :
             /\ ~Joins(w, steps, x) => /\ Holding(steps, x)' \subseteq Holding(steps, x)
                                       /\ HowMany(steps, x)' <= HowMany(steps, x)
             /\ h \in Holding(steps, x) =>
                  HowMany(steps, x)' = HowMany(steps, x) - (IF Joins(w, steps, x) THEN 0 ELSE 1)
             /\ h \notin Holding(steps, x) =>
                  HowMany(steps, x)' = HowMany(steps, x) + (IF Joins(w, steps, x) THEN 1 ELSE 0)
<1> TAKE steps, x
<1>1. work'[h] = w /\ \A g \in Requests \ {h} : work'[g] = work[g]
  OBVIOUS
<1>2. IsFiniteSet(Holding(steps, x)) /\ Cardinality(Holding(steps, x)) \in Nat
  BY CountsAreNat DEF HowMany
<1>3. Holding(steps, x)' = IF Joins(w, steps, x) THEN Holding(steps, x) \union {h}
                           ELSE Holding(steps, x) \ {h}
  BY <1>1 DEF Holding, Joins
<1>4. /\ Cardinality(Holding(steps, x) \ {h}) =
           IF h \in Holding(steps, x) THEN Cardinality(Holding(steps, x)) - 1 ELSE Cardinality(Holding(steps, x))
      /\ Cardinality(Holding(steps, x) \union {h}) =
           IF h \in Holding(steps, x) THEN Cardinality(Holding(steps, x)) ELSE Cardinality(Holding(steps, x)) + 1
  BY <1>2, FS_AddElement, FS_RemoveElement
<1>5. /\ HowMany(steps, x)' = Cardinality(Holding(steps, x)')
      /\ HowMany(steps, x) = Cardinality(Holding(steps, x))
  BY DEF HowMany
<1>6. CASE Joins(w, steps, x)
  <2>1. HowMany(steps, x)' = Cardinality(Holding(steps, x) \union {h})
    BY <1>3, <1>5, <1>6
  <2> QED BY <1>2, <1>3, <1>4, <1>5, <1>6, <2>1
<1>7. CASE ~Joins(w, steps, x)
  <2>1. HowMany(steps, x)' = Cardinality(Holding(steps, x) \ {h})
    BY <1>3, <1>5, <1>7
  <2> QED BY <1>2, <1>3, <1>4, <1>5, <1>7, <2>1
<1> QED BY <1>6, <1>7

(***************************************************************************)
(* What one step may do                                                    *)
(***************************************************************************)

(* How a request came where it is.                                         *)
Came(h, w) ==
    /\ w.pc = "wrong" => VerifyOtp(h, w.on, "wrong")
    /\ w.pc = "right" => VerifyOtp(h, w.on, "right")
    /\ w.pc = "send" => RequestOtp(h, w.on)
    /\ w.pc = "typed" => CodeLockedUntil(h, w.on)
    /\ w.pc \in HasConsumed => /\ work[h].on = w.on /\ challenge'[w.on].consumed
                               /\ work[h].pc \in Verified
    /\ w.pc = "lock" => RecordCodeFailure(h, w.on)

(* What is noted of a code when it is first consumed stays.                *)
NotedOnce(c) ==
    /\ challenge[c].consumed => /\ challenge'[c].consumed
                                /\ challenge'[c].readers = challenge[c].readers
    /\ ~challenge[c].consumed /\ challenge'[c].consumed =>
          challenge'[c].readers = Cardinality(FoundRight(c))

(* What it wrote.                                                          *)
Wrote(h) ==
    /\ \A c \in Challenges :
          /\ NotedOnce(c)
          /\ challenge'[c].age = challenge[c].age \/ CreateOtpChallenge(h, c)
          /\ challenge'[c].attempts = challenge[c].attempts \/ IncrementOtpAttempts(h, c)
          /\ challenge'[c].sessions = challenge[c].sessions \/ IssueTokens(h, c)
    /\ \A p \in Properties : \/ desk'[p].failures = 0
                             \/ desk'[p].failures = desk[p].failures
                             \/ RecordCodeFailure(h, p)
    /\ \A p \in Properties : desk'[p].locked => desk[p].locked \/ LockCodes(h, p)
    /\ \A p \in Properties : h \in Holding({"lock"}, p) => LockCodes(h, p) \/ deaths' = deaths + 1
    /\ deaths' \in {deaths, deaths + 1}

ChallengeRow == [age : Age, consumed : BOOLEAN, attempts : Nat, sessions : Nat,
                 readers : Nat]
DeskRow == [failures : Nat, locked : BOOLEAN]

(* The shapes of the rows, as the type invariant has them.                 *)
LEMMA Rows == TypeOK => /\ challenge \in [Challenges -> ChallengeRow]
                        /\ desk \in [Properties -> DeskRow] /\ typed \in [Passes -> Nat]
                        /\ work \in [Requests -> Doing]
                        /\ deaths \in Nat
BY GuessesFacts DEF TypeOK, ChallengeRow, DeskRow

(* A request that is at a step with a code or a pass is there, and holds   *)
(* it.                                                                     *)
LEMMA AtFields ==
    /\ \A h, pc, on : At(h, pc, on) => work[h].pc = pc /\ work[h].on = on
    /\ Idle.pc = "idle" /\ Idle \in Doing
BY DEF At, Idle, Doing

(* Steps that leave the codes and the desks alone.                         *)
LEMMA Looks ==
    ASSUME TypeOK, NEW h \in Requests,
           \/ \E p \in Phones : RequestOtp(h, p)
           \/ \E c \in Challenges, pc \in {"wrong", "right"} : VerifyOtp(h, c, pc)
           \/ \E p \in Properties : CodeLockedUntil(h, p)
           \/ \E pass \in Passes : CountAttempt(h, pass)
           \/ Dies(h)
    PROVE  TypeOK' /\ Wrote(h) /\ \E w : work' = [work EXCEPT ![h] = w] /\ Came(h, w)
<1>1. UNCHANGED <<challenge, account, desk>> /\ deaths' \in {deaths, deaths + 1} /\ deaths' \in 0..MaxDeaths
  BY GuessesFacts DEF TypeOK, RequestOtp, VerifyOtp, CodeLockedUntil, CountAttempt, Dies
<1>2. typed' \in [Passes -> Nat]
  BY DEF TypeOK, RequestOtp, VerifyOtp, CodeLockedUntil, CountAttempt, Dies
<1>3. \E w \in Doing : work' = [work EXCEPT ![h] = w] /\ Came(h, w)
  <2>1. ASSUME NEW p \in Phones, RequestOtp(h, p)
        PROVE  \E w \in Doing : work' = [work EXCEPT ![h] = w] /\ Came(h, w)
    <3> DEFINE w == [pc |-> "send", on |-> p]
    <3>1. w \in Doing /\ w.pc = "send" /\ w.on = p
      BY DEF Doing
    <3>2. work' = [work EXCEPT ![h] = w]
      BY <2>1 DEF RequestOtp, Goes
    <3> HIDE DEF w
    <3> QED BY <2>1, <3>1, <3>2 DEF Came, HasConsumed
  <2>2. ASSUME NEW c \in Challenges, NEW pc \in {"wrong", "right"}, VerifyOtp(h, c, pc)
        PROVE  \E w \in Doing : work' = [work EXCEPT ![h] = w] /\ Came(h, w)
    <3> DEFINE w == [pc |-> pc, on |-> c]
    <3>1. w \in Doing /\ w.pc = pc /\ w.on = c
      BY DEF Doing, SignInSteps
    <3>2. work' = [work EXCEPT ![h] = w]
      BY <2>2 DEF VerifyOtp, Goes
    <3> HIDE DEF w
    <3> QED BY <2>2, <3>1, <3>2 DEF Came, HasConsumed
  <2>3. ASSUME NEW p \in Properties, CodeLockedUntil(h, p)
        PROVE  \E w \in Doing : work' = [work EXCEPT ![h] = w] /\ Came(h, w)
    <3> DEFINE w == [pc |-> "typed", on |-> p]
    <3>1. w \in Doing /\ w.pc = "typed" /\ w.on = p
      BY DEF Doing
    <3>2. work' = [work EXCEPT ![h] = w]
      BY <2>3 DEF CodeLockedUntil, Goes
    <3> HIDE DEF w
    <3> QED BY <2>3, <3>1, <3>2 DEF Came, HasConsumed
  <2>4. CASE Dies(h) \/ \E pass \in Passes : CountAttempt(h, pass)
    <3>1. Idle \in Doing /\ Idle.pc = "idle" /\ work' = [work EXCEPT ![h] = Idle]
      BY <2>4 DEF Dies, CountAttempt, Ends, Idle, Doing
    <3> QED BY <3>1 DEF Came, HasConsumed
  <2> QED BY <2>1, <2>2, <2>3, <2>4
<1>4. TypeOK'
  BY <1>1, <1>2, <1>3 DEF TypeOK
<1>5. Wrote(h)
  <2>1. work[h].pc = "lock" => deaths' = deaths + 1
    BY AtFields DEF RequestOtp, VerifyOtp, CodeLockedUntil, CountAttempt, Dies
  <2> QED BY <1>1, <2>1 DEF Wrote, NotedOnce, Holding
<1> QED BY <1>3, <1>4, <1>5

(* Consuming a code changes nothing else of it, and notes its readers the  *)
(* first time.                                                             *)
LEMMA ConsumedRow ==
    ASSUME TypeOK, NEW c \in Challenges
    PROVE  /\ Consumed(c) \in ChallengeRow /\ Consumed(c).consumed
           /\ Consumed(c).age = challenge[c].age /\ Consumed(c).attempts = challenge[c].attempts
           /\ Consumed(c).sessions = challenge[c].sessions
           /\ Consumed(c).readers = IF challenge[c].consumed THEN challenge[c].readers
                                    ELSE Cardinality(FoundRight(c))
<1>1. challenge[c] \in ChallengeRow
  BY Rows
<1>2. Cardinality(FoundRight(c)) \in Nat
  <2>1. IsFiniteSet(FoundRight(c))
    BY GuessesFacts, FS_Subset DEF FoundRight
  <2> QED BY <2>1, FS_CardinalityType
<1> QED BY <1>1, <1>2 DEF Consumed, ChallengeRow

(* Steps of a sign-in that write, on the code itself or on the account.    *)
LEMMA SignsIn ==
    ASSUME TypeOK, NEW h \in Requests, NEW c \in Challenges, SpentOK(c),
           \/ CreateOtpChallenge(h, c) \/ IncrementOtpAttempts(h, c) \/ ConsumeExhausted(h, c)
           \/ ConsumeOtpChallenge(h, c) \/ ConsumeOtherChallenges(h, c)
           \/ FindOrCreateUser(h, c) \/ ClaimUser(h, c) \/ IssueTokens(h, c)
    PROVE  TypeOK' /\ Wrote(h) /\ \E w : work' = [work EXCEPT ![h] = w] /\ Came(h, w)
<1>1. UNCHANGED <<desk, typed, deaths>> /\ work[h].pc # "lock"
  BY AtFields DEF CreateOtpChallenge, IncrementOtpAttempts, ConsumeExhausted, ConsumeOtpChallenge,
     ConsumeOtherChallenges, FindOrCreateUser, ClaimUser, IssueTokens
<1>2. challenge \in [Challenges -> ChallengeRow] /\ work[h] \in Doing /\ PhoneOf[c] \in Phones
  BY Rows, GuessesFacts
<1>3. work[h].pc \in HasConsumed /\ work[h].on = c => challenge[c].consumed
  BY DEF SpentOK, Holding
<1>4. /\ challenge' \in [Challenges -> ChallengeRow]
      /\ \A d \in Challenges :
          /\ NotedOnce(d)
          /\ challenge'[d].age = challenge[d].age \/ CreateOtpChallenge(h, d)
          /\ challenge'[d].attempts = challenge[d].attempts \/ IncrementOtpAttempts(h, d)
          /\ challenge'[d].sessions = challenge[d].sessions \/ IssueTokens(h, d)
  <2>1. CASE FindOrCreateUser(h, c) \/ ClaimUser(h, c)
    BY <1>2, <2>1 DEF FindOrCreateUser, ClaimUser, NotedOnce
  <2>2. CASE CreateOtpChallenge(h, c)
    <3>1. challenge' = [challenge EXCEPT ![c].age = "fresh"]
      BY <2>2 DEF CreateOtpChallenge
    <3> QED BY <1>2, <2>2, <3>1 DEF ChallengeRow, Age, NotedOnce
  <2>3. CASE IncrementOtpAttempts(h, c)
    <3>1. challenge' = [challenge EXCEPT ![c].attempts = @ + 1]
      BY <2>3 DEF IncrementOtpAttempts
    <3> QED BY <1>2, <2>3, <3>1 DEF ChallengeRow, NotedOnce
  <2>4. CASE ConsumeExhausted(h, c) \/ ConsumeOtpChallenge(h, c) \/ ConsumeOtherChallenges(h, c)
    <3>1. /\ challenge' = [d \in Challenges |-> challenge'[d]]
          /\ \A d \in Challenges : challenge'[d] = challenge[d] \/ challenge'[d] = Consumed(d)
      <4>1. CASE ConsumeOtherChallenges(h, c)
        BY <4>1 DEF ConsumeOtherChallenges
      <4>2. CASE ConsumeExhausted(h, c) \/ ConsumeOtpChallenge(h, c)
        <5>1. challenge' = [challenge EXCEPT ![c] = Consumed(c)]
          BY <4>2 DEF ConsumeExhausted, ConsumeOtpChallenge
        <5> QED BY <1>2, <5>1
      <4> QED BY <2>4, <4>1, <4>2
    <3>2. ASSUME NEW d \in Challenges
          PROVE  /\ challenge'[d] \in ChallengeRow /\ NotedOnce(d)
                 /\ challenge'[d].age = challenge[d].age /\ challenge'[d].attempts = challenge[d].attempts
                 /\ challenge'[d].sessions = challenge[d].sessions
      BY <1>2, <3>1, ConsumedRow DEF NotedOnce
    <3> QED BY <3>1, <3>2
  <2>5. CASE IssueTokens(h, c)
    <3>1. challenge' = [challenge EXCEPT ![c].sessions = @ + 1]
      BY <2>5 DEF IssueTokens
    <3> QED BY <1>2, <2>5, <3>1 DEF ChallengeRow, NotedOnce
  <2> QED BY <2>1, <2>2, <2>3, <2>4, <2>5
<1>5. Wrote(h)
  BY <1>1, <1>4 DEF Wrote, Holding
<1>6. account' \in [Phones -> {"NONE", "UNCLAIMED", "ACTIVE", "SUSPENDED"}]
  <2>1. account' \in {account, [account EXCEPT ![PhoneOf[c]] = FoundOrCreated(account[PhoneOf[c]])],
                      [account EXCEPT ![PhoneOf[c]] = "ACTIVE"]}
    BY DEF CreateOtpChallenge, IncrementOtpAttempts, ConsumeExhausted, ConsumeOtpChallenge,
       ConsumeOtherChallenges, FindOrCreateUser, ClaimUser, IssueTokens
  <2> QED BY <1>2, <2>1 DEF TypeOK, FoundOrCreated
<1>7. \E w \in Doing : work' = [work EXCEPT ![h] = w] /\ Came(h, w)
  <2>1. CASE work' = [work EXCEPT ![h] = Idle]
    BY <2>1, AtFields DEF Came, HasConsumed
  <2>2. CASE Goes(h, "exhausted", c)
    <3> DEFINE w == [pc |-> "exhausted", on |-> c]
    <3>1. w \in Doing /\ w.pc = "exhausted"
      BY DEF Doing, SignInSteps
    <3>2. work' = [work EXCEPT ![h] = w]
      BY <2>2 DEF Goes
    <3> HIDE DEF w
    <3> QED BY <3>1, <3>2 DEF Came, HasConsumed
  <2>3. ASSUME NEW pc \in HasConsumed, Goes(h, pc, c), work[h].on = c, work[h].pc \in Verified,
               challenge'[c].consumed
        PROVE  \E w \in Doing : work' = [work EXCEPT ![h] = w] /\ Came(h, w)
    <3> DEFINE w == [pc |-> pc, on |-> c]
    <3>1. w \in Doing /\ w.pc = pc /\ w.on = c
      BY DEF Doing, SignInSteps, HasConsumed
    <3>2. work' = [work EXCEPT ![h] = w]
      BY <2>3 DEF Goes
    <3> HIDE DEF w
    <3> QED BY <2>3, <3>1, <3>2 DEF Came, HasConsumed
  <2>4. CASE ConsumeOtpChallenge(h, c)
    <3>1. challenge'[c].consumed
      <4>1. challenge'[c] = Consumed(c)
        BY <1>2, <2>4 DEF ConsumeOtpChallenge
      <4> QED BY <4>1, ConsumedRow
    <3>2. Goes(h, "others", c) /\ work[h].on = c /\ work[h].pc \in Verified
      BY <2>4, AtFields DEF ConsumeOtpChallenge, Verified
    <3> QED BY <2>3, <3>1, <3>2 DEF HasConsumed
  <2>5. CASE ConsumeOtherChallenges(h, c) \/ FindOrCreateUser(h, c) \/ ClaimUser(h, c)
    <3>1. work[h].on = c /\ work[h].pc \in HasConsumed /\ work[h].pc \in Verified
      BY <2>5, AtFields DEF ConsumeOtherChallenges, FindOrCreateUser, ClaimUser, HasConsumed, Verified
    <3>2. challenge'[c].consumed
      BY <1>3, <1>4, <3>1 DEF NotedOnce
    <3>3. work' = [work EXCEPT ![h] = Idle] \/ \E pc \in HasConsumed : Goes(h, pc, c)
      BY <2>5 DEF ConsumeOtherChallenges, FindOrCreateUser, ClaimUser, Ends, HasConsumed
    <3> QED BY <2>1, <2>3, <3>1, <3>2, <3>3
  <2> QED BY <2>1, <2>2, <2>4, <2>5 DEF CreateOtpChallenge, IncrementOtpAttempts, ConsumeExhausted,
             IssueTokens, Ends
<1>8. TypeOK'
  BY <1>1, <1>4, <1>6, <1>7 DEF TypeOK, ChallengeRow
<1> QED BY <1>5, <1>7, <1>8

(* Steps at the desk that write.                                           *)
LEMMA Types ==
    ASSUME TypeOK, NEW h \in Requests, NEW p \in Properties,
           \/ RecordCodeFailure(h, p) \/ LockCodes(h, p)
           \/ \E pass \in Passes : ClearCodeFailures(h, pass)
    PROVE  TypeOK' /\ Wrote(h) /\ \E w : work' = [work EXCEPT ![h] = w] /\ Came(h, w)
<1>1. UNCHANGED <<challenge, account, typed, deaths>> /\ desk \in [Properties -> DeskRow]
  BY Rows DEF RecordCodeFailure, LockCodes, ClearCodeFailures
<1>2. /\ desk' \in [Properties -> DeskRow]
      /\ \A q \in Properties : \/ desk'[q].failures = 0 \/ desk'[q].failures = desk[q].failures
                               \/ RecordCodeFailure(h, q)
      /\ \A q \in Properties : desk'[q].locked => desk[q].locked \/ LockCodes(h, q)
  <2>1. CASE RecordCodeFailure(h, p)
    <3>1. desk' = [desk EXCEPT ![p].failures = @ + 1]
      BY <2>1 DEF RecordCodeFailure
    <3> QED BY <1>1, <2>1, <3>1 DEF DeskRow
  <2>2. CASE LockCodes(h, p)
    <3>1. desk' = [desk EXCEPT ![p] = [failures |-> 0, locked |-> TRUE]]
      BY <2>2 DEF LockCodes
    <3>2. /\ desk' \in [Properties -> DeskRow] /\ desk'[p].failures = 0
          /\ \A q \in Properties \ {p} : desk'[q] = desk[q]
      BY <1>1, <3>1 DEF DeskRow
    <3> QED BY <2>2, <3>2
  <2>3. ASSUME NEW pass \in Passes, ClearCodeFailures(h, pass)
        PROVE  /\ desk' \in [Properties -> DeskRow]
               /\ \A q \in Properties : desk'[q].failures = 0 \/ desk'[q].failures = desk[q].failures
               /\ \A q \in Properties : desk'[q].locked => desk[q].locked
    <3>1. desk' = [desk EXCEPT ![HomeOf[pass]] = Cleared(desk[HomeOf[pass]])]
      BY <2>3 DEF ClearCodeFailures
    <3>2. HomeOf[pass] \in Properties
      BY GuessesFacts
    <3> QED BY <1>1, <3>1, <3>2 DEF DeskRow, Cleared
  <2> QED BY <2>1, <2>2, <2>3
<1>3. \E w \in Doing : work' = [work EXCEPT ![h] = w] /\ Came(h, w)
  <2>1. CASE work' = [work EXCEPT ![h] = Idle]
    BY <2>1, AtFields DEF Came, HasConsumed
  <2>2. CASE RecordCodeFailure(h, p) /\ Goes(h, "lock", p)
    <3> DEFINE w == [pc |-> "lock", on |-> p]
    <3>1. w \in Doing /\ w.pc = "lock" /\ w.on = p
      BY DEF Doing
    <3>2. work' = [work EXCEPT ![h] = w]
      BY <2>2 DEF Goes
    <3> HIDE DEF w
    <3> QED BY <2>2, <3>1, <3>2 DEF Came, HasConsumed
  <2>3. ASSUME NEW pass \in Passes, ClearCodeFailures(h, pass)
        PROVE  \E w \in Doing : work' = [work EXCEPT ![h] = w] /\ Came(h, w)
    <3> DEFINE w == [pc |-> "count", on |-> pass]
    <3>1. w \in Doing /\ w.pc = "count"
      BY DEF Doing
    <3>2. work' = [work EXCEPT ![h] = w]
      BY <2>3 DEF ClearCodeFailures, Goes
    <3> HIDE DEF w
    <3> QED BY <3>1, <3>2 DEF Came, HasConsumed
  <2> QED BY <2>1, <2>2, <2>3 DEF RecordCodeFailure, LockCodes, Ends
<1>4. TypeOK'
  BY <1>1, <1>2, <1>3 DEF TypeOK, DeskRow
<1>5. Wrote(h)
  <2>1. \A q \in Properties : h \in Holding({"lock"}, q) => LockCodes(h, q)
    <3>1. ASSUME NEW q \in Properties, work[h].pc = "lock", work[h].on = q PROVE LockCodes(h, q)
      BY <3>1, AtFields DEF RecordCodeFailure, LockCodes, ClearCodeFailures
    <3> QED BY <3>1 DEF Holding
  <2> QED BY <1>1, <1>2, <2>1 DEF Wrote, NotedOnce
<1> QED BY <1>3, <1>4, <1>5

(***************************************************************************)
(* The counters                                                            *)
(***************************************************************************)

(* A step of a request keeps what is counted, and what will be, below the  *)
(* limits.                                                                 *)
LEMMA StepOfRequest ==
    ASSUME Inv, NEW h \in Requests, NEW w, work' = [work EXCEPT ![h] = w], Came(h, w), Wrote(h), TypeOK'
    PROVE  Inv'
<1>0. work \in [Requests -> Doing] /\ work' \in [Requests -> Doing]
  BY DEF Inv, TypeOK
<1>1. /\ challenge \in [Challenges -> ChallengeRow] /\ challenge' \in [Challenges -> ChallengeRow]
      /\ desk \in [Properties -> DeskRow] /\ desk' \in [Properties -> DeskRow]
      /\ deaths \in Nat /\ deaths' \in Nat
  BY GuessesFacts DEF Inv, TypeOK, ChallengeRow, DeskRow
<1>m. \A steps, x :
        /\ ~Joins(w, steps, x) => /\ Holding(steps, x)' \subseteq Holding(steps, x)
                                  /\ HowMany(steps, x)' <= HowMany(steps, x)
        /\ h \in Holding(steps, x) =>
             HowMany(steps, x)' = HowMany(steps, x) - (IF Joins(w, steps, x) THEN 0 ELSE 1)
        /\ h \notin Holding(steps, x) =>
             HowMany(steps, x)' = HowMany(steps, x) + (IF Joins(w, steps, x) THEN 1 ELSE 0)
  BY <1>0, OneMoves
<1>2. /\ OtpMaxAttempts \in Nat \ {0} /\ OtpMaxRequests \in Nat \ {0} /\ MaxCodeAttempts \in Nat \ {0}
      /\ Served \in Nat
  BY GuessesFacts, CountsAreNat
<1>3. ASSUME NEW c \in Challenges PROVE AttemptsOK(c)'
  <2> DEFINE n == HowMany({"wrong"}, c)
             m == HowMany({"wrong"}, c)'
             a == challenge[c].attempts
             b == challenge'[c].attempts
  <2>1. n \in Nat /\ m \in Nat /\ m <= Served /\ a \in Nat /\ b \in Nat
    BY <1>1, CountsAreNat, CountsAreNatNext DEF ChallengeRow
  <2>2. a + n < OtpMaxAttempts + Served
    BY DEF Inv, AttemptsOK
  <2>3. CASE Joins(w, {"wrong"}, c)
    <3>1. VerifyOtp(h, c, "wrong")
      BY <2>3 DEF Came, Joins
    <3>2. b = a /\ a < OtpMaxAttempts
      BY <3>1 DEF VerifyOtp, Verifiable
    <3>3. b + m < OtpMaxAttempts + Served
      BY <1>2, <2>1, <3>2
    <3> QED BY <3>3 DEF AttemptsOK
  <2>4. CASE ~Joins(w, {"wrong"}, c)
    <3>1. m <= n /\ (h \in Holding({"wrong"}, c) => m = n - 1)
      BY <2>4, <1>m
    <3>2. CASE IncrementOtpAttempts(h, c)
      <4>1. b = a + 1
        BY <1>1, <3>2 DEF IncrementOtpAttempts, ChallengeRow
      <4>2. h \in Holding({"wrong"}, c)
        BY <3>2, AtFields DEF IncrementOtpAttempts, Holding
      <4>3. b + m < OtpMaxAttempts + Served
        BY <1>2, <2>1, <2>2, <3>1, <4>1, <4>2
      <4> QED BY <4>3 DEF AttemptsOK
    <3>3. CASE b = a
      <4>1. b + m < OtpMaxAttempts + Served
        BY <1>2, <2>1, <2>2, <3>1, <3>3
      <4> QED BY <4>1 DEF AttemptsOK
    <3> QED BY <3>2, <3>3 DEF Wrote
  <2> QED BY <2>3, <2>4
<1>4. ASSUME NEW c \in Challenges PROVE SpentOK(c)'
  <2> DEFINE n == HowMany(Verified, c)
             m == HowMany(Verified, c)'
             a == challenge[c].sessions
             b == challenge'[c].sessions
             r == challenge[c].readers
             s == challenge'[c].readers
  <2>1. n \in Nat /\ m \in Nat /\ a \in Nat /\ b \in Nat /\ r \in Nat /\ s \in Nat
    BY <1>1, CountsAreNat, CountsAreNatNext DEF ChallengeRow
  <2>2. /\ challenge[c].consumed => a + n <= r
        /\ ~challenge[c].consumed => a = 0 /\ Holding(HasConsumed, c) = {}
    BY DEF Inv, SpentOK
  <2>3. /\ NotedOnce(c) /\ (b = a \/ IssueTokens(h, c))
        /\ challenge[c].consumed \in BOOLEAN /\ challenge'[c].consumed \in BOOLEAN
    BY <1>1 DEF Wrote, ChallengeRow
  <2>4. IssueTokens(h, c) => /\ b = a + 1 /\ m = n - 1 /\ challenge[c].consumed
    <3> SUFFICES ASSUME IssueTokens(h, c) PROVE b = a + 1 /\ m = n - 1 /\ challenge[c].consumed
      OBVIOUS
    <3>1. b = a + 1
      BY <1>1 DEF IssueTokens, ChallengeRow
    <3>2. h \in Holding(Verified, c) /\ h \in Holding(HasConsumed, c)
      BY AtFields DEF IssueTokens, Holding, Verified, HasConsumed
    <3>3. ~Joins(w, Verified, c)
      BY <1>0 DEF IssueTokens, Ends, Idle, Joins, Verified
    <3> QED BY <2>2, <3>1, <3>2, <3>3, <1>m
  <2>5. Joins(w, {"right"}, c) => /\ ~challenge[c].consumed /\ challenge' = challenge
    BY DEF Came, Joins, VerifyOtp, Verifiable
  <2>6. Joins(w, HasConsumed, c) => /\ challenge'[c].consumed /\ m = n
    <3> SUFFICES ASSUME Joins(w, HasConsumed, c) PROVE challenge'[c].consumed /\ m = n
      OBVIOUS
    <3>1. /\ h \in Holding(Verified, c) /\ challenge'[c].consumed /\ Joins(w, Verified, c)
      BY DEF Came, Holding, Joins, HasConsumed, Verified
    <3> QED BY <2>1, <3>1, <1>m
  <2>7. /\ ~Joins(w, Verified, c) => m <= n
        /\ Joins(w, Verified, c) => Joins(w, {"right"}, c) \/ Joins(w, HasConsumed, c)
    BY <1>m DEF Joins, Verified, HasConsumed
  <2>8. CASE challenge[c].consumed
    BY <2>1, <2>2, <2>3, <2>4, <2>5, <2>6, <2>7, <2>8 DEF NotedOnce, SpentOK
  <2>9. CASE ~challenge[c].consumed /\ challenge'[c].consumed
    <3>1. n = s
      <4>1. Holding(Verified, c) = FoundRight(c)
        <5>1. \A g \in Requests : work[g].on = c => work[g].pc \notin HasConsumed
          BY <2>2, <2>9 DEF Holding
        <5> QED BY <5>1 DEF Holding, FoundRight, Verified, HasConsumed
      <4> QED BY <2>3, <2>9, <4>1 DEF NotedOnce, HowMany
    <3>2. m <= n /\ b = 0
      BY <2>1, <2>2, <2>3, <2>4, <2>5, <2>6, <2>7, <2>9
    <3> QED BY <2>1, <2>9, <3>1, <3>2 DEF SpentOK
  <2>10. CASE ~challenge'[c].consumed
    <3>1. ~challenge[c].consumed /\ b = 0
      BY <2>2, <2>3, <2>4, <2>10 DEF NotedOnce
    <3>2. Holding(HasConsumed, c)' = {}
      <4>1. ~Joins(w, HasConsumed, c)
        BY <2>6, <2>10
      <4>2. Holding(HasConsumed, c)' \subseteq Holding(HasConsumed, c)
        BY <4>1, <1>m
      <4> QED BY <2>2, <3>1, <4>2
    <3> QED BY <2>10, <3>1, <3>2 DEF SpentOK
  <2> QED BY <2>3, <2>8, <2>9, <2>10
<1>5. ASSUME NEW p \in Phones PROVE SendsOK(p)'
  <2> DEFINE n == HowMany({"send"}, p)
             m == HowMany({"send"}, p)'
             a == Cardinality(Recent(p))
             b == Cardinality(Recent(p))'
  <2>1. /\ n \in Nat /\ m \in Nat /\ m <= Served /\ a \in Nat /\ b \in Nat
        /\ IsFiniteSet(Recent(p)) /\ IsFiniteSet(Recent(p)')
    BY CountsAreNat, CountsAreNatNext
  <2>2. a + n < OtpMaxRequests + Served
    BY DEF Inv, SendsOK
  <2>3. CASE Joins(w, {"send"}, p)
    <3>1. RequestOtp(h, p)
      BY <2>3 DEF Came, Joins
    <3>2. Recent(p)' = Recent(p) /\ a < OtpMaxRequests
      BY <3>1 DEF RequestOtp, Recent, MayRequest
    <3>3. b + m < OtpMaxRequests + Served
      BY <1>2, <2>1, <3>2
    <3> QED BY <3>3 DEF SendsOK
  <2>4. CASE ~Joins(w, {"send"}, p)
    <3>1. m <= n /\ (h \in Holding({"send"}, p) => m = n - 1)
      BY <2>4, <1>m
    <3>2. ASSUME NEW c \in Challenges, PhoneOf[c] = p, CreateOtpChallenge(h, c)
          PROVE  b + m < OtpMaxRequests + Served
      <4>1. Recent(p)' = Recent(p) \union {c}
        <5>1. challenge'[c].age = "fresh" /\ \A d \in Challenges \ {c} : challenge'[d] = challenge[d]
          BY <1>1, <3>2 DEF CreateOtpChallenge, ChallengeRow
        <5> QED BY <3>2, <5>1 DEF Recent
      <4>2. b <= a + 1
        BY <2>1, <4>1, FS_AddElement
      <4>3. h \in Holding({"send"}, p)
        BY <3>2, AtFields DEF CreateOtpChallenge, Holding
      <4> QED BY <1>2, <2>1, <2>2, <3>1, <4>2, <4>3
    <3>3. CASE \A c \in Challenges : PhoneOf[c] = p => ~CreateOtpChallenge(h, c)
      <4>1. b = a
        BY <3>3 DEF Wrote, Recent
      <4>2. b + m < OtpMaxRequests + Served
        BY <1>2, <2>1, <2>2, <3>1, <4>1
      <4> QED BY <4>2 DEF SendsOK
    <3> QED BY <3>2, <3>3 DEF SendsOK
  <2> QED BY <2>3, <2>4
<1>6. ASSUME NEW p \in Properties PROVE FailuresOK(p)'
  <2> DEFINE n == HowMany({"lock"}, p)
             m == HowMany({"lock"}, p)'
             a == desk[p].failures
             b == desk'[p].failures
  <2>1. n \in Nat /\ m \in Nat /\ a \in Nat /\ b \in Nat
    BY <1>1, CountsAreNat, CountsAreNatNext DEF DeskRow
  <2>2. a < MaxCodeAttempts + n + deaths
    BY DEF Inv, FailuresOK
  <2>3. deaths' \in {deaths, deaths + 1}
    BY DEF Wrote
  <2>4. CASE RecordCodeFailure(h, p)
    <3>1. b = a + 1 /\ deaths' = deaths /\ h \notin Holding({"lock"}, p)
      BY <1>1, <2>4, AtFields DEF RecordCodeFailure, DeskRow, Holding
    <3>2. CASE Reaches(a + 1)
      <4>1. w.pc = "lock" /\ w.on = p
        <5>1. work' = [work EXCEPT ![h] = [pc |-> "lock", on |-> p]]
          BY <2>4, <3>2 DEF RecordCodeFailure, Goes
        <5>2. work'[h] = w /\ work'[h] = [pc |-> "lock", on |-> p]
          BY <1>0, <5>1
        <5> QED BY <5>2
      <4>2. m = n + 1
        <5>1. Joins(w, {"lock"}, p)
          BY <4>1 DEF Joins
        <5> QED BY <3>1, <5>1, <1>m
      <4> QED BY <1>1, <1>2, <2>1, <2>2, <3>1, <4>2 DEF FailuresOK
    <3>3. CASE ~Reaches(a + 1)
      BY <1>1, <1>2, <2>1, <3>1, <3>3 DEF FailuresOK, Reaches
    <3> QED BY <3>2, <3>3
  <2>5. CASE b = 0
    BY <1>1, <1>2, <2>1, <2>5 DEF FailuresOK
  <2>6. CASE b = a /\ ~RecordCodeFailure(h, p)
    <3>1. ~Joins(w, {"lock"}, p)
      BY <2>6 DEF Came, Joins
    <3>2. m <= n /\ (h \in Holding({"lock"}, p) => m = n - 1) /\ (h \notin Holding({"lock"}, p) => m = n)
      BY <2>1, <3>1, <1>m
    <3>3. CASE LockCodes(h, p)
      <4>1. b = 0
        BY <1>1, <3>3 DEF LockCodes
      <4> QED BY <2>5, <4>1
    <3>4. CASE h \in Holding({"lock"}, p) /\ deaths' = deaths + 1
      BY <1>1, <1>2, <2>1, <2>2, <2>6, <3>2, <3>4 DEF FailuresOK
    <3>5. CASE h \notin Holding({"lock"}, p)
      BY <1>1, <1>2, <2>1, <2>2, <2>3, <2>6, <3>2, <3>5 DEF FailuresOK
    <3> QED BY <3>3, <3>4, <3>5 DEF Wrote
  <2> QED BY <2>4, <2>5, <2>6 DEF Wrote
<1>7. ASSUME NEW p \in Properties PROVE LockOK(p)'
  <2> DEFINE n == HowMany({"typed"}, p)
             m == HowMany({"typed"}, p)'
             a == desk[p].failures
             b == desk'[p].failures
  <2>1. n \in Nat /\ m \in Nat /\ a \in Nat /\ b \in Nat
    BY <1>1, CountsAreNat, CountsAreNatNext DEF DeskRow
  <2>2. CASE LockCodes(h, p)
    <3>1. b = 0
      BY <1>1, <2>2 DEF LockCodes
    <3>2. m < Served
      <4>1. Holding({"typed"}, p)' \subseteq Requests \ {h}
        BY <1>0, <2>2 DEF LockCodes, Ends, Idle, Holding
      <4>2. Cardinality(Requests \ {h}) = Served - 1 /\ IsFiniteSet(Requests \ {h})
        BY GuessesFacts, FS_RemoveElement DEF Served
      <4>3. Cardinality(Holding({"typed"}, p)') <= Cardinality(Requests \ {h})
        BY <4>1, <4>2, FS_Subset
      <4> QED BY <1>2, <2>1, <4>2, <4>3 DEF HowMany
    <3> QED BY <1>2, <2>1, <3>1, <3>2 DEF LockOK
  <2>3. CASE ~LockCodes(h, p)
    <3> SUFFICES ASSUME desk'[p].locked PROVE b + m < Served
      BY DEF LockOK
    <3>1. desk[p].locked /\ a + n < Served
      BY <2>3 DEF Wrote, Inv, LockOK
    <3>2. ~Joins(w, {"typed"}, p)
      BY <3>1 DEF Came, Joins, CodeLockedUntil
    <3>3. m <= n /\ (h \in Holding({"typed"}, p) => m = n - 1)
      BY <3>2, <1>m
    <3>4. CASE RecordCodeFailure(h, p)
      <4>1. b = a + 1 /\ h \in Holding({"typed"}, p)
        BY <1>1, <3>4, AtFields DEF RecordCodeFailure, DeskRow, Holding
      <4> QED BY <1>2, <2>1, <3>1, <3>3, <4>1
    <3>5. CASE b = 0 \/ b = a
      BY <1>2, <2>1, <3>1, <3>3, <3>5
    <3> QED BY <3>4, <3>5 DEF Wrote
  <2> QED BY <2>2, <2>3
<1> QED BY <1>3, <1>4, <1>5, <1>6, <1>7 DEF Inv

(* What the staff enter and what time does are no request's doing: nothing *)
(* is counted, and what was counted only falls out of the window.          *)
LEMMA StepOfOthers ==
    ASSUME Inv,
           \/ \E p \in Phones : EnteredByStaff(p)
           \/ \E c \in Challenges : Ages(c)
           \/ \E p \in Properties : LockEnds(p)
    PROVE  Inv'
<1>1. /\ challenge \in [Challenges -> ChallengeRow] /\ desk \in [Properties -> DeskRow]
      /\ UNCHANGED <<work, deaths, typed>>
  BY Rows DEF Inv, EnteredByStaff, Ages, LockEnds
<1>2. /\ challenge' \in [Challenges -> ChallengeRow]
      /\ \A c \in Challenges :
          /\ challenge'[c].attempts = challenge[c].attempts
          /\ challenge'[c].sessions = challenge[c].sessions
          /\ challenge'[c].consumed = challenge[c].consumed
          /\ challenge'[c].readers = challenge[c].readers
          /\ challenge'[c].age \in {"fresh", "expired"} => challenge[c].age \in {"fresh", "expired"}
  <2>1. CASE challenge' = challenge
    BY <1>1, <2>1
  <2>2. ASSUME NEW c \in Challenges, Ages(c)
        PROVE  /\ challenge' \in [Challenges -> ChallengeRow]
               /\ \A d \in Challenges :
                   /\ challenge'[d].attempts = challenge[d].attempts
                   /\ challenge'[d].sessions = challenge[d].sessions
                   /\ challenge'[d].consumed = challenge[d].consumed
                   /\ challenge'[d].readers = challenge[d].readers
                   /\ challenge'[d].age \in {"fresh", "expired"} => challenge[d].age \in {"fresh", "expired"}
    <3>1. /\ challenge[c].age \in {"fresh", "expired"}
          /\ challenge' = [challenge EXCEPT ![c].age = IF challenge[c].age = "fresh" THEN "expired" ELSE "old"]
      BY <2>2 DEF Ages
    <3> QED BY <1>1, <3>1 DEF ChallengeRow, Age
  <2> QED BY <2>1, <2>2 DEF EnteredByStaff, LockEnds
<1>3. /\ desk' \in [Properties -> DeskRow]
      /\ \A p \in Properties : /\ desk'[p].failures = desk[p].failures
                               /\ desk'[p].locked => desk[p].locked
  <2>1. CASE desk' = desk
    BY <1>1, <2>1
  <2>2. ASSUME NEW p \in Properties, LockEnds(p)
        PROVE  /\ desk' \in [Properties -> DeskRow]
               /\ \A q \in Properties : /\ desk'[q].failures = desk[q].failures
                                        /\ desk'[q].locked => desk[q].locked
    <3>1. desk' = [desk EXCEPT ![p].locked = FALSE]
      BY <2>2 DEF LockEnds
    <3> QED BY <1>1, <3>1 DEF DeskRow
  <2> QED BY <2>1, <2>2 DEF EnteredByStaff, Ages
<1>4. account' \in [Phones -> {"NONE", "UNCLAIMED", "ACTIVE", "SUSPENDED"}]
  BY DEF Inv, TypeOK, EnteredByStaff, Ages, LockEnds
<1>5. TypeOK'
  BY <1>1, <1>2, <1>3, <1>4 DEF Inv, TypeOK, ChallengeRow, DeskRow
<1>6. \A steps, x : Holding(steps, x)' = Holding(steps, x) /\ HowMany(steps, x)' = HowMany(steps, x)
  BY <1>1 DEF HowMany, Holding
<1>7. \A c \in Challenges : AttemptsOK(c)' /\ SpentOK(c)'
  BY <1>2, <1>6 DEF Inv, AttemptsOK, SpentOK
<1>8. ASSUME NEW p \in Phones PROVE SendsOK(p)'
  <2>1. Recent(p)' \subseteq Recent(p)
    BY <1>2 DEF Recent
  <2>2. Cardinality(Recent(p)') <= Cardinality(Recent(p))
    BY <2>1, CountsAreNat, FS_Subset
  <2>3. /\ Cardinality(Recent(p)) \in Nat /\ Cardinality(Recent(p)') \in Nat
        /\ HowMany({"send"}, p) \in Nat /\ Served \in Nat /\ OtpMaxRequests \in Nat
    BY CountsAreNat, CountsAreNatNext, GuessesFacts
  <2>4. Cardinality(Recent(p)) + HowMany({"send"}, p) < OtpMaxRequests + Served
    BY DEF Inv, SendsOK
  <2>5. Cardinality(Recent(p)') + HowMany({"send"}, p) < OtpMaxRequests + Served
    BY <2>2, <2>3, <2>4
  <2> QED BY <1>6, <2>5 DEF SendsOK
<1>9. \A p \in Properties : FailuresOK(p)' /\ LockOK(p)'
  BY <1>1, <1>3, <1>6 DEF Inv, FailuresOK, LockOK
<1> QED BY <1>5, <1>7, <1>8, <1>9 DEF Inv

(* Nothing is counted before the first request.                            *)
LEMMA InitInv == Init => Inv
<1> SUFFICES ASSUME Init PROVE Inv
  OBVIOUS
<1>1. /\ challenge = [c \in Challenges |-> Unsent] /\ work = [h \in Requests |-> Idle] /\ deaths = 0
      /\ desk = [p \in Properties |-> [failures |-> 0, locked |-> FALSE]]
  BY DEF Init
<1>2. TypeOK
  <2>1. Unsent \in [age : Age, consumed : BOOLEAN, attempts : Nat, sessions : Nat,
                     readers : Nat]
    BY DEF Unsent, Age
  <2>2. deaths \in 0..MaxDeaths
    BY <1>1, GuessesFacts
  <2> QED BY <1>1, <2>1, <2>2, AtFields DEF Init, TypeOK
<1>3. \A steps, x : "idle" \notin steps => Holding(steps, x) = {} /\ HowMany(steps, x) = 0
  BY <1>1, FS_EmptySet DEF Holding, HowMany, Idle
<1>4. /\ \A x : HowMany({"wrong"}, x) = 0 /\ HowMany(Verified, x) = 0 /\ HowMany({"send"}, x) = 0
      /\ \A x : HowMany({"lock"}, x) = 0 /\ HowMany({"typed"}, x) = 0 /\ Holding(HasConsumed, x) = {}
  BY <1>3 DEF Verified, HasConsumed
<1>5. \A p : Recent(p) = {} /\ Cardinality(Recent(p)) = 0
  BY <1>1, FS_EmptySet DEF Recent, Unsent
<1>6. \A c \in Challenges : /\ challenge[c].attempts = 0 /\ challenge[c].sessions = 0
                             /\ ~challenge[c].consumed
  BY <1>1 DEF Unsent
<1>7. \A p \in Properties : desk[p].failures = 0 /\ ~desk[p].locked
  BY <1>1
<1>8. /\ OtpMaxAttempts \in Nat \ {0} /\ OtpMaxRequests \in Nat \ {0} /\ MaxCodeAttempts \in Nat \ {0}
      /\ Served \in Nat
  BY GuessesFacts, CountsAreNat
<1>9. \A c \in Challenges : AttemptsOK(c) /\ SpentOK(c)
  BY <1>4, <1>6, <1>8 DEF AttemptsOK, SpentOK
<1>10. \A p \in Phones : SendsOK(p)
  BY <1>4, <1>5, <1>8 DEF SendsOK
<1>11. \A p \in Properties : FailuresOK(p) /\ LockOK(p)
  BY <1>1, <1>4, <1>7, <1>8 DEF FailuresOK, LockOK
<1> QED BY <1>2, <1>9, <1>10, <1>11 DEF Inv

(* Every step of the specification keeps Inv.                              *)
LEMMA StepKeepsInv == Inv /\ [Next]_vars => Inv'
<1> SUFFICES ASSUME Inv, [Next]_vars PROVE Inv'
  OBVIOUS
<1>1. TypeOK /\ \A c \in Challenges : SpentOK(c)
  BY DEF Inv
<1>2. ASSUME NEW h \in Requests, SignIn(h) PROVE Inv'
  <2>1. TypeOK' /\ Wrote(h) /\ \E w : work' = [work EXCEPT ![h] = w] /\ Came(h, w)
    <3>1. CASE \/ \E p \in Phones : RequestOtp(h, p)
               \/ \E c \in Challenges, pc \in {"wrong", "right"} : VerifyOtp(h, c, pc)
      BY <1>1, <3>1, Looks
    <3>2. ASSUME NEW c \in Challenges,
                 \/ CreateOtpChallenge(h, c) \/ IncrementOtpAttempts(h, c) \/ ConsumeExhausted(h, c)
                 \/ ConsumeOtpChallenge(h, c) \/ ConsumeOtherChallenges(h, c)
                 \/ FindOrCreateUser(h, c) \/ ClaimUser(h, c) \/ IssueTokens(h, c)
          PROVE  TypeOK' /\ Wrote(h) /\ \E w : work' = [work EXCEPT ![h] = w] /\ Came(h, w)
      BY <1>1, <3>2, SignsIn
    <3> QED BY <1>2, <3>1, <3>2 DEF SignIn
  <2> QED BY <2>1, StepOfRequest
<1>3. ASSUME NEW h \in Requests, Desk(h) PROVE Inv'
  <2>1. TypeOK' /\ Wrote(h) /\ \E w : work' = [work EXCEPT ![h] = w] /\ Came(h, w)
    <3>1. CASE \/ \E p \in Properties : CodeLockedUntil(h, p)
               \/ \E pass \in Passes : CountAttempt(h, pass)
      BY <1>1, <3>1, Looks
    <3>2. ASSUME NEW p \in Properties, RecordCodeFailure(h, p) \/ LockCodes(h, p)
          PROVE  TypeOK' /\ Wrote(h) /\ \E w : work' = [work EXCEPT ![h] = w] /\ Came(h, w)
      BY <1>1, <3>2, Types
    <3>3. ASSUME NEW pass \in Passes, ClearCodeFailures(h, pass)
          PROVE  TypeOK' /\ Wrote(h) /\ \E w : work' = [work EXCEPT ![h] = w] /\ Came(h, w)
      <4>1. HomeOf[pass] \in Properties
        BY GuessesFacts
      <4> QED BY <1>1, <3>3, <4>1, Types
    <3> QED BY <1>3, <3>1, <3>2, <3>3 DEF Desk
  <2> QED BY <2>1, StepOfRequest
<1>4. ASSUME NEW h \in Requests, Dies(h) PROVE Inv'
  <2>1. TypeOK' /\ Wrote(h) /\ \E w : work' = [work EXCEPT ![h] = w] /\ Came(h, w)
    BY <1>1, <1>4, Looks
  <2> QED BY <2>1, StepOfRequest
<1>5. CASE UNCHANGED vars
  <2>1. \A steps, x : Holding(steps, x)' = Holding(steps, x) /\ HowMany(steps, x)' = HowMany(steps, x)
    BY <1>5 DEF vars, Holding, HowMany
  <2>2. \A p : Recent(p)' = Recent(p)
    BY <1>5 DEF vars, Recent
  <2>3. TypeOK'
    BY <1>1, <1>5 DEF vars, TypeOK
  <2>4. \A c \in Challenges : AttemptsOK(c)' /\ SpentOK(c)'
    BY <1>5, <2>1 DEF Inv, vars, AttemptsOK, SpentOK
  <2>5. \A p \in Phones : SendsOK(p)'
    BY <2>1, <2>2 DEF Inv, SendsOK
  <2>6. \A p \in Properties : FailuresOK(p)' /\ LockOK(p)'
    BY <1>5, <2>1 DEF Inv, vars, FailuresOK, LockOK
  <2> QED BY <2>3, <2>4, <2>5, <2>6 DEF Inv
<1> QED BY <1>2, <1>3, <1>4, <1>5, StepOfOthers DEF Next

(***************************************************************************)
(* Theorems                                                                *)
(***************************************************************************)

(* What is counted and what is about to be stays within each limit and the *)
(* requests the API serves, always.                                        *)
THEOREM InvHolds == Spec => []Inv
<1> QED BY InitInv, StepKeepsInv, PTL DEF Spec

(* Rows and requests always have the shape the schema and the handlers     *)
(* give them.                                                              *)
THEOREM TypeCorrect == Spec => []TypeOK
<1>1. Inv => TypeOK
  BY DEF Inv
<1> QED BY <1>1, InvHolds, PTL

(* However many requests check a counter before any of them moves it, each *)
(* limit is passed by the requests served at a time and no more, and the   *)
(* desk's by one more for each process that died before it set the lock.   *)
THEOREM LimitsAreExceededByThoseInFlight == Spec => []LimitsAreKept
<1>1. Inv => LimitsAreKept
  <2> SUFFICES ASSUME Inv PROVE LimitsAreKept
    OBVIOUS
  <2>1. /\ challenge \in [Challenges -> ChallengeRow] /\ desk \in [Properties -> DeskRow]
        /\ deaths \in Nat
    BY Rows DEF Inv
  <2>2. /\ OtpMaxAttempts \in Nat /\ OtpMaxRequests \in Nat /\ MaxCodeAttempts \in Nat /\ Served \in Nat
    BY GuessesFacts, CountsAreNat
  <2>3. ASSUME NEW c \in Challenges PROVE challenge[c].attempts < OtpMaxAttempts + Served
    <3>1. /\ HowMany({"wrong"}, c) \in Nat /\ challenge[c].attempts \in Nat
          /\ challenge[c].attempts + HowMany({"wrong"}, c) < OtpMaxAttempts + Served
      BY <2>1, CountsAreNat DEF Inv, AttemptsOK, ChallengeRow
    <3> QED BY <2>2, <3>1
  <2>4. ASSUME NEW p \in Phones PROVE Cardinality(Recent(p)) < OtpMaxRequests + Served
    <3>1. /\ HowMany({"send"}, p) \in Nat /\ Cardinality(Recent(p)) \in Nat
          /\ Cardinality(Recent(p)) + HowMany({"send"}, p) < OtpMaxRequests + Served
      BY CountsAreNat DEF Inv, SendsOK
    <3> QED BY <2>2, <3>1
  <2>5. ASSUME NEW p \in Properties PROVE desk[p].failures < MaxCodeAttempts + Served + deaths
    <3>1. /\ HowMany({"lock"}, p) \in Nat /\ HowMany({"lock"}, p) <= Served /\ desk[p].failures \in Nat
          /\ desk[p].failures < MaxCodeAttempts + HowMany({"lock"}, p) + deaths
      BY <2>1, CountsAreNat DEF Inv, FailuresOK, DeskRow
    <3> QED BY <2>1, <2>2, <3>1
  <2> QED BY <2>3, <2>4, <2>5 DEF LimitsAreKept
<1> QED BY <1>1, InvHolds, PTL

(* A one-time code signs in those who had judged it right when it was      *)
(* first consumed and nobody else, whatever consumes it again.             *)
THEOREM CodeIsOneTime == Spec => []CodeIsSpent
<1>1. Inv => CodeIsSpent
  <2> SUFFICES ASSUME Inv, NEW c \in Challenges
               PROVE  /\ challenge[c].sessions <= challenge[c].readers
                      /\ challenge[c].sessions > 0 => challenge[c].consumed
    BY DEF CodeIsSpent
  <2>1. /\ challenge[c].sessions \in Nat /\ challenge[c].readers \in Nat
        /\ HowMany(Verified, c) \in Nat
    BY Rows, CountsAreNat DEF Inv, ChallengeRow
  <2>2. SpentOK(c)
    BY DEF Inv
  <2> QED BY <2>1, <2>2 DEF SpentOK
<1> QED BY <1>1, InvHolds, PTL

(* While typing is locked at a building, no wrong code is counted there    *)
(* but of requests that were past the check when the lock was set.         *)
THEOREM LockHolds == Spec => []LockStopsGuessing
<1>1. Inv => LockStopsGuessing
  <2> SUFFICES ASSUME Inv, NEW p \in Properties, desk[p].locked
               PROVE  desk[p].failures < Served
    BY DEF LockStopsGuessing
  <2>1. /\ desk[p].failures \in Nat /\ HowMany({"typed"}, p) \in Nat /\ Served \in Nat
    BY Rows, CountsAreNat DEF Inv, DeskRow
  <2>2. desk[p].failures + HowMany({"typed"}, p) < Served
    BY DEF Inv, LockOK
  <2> QED BY <2>1, <2>2
<1> QED BY <1>1, InvHolds, PTL

=============================================================================
