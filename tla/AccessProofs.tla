----------------------------- MODULE AccessProofs -----------------------------
(***************************************************************************)
(* Theorems about Access, for any number of people, sessions and requests: *)
(* the rotation of refresh tokens has one winner, a sign-in that has ended *)
(* stays ended, and the last owner goes only where LastOwnerIsKept allows  *)
(* it.                                                                     *)
(***************************************************************************)
EXTENDS Access, FiniteSetTheorems, TLAPS

(* What is issued belongs to somebody, and the first of its family was     *)
(* issued before it.                                                       *)
Families ==
    \A s \in Sessions : Issued(s) => /\ session[s].user \in Users
                                     /\ FamilyOf(s) \in Sessions /\ Issued(FamilyOf(s))

SessionsInv == Families /\ OneLiveSessionPerFamily

(* Taking u away, from the owners or from the members, leaves an owner or  *)
(* takes none.                                                             *)
OwnersAfter(u) == u \in ActiveOwners => ActiveOwners \ {u} # {}

(* Only a request that is about to write is noted as overtaken, and one    *)
(* that is not may take its owner away.                                    *)
Counted ==
    \A h \in Requests :
        At(h, "write") /\ h \notin overtaken /\ EndsOwnership(work[h].change)
        => OwnersAfter(work[h].change.on)

MembersInv == Counted /\ \A h \in overtaken : At(h, "write")

Inv == TypeOK /\ SessionsInv /\ MembersInv

(* What is assumed of the organisation, its scopes and its platform staff. *)
LEMMA AccessFacts ==
    /\ Owners0 \subseteq Users /\ IsFiniteSet(Users) /\ Scopes \subseteq SUBSET Properties
    /\ PlatformRole \in [Users -> {"NONE", "SUPPORT", "SUPER_ADMIN"}]
    /\ None \notin Users /\ None \notin Sessions /\ None \notin Properties
BY AccessOK DEF AccessAssumption

(***************************************************************************)
(* Types                                                                   *)
(***************************************************************************)

HasToken(w) == w.pc \in {"claim", "reuse", "issue", "logout", "member"}

Shape(w) == /\ w \in Work
            /\ HasToken(w) => w.s # None /\ Issued(w.s)
            /\ w.pc \in {"count", "write"} => w.change \in Changes

TablesOK ==
    /\ session \in [Sessions -> SessionRow]
    /\ member \in [Users -> MemberRow]
    /\ overtaken \subseteq Requests /\ changes \in 0..MaxChanges

(* No session is taken back or changes hands.                              *)
SessionsStay ==
    \A s \in Sessions : Issued(s) => /\ session'[s].user = session[s].user
                                     /\ session'[s].family = session[s].family

(* The type invariant speaks of the tables and, apart from them, of each   *)
(* request.                                                                *)
LEMMA TypeParts ==
    TypeOK <=> TablesOK /\ work \in [Requests -> Work] /\ \A h \in Requests : Shape(work[h])
BY DEF TypeOK, TablesOK, Shape, HasToken, At

(* A request that serves nobody has the shape of one, and names no         *)
(* session.                                                                *)
LEMMA IdleIsWork == Idle \in Work /\ Idle.pc = "idle" /\ Nobody \in ActorRow /\ Shape(Idle)
BY DEF Idle, Work, Steps, Nobody, ActorRow, Shape, HasToken

(* A step of a request has the right types if its tables and the request   *)
(* have.                                                                   *)
LEMMA RequestStep ==
    ASSUME TypeOK, NEW h \in Requests, NEW w \in Work, Goes(h, w), TablesOK', SessionsStay,
           HasToken(w) => w.s # None /\ Issued(w.s),
           w.pc \in {"count", "write"} => w.change \in Changes
    PROVE  /\ TypeOK'
           /\ work'[h] = w /\ \A g \in Requests \ {h} : work'[g] = work[g]
<1>1. /\ work' \in [Requests -> Work] /\ work'[h] = w
      /\ \A g \in Requests \ {h} : work'[g] = work[g]
  BY DEF TypeOK, Goes
<1>2. ASSUME NEW s \in Sessions \union {None}, s # None, Issued(s) PROVE Issued(s)'
  BY <1>2 DEF SessionsStay, Issued
<1>3. ASSUME NEW g \in Requests PROVE Shape(work[g])'
  <2>1. Shape(work[g]) /\ work[g] \in Work
    BY TypeParts
  <2>2. CASE g = h
    BY <1>1, <1>2, <2>2 DEF Shape, HasToken, Work, Issued
  <2>3. CASE g # h
    BY <1>1, <1>2, <2>1, <2>3 DEF Shape, HasToken, Work, Issued
  <2> QED BY <2>2, <2>3
<1>4. TypeOK'
  BY <1>1, <1>3 DEF TypeOK, TablesOK, Shape, HasToken, At
<1> QED BY <1>1, <1>4

(***************************************************************************)
(* Initially                                                               *)
(***************************************************************************)

(* Before the first sign-in every part of the invariant holds.             *)
LEMMA InitInv == Init => Inv
<1> SUFFICES ASSUME Init PROVE Inv
  OBVIOUS
<1>1. TypeOK
  <2>1. session \in [Sessions -> SessionRow]
    BY DEF Init, SessionRow
  <2>2. member \in [Users -> MemberRow]
    BY AccessFacts DEF Init, MemberRow, Roles, NoMember
  <2>3. \A h \in Requests : work[h] = Idle
    BY DEF Init
  <2>4. work \in [Requests -> Work]
    BY IdleIsWork DEF Init
  <2>5. overtaken \subseteq Requests /\ changes \in 0..MaxChanges
    BY AccessOK DEF Init, AccessAssumption
  <2> QED BY <2>1, <2>2, <2>3, <2>4, <2>5, IdleIsWork DEF TypeOK, At
<1>2. SessionsInv
  BY AccessFacts, IdleIsWork DEF Init, SessionsInv, Families, OneLiveSessionPerFamily, Issued,
     Unissued, Issuing, At
<1>3. MembersInv
  BY IdleIsWork DEF Init, MembersInv, Counted, At
<1> QED BY <1>1, <1>2, <1>3 DEF Inv

(***************************************************************************)
(* Sessions                                                                *)
(***************************************************************************)

(* Sessions are revoked, if anything.                                      *)
Dims ==
    \A s \in Sessions : /\ session'[s].user = session[s].user
                        /\ session'[s].family = session[s].family
                        /\ session'[s].live => session[s].live

(* A step of h that at most revokes sessions, and wins no rotation.        *)
Quiet(h) ==
    Dims /\ work'[h].pc # "issue" /\ \A g \in Requests \ {h} : work'[g] = work[g]

(* Where sessions are at most revoked and no request wins a rotation, one  *)
(* live session per family stays one.                                      *)
LEMMA RevokingIsSafe ==
    ASSUME TypeOK, SessionsInv, Dims, NEW h \in Requests, work'[h].pc # "issue",
           \A g \in Requests \ {h} : work'[g] = work[g]
    PROVE  SessionsInv'
<1>1. \A s \in Sessions : /\ Issued(s)' <=> Issued(s)
                          /\ FamilyOf(s)' = FamilyOf(s) /\ session'[s].user = session[s].user
  BY DEF Dims, Issued, FamilyOf
<1>2. Families'
  <2> SUFFICES ASSUME NEW s \in Sessions, Issued(s)'
               PROVE  /\ session'[s].user \in Users
                      /\ FamilyOf(s)' \in Sessions /\ Issued(FamilyOf(s))'
    BY DEF Families
  <2>1. session[s].user \in Users /\ FamilyOf(s) \in Sessions /\ Issued(FamilyOf(s))
    BY <1>1 DEF SessionsInv, Families
  <2>2. session'[FamilyOf(s)].user = session[FamilyOf(s)].user
    BY <1>1, <2>1
  <2> QED BY <1>1, <2>1, <2>2 DEF Issued, FamilyOf
<1>3. ASSUME NEW g \in Requests, NEW s \in Sessions, Issued(s)', Issuing(g, FamilyOf(s))'
      PROVE  Issuing(g, FamilyOf(s)) /\ Issued(s)
  <2>1. g # h /\ work'[g] = work[g] /\ work[g].pc = "issue"
    BY <1>3 DEF Issuing, At
  <2>2. work[g].s \in Sessions
    BY <2>1 DEF TypeOK, Work
  <2> QED BY <1>1, <1>3, <2>1, <2>2 DEF Issuing, At, FamilyOf
<1>4. ASSUME NEW s \in Sessions, session'[s].live PROVE session[s].live /\ Issued(s)'
  BY <1>4, <1>1, AccessFacts DEF Dims, TypeOK, SessionRow, Unissued, Issued
<1>5. OneLiveSessionPerFamily'
  BY <1>1, <1>3, <1>4 DEF SessionsInv, OneLiveSessionPerFamily, FamilyOf
<1> QED BY <1>2, <1>5 DEF SessionsInv

(* tryRevokeLiveSession: the one request that finds the session live goes  *)
(* on to issue the next.                                                   *)
LEMMA ClaimIsSafe ==
    ASSUME Inv, NEW h \in Requests, TryRevokeLiveSession(h), TypeOK',
           \A g \in Requests \ {h} : work'[g] = work[g]
    PROVE  SessionsInv'
<1> DEFINE t == work[h].s
<1>1. TypeOK /\ SessionsInv
  BY DEF Inv
<1>2. /\ t \in Sessions /\ Issued(t) /\ session \in [Sessions -> SessionRow]
      /\ session' = [session EXCEPT ![t].live = FALSE]
      /\ At(h, "claim")
  BY <1>1 DEF TryRevokeLiveSession, At, TypeOK, Work
<1>3. Dims /\ ~session'[t].live
  BY <1>2 DEF Dims, SessionRow, Unissued, Issued
<1>4. CASE ~session[t].live
  <2>1. work'[h].pc # "issue"
    BY <1>1, <1>4 DEF TryRevokeLiveSession, Goes, Claims, TypeOK, Work
  <2> QED BY <1>1, <1>3, <2>1, RevokingIsSafe
<1>5. CASE session[t].live
  <2>1. /\ work'[h].s = t
        /\ \A g \in Requests \ {h} : work'[g] = work[g]
    BY <1>1 DEF TryRevokeLiveSession, Goes, TypeOK, Work
  <2>2. \A s \in Sessions : /\ Issued(s)' <=> Issued(s)
                            /\ FamilyOf(s)' = FamilyOf(s) /\ session'[s].user = session[s].user
    BY <1>3 DEF Dims, Issued, FamilyOf
  <2>3. \A s \in Sessions : Issued(s) => session[s].user \in Users /\ FamilyOf(s) \in Sessions /\ Issued(FamilyOf(s))
    BY <1>1 DEF SessionsInv, Families
  <2>4. Families'
    BY <2>2, <2>3 DEF Families
  <2>5. \A s \in Sessions : FamilyOf(s) = FamilyOf(t) => ~session'[s].live
    BY <1>1, <1>2, <1>3, <1>5 DEF SessionsInv, OneLiveSessionPerFamily, Dims
  <2>6. \A g \in Requests : ~Issuing(g, FamilyOf(t))
    BY <1>1, <1>2, <1>5 DEF SessionsInv, OneLiveSessionPerFamily
  <2>7. ASSUME NEW g \in Requests, NEW s \in Sessions, Issued(s), Issuing(g, FamilyOf(s))'
        PROVE  IF g = h THEN FamilyOf(s) = FamilyOf(t) ELSE Issuing(g, FamilyOf(s))
    <3>1. work'[g].pc = "issue" /\ FamilyOf(work[g].s)' = FamilyOf(s)'
      BY <2>7 DEF Issuing, At
    <3>2. CASE g = h
      BY <1>2, <2>1, <2>2, <3>1, <3>2 DEF FamilyOf
    <3>3. CASE g # h
      <4>1. work'[g] = work[g] /\ work[g].s \in Sessions
        BY <1>1, <2>1, <3>1, <3>3 DEF TypeOK, Work, At
      <4> QED BY <2>2, <3>1, <3>3, <4>1 DEF Issuing, At, FamilyOf
    <3> QED BY <3>2, <3>3
  <2>8. \A s \in Sessions : session'[s].live => session[s].live /\ Issued(s)
    BY <1>1, <1>3, AccessFacts DEF Dims, TypeOK, SessionRow, Unissued, Issued
  <2>9. OneLiveSessionPerFamily'
    <3>1. \A s, r \in Sessions :
              session'[s].live /\ session'[r].live /\ FamilyOf(s)' = FamilyOf(r)' => s = r
      BY <1>1, <2>2, <2>8 DEF SessionsInv, OneLiveSessionPerFamily
    <3>2. ASSUME NEW g \in Requests, NEW s \in Sessions, session'[s].live, Issuing(g, FamilyOf(s))'
          PROVE  FALSE
      BY <1>1, <2>5, <2>7, <2>8, <3>2 DEF SessionsInv, OneLiveSessionPerFamily
    <3>3. ASSUME NEW f \in Requests, NEW g \in Requests, NEW s \in Sessions, Issued(s)',
                 Issuing(f, FamilyOf(s))', Issuing(g, FamilyOf(s))'
          PROVE  f = g
      <4>1. /\ IF f = h THEN FamilyOf(s) = FamilyOf(t) ELSE Issuing(f, FamilyOf(s))
            /\ IF g = h THEN FamilyOf(s) = FamilyOf(t) ELSE Issuing(g, FamilyOf(s))
            /\ Issued(s)
        BY <2>2, <2>7, <3>3
      <4> QED BY <1>1, <2>6, <4>1 DEF SessionsInv, OneLiveSessionPerFamily
    <3> QED BY <3>1, <3>2, <3>3 DEF OneLiveSessionPerFamily
  <2> QED BY <2>4, <2>9 DEF SessionsInv
<1> QED BY <1>4, <1>5

(* A new session, of a family that has no live one and that no other       *)
(* request is issuing for.                                                 *)
LEMMA CreatingIsSafe ==
    ASSUME TypeOK, SessionsInv, TypeOK', NEW s \in Sessions, ~Issued(s), NEW u \in Users, NEW f \in Sessions,
           Created(s, u, f), f = s \/ Issued(f),
           \A r \in Sessions : session[r].live => FamilyOf(r) # f,
           \A g \in Requests : At(g, "issue")' => work'[g] = work[g] /\ ~Issuing(g, f)
    PROVE  SessionsInv'
<1>1. /\ session'[s].user = u /\ session'[s].family = f /\ session'[s].live
      /\ \A r \in Sessions \ {s} : session'[r] = session[r]
  BY DEF Created, TypeOK
<1>2. \A r \in Sessions : Issued(r)' <=> Issued(r) \/ r = s
  BY <1>1, AccessFacts DEF Issued
<1>3. \A r \in Sessions : Issued(r) => r # s /\ FamilyOf(r)' = FamilyOf(r) /\ session'[r] = session[r]
  BY <1>1 DEF FamilyOf
<1>4. \A r \in Sessions : Issued(r) => session[r].user \in Users /\ FamilyOf(r) \in Sessions /\ Issued(FamilyOf(r))
  BY DEF SessionsInv, Families
<1>5. Families'
  <2> SUFFICES ASSUME NEW r \in Sessions, Issued(r)'
               PROVE  /\ session'[r].user \in Users
                      /\ FamilyOf(r)' \in Sessions /\ Issued(FamilyOf(r))'
    BY DEF Families
  <2>1. CASE r = s
    <3>1. FamilyOf(r)' = f /\ Issued(f)'
      BY <1>1, <1>2, <2>1 DEF FamilyOf
    <3> QED BY <1>1, <2>1, <3>1 DEF Issued, FamilyOf
  <2>2. CASE r # s
    <3>1. Issued(r) /\ session'[r] = session[r] /\ FamilyOf(r) \in Sessions /\ Issued(FamilyOf(r))
      BY <1>2, <1>3, <1>4, <2>2
    <3>2. Issued(FamilyOf(r))' /\ FamilyOf(r)' = FamilyOf(r)
      BY <1>2, <1>3, <3>1 DEF Issued, FamilyOf
    <3> QED BY <1>4, <3>1, <3>2
  <2> QED BY <2>1, <2>2
<1>6. ASSUME NEW g \in Requests, NEW r \in Sessions, Issued(r)', Issuing(g, FamilyOf(r))'
      PROVE  Issued(r) /\ Issuing(g, FamilyOf(r)) /\ FamilyOf(r) # f
  <2>1. work'[g] = work[g] /\ ~Issuing(g, f) /\ work[g].pc = "issue" /\ FamilyOf(work[g].s)' = FamilyOf(r)'
    BY <1>6 DEF Issuing, At
  <2>2. work[g].s \in Sessions /\ Issued(work[g].s)
    BY <2>1 DEF TypeOK, Work, At
  <2>3. FamilyOf(work[g].s)' = FamilyOf(work[g].s) /\ FamilyOf(work[g].s) # f
    BY <1>3, <2>1, <2>2 DEF FamilyOf, Issuing, At
  <2>4. FamilyOf(r)' # f
    BY <2>1, <2>3
  <2>5. r # s
    BY <1>1, <2>4 DEF FamilyOf
  <2> QED BY <1>2, <1>3, <1>6, <2>1, <2>3, <2>5 DEF Issuing, At
<1>7. \A r \in Sessions : session[r].live => Issued(r)
  BY AccessFacts DEF TypeOK, SessionRow, Unissued, Issued
<1>8. OneLiveSessionPerFamily'
  <2>1. ASSUME NEW q \in Sessions, NEW r \in Sessions,
               session'[q].live, session'[r].live, FamilyOf(q)' = FamilyOf(r)'
        PROVE  q = r
    <3>1. \A x \in Sessions \ {s} : session'[x].live => session[x].live /\ FamilyOf(x)' = FamilyOf(x) /\ FamilyOf(x) # f
      BY <1>1, <1>3, <1>7
    <3>2. FamilyOf(s)' = f
      BY <1>1 DEF FamilyOf
    <3> QED BY <2>1, <3>1, <3>2 DEF SessionsInv, OneLiveSessionPerFamily
  <2>2. ASSUME NEW g \in Requests, NEW r \in Sessions, session'[r].live, Issuing(g, FamilyOf(r))'
        PROVE  FALSE
    <3>1. Issued(r)'
      BY <1>1, <1>2, <1>7, <2>2
    <3>2. Issued(r) /\ Issuing(g, FamilyOf(r))
      BY <1>6, <2>2, <3>1
    <3>3. session[r].live
      BY <1>3, <2>2, <3>2
    <3> QED BY <3>2, <3>3 DEF SessionsInv, OneLiveSessionPerFamily
  <2>3. ASSUME NEW e \in Requests, NEW g \in Requests, NEW r \in Sessions, Issued(r)',
               Issuing(e, FamilyOf(r))', Issuing(g, FamilyOf(r))'
        PROVE  e = g
    BY <1>6, <2>3 DEF SessionsInv, OneLiveSessionPerFamily
  <2> QED BY <2>1, <2>2, <2>3 DEF OneLiveSessionPerFamily
<1> QED BY <1>5, <1>8 DEF SessionsInv

(***************************************************************************)
(* Members                                                                 *)
(***************************************************************************)

(* While the members stay as they are, what other requests decided is as   *)
(* good as it was.                                                         *)
LEMMA ReadingIsSafe ==
    ASSUME TypeOK, MembersInv, NEW h \in Requests, UNCHANGED member,
           \A g \in Requests \ {h} : work'[g] = work[g],
           overtaken' = overtaken \ {h},
           At(h, "write")' /\ EndsOwnership(work'[h].change) => OwnersAfter(work'[h].change.on)
    PROVE  MembersInv'
<1>1. ActiveOwners' = ActiveOwners
  BY DEF ActiveOwners
<1>2. ASSUME NEW g \in Requests, At(g, "write")', g \notin overtaken', EndsOwnership(work'[g].change)
      PROVE  OwnersAfter(work[g].change.on)'
  <2>1. CASE g = h
    <3>1. OwnersAfter(work'[g].change.on)
      BY <1>2, <2>1
    <3> QED BY <1>1, <3>1 DEF OwnersAfter
  <2>2. CASE g # h
    <3>1. work'[g] = work[g] /\ At(g, "write") /\ g \notin overtaken
      BY <1>2, <2>2 DEF At
    <3>2. OwnersAfter(work[g].change.on)
      BY <1>2, <3>1 DEF MembersInv, Counted
    <3> QED BY <1>1, <3>1, <3>2 DEF OwnersAfter
  <2> QED BY <2>1, <2>2
<1>3. \A g \in overtaken' : At(g, "write")'
  BY DEF MembersInv, At, TypeOK
<1> QED BY <1>2, <1>3 DEF MembersInv, Counted, EndsOwnership

(* A write is noted with every request whose decision it overtakes.        *)
LEMMA WritingIsSafe ==
    ASSUME TypeOK, MembersInv, NEW h \in Requests, Written(h)
    PROVE  MembersInv' /\ work'[h] = Idle /\ \A g \in Requests \ {h} : work'[g] = work[g]
<1>1. /\ overtaken' = {g \in Requests \ {h} : At(g, "write") /\ (g \in overtaken \/ Overtakes(g))}
      /\ work'[h] = Idle /\ \A g \in Requests \ {h} : work'[g] = work[g]
  BY DEF Written, Ends, Goes, TypeOK
<1>2. ASSUME NEW g \in Requests, At(g, "write")', g \notin overtaken', EndsOwnership(work'[g].change)
      PROVE  OwnersAfter(work[g].change.on)'
  <2>1. g # h /\ work'[g] = work[g] /\ At(g, "write") /\ g \notin overtaken /\ ~Overtakes(g)
    BY <1>1, <1>2, IdleIsWork DEF At
  <2> DEFINE u == work[g].change.on
  <2>2. OwnersAfter(u)
    BY <1>2, <2>1 DEF MembersInv, Counted
  <2>3. ActiveOwners \subseteq ActiveOwners' /\ (u \in ActiveOwners' => u \in ActiveOwners)
    BY <2>1 DEF Overtakes
  <2>4. u \in ActiveOwners' => ActiveOwners' \ {u} # {}
    BY <2>2, <2>3 DEF OwnersAfter
  <2> QED BY <2>1, <2>4 DEF OwnersAfter
<1>3. \A g \in overtaken' : At(g, "write")'
  BY <1>1 DEF At
<1> QED BY <1>1, <1>2, <1>3 DEF MembersInv, Counted, EndsOwnership

(* The owners can be counted: there are finitely many users.               *)
LEMMA CountIsNat == IsFiniteSet(ActiveOwners) /\ CountActiveOwners \in Nat
<1>1. IsFiniteSet(ActiveOwners)
  BY AccessFacts, FS_Subset DEF ActiveOwners
<1> QED BY <1>1, FS_CardinalityType DEF CountActiveOwners

(* A session that is live has been issued.                                 *)
LEMMA LiveIsIssued == ASSUME TypeOK, NEW s \in Sessions, session[s].live PROVE Issued(s)
BY AccessFacts DEF TypeOK, SessionRow, Unissued, Issued

(* An organisation with two owners, of which one goes, has one left.       *)
LEMMA OneIsLeft ==
    ASSUME TypeOK, CountActiveOwners > 1, NEW u
    PROVE  ActiveOwners \ {u} # {}
<1>1. IsFiniteSet(ActiveOwners) /\ CountActiveOwners \in Nat
  BY CountIsNat
<1>2. SUFFICES ASSUME ActiveOwners \subseteq {u} PROVE FALSE
  OBVIOUS
<1>3. IsFiniteSet({u}) /\ Cardinality({u}) = 1
  BY FS_Singleton
<1>4. Cardinality(ActiveOwners) <= 1
  BY <1>2, <1>3, FS_Subset
<1> QED BY <1>1, <1>4 DEF CountActiveOwners

(***************************************************************************)
(* Every step                                                              *)
(***************************************************************************)

(* The steps of a request that changes no table.                           *)
LEMMA Reads ==
    ASSUME Inv, NEW h \in Requests,
           \/ \E s \in Sessions : Refresh(h, s) \/ FindForLogout(h, s) \/ IsSessionLive(h, s)
           \/ ListMemberships(h) \/ \E c \in Changes : FindMember(h, c)
           \/ AssertNotLastOwner(h) \/ GivesUp(h)
    PROVE  Inv' /\ Quiet(h)
<1>1. /\ session' = session /\ member' = member
      /\ overtaken' = overtaken \ {h}
      /\ changes' = changes \/ (changes < MaxChanges /\ changes' = changes + 1)
  <2>1. ~At(h, "write") => overtaken \ {h} = overtaken
    BY DEF Inv, MembersInv
  <2> QED BY <2>1 DEF Refresh, FindForLogout, IsSessionLive, ListMemberships, FindMember,
             AssertNotLastOwner, GivesUp, At
<1>2. TablesOK /\ TablesOK'
  BY <1>1, AccessOK, TypeParts DEF TablesOK, Inv, AccessAssumption
<1>3. SessionsStay /\ Dims
  BY <1>1 DEF SessionsStay, Dims
<1>4. PICK w \in Work :
        /\ Goes(h, w) /\ w.pc # "issue"
        /\ HasToken(w) => w.s # None /\ Issued(w.s)
        /\ w.pc \in {"count", "write"} => w.change \in Changes
        /\ w.pc = "write" /\ EndsOwnership(w.change) => OwnersAfter(w.change.on)
  <2>1. /\ work[h] \in Work /\ Shape(work[h]) /\ Idle \in Work /\ Idle.pc = "idle" /\ Nobody \in ActorRow
        /\ At(h, "write") <=> work[h].pc = "write"
    BY IdleIsWork, TypeParts DEF Inv, At
  <2>2. ASSUME NEW s \in Sessions, Refresh(h, s) \/ FindForLogout(h, s) \/ IsSessionLive(h, s)
        PROVE  \E w \in Work : /\ Goes(h, w) /\ w.pc \in {"claim", "reuse", "logout", "member"} /\ w.s = s
    <3>1. PICK pc \in {"claim", "reuse", "logout", "member"} : Goes(h, [Idle EXCEPT !.pc = pc, !.s = s])
      BY <2>2 DEF Refresh, FindForLogout, IsSessionLive
    <3> DEFINE w == [Idle EXCEPT !.pc = pc, !.s = s]
    <3>2. w \in Work /\ w.pc = pc /\ w.s = s
      BY <2>1 DEF Work, Steps
    <3> HIDE DEF w
    <3> QED BY <3>1, <3>2 DEF w
  <2>3. ASSUME NEW s \in Sessions, Refresh(h, s) \/ FindForLogout(h, s) \/ IsSessionLive(h, s)
        PROVE  Issued(s)
    BY <2>3, LiveIsIssued DEF Refresh, FindForLogout, IsSessionLive, Inv
  <2>4. CASE \E s \in Sessions : Refresh(h, s) \/ FindForLogout(h, s) \/ IsSessionLive(h, s)
    BY <2>2, <2>3, <2>4, AccessFacts
  <2>5. CASE ListMemberships(h)
    <3> DEFINE u == session[work[h].s].user
               w == [work[h] EXCEPT !.pc = "act", !.s = None, !.actor = ActorOf(u)]
    <3>1. work[h].s \in Sessions /\ Issued(work[h].s)
      BY <2>1, <2>5 DEF ListMemberships, At, Shape, HasToken, Work
    <3>2. u \in Users
      BY <1>2, <3>1 DEF TablesOK, SessionRow, Unissued, Issued
    <3>3. ActorOf(u) \in ActorRow /\ ActorOf(u).user = u
      BY <1>2, <3>2, AccessFacts DEF ActorOf, Actor, ActorRow, TablesOK, MemberRow, NoMember
    <3>4. w \in Work /\ w.pc = "act"
      BY <2>1, <3>3 DEF Work, Steps
    <3>5. Goes(h, w)
      BY <2>5 DEF ListMemberships
    <3> HIDE DEF w
    <3> QED BY <3>3, <3>4, <3>5 DEF HasToken
  <2>6. ASSUME NEW c \in Changes, FindMember(h, c)
        PROVE  \E w \in Work : /\ Goes(h, w) /\ w.pc \in {"count", "write"} /\ w.change = c
                               /\ w.pc = "write" => ~TakesAnOwner(c, member[c.on])
    <3> DEFINE pc == IF TakesAnOwner(c, member[c.on]) THEN "count" ELSE "write"
               w == [work[h] EXCEPT !.change = c, !.actor = Nobody, !.pc = pc]
    <3>1. w \in Work /\ w.pc = pc /\ w.change = c
      BY <2>1 DEF Work, Steps
    <3>2. Goes(h, w)
      BY <2>6 DEF FindMember
    <3> HIDE DEF w
    <3> QED BY <3>1, <3>2
  <2>7. CASE \E c \in Changes : FindMember(h, c)
    <3>1. \A c \in Changes : EndsOwnership(c) /\ ~TakesAnOwner(c, member[c.on]) => OwnersAfter(c.on)
      BY DEF TakesAnOwner, OwnersAfter, ActiveOwners
    <3> QED BY <2>6, <2>7, <3>1 DEF HasToken
  <2>8. CASE AssertNotLastOwner(h) /\ ~(CountActiveOwners <= 1)
    <3> DEFINE w == [work[h] EXCEPT !.pc = "write"]
    <3>1. w \in Work /\ w.pc = "write" /\ w.change = work[h].change
      BY <2>1 DEF Work, Steps
    <3>2. Goes(h, w)
      BY <2>8 DEF AssertNotLastOwner
    <3>3. work[h].change \in Changes
      BY <2>1, <2>8 DEF AssertNotLastOwner, At, Shape
    <3>4. \A u : OwnersAfter(u)
      <4>1. CountActiveOwners > 1
        BY <2>8, CountIsNat
      <4> QED BY <4>1, OneIsLeft DEF Inv, OwnersAfter
    <3> HIDE DEF w
    <3> QED BY <3>1, <3>2, <3>3, <3>4 DEF HasToken
  <2>9. CASE GivesUp(h) \/ (AssertNotLastOwner(h) /\ CountActiveOwners <= 1)
    BY <2>1, <2>9 DEF GivesUp, AssertNotLastOwner, Ends, HasToken
  <2> QED BY <2>4, <2>5, <2>7, <2>8, <2>9
<1>5. /\ TypeOK' /\ work'[h] = w /\ \A g \in Requests \ {h} : work'[g] = work[g]
  BY <1>2, <1>3, <1>4, RequestStep DEF Inv
<1>6. SessionsInv'
  BY <1>3, <1>4, <1>5, RevokingIsSafe DEF Inv
<1>7. MembersInv'
  BY <1>1, <1>4, <1>5, ReadingIsSafe DEF Inv, At
<1> QED BY <1>3, <1>4, <1>5, <1>6, <1>7 DEF Inv, Quiet

(* Steps that only concern sessions: the rotation and its revocations.     *)
LEMMA Rotates ==
    ASSUME Inv, NEW h \in Requests,
           \/ TryRevokeLiveSession(h) \/ RevokeFamily(h) \/ RevokeSession(h)
           \/ \E s \in Sessions : IssueNext(h, s)
    PROVE  Inv'
<1> DEFINE old == work[h].s
<1>1. /\ UNCHANGED <<member, overtaken, changes>> /\ TypeOK /\ TablesOK
      /\ session \in [Sessions -> SessionRow]
      /\ work[h] \in Work /\ Shape(work[h]) /\ Idle \in Work /\ Idle.pc = "idle"
  BY TypeParts, IdleIsWork DEF Inv, TryRevokeLiveSession, RevokeFamily, RevokeSession, IssueNext, TablesOK
<1>2. old \in Sessions /\ Issued(old)
  BY <1>1 DEF TryRevokeLiveSession, RevokeFamily, RevokeSession, IssueNext, At, Shape, HasToken, Work
<1>3. session[old].user \in Users /\ FamilyOf(old) \in Sessions /\ Issued(FamilyOf(old))
  BY <1>2 DEF Inv, SessionsInv, Families
<1>4. session' \in [Sessions -> SessionRow] /\ SessionsStay
  <2>1. CASE TryRevokeLiveSession(h) \/ RevokeSession(h)
    <3>1. session' = [session EXCEPT ![old].live = FALSE]
      BY <2>1 DEF TryRevokeLiveSession, RevokeSession
    <3>2. session[old] \in [user : Users, family : Sessions, live : BOOLEAN]
      BY <1>1, <1>2 DEF SessionRow, Unissued, Issued
    <3> QED BY <1>1, <1>2, <3>1, <3>2 DEF SessionRow, SessionsStay
  <2>2. CASE RevokeFamily(h)
    <3>1. ASSUME NEW s \in Sessions
          PROVE  /\ session'[s] \in SessionRow
                 /\ session'[s].user = session[s].user /\ session'[s].family = session[s].family
      <4>1. session'[s] = IF Issued(s) /\ FamilyOf(s) = FamilyOf(old)
                          THEN [session[s] EXCEPT !.live = FALSE] ELSE session[s]
        BY <2>2 DEF RevokeFamily
      <4>2. CASE Issued(s)
        <5>1. session[s] \in [user : Users, family : Sessions, live : BOOLEAN]
          BY <1>1, <4>2 DEF SessionRow, Unissued, Issued
        <5> QED BY <4>1, <5>1 DEF SessionRow
      <4>3. CASE ~Issued(s)
        BY <1>1, <4>1, <4>3
      <4> QED BY <4>2, <4>3
    <3>2. session' = [s \in Sessions |-> session'[s]]
      BY <2>2 DEF RevokeFamily
    <3> QED BY <3>1, <3>2 DEF SessionsStay
  <2>3. ASSUME NEW s \in Sessions, IssueNext(h, s) PROVE session' \in [Sessions -> SessionRow] /\ SessionsStay
    <3>1. /\ session' = [session EXCEPT ![s] = [user |-> session[old].user, family |-> FamilyOf(old), live |-> TRUE]]
          /\ ~Issued(s)
      BY <2>3 DEF IssueNext, Created
    <3> QED BY <1>1, <1>3, <3>1 DEF SessionRow, SessionsStay
  <2> QED BY <2>1, <2>2, <2>3
<1>5. PICK w \in Work : /\ Goes(h, w) /\ w.pc \in {"idle", "issue", "reuse"}
                        /\ w.pc # "idle" => w.s = old
                        /\ w.pc = "issue" => TryRevokeLiveSession(h)
  <2>1. CASE TryRevokeLiveSession(h)
    <3> DEFINE pc == IF Claims(old) THEN "issue" ELSE "reuse"
               w == [work[h] EXCEPT !.pc = pc]
    <3>1. w \in Work /\ w.pc = pc /\ w.s = old
      BY <1>1 DEF Work, Steps
    <3>2. Goes(h, w)
      BY <2>1 DEF TryRevokeLiveSession
    <3> HIDE DEF w
    <3> QED BY <2>1, <3>1, <3>2
  <2>2. CASE ~TryRevokeLiveSession(h)
    BY <1>1, <2>2 DEF RevokeFamily, RevokeSession, IssueNext, Ends
  <2> QED BY <2>1, <2>2
<1>6. TablesOK'
  BY <1>1, <1>4 DEF TablesOK
<1>7. TypeOK' /\ work'[h] = w /\ \A g \in Requests \ {h} : work'[g] = work[g]
  BY <1>1, <1>2, <1>4, <1>5, <1>6, AccessFacts, RequestStep DEF HasToken
<1>8. MembersInv'
  <2>1. ~At(h, "write")' /\ overtaken' = overtaken \ {h}
    BY <1>1, <1>5, <1>7 DEF At, Inv, MembersInv, TryRevokeLiveSession, RevokeFamily, RevokeSession, IssueNext
  <2> QED BY <1>1, <1>7, <2>1, ReadingIsSafe DEF Inv
<1>9. SessionsInv'
  <2>1. CASE TryRevokeLiveSession(h)
    BY <1>7, <2>1, ClaimIsSafe
  <2>2. CASE RevokeFamily(h) \/ RevokeSession(h)
    <3>1. \A s \in Sessions : session'[s].live => session[s].live
      BY <1>1, <2>2 DEF RevokeFamily, RevokeSession, SessionRow, Unissued
    <3>2. \A s \in Sessions : /\ session'[s].user = session[s].user
                              /\ session'[s].family = session[s].family
      BY <1>1, <1>2, <2>2 DEF RevokeFamily, RevokeSession, SessionRow, Unissued
    <3>3. work'[h].pc # "issue"
      BY <2>2, <1>1, <1>7 DEF RevokeFamily, RevokeSession, Ends, Goes, TypeOK
    <3> QED BY <1>1, <1>7, <3>1, <3>2, <3>3, RevokingIsSafe DEF Dims, Inv
  <2>3. ASSUME NEW s \in Sessions, IssueNext(h, s) PROVE SessionsInv'
    <3> DEFINE f == FamilyOf(old)
    <3>1. ~Issued(s) /\ Created(s, session[old].user, f) /\ Issuing(h, f) /\ work'[h] = Idle
      BY <2>3, <1>1, <1>7 DEF IssueNext, Issuing, Ends, Goes, TypeOK
    <3>2. \A r \in Sessions : session[r].live => FamilyOf(r) # f
      BY <3>1 DEF Inv, SessionsInv, OneLiveSessionPerFamily
    <3>3. \A g \in Requests \ {h} : ~Issuing(g, f)
      BY <1>2, <3>1 DEF Inv, SessionsInv, OneLiveSessionPerFamily
    <3>4. \A g \in Requests : At(g, "issue")' => work'[g] = work[g] /\ ~Issuing(g, f)
      BY <1>1, <1>7, <3>1, <3>3 DEF At
    <3> HIDE DEF f
    <3>5. f \in Sessions /\ Issued(f)
      BY <1>3 DEF f
    <3> QED BY <1>1, <1>3, <1>7, <3>1, <3>2, <3>4, <3>5, CreatingIsSafe DEF Inv
  <2> QED BY <2>1, <2>2, <2>3
<1> QED BY <1>7, <1>8, <1>9 DEF Inv

(* A sign-in starts a family of its own, so it joins no other session in   *)
(* one.                                                                    *)
LEMMA SignsIn ==
    ASSUME Inv, NEW s \in Sessions, NEW u \in Users, SignIn(s, u)
    PROVE  Inv'
<1>1. /\ ~Issued(s) /\ Created(s, u, s) /\ UNCHANGED <<member, work, overtaken, changes>>
      /\ TypeOK /\ SessionsInv
  BY DEF SignIn, Inv
<1>2. session' = [session EXCEPT ![s] = [user |-> u, family |-> s, live |-> TRUE]]
  BY <1>1 DEF Created
<1>3. session' \in [Sessions -> SessionRow]
  BY <1>1, <1>2 DEF TypeOK, SessionRow
<1>4. \A r \in Sessions : Issued(r) => Issued(r)'
  BY <1>1, <1>2 DEF TypeOK, Issued
<1>5. TypeOK'
  <2>1. \A h \in Requests : Shape(work[h])'
    BY <1>1, <1>4, TypeParts DEF Shape, HasToken, Work, Issued
  <2> QED BY <1>1, <1>3, <2>1 DEF TypeOK, Shape, HasToken, At
<1>6. \A r \in Sessions : session[r].live => FamilyOf(r) # s
  BY <1>1, LiveIsIssued DEF SessionsInv, Families
<1>7. ASSUME NEW g \in Requests PROVE ~Issuing(g, s)
  <2>1. At(g, "issue") => work[g].s \in Sessions /\ Issued(work[g].s)
    BY <1>1 DEF TypeOK, At, Work
  <2> QED BY <1>1, <2>1 DEF Issuing, SessionsInv, Families
<1>8. SessionsInv'
  BY <1>1, <1>5, <1>6, <1>7, CreatingIsSafe
<1>9. MembersInv'
  BY <1>1 DEF Inv, MembersInv, Counted, OwnersAfter, ActiveOwners, At, EndsOwnership
<1> QED BY <1>5, <1>8, <1>9 DEF Inv

(* The three writes of the members.                                        *)
LEMMA Writes ==
    ASSUME Inv, NEW h \in Requests,
           \/ \E u \in Users, role \in Roles, scope \in Scopes : AddMember(h, u, role, scope)
           \/ UpdateMember(h) \/ Deactivate(h)
    PROVE  Inv' /\ Quiet(h)
<1> DEFINE c == work[h].change
<1>1. /\ TypeOK /\ TablesOK /\ Written(h) /\ changes' = changes
  BY TypeParts DEF Inv, AddMember, UpdateMember, Deactivate
<1>2. /\ MembersInv' /\ work'[h] = Idle /\ \A g \in Requests \ {h} : work'[g] = work[g]
  BY <1>1, WritingIsSafe DEF Inv
<1>3. session' \in [Sessions -> SessionRow] /\ Dims
  <2>1. CASE session' = session
    BY <1>1, <2>1 DEF Dims, TablesOK
  <2>2. CASE Deactivate(h)
    <3>1. ASSUME NEW s \in Sessions
          PROVE  /\ session'[s] \in SessionRow
                 /\ session'[s].user = session[s].user /\ session'[s].family = session[s].family
                 /\ session'[s].live => session[s].live
      <4>1. session[s] \in SessionRow
        BY <1>1 DEF TablesOK
      <4>2. session'[s] = IF session[s].user = c.on THEN [session[s] EXCEPT !.live = FALSE] ELSE session[s]
        BY <2>2 DEF Deactivate, DropsSessions
      <4>3. CASE session[s].user = c.on
        <5>1. c.on \in Users
          BY <1>1, <2>2 DEF TypeOK, Changes, AddMember, UpdateMember, Deactivate, At
        <5>2. session[s] \in [user : Users, family : Sessions, live : BOOLEAN]
          BY <4>1, <4>3, <5>1, AccessFacts DEF SessionRow, Unissued
        <5> QED BY <4>2, <4>3, <5>2 DEF SessionRow
      <4>4. CASE session[s].user # c.on
        BY <4>1, <4>2, <4>4
      <4> QED BY <4>3, <4>4
    <3>2. session' = [s \in Sessions |-> session'[s]]
      BY <2>2 DEF Deactivate, DropsSessions
    <3> QED BY <3>1, <3>2 DEF Dims
  <2> QED BY <2>1, <2>2 DEF AddMember, UpdateMember, Deactivate
<1>4. member' \in [Users -> MemberRow]
  <2>1. ASSUME NEW u \in Users, NEW role \in Roles, NEW scope \in Scopes, AddMember(h, u, role, scope)
        PROVE  member' \in [Users -> MemberRow]
    BY <1>1, <2>1, AccessFacts DEF AddMember, TablesOK, MemberRow, Roles
  <2>2. UpdateMember(h) => /\ c.on \in Users /\ c.role \in Roles \union {"NONE"}
                           /\ c.scope \in Scopes \union {Unnamed}
    BY <1>1 DEF TypeOK, UpdateMember, At, Changes
  <2>3. CASE UpdateMember(h)
    <3> DEFINE newRole == IF c.role = "NONE" THEN member[c.on].role ELSE c.role
               newScope == IF c.scope = Unnamed THEN member[c.on].scope ELSE c.scope
    <3>1. member' = [member EXCEPT ![c.on].role = newRole, ![c.on].scope = newScope]
      BY <2>3 DEF UpdateMember
    <3>2. c.on \in Users /\ newRole \in Roles \union {"NONE"} /\ newScope \in SUBSET Properties
      BY <1>1, <2>2, <2>3, AccessFacts DEF TablesOK, MemberRow
    <3> HIDE DEF newRole, newScope
    <3> PICK row : row = [member[c.on] EXCEPT !.role = newRole, !.scope = newScope]
      OBVIOUS
    <3>3. member \in [Users -> MemberRow]
      BY <1>1 DEF TablesOK
    <3>4. row \in MemberRow
      BY <3>2, <3>3 DEF MemberRow
    <3>5. member' = [member EXCEPT ![c.on] = row]
      BY <3>1, <3>2, <3>3
    <3> QED BY <3>3, <3>4, <3>5
  <2>4. CASE Deactivate(h)
    <3> PICK row : row = [member[c.on] EXCEPT !.active = FALSE]
      OBVIOUS
    <3>1. member \in [Users -> MemberRow]
      BY <1>1 DEF TablesOK
    <3>2. member' = [member EXCEPT ![c.on] = row]
      BY <2>4 DEF Deactivate
    <3>3. c.on \in Users => row \in MemberRow
      BY <3>1 DEF MemberRow
    <3> QED BY <3>1, <3>2, <3>3
  <2> QED BY <2>1, <2>3, <2>4
<1>5. TablesOK'
  BY <1>1, <1>3, <1>4 DEF TablesOK, Written
<1>6. TypeOK'
  <2>1. SessionsStay /\ Idle \in Work /\ Idle.pc = "idle" /\ Goes(h, Idle)
    BY <1>1, <1>3, IdleIsWork DEF SessionsStay, Dims, Written, Ends
  <2> QED BY <1>1, <1>5, <2>1, RequestStep DEF HasToken
<1>7. SessionsInv'
  BY <1>1, <1>2, <1>3, IdleIsWork, RevokingIsSafe DEF Inv
<1> QED BY <1>2, <1>3, <1>6, <1>7, IdleIsWork DEF Inv, Quiet

(* Every step keeps the invariant: reads, rotations and sign-outs, changes *)
(* of members.                                                             *)
LEMMA StepKeepsInv == Inv /\ [Next]_vars => Inv'
<1> SUFFICES ASSUME Inv, [Next]_vars PROVE Inv'
  OBVIOUS
<1>1. ASSUME NEW h \in Requests, Serve(h) PROVE Inv'
  BY <1>1, Reads, Rotates, Writes DEF Serve
<1>2. CASE UNCHANGED vars
  BY <1>2 DEF vars, Inv, TypeOK, SessionsInv, Families, OneLiveSessionPerFamily, MembersInv,
     Counted, OwnersAfter, ActiveOwners, At, EndsOwnership, Issued, FamilyOf, Issuing
<1> QED BY <1>1, <1>2, SignsIn DEF Next

(***************************************************************************)
(* Theorems                                                                *)
(***************************************************************************)

(* The inductive invariant holds in every state.                           *)
THEOREM InvHolds == Spec => []Inv
BY InitInv, StepKeepsInv, PTL DEF Spec

(* Rows and requests have the shape the schema and the handlers give them. *)
THEOREM TypeCorrect == Spec => []TypeOK
<1>1. Inv => TypeOK
  BY DEF Inv
<1> QED BY <1>1, InvHolds, PTL

(* Rotation has one winner (tryRevokeLiveSession), however many requests   *)
(* present whichever of a family's tokens.                                 *)
THEOREM RotationHasOneWinner == Spec => []OneLiveSessionPerFamily
<1>1. Inv => OneLiveSessionPerFamily
  BY DEF Inv, SessionsInv
<1> QED BY <1>1, InvHolds, PTL

(* Where sessions are at most revoked, a family that has ended stays so    *)
(* unless the request that takes the step is issuing for it.               *)
LEMMA RevokingRevivesNone ==
    ASSUME TypeOK, NEW h \in Requests, Dims, \A g \in Requests \ {h} : work'[g] = work[g],
           NEW f \in Sessions, Ended(f), ~Issuing(h, f)'
    PROVE  Ended(f)'
<1>1. \A s \in Sessions : /\ Issued(s)' <=> Issued(s)
                          /\ FamilyOf(s)' = FamilyOf(s) /\ (session'[s].live => session[s].live)
  BY DEF Dims, Issued, FamilyOf
<1>2. \A s \in Sessions : FamilyOf(s)' = f => ~session'[s].live
  BY <1>1 DEF Ended
<1>3. ASSUME NEW g \in Requests, Issuing(g, f)' PROVE FALSE
  <2>1. work'[g] = work[g] /\ work[g].pc = "issue" /\ FamilyOf(work[g].s)' = f
    BY <1>3 DEF Issuing, At
  <2>2. work[g].s \in Sessions
    BY <2>1 DEF TypeOK, Work, At
  <2> QED BY <1>1, <2>1, <2>2 DEF Ended, Issuing, At
<1> QED BY <1>1, <1>2, <1>3 DEF Ended

(* A new session does not revive a family that had ended if it is of       *)
(* another one.                                                            *)
LEMMA CreatingRevivesNone ==
    ASSUME Inv, NEW s \in Sessions, ~Issued(s), NEW u \in Users, NEW e \in Sessions, Created(s, u, e),
           NEW f \in Sessions, Ended(f), e # f,
           \A g \in Requests : At(g, "issue")' => work'[g] = work[g]
    PROVE  Ended(f)'
<1>1. /\ session'[s].user = u /\ session'[s].family = e
      /\ \A r \in Sessions \ {s} : session'[r] = session[r]
  BY DEF Created, Inv, TypeOK
<1>2. Issued(f)'
  BY <1>1 DEF Ended, Issued
<1>3. \A r \in Sessions : FamilyOf(r)' = f => ~session'[r].live
  BY <1>1 DEF Ended, FamilyOf
<1>4. ASSUME NEW g \in Requests, Issuing(g, f)' PROVE FALSE
  <2>1. work'[g] = work[g] /\ work[g].pc = "issue" /\ FamilyOf(work[g].s)' = f
    BY <1>4 DEF Issuing, At
  <2>2. work[g].s \in Sessions /\ Issued(work[g].s)
    BY <2>1 DEF Inv, TypeOK, Work, At
  <2>3. FamilyOf(work[g].s)' = FamilyOf(work[g].s)
    BY <1>1, <2>1, <2>2 DEF FamilyOf
  <2> QED BY <2>1, <2>3 DEF Ended, Issuing, At
<1> QED BY <1>2, <1>3, <1>4 DEF Ended

(* A sign-in that has ended stays ended, whichever of its tokens are       *)
(* presented and whatever had been read before (tryRevokeLiveSession).     *)
THEOREM EndedIsFinal == Spec => EndedStaysEnded
<1>1. ASSUME Inv, [Next]_vars, NEW f \in Sessions, Ended(f) PROVE Ended(f)'
  <2>1. ASSUME NEW h \in Requests, Quiet(h) PROVE Ended(f)'
    BY <1>1, <2>1, RevokingRevivesNone DEF Quiet, Inv, Issuing, At
  <2>2. ASSUME NEW h \in Requests,
               TryRevokeLiveSession(h) \/ RevokeFamily(h) \/ RevokeSession(h)
        PROVE  Ended(f)'
    <3>1. /\ TypeOK /\ work[h] \in Work /\ session \in [Sessions -> SessionRow]
          /\ work[h].s \in Sessions /\ Issued(work[h].s)
      BY <1>1, <2>2 DEF Inv, TypeOK, Work, At, TryRevokeLiveSession, RevokeFamily, RevokeSession
    <3>2. Dims /\ \A g \in Requests \ {h} : work'[g] = work[g]
      <4>1. CASE RevokeFamily(h)
        <5>1. \A s \in Sessions : session'[s] \in {session[s], [session[s] EXCEPT !.live = FALSE]}
          BY <4>1 DEF RevokeFamily
        <5> QED BY <3>1, <4>1, <5>1 DEF RevokeFamily, Dims, Ends, Goes, TypeOK, SessionRow, Unissued
      <4>2. CASE TryRevokeLiveSession(h) \/ RevokeSession(h)
        <5>1. session' = [session EXCEPT ![work[h].s].live = FALSE]
          BY <4>2 DEF TryRevokeLiveSession, RevokeSession
        <5>2. Dims
          BY <3>1, <5>1 DEF Dims, SessionRow, Unissued, Issued
        <5> QED BY <3>1, <4>2, <5>2 DEF TryRevokeLiveSession, RevokeSession, Ends, Goes, TypeOK
      <4> QED BY <2>2, <4>1, <4>2
    <3>3. ~Issuing(h, f)'
      <4>1. CASE RevokeFamily(h) \/ RevokeSession(h)
        BY <3>1, <4>1, IdleIsWork DEF RevokeFamily, RevokeSession, Ends, Goes, Issuing, At, TypeOK
      <4>2. CASE TryRevokeLiveSession(h)
        <5>1. /\ work'[h].pc = (IF Claims(work[h].s) THEN "issue" ELSE "reuse")
              /\ work'[h].s = work[h].s
          BY <3>1, <4>2 DEF TryRevokeLiveSession, Goes, TypeOK, Work
        <5>2. FamilyOf(work[h].s)' = FamilyOf(work[h].s)
          BY <3>1, <3>2, <5>1 DEF Dims, FamilyOf
        <5>3. Claims(work[h].s) => FamilyOf(work[h].s) # f
          BY <1>1, <3>1 DEF Claims, Ended
        <5> QED BY <5>1, <5>2, <5>3 DEF Issuing, At
      <4> QED BY <2>2, <4>1, <4>2
    <3> QED BY <1>1, <3>1, <3>2, <3>3, RevokingRevivesNone
  <2>3. ASSUME NEW h \in Requests, NEW s \in Sessions, IssueNext(h, s) PROVE Ended(f)'
    <3> DEFINE old == work[h].s
    <3>1. old \in Sessions /\ Issued(old) /\ session[old].user \in Users /\ FamilyOf(old) \in Sessions
      BY <1>1, <2>3 DEF Inv, TypeOK, Work, At, IssueNext, SessionsInv, Families
    <3>2. Issuing(h, FamilyOf(old)) /\ FamilyOf(old) # f
      BY <1>1, <2>3 DEF IssueNext, Issuing, Ended
    <3>3. \A g \in Requests : At(g, "issue")' => work'[g] = work[g]
      BY <1>1, <2>3, IdleIsWork DEF IssueNext, Ends, Goes, At, Inv, TypeOK
    <3>4. ~Issued(s) /\ Created(s, session[old].user, FamilyOf(old))
      BY <2>3 DEF IssueNext
    <3> QED BY <1>1, <3>1, <3>2, <3>3, <3>4, CreatingRevivesNone
  <2>4. ASSUME NEW s \in Sessions, NEW u \in Users, SignIn(s, u) PROVE Ended(f)'
    <3>1. ~Issued(s) /\ Created(s, u, s) /\ work' = work /\ s # f
      BY <1>1, <2>4 DEF SignIn, Ended
    <3> QED BY <1>1, <3>1, CreatingRevivesNone
  <2>5. CASE UNCHANGED vars
    BY <1>1, <2>5 DEF vars, Ended, Issued, FamilyOf, Issuing, At
  <2> QED BY <1>1, <2>1, <2>2, <2>3, <2>4, <2>5, Reads, Writes DEF Next, Serve
<1>2. Inv /\ [Next]_vars => [\A f \in Sessions : Ended(f) => Ended(f)']_vars
  BY <1>1
<1> QED BY <1>2, InvHolds, PTL DEF Spec, EndedStaysEnded

(* The last owner goes only through addMember, or where another change     *)
(* came between a request's decision and its write (assertNotLastOwner).   *)
THEOREM LastOwnerGoesOnlyOvertaken == Spec => LastOwnerIsKept
<1> DEFINE Allowed == \E h \in Requests : /\ ~At(h, "idle") /\ work'[h] = Idle
                                          /\ At(h, "act") \/ (At(h, "write") /\ h \in overtaken)
<1>1. ASSUME Inv, [Next]_vars, ActiveOwners # {}, ActiveOwners' = {} PROVE Allowed
  <2>1. member' # member
    BY <1>1 DEF ActiveOwners
  <2>2. PICK h \in Requests : \/ \E u \in Users, role \in Roles, scope \in Scopes : AddMember(h, u, role, scope)
                              \/ UpdateMember(h) \/ Deactivate(h)
    BY <1>1, <2>1 DEF Next, vars, Serve, SignIn, Refresh, IssueNext, FindForLogout, IsSessionLive,
       TryRevokeLiveSession, RevokeFamily, RevokeSession, ListMemberships, FindMember,
       AssertNotLastOwner, GivesUp
  <2>3. work'[h] = Idle
    BY <1>1, <2>2, WritingIsSafe DEF Inv, AddMember, UpdateMember, Deactivate
  <2>4. CASE \E u \in Users, role \in Roles, scope \in Scopes : AddMember(h, u, role, scope)
    BY <2>3, <2>4 DEF AddMember, At
  <2>5. CASE UpdateMember(h) \/ Deactivate(h)
    <3> DEFINE c == work[h].change
    <3>1. At(h, "write") /\ ~At(h, "idle") /\ member \in [Users -> MemberRow]
      BY <1>1, <2>5 DEF UpdateMember, Deactivate, At, Inv, TypeOK
    <3>2. \A u \in Users \ {c.on} : member'[u] = member[u]
      BY <2>5, <3>1 DEF UpdateMember, Deactivate
    <3>3. ActiveOwners \subseteq {c.on}
      BY <1>1, <3>2 DEF ActiveOwners
    <3>4. c.on \in Users /\ member[c.on].role = "OWNER" /\ member[c.on].active
      BY <1>1, <3>3 DEF ActiveOwners
    <3>5. ~(member'[c.on].role = "OWNER" /\ member'[c.on].active)
      BY <1>1, <3>4 DEF ActiveOwners
    <3>6. EndsOwnership(c)
      <4>1. CASE Deactivate(h)
        BY <4>1 DEF Deactivate, EndsOwnership
      <4>2. CASE UpdateMember(h)
        <5>1. c.role \in {"OWNER", "MANAGER", "NONE"}
          BY <1>1, <3>1 DEF Inv, TypeOK, Changes, Roles
        <5>2. /\ member'[c.on].role = IF c.role = "NONE" THEN member[c.on].role ELSE c.role
              /\ member'[c.on].active = member[c.on].active
          BY <3>1, <3>4, <4>2 DEF UpdateMember, MemberRow
        <5> QED BY <3>4, <3>5, <5>1, <5>2 DEF EndsOwnership
      <4> QED BY <2>5, <4>1, <4>2
    <3>7. h \in overtaken
      <4> SUFFICES ASSUME h \notin overtaken PROVE FALSE
        OBVIOUS
      <4>1. OwnersAfter(c.on)
        BY <1>1, <3>1, <3>6 DEF Inv, MembersInv, Counted
      <4> QED BY <1>1, <3>3, <4>1 DEF OwnersAfter
    <3> QED BY <2>3, <3>1, <3>7
  <2> QED BY <2>2, <2>4, <2>5
<1>2. Inv /\ [Next]_vars => [ActiveOwners # {} /\ ActiveOwners' = {} => Allowed]_vars
  BY <1>1
<1> QED BY <1>2, InvHolds, PTL DEF Spec, LastOwnerIsKept

=============================================================================
