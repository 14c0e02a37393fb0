------------------------------- MODULE Access -------------------------------
(***************************************************************************)
(* Who may still act: sessions and their rotation, the guard every request *)
(* passes, and the members of one organisation.                            *)
(*                                                                         *)
(* Nothing about a person's authority is kept in the token.  The guard     *)
(* reads the session, then the memberships, and the handler decides on     *)
(* what the guard read; a change to the members reads the row and counts   *)
(* the owners before it writes.  All of these are separate round trips.    *)
(* `overtaken' (history) holds the requests whose decision that an owner   *)
(* stays was overtaken, before they wrote, by the write of another one.    *)
(***************************************************************************)
EXTENDS Naturals, FiniteSets

CONSTANTS
    Users,
    Owners0,        \* the owners the organisation starts with
    PlatformRole,   \* of each user: "NONE", "SUPPORT" or "SUPER_ADMIN"
    Properties,     \* of the organisation
    Scopes,         \* the sets of them a member may be limited to
    Sessions,       \* refresh tokens that may be issued
    Requests,       \* requests the API serves at a time
    MaxChanges,     \* bound on the requests that change members
    None

AccessAssumption ==
    /\ Owners0 \subseteq Users /\ IsFiniteSet(Users) /\ Scopes \subseteq SUBSET Properties
    /\ PlatformRole \in [Users -> {"NONE", "SUPPORT", "SUPER_ADMIN"}]
    /\ MaxChanges \in Nat /\ None \notin Users \union Sessions \union Properties

ASSUME AccessOK == AccessAssumption

VARIABLES
    session,    \* auth sessions: whose, of which family, and whether revoked
    member,     \* org memberships, one per user
    work,       \* what each request is doing and has read
    overtaken,  \* requests about to write whose count no longer holds
    changes

vars == <<session, member, work, overtaken, changes>>

Unissued == [user |-> None, family |-> None, live |-> FALSE]
NoMember == [role |-> "NONE", active |-> FALSE, scope |-> {}]

Issued(s) == session[s].user # None
FamilyOf(s) == session[s].family

Nobody == [user |-> None, role |-> "NONE", scope |-> {}, platform |-> "NONE"]

(* A set of properties no scope can be: the request does not name one.     *)
Unnamed == {None}

NoChange == [op |-> "none", on |-> None, role |-> "NONE", scope |-> Unnamed]
Idle == [pc |-> "idle", s |-> None, actor |-> Nobody, change |-> NoChange]

At(h, pc) == work[h].pc = pc
Goes(h, w) == work' = [work EXCEPT ![h] = w]
Ends(h) == Goes(h, Idle)

(***************************************************************************)
(* Scope checks                                                            *)
(***************************************************************************)

PlatformStaffMayAct(a, restricted) ==
    IF restricted THEN a.platform = "SUPER_ADMIN" ELSE a.platform # "NONE"

(* No roles named: any member will do. *)
AssertOrgAccess(a, allowed) ==
    \/ PlatformStaffMayAct(a, allowed # {})
    \/ a.role # "NONE" /\ (allowed = {} \/ a.role \in allowed)

AssertPropertyAccess(a, p, allowed) ==
    \/ PlatformStaffMayAct(a, allowed # {})
    \/ /\ AssertOrgAccess(a, allowed)
       /\ a.role # "NONE"
       /\ a.role = "OWNER" \/ a.scope = {} \/ p \in a.scope

(* The condition every listing is read under; a stranger gets none.        *)
VisiblePropertyIds(a) ==
    IF a.platform # "NONE" \/ a.role = "OWNER" THEN Properties
    ELSE IF a.role = "NONE" THEN {}
    ELSE IF a.scope = {} THEN Properties ELSE a.scope \intersect Properties

(***************************************************************************)
(* Sessions                                                                *)
(***************************************************************************)

Created(s, u, family) ==
    session' = [session EXCEPT ![s] =
        [user |-> u, family |-> family, live |-> TRUE]]

(* After a code was verified. *)
SignIn(s, u) ==
    /\ ~Issued(s) /\ Created(s, u, s)
    /\ UNCHANGED <<member, work, overtaken, changes>>

(* Whoever presents the token: its holder, or somebody who copied it.  One *)
(* that has expired is turned away and changes nothing, here and at the    *)
(* guard, so that expiry needs no state.                                   *)
Refresh(h, s) ==
    /\ At(h, "idle") /\ Issued(s)
    /\ Goes(h, [Idle EXCEPT !.pc = IF session[s].live THEN "claim" ELSE "reuse", !.s = s])
    /\ UNCHANGED <<session, member, overtaken, changes>>

(* Variant: revoked without asking whether this request is the first. *)
ClaimsAlways(s) == TRUE

Claims(s) == session[s].live

TryRevokeLiveSession(h) ==
    LET s == work[h].s IN
    /\ At(h, "claim")
    /\ session' = [session EXCEPT ![s].live = FALSE]
    /\ Goes(h, [work[h] EXCEPT !.pc = IF Claims(s) THEN "issue" ELSE "reuse"])
    /\ UNCHANGED <<member, overtaken, changes>>

RevokeFamily(h) ==
    /\ At(h, "reuse")
    /\ session' = [s \in Sessions |->
          IF Issued(s) /\ FamilyOf(s) = FamilyOf(work[h].s)
          THEN [session[s] EXCEPT !.live = FALSE] ELSE session[s]]
    /\ Ends(h)
    /\ UNCHANGED <<member, overtaken, changes>>

IssueNext(h, s) ==
    LET old == work[h].s IN
    /\ At(h, "issue") /\ ~Issued(s)
    /\ Created(s, session[old].user, FamilyOf(old))
    /\ Ends(h)
    /\ UNCHANGED <<member, overtaken, changes>>

FindForLogout(h, s) ==
    /\ At(h, "idle") /\ Issued(s) /\ session[s].live
    /\ Goes(h, [Idle EXCEPT !.pc = "logout", !.s = s])
    /\ UNCHANGED <<session, member, overtaken, changes>>

RevokeSession(h) ==
    /\ At(h, "logout")
    /\ session' = [session EXCEPT ![work[h].s].live = FALSE]
    /\ Ends(h)
    /\ UNCHANGED <<member, overtaken, changes>>

(***************************************************************************)
(* The guard                                                               *)
(***************************************************************************)

IsSessionLive(h, s) ==
    /\ At(h, "idle") /\ session[s].live /\ changes < MaxChanges
    /\ changes' = changes + 1
    /\ Goes(h, [Idle EXCEPT !.pc = "member", !.s = s])
    /\ UNCHANGED <<session, member, overtaken>>

Actor(u, m) == [user |-> u, role |-> m.role, scope |-> m.scope, platform |-> PlatformRole[u]]

ActorOf(u) == Actor(u, IF member[u].active THEN member[u] ELSE NoMember)

(* Only active memberships, and from the database at every request. *)
ListMemberships(h) ==
    /\ At(h, "member")
    /\ Goes(h, [work[h] EXCEPT !.pc = "act", !.s = None,
                               !.actor = ActorOf(session[work[h].s].user)])
    /\ UNCHANGED <<session, member, overtaken, changes>>

(***************************************************************************)
(* Members                                                                 *)
(***************************************************************************)

ActiveOwners == {u \in Users : member[u].role = "OWNER" /\ member[u].active}

(* Variant: everybody who ever was an owner. *)
EveryOwner == Cardinality({u \in Users : member[u].role = "OWNER"})

CountActiveOwners == Cardinality(ActiveOwners)

MayManage(a) == AssertOrgAccess(a, {"OWNER"})

(* Since g decided, an owner went, or the member it is about became one.   *)
Overtakes(g) ==
    \/ ActiveOwners \ ActiveOwners' # {}
    \/ work[g].change.on \in ActiveOwners' \ ActiveOwners

(* A write of the members, which ends its request. *)
Written(h) ==
    /\ Ends(h)
    /\ overtaken' = {g \in Requests \ {h} : At(g, "write") /\ (g \in overtaken \/ Overtakes(g))}

(* The upsert: a member who was removed comes back, and the role of one    *)
(* who is there is replaced without counting the owners.                   *)
AddMember(h, u, role, scope) ==
    /\ At(h, "act") /\ MayManage(work[h].actor)
    /\ member' = [member EXCEPT ![u] = [role |-> role, active |-> TRUE, scope |-> scope]]
    /\ Written(h)
    /\ UNCHANGED <<session, changes>>

EndsOwnership(c) == c.op = "remove" \/ c.role = "MANAGER"

TakesAnOwner(c, m) == m.role = "OWNER" /\ EndsOwnership(c)

(* findById.  Nobody changes their own role or removes themselves.         *)
FindMember(h, c) ==
    LET a == work[h].actor  m == member[c.on] IN
    /\ At(h, "act") /\ MayManage(a) /\ c.op \in {"update", "remove"}
    /\ m.role # "NONE"
    /\ c.on = a.user => c.op = "update" /\ c.role \in {"NONE", m.role}
    /\ Goes(h, [work[h] EXCEPT !.change = c, !.actor = Nobody,
                               !.pc = IF TakesAnOwner(c, m) THEN "count" ELSE "write"])
    /\ UNCHANGED <<session, member, overtaken, changes>>

AssertNotLastOwner(h) ==
    /\ At(h, "count")
    /\ IF CountActiveOwners <= 1 THEN Ends(h)
       ELSE Goes(h, [work[h] EXCEPT !.pc = "write"])
    /\ UNCHANGED <<session, member, overtaken, changes>>

(* What the request does not name stays as it is by now.                   *)
UpdateMember(h) ==
    LET c == work[h].change IN
    /\ At(h, "write") /\ c.op = "update"
    /\ member' = [member EXCEPT ![c.on].role = IF c.role = "NONE" THEN @ ELSE c.role,
                                ![c.on].scope = IF c.scope = Unnamed THEN @ ELSE c.scope]
    /\ Written(h)
    /\ UNCHANGED <<session, changes>>

DropsSessions(u) ==
    [s \in Sessions |-> IF session[s].user = u THEN [session[s] EXCEPT !.live = FALSE]
                        ELSE session[s]]

(* One transaction. *)
Deactivate(h) ==
    LET c == work[h].change IN
    /\ At(h, "write") /\ c.op = "remove"
    /\ member' = [member EXCEPT ![c.on].active = FALSE]
    /\ session' = DropsSessions(c.on)
    /\ Written(h)
    /\ UNCHANGED changes

(* Refused, answered without a change, or cut short. *)
GivesUp(h) ==
    /\ ~At(h, "idle") /\ Ends(h)
    /\ overtaken' = overtaken \ {h}
    /\ UNCHANGED <<session, member, changes>>

(***************************************************************************)
(* The system                                                              *)
(***************************************************************************)

Roles == {"OWNER", "MANAGER"}

Init ==
    /\ session = [s \in Sessions |-> Unissued]
    /\ member = [u \in Users |-> IF u \in Owners0
                                 THEN [role |-> "OWNER", active |-> TRUE, scope |-> {}]
                                 ELSE NoMember]
    /\ work = [h \in Requests |-> Idle]
    /\ overtaken = {} /\ changes = 0

(* A request that names nothing changes nothing. *)
Changes ==
    {c \in [op : {"update"}, on : Users, role : Roles \union {"NONE"}, scope : Scopes \union {Unnamed}] :
        c.role # "NONE" \/ c.scope # Unnamed}
    \union [op : {"remove"}, on : Users, role : {"NONE"}, scope : {Unnamed}]

Serve(h) ==
    \/ \E s \in Sessions : \/ Refresh(h, s) \/ IssueNext(h, s)
                           \/ FindForLogout(h, s) \/ IsSessionLive(h, s)
    \/ TryRevokeLiveSession(h) \/ RevokeFamily(h) \/ RevokeSession(h)
    \/ ListMemberships(h)
    \/ \E u \in Users, role \in Roles, scope \in Scopes : AddMember(h, u, role, scope)
    \/ \E c \in Changes : FindMember(h, c)
    \/ AssertNotLastOwner(h) \/ UpdateMember(h) \/ Deactivate(h)
    \/ GivesUp(h)

Next ==
    \/ \E h \in Requests : Serve(h)
    \/ \E s \in Sessions, u \in Users : SignIn(s, u)

Spec == Init /\ [][Next]_vars

(***************************************************************************)
(* Properties                                                              *)
(***************************************************************************)

SessionRow ==
    {Unissued} \union [user : Users, family : Sessions, live : BOOLEAN]

MemberRow == [role : Roles \union {"NONE"}, active : BOOLEAN, scope : SUBSET Properties]

Steps == {"idle", "claim", "reuse", "issue", "logout", "member", "act", "count", "write"}

ActorRow == [user : Users \union {None}, role : Roles \union {"NONE"},
             scope : SUBSET Properties, platform : {"NONE", "SUPPORT", "SUPER_ADMIN"}]

Work == [pc : Steps, s : Sessions \union {None}, actor : ActorRow,
         change : {NoChange} \union Changes]

(* Rows and requests have the shape the schema and the handlers give them, *)
(* and a request that is past its first read has a session that exists.    *)
TypeOK ==
    /\ session \in [Sessions -> SessionRow]
    /\ member \in [Users -> MemberRow]
    /\ work \in [Requests -> Work]
    /\ \A h \in Requests : /\ work[h].pc \in {"claim", "reuse", "issue", "logout", "member"} =>
                               work[h].s # None /\ Issued(work[h].s)
                           /\ At(h, "count") \/ At(h, "write") => work[h].change \in Changes
    /\ overtaken \subseteq Requests /\ changes \in 0..MaxChanges

(* Rotation has one winner (tryRevokeLiveSession): a family never has two  *)
(* live sessions, and none while its next one is being issued, however     *)
(* many requests present whichever of its tokens at once.                  *)
Issuing(h, f) == At(h, "issue") /\ FamilyOf(work[h].s) = f

OneLiveSessionPerFamily ==
    /\ \A s, r \in Sessions :
          session[s].live /\ session[r].live /\ FamilyOf(s) = FamilyOf(r) => s = r
    /\ \A h \in Requests, s \in Sessions : session[s].live => ~Issuing(h, FamilyOf(s))
    /\ \A g, h \in Requests, s \in Sessions :
          Issued(s) /\ Issuing(g, FamilyOf(s)) /\ Issuing(h, FamilyOf(s)) => g = h

(* Every session of the family is revoked and none is being issued.        *)
Ended(f) ==
    /\ Issued(f)
    /\ \A s \in Sessions : FamilyOf(s) = f => ~session[s].live
    /\ \A h \in Requests : ~Issuing(h, f)

(* A sign-in that has ended, by sign-out, by a token used twice or by the  *)
(* removal of the member it belonged to, stays ended, whichever of its     *)
(* tokens are presented and whatever requests had read before              *)
(* (tryRevokeLiveSession decides who issues the next, not the read).       *)
EndedStaysEnded == [][\A f \in Sessions : Ended(f) => Ended(f)']_vars

(* "You cannot demote the last owner" (assertNotLastOwner): the            *)
(* organisation loses its last owner only through addMember, which does    *)
(* not count, or through a request for which, after it counted or found    *)
(* that it need not, and before its write, another owner went or the       *)
(* member it is about became one.                                          *)
LastOwnerIsKept ==
    [][ActiveOwners # {} /\ ActiveOwners' = {} =>
          \E h \in Requests : /\ ~At(h, "idle") /\ work'[h] = Idle
                              /\ At(h, "act") \/ (At(h, "write") /\ h \in overtaken)]_vars

(* "You cannot demote the last owner", of the requests that count: none of *)
(* them takes the last one.  It does not hold: two that have both counted  *)
(* two owners leave none.                                                  *)
LastOwnerStays ==
    [][ActiveOwners # {} /\ ActiveOwners' = {} =>
          \E h \in Requests : At(h, "act") /\ work'[h] = Idle]_vars

(* "Staff removal kills access immediately" (03_System_Architecture.md).   *)
(* It does not hold: whoever passed the guard before being removed still   *)
(* changes the members.                                                    *)
RemovedIsOut ==
    [][\A h \in Requests :
          LET a == work[h].actor IN
          /\ At(h, "act") /\ a.user # None /\ a.platform = "NONE"
          /\ ~member[a.user].active /\ member' # member
          => work'[h] = work[h]]_vars
=============================================================================
