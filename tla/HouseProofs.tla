---------------------------- MODULE HouseProofs ----------------------------
(***************************************************************************)
(* Theorems about House, for any property and any number of requests.  The *)
(* row lock and the constraint arbitrate between claims only, so a claim   *)
(* and a withdrawal can meet on a bed.  Inv says that what a request       *)
(* looked at is still so unless another wrote over it: whoever strands a   *)
(* tenant was overtaken between its check and its write.                   *)
(***************************************************************************)
EXTENDS House, FiniteSetTheorems, TLAPS

Task == [pc : Steps, on : Rooms \union Beds \union {None},
         with : Codes \union Names \union {None}]

(* What a request is doing says what it is doing it to.                    *)
Tasks ==
    {w \in Task :
        /\ w.pc \in {"create", "rename", "remove"} => w.on \in Rooms
        /\ w.pc \in {"create", "rename"} => w.with \in Codes
        /\ w.pc \in {"block", "return", "hold", "seat"} => w.on \in Beds
        /\ w.pc \in {"publish", "claim"} => w.with \in Names}

(* What the request found when it looked.                                  *)
Told(h) ==
    /\ work[h].pc \in {"hold", "seat"} => InService(work[h].on)
    /\ work[h].pc \in {"block", "remove"} => \A b \in Concerns(h) : claim[b] = "NONE"
    /\ At(h, "delete") => tenancies = {}

Inv ==
    /\ TypeOK
    /\ work \in [Requests -> Tasks]
    /\ \A h \in Requests \ overtaken : Told(h)

(* None of the beds a step leaves alone is looked at or counted anew.      *)
SameBed(b) ==
    /\ InService(b) => InService(b)'
    /\ claim'[b] = claim[b]
    /\ b \in tenancies' => b \in tenancies

(* What is assumed of the house: its beds are finitely many, each in a     *)
(* room of its own plan.                                                   *)
LEMMA HouseFacts ==
    RoomOf \in [Beds -> Rooms] /\ IsFiniteSet(Beds) /\ MaxDeaths \in Nat /\ Names # {}
BY HouseOK DEF HouseAssumption

(* A count of zero means that there is none.                               *)
LEMMA NoneCounted ==
    ASSUME NEW B, B \subseteq Beds
    PROVE  /\ CountActiveAllocations(B) = 0 => \A b \in B : claim[b] = "NONE"
           /\ tenancies \subseteq B => (CountTenancies(B) = 0 <=> tenancies = {})
<1>1. IsFiniteSet(B)
  BY HouseFacts, FS_Subset
<1>2. /\ IsFiniteSet({b \in B : claim[b] # "NONE"})
      /\ IsFiniteSet(B \intersect tenancies)
  BY <1>1, FS_Subset
<1>3. /\ CountActiveAllocations(B) = 0 <=> {b \in B : claim[b] # "NONE"} = {}
      /\ CountTenancies(B) = 0 <=> B \intersect tenancies = {}
  BY <1>2, FS_EmptySet DEF CountActiveAllocations, CountTenancies
<1> QED BY <1>3

(* The same beds, looked at a step later.                                  *)
LEMMA StillTold ==
    ASSUME NEW h \in Requests, work'[h] = work[h], Told(h), work[h] \in Tasks,
           \A b \in Concerns(h) : SameBed(b), tenancies' \subseteq Beds
    PROVE  Told(h)'
<1>1. Concerns(h)' = Concerns(h)
  BY DEF Concerns, At, BedsOf
<1>2. ASSUME work[h].pc \in {"hold", "seat"} PROVE InService(work[h].on)'
  <2> PICK b : b = work[h].on
    OBVIOUS
  <2>1. b \in Concerns(h) /\ InService(b)
    BY <1>2 DEF Told, Concerns
  <2>2. InService(b)'
    BY <2>1 DEF SameBed
  <2> QED BY <2>2 DEF InService, Standing
<1>3. work[h].pc \in {"block", "remove"} => \A b \in Concerns(h)' : claim'[b] = "NONE"
  BY <1>1 DEF Told, SameBed
<1>4. At(h, "delete") => tenancies' = {}
  <2>1. At(h, "delete") => Concerns(h) = Beds
    BY DEF Concerns, At
  <2> QED BY <2>1 DEF Told, SameBed
<1> QED BY <1>2, <1>3, <1>4 DEF Told, At

(* A request that ends having written about some beds overtakes those that *)
(* had looked at them, and leaves the others as they were.                 *)
LEMMA Overtakes ==
    ASSUME Inv, NEW h \in Requests, NEW B, EndsHavingWritten(h, B),
           \A b \in Beds \ B : SameBed(b), tenancies' \subseteq Beds
    PROVE  /\ work' \in [Requests -> Tasks] /\ overtaken' \subseteq Requests
           /\ \A g \in Requests \ overtaken' : Told(g)'
<1>1. Idle \in Tasks /\ Idle.pc = "idle"
  BY DEF Idle, Tasks, Task, Steps
<1>2. work \in [Requests -> Tasks] /\ overtaken \subseteq Requests
  BY DEF Inv, TypeOK
<1>3. work' = [work EXCEPT ![h] = Idle]
  BY DEF EndsHavingWritten
<1>4. Told(h)'
  <2>1. work'[h] = Idle
    BY <1>2, <1>3
  <2> QED BY <1>1, <2>1 DEF Told, At
<1>5. ASSUME NEW g \in Requests \ overtaken', g # h PROVE Told(g)'
  <2>1. work'[g] = work[g] /\ g \notin overtaken /\ Concerns(g) \intersect B = {}
    BY <1>2, <1>3, <1>5 DEF EndsHavingWritten
  <2>2. Concerns(g) \subseteq Beds
    BY <1>2 DEF Concerns, Tasks, BedsOf
  <2>3. \A b \in Concerns(g) : SameBed(b)
    BY <2>1, <2>2
  <2> QED BY <1>2, <2>1, <2>3, StillTold DEF Inv
<1>6. overtaken' \subseteq Requests
  BY <1>2 DEF EndsHavingWritten
<1> QED BY <1>1, <1>2, <1>3, <1>4, <1>5, <1>6

(* A request that has looked, at beds that are as it says.                 *)
LEMMA LooksOnly ==
    ASSUME Inv, NEW h \in Requests, NEW w \in Tasks, work' = [work EXCEPT ![h] = w],
           UNCHANGED <<rooms, inService, claim, tenancies, overtaken>>, Told(h)'
    PROVE  /\ work' \in [Requests -> Tasks] /\ overtaken' \subseteq Requests
           /\ \A g \in Requests \ overtaken' : Told(g)'
<1>1. work \in [Requests -> Tasks] /\ overtaken \subseteq Requests /\ tenancies \subseteq Beds
  BY DEF Inv, TypeOK
<1>2. ASSUME NEW g \in Requests \ overtaken, g # h PROVE Told(g)'
  <2>1. work'[g] = work[g]
    BY <1>1, <1>2
  <2>2. \A b : SameBed(b)
    BY DEF SameBed, InService, Standing
  <2> QED BY <1>1, <2>1, <2>2, StillTold DEF Inv
<1> QED BY <1>1, <1>2

(***************************************************************************)
(* The steps                                                               *)
(***************************************************************************)

(* What the proof of a step has to show beside the types of the rows.      *)
Kept ==
    /\ work' \in [Requests -> Tasks] /\ overtaken' \subseteq Requests
    /\ \A g \in Requests \ overtaken' : Told(g)'

RoomRow == [code : Codes \union {None}, state : {"none", "live", "removed"}]
BedsStand == inService \subseteq Beds /\ \A b \in inService : Standing(b)
ListingRow == [status : {"DRAFT", "PUBLISHED", "UNLISTED"}, slug : Names \union {None}]
PropertyRow == [name : Names, photos : BOOLEAN, removed : BOOLEAN]

RowsOK ==
    /\ rooms \in [Rooms -> RoomRow]
    /\ BedsStand
    /\ claim \in [Beds -> {"NONE", "HOLD", "TENANCY"}]
    /\ tenancies \subseteq Beds
    /\ listing \in ListingRow
    /\ property \in PropertyRow
    /\ deaths \in 0..MaxDeaths

(* The invariant gives the shapes, and rows that keep theirs, with         *)
(* requests that know what they knew, give the invariant again.            *)
LEMMA InvParts ==
    /\ Inv => RowsOK /\ work \in [Requests -> Tasks] /\ overtaken \subseteq Requests
    /\ RowsOK' /\ Kept => Inv'
<1>1. Tasks \subseteq [pc : Steps, on : Rooms \union Beds \union {None},
                       with : Codes \union Names \union {None}]
  BY DEF Tasks, Task
<1>2. work' \in [Requests -> Tasks] =>
        work' \in [Requests -> [pc : Steps, on : Rooms \union Beds \union {None},
                                with : Codes \union Names \union {None}]]
  BY <1>1
<1> QED BY <1>2 DEF Inv, TypeOK, RowsOK, Kept, RoomRow, BedsStand, ListingRow, PropertyRow

(* Steps that only look.                                                   *)
LEMMA Checks ==
    ASSUME Inv, NEW h \in Requests,
           \/ \E r \in Rooms : \/ \E code \in Codes : AssertCodesFree(h, r, code)
                               \/ CheckRemoveRoom(h, r)
           \/ \E b \in Beds : \/ CheckUpdateBed(h, b) \/ CheckBackInService(h, b)
                             \/ FindCandidate(h, b) \/ FindBedForSeating(h, b)
           \/ CheckPublish(h) \/ CheckRemoveProperty(h)
    PROVE  RowsOK' /\ Kept
<1>1. UNCHANGED <<rooms, inService, claim, tenancies, listing, property, overtaken, deaths>>
  BY DEF AssertCodesFree, CheckRemoveRoom, CheckUpdateBed, CheckBackInService, FindCandidate, FindBedForSeating,
     CheckPublish, CheckRemoveProperty
<1>2. RowsOK'
  BY <1>1, InvParts DEF RowsOK, BedsStand, Standing
<1>3. work \in [Requests -> Tasks] /\ RowsOK
  BY InvParts
<1>4. \A pc, on, with : Goes(h, pc, on, with) =>
         work'[h].pc = pc /\ work'[h].on = on /\ work'[h].with = with
  BY <1>3 DEF Goes
<1>5. ASSUME NEW pc \in Steps, NEW on \in Rooms \union Beds \union {None},
             NEW with \in Codes \union Names \union {None}, Goes(h, pc, on, with),
             pc \in {"create", "rename", "remove"} => on \in Rooms,
             pc \in {"create", "rename"} => with \in Codes,
             pc \in {"block", "return", "hold", "seat"} => on \in Beds,
             pc \in {"publish", "claim"} => with \in Names, Told(h)'
      PROVE  Kept
  <2> PICK w : w = [pc |-> pc, on |-> on, with |-> with]
    OBVIOUS
  <2>1. w \in Tasks
    BY <1>5 DEF Tasks, Task
  <2>2. work' = [work EXCEPT ![h] = w]
    BY <1>5 DEF Goes
  <2> QED BY <1>1, <1>5, <2>1, <2>2, LooksOnly DEF Kept
<1>6. ASSUME NEW r \in Rooms, NEW code \in Codes, AssertCodesFree(h, r, code) PROVE Kept
  <2>1. PICK pc \in {"create", "rename"} : Goes(h, pc, r, code)
    BY <1>6 DEF AssertCodesFree
  <2>2. Told(h)'
    BY <1>4, <2>1 DEF Told, At
  <2> QED BY <1>5, <2>1, <2>2 DEF Steps
<1>7. ASSUME NEW r \in Rooms, CheckRemoveRoom(h, r) PROVE Kept
  <2>1. Goes(h, "remove", r, None) /\ BedsOf(r) \subseteq Beds
    BY <1>7 DEF CheckRemoveRoom, BedsOf
  <2>2. \A b \in BedsOf(r) : claim[b] = "NONE"
    BY <1>7, <2>1, NoneCounted DEF CheckRemoveRoom
  <2>3. Concerns(h)' = BedsOf(r)
    BY <1>4, <2>1 DEF Concerns, At, BedsOf
  <2>4. Told(h)'
    BY <1>1, <1>4, <2>1, <2>2, <2>3 DEF Told, At
  <2> QED BY <1>5, <2>1, <2>4 DEF Steps
<1>8. ASSUME NEW b \in Beds, CheckUpdateBed(h, b) PROVE Kept
  <2>1. Goes(h, "block", b, None)
    BY <1>8 DEF CheckUpdateBed
  <2>2. claim[b] = "NONE"
    BY <1>8, NoneCounted DEF CheckUpdateBed
  <2>3. Concerns(h)' = {b}
    BY <1>4, <2>1 DEF Concerns, At
  <2>4. Told(h)'
    BY <1>1, <1>4, <2>1, <2>2, <2>3 DEF Told, At
  <2> QED BY <1>5, <2>1, <2>4 DEF Steps
<1>9. ASSUME NEW b \in Beds, FindCandidate(h, b) \/ FindBedForSeating(h, b) PROVE Kept
  <2>1. PICK pc \in {"hold", "seat"} : Goes(h, pc, b, None)
    BY <1>9 DEF FindCandidate, FindBedForSeating
  <2>2. InService(b)'
    BY <1>1, <1>9 DEF FindCandidate, FindBedForSeating, CandidateBeds, InService, Standing
  <2>3. Told(h)'
    BY <1>4, <2>1, <2>2 DEF Told, At, InService, Standing
  <2> QED BY <1>5, <2>1, <2>3 DEF Steps
<1>10. ASSUME CheckPublish(h) PROVE Kept
  <2>1. PICK name \in Names : Goes(h, "publish", None, name)
    <3>1. listing.slug \in Names \union {None} /\ property.name \in Names
      BY <1>3 DEF RowsOK, ListingRow, PropertyRow
    <3> QED BY <1>10, <3>1 DEF CheckPublish
  <2>2. Told(h)'
    BY <1>4, <2>1 DEF Told, At
  <2> QED BY <1>5, <2>1, <2>2 DEF Steps
<1>11. ASSUME CheckRemoveProperty(h) PROVE Kept
  <2>1. Goes(h, "delete", None, None) /\ tenancies = {}
    BY <1>3, <1>11, NoneCounted DEF CheckRemoveProperty, NoTenantLeft, RowsOK
  <2>2. Told(h)'
    BY <1>1, <1>4, <2>1 DEF Told, At
  <2> QED BY <1>5, <2>1, <2>2 DEF Steps
<1>12. ASSUME NEW b \in Beds, CheckBackInService(h, b) PROVE Kept
  <2>1. Goes(h, "return", b, None)
    BY <1>12 DEF CheckBackInService
  <2>2. Told(h)'
    BY <1>4, <2>1 DEF Told, At
  <2> QED BY <1>5, <2>1, <2>2 DEF Steps
<1> QED BY <1>2, <1>6, <1>7, <1>8, <1>9, <1>10, <1>11, <1>12

(* Steps that write about a room and its beds, or about one bed.           *)
LEMMA RoomWrites ==
    ASSUME Inv, NEW h \in Requests,
           \/ CreateRoomsWithBeds(h) \/ SoftDeleteRoom(h) \/ UpdateBed(h) \/ BackInService(h)
    PROVE  RowsOK' /\ Kept
<1>1. RowsOK /\ work[h] \in Tasks /\ RoomOf \in [Beds -> Rooms]
  BY InvParts, HouseFacts
<1>2. UNCHANGED <<claim, tenancies, listing, property, deaths>>
  BY DEF CreateRoomsWithBeds, SoftDeleteRoom, UpdateBed, BackInService
<1>3. CASE CreateRoomsWithBeds(h)
  <2> DEFINE r == work[h].on
  <2>1. r \in Rooms /\ work[h].with \in Codes
    BY <1>1, <1>3 DEF CreateRoomsWithBeds, At, Tasks
  <2>2. \/ UNCHANGED <<rooms, inService>>
        \/ /\ rooms' = [rooms EXCEPT ![r] = [code |-> work[h].with, state |-> "live"]]
           /\ inService' = inService \union BedsOf(r)
    BY <1>3 DEF CreateRoomsWithBeds
  <2>3. /\ rooms' \in [Rooms -> RoomRow]
        /\ \A q \in Rooms : rooms'[q].state = rooms[q].state \/ (q = r /\ rooms'[q].state = "live")
    BY <1>1, <2>1, <2>2 DEF RowsOK, RoomRow
  <2>4. inService \subseteq inService' /\ BedsStand'
    <3>1. CASE UNCHANGED <<rooms, inService>>
      BY <1>1, <3>1 DEF RowsOK, BedsStand, Standing
    <3>2. CASE /\ rooms' = [rooms EXCEPT ![r] = [code |-> work[h].with, state |-> "live"]]
               /\ inService' = inService \union BedsOf(r)
      <4>1. rooms'[r].state = "live"
        BY <1>1, <2>1, <3>2 DEF RowsOK
      <4> QED BY <1>1, <2>3, <3>2, <4>1 DEF RowsOK, BedsStand, Standing, BedsOf
    <3> QED BY <2>2, <3>1, <3>2
  <2>5. \A b \in Beds : SameBed(b)
    BY <1>1, <1>2, <2>3, <2>4 DEF SameBed, InService, Standing
  <2>6. EndsHavingWritten(h, BedsOf(r))
    BY <1>3 DEF CreateRoomsWithBeds
  <2>7. Kept
    BY <1>1, <1>2, <2>5, <2>6, Overtakes DEF Kept, RowsOK
  <2> QED BY <1>1, <1>2, <2>3, <2>4, <2>7 DEF RowsOK
<1>4. CASE SoftDeleteRoom(h)
  <2> DEFINE r == work[h].on
  <2>1. r \in Rooms
    BY <1>1, <1>4 DEF SoftDeleteRoom, At, Tasks
  <2>2. rooms' = [rooms EXCEPT ![r].state = "removed"] /\ inService' = inService \ BedsOf(r)
    BY <1>4 DEF SoftDeleteRoom, BedsGone
  <2>3. /\ rooms' \in [Rooms -> RoomRow]
        /\ \A q \in Rooms \ {r} : rooms'[q] = rooms[q]
    BY <1>1, <2>1, <2>2 DEF RowsOK, RoomRow
  <2>4. BedsStand'
    BY <1>1, <2>2, <2>3 DEF RowsOK, BedsStand, Standing, BedsOf
  <2>5. \A b \in Beds \ BedsOf(r) : SameBed(b)
    BY <1>1, <1>2, <2>2, <2>3 DEF SameBed, InService, Standing, BedsOf
  <2>6. EndsHavingWritten(h, BedsOf(r))
    BY <1>4 DEF SoftDeleteRoom
  <2>7. Kept
    BY <1>1, <1>2, <2>5, <2>6, Overtakes DEF Kept, RowsOK
  <2> QED BY <1>1, <1>2, <2>3, <2>4, <2>7 DEF RowsOK
<1>5. CASE UpdateBed(h)
  <2> DEFINE b == work[h].on
  <2>1. /\ rooms' = rooms /\ inService' = inService \ {b}
        /\ EndsHavingWritten(h, {b})
    BY <1>5 DEF UpdateBed
  <2>2. BedsStand' /\ \A d \in Beds \ {b} : SameBed(d)
    BY <1>1, <1>2, <2>1 DEF RowsOK, BedsStand, SameBed, InService, Standing
  <2>3. Kept
    BY <1>1, <1>2, <2>1, <2>2, Overtakes DEF Kept, RowsOK
  <2> QED BY <1>1, <1>2, <2>1, <2>2, <2>3 DEF RowsOK
<1>6. CASE BackInService(h)
  <2> DEFINE b == work[h].on
  <2>1. b \in Beds
    BY <1>1, <1>6 DEF BackInService, At, Tasks
  <2>2. rooms' = rooms /\ EndsHavingWritten(h, {})
    BY <1>6 DEF BackInService, Ends
  <2>3. inService' = inService \/ (Standing(b) /\ inService' = inService \union {b})
    BY <1>6 DEF BackInService
  <2>4. BedsStand' /\ \A d \in Beds : SameBed(d)
    BY <1>1, <1>2, <2>1, <2>2, <2>3 DEF RowsOK, BedsStand, SameBed, InService, Standing
  <2>5. Kept
    BY <1>1, <1>2, <2>2, <2>4, Overtakes DEF Kept, RowsOK
  <2> QED BY <1>1, <1>2, <2>2, <2>4, <2>5 DEF RowsOK
<1> QED BY <1>3, <1>4, <1>5, <1>6

(* Claims that are placed, and those that move on.                         *)
LEMMA ClaimWrites ==
    ASSUME Inv, (\E h \in Requests : PlaceClaim(h)) \/ (\E b \in Beds : ClaimMoves(b))
    PROVE  RowsOK' /\ Kept
<1> DEFINE Rows == claim' \in [Beds -> {"NONE", "HOLD", "TENANCY"}] /\ tenancies' \subseteq Beds
<1>1. RowsOK /\ work \in [Requests -> Tasks] /\ overtaken \subseteq Requests
  BY InvParts
<1>2. UNCHANGED <<rooms, inService, listing, property, deaths>>
  BY DEF PlaceClaim, ClaimMoves
<1>3. ASSUME NEW h \in Requests, PlaceClaim(h) PROVE Rows /\ Kept
  <2> DEFINE b == work[h].on
  <2>1. b \in Beds
    BY <1>1, <1>3 DEF PlaceClaim, Tasks
  <2>2. CASE claim[b] = "NONE"
    <3>1. PICK kind \in {"HOLD", "TENANCY"} : claim' = [claim EXCEPT ![b] = kind]
      BY <1>3, <2>2 DEF PlaceClaim
    <3>2. EndsHavingWritten(h, {b}) /\ tenancies' \in {tenancies, tenancies \union {b}}
      BY <1>3, <2>2 DEF PlaceClaim
    <3>3. Rows
      BY <1>1, <2>1, <3>1, <3>2 DEF RowsOK
    <3>4. \A d \in Beds \ {b} : SameBed(d)
      BY <1>1, <1>2, <3>1, <3>2 DEF RowsOK, SameBed, InService, Standing
    <3>5. Kept
      BY <3>2, <3>3, <3>4, Overtakes DEF Kept
    <3> QED BY <3>3, <3>5
  <2>3. CASE claim[b] # "NONE"
    <3>1. claim' = claim /\ tenancies' = tenancies /\ EndsHavingWritten(h, {})
      BY <1>3, <2>3 DEF PlaceClaim, Ends
    <3>2. \A d \in Beds : SameBed(d)
      BY <1>2, <3>1 DEF SameBed, InService, Standing
    <3>3. Rows
      BY <1>1, <3>1 DEF RowsOK
    <3>4. Kept
      BY <3>1, <3>2, <3>3, Overtakes DEF Kept
    <3> QED BY <3>3, <3>4
  <2> QED BY <2>2, <2>3
<1>4. ASSUME NEW b \in Beds, ClaimMoves(b) PROVE Rows /\ Kept
  <2>1. PICK kind \in {"NONE", "HOLD", "TENANCY"} : claim' = [claim EXCEPT ![b] = kind]
    <3>1. claim[b] \in {"NONE", "HOLD", "TENANCY"} /\ claim = [claim EXCEPT ![b] = claim[b]]
      BY <1>1 DEF RowsOK
    <3> QED BY <1>4, <3>1 DEF ClaimMoves
  <2>2. /\ work' = work
        /\ overtaken' = overtaken \union {g \in Requests : b \in Concerns(g)}
        /\ tenancies' \in {tenancies, tenancies \union {b}, tenancies \ {b}}
    BY <1>4 DEF ClaimMoves
  <2>3. \A d \in Beds \ {b} : SameBed(d)
    BY <1>1, <1>2, <2>1, <2>2 DEF RowsOK, SameBed, InService, Standing
  <2>4. Rows
    BY <1>1, <2>1, <2>2 DEF RowsOK
  <2>5. ASSUME NEW g \in Requests \ overtaken' PROVE Told(g)'
    <3>1. g \notin overtaken /\ b \notin Concerns(g) /\ Concerns(g) \subseteq Beds
      BY <1>1, <2>2, <2>5 DEF Concerns, Tasks, BedsOf
    <3>2. \A d \in Concerns(g) : SameBed(d)
      BY <2>3, <3>1
    <3> QED BY <1>1, <2>2, <2>4, <3>1, <3>2, StillTold DEF Inv
  <2> QED BY <1>1, <2>2, <2>4, <2>5 DEF Kept
<1>5. Rows => RowsOK'
  BY <1>1, <1>2 DEF RowsOK, BedsStand, Standing
<1> QED BY <1>3, <1>4, <1>5

(* Steps that write about no bed at all.                                   *)
LEMMA OtherWrites ==
    ASSUME Inv,
           \/ \E h \in Requests : \/ UpdateRoom(h) \/ Publish(h) \/ ClaimSlug(h) \/ Unpublish(h)
                                  \/ SoftDelete(h) \/ Dies(h)
                                  \/ \E name \in Names : Rename(h, name)
           \/ PhotosChange \/ UNCHANGED vars
    PROVE  RowsOK' /\ Kept
<1>1. RowsOK /\ work \in [Requests -> Tasks] /\ overtaken \subseteq Requests
  BY InvParts
<1>2. UNCHANGED <<inService, claim, tenancies>> /\ tenancies' \subseteq Beds
  BY <1>1 DEF RowsOK, UpdateRoom, Publish, ClaimSlug, Unpublish, SoftDelete, Dies, Rename, PhotosChange, vars
<1>3. rooms' \in [Rooms -> RoomRow] /\ \A q \in Rooms : rooms'[q].state = rooms[q].state
  <2>1. ASSUME NEW h \in Requests, UpdateRoom(h)
        PROVE  rooms' \in [Rooms -> RoomRow] /\ \A q \in Rooms : rooms'[q].state = rooms[q].state
    <3>1. work[h].on \in Rooms /\ work[h].with \in Codes
      BY <1>1, <2>1 DEF UpdateRoom, At, Tasks
    <3>2. rooms' \in {rooms, [rooms EXCEPT ![work[h].on].code = work[h].with]}
      BY <2>1 DEF UpdateRoom
    <3> PICK row : row = [rooms[work[h].on] EXCEPT !.code = work[h].with]
      OBVIOUS
    <3>3. rooms \in [Rooms -> RoomRow]
      BY <1>1 DEF RowsOK
    <3>4. row \in RoomRow /\ row.state = rooms[work[h].on].state
      BY <3>1, <3>3 DEF RoomRow
    <3>5. CASE rooms' = rooms
      BY <3>3, <3>5
    <3>6. CASE rooms' = [rooms EXCEPT ![work[h].on] = row]
      BY <3>1, <3>3, <3>4, <3>6
    <3> QED BY <3>2, <3>5, <3>6
  <2>2. CASE rooms' = rooms
    BY <1>1, <2>2 DEF RowsOK
  <2> QED BY <2>1, <2>2 DEF Publish, ClaimSlug, Unpublish, SoftDelete, Dies, Rename, PhotosChange, vars
<1>4. BedsStand' /\ \A b \in Beds : SameBed(b)
  BY <1>1, <1>2, <1>3, HouseFacts DEF RowsOK, BedsStand, SameBed, InService, Standing
<1>5. listing' \in ListingRow
  <2>1. ASSUME NEW h \in Requests, ClaimSlug(h) PROVE listing' \in ListingRow
    <3>1. work[h].with \in Names /\ listing \in ListingRow
      BY <1>1, <2>1 DEF ClaimSlug, At, Tasks, RowsOK
    <3>2. SlugClaimed(work[h].with) \in Names \union {None}
      BY <3>1 DEF SlugClaimed, ListingRow
    <3> QED BY <2>1, <3>1, <3>2 DEF ClaimSlug, ListingRow
  <2>2. CASE \E h \in Requests : Publish(h) \/ Unpublish(h)
    BY <1>1, <2>2 DEF Publish, Unpublish, RowsOK, ListingRow
  <2>3. CASE listing' = listing
    BY <1>1, <2>3 DEF RowsOK
  <2> QED BY <2>1, <2>2, <2>3 DEF UpdateRoom, SoftDelete, Dies, Rename, PhotosChange, vars
<1>6. property' \in PropertyRow
  <2>1. property \in PropertyRow
    BY <1>1 DEF RowsOK
  <2>2. CASE property' = property
    BY <2>1, <2>2
  <2>3. CASE \E h \in Requests : SoftDelete(h) \/ \E name \in Names : Rename(h, name)
    BY <2>1, <2>3 DEF SoftDelete, Rename, PropertyRow
  <2>4. CASE PhotosChange
    <3>1. property' = [property EXCEPT !.photos = ~property.photos]
      BY <2>4 DEF PhotosChange
    <3> QED BY <2>1, <3>1 DEF PropertyRow
  <2> QED BY <2>2, <2>3, <2>4 DEF UpdateRoom, Publish, ClaimSlug, Unpublish, Dies, vars
<1>7. deaths' \in 0..MaxDeaths
  <2>1. deaths' = deaths \/ (deaths < MaxDeaths /\ deaths' = deaths + 1)
    BY DEF UpdateRoom, Publish, ClaimSlug, Unpublish, SoftDelete, Dies, Rename, PhotosChange, vars
  <2>2. deaths \in 0..MaxDeaths
    BY <1>1 DEF RowsOK
  <2> QED BY <2>1, <2>2, HouseFacts
<1>8. Kept
  <2>1. CASE \E h \in Requests : Ends(h)
    <3>1. PICK h \in Requests : EndsHavingWritten(h, {})
      BY <2>1 DEF Ends
    <3> QED BY <1>2, <1>4, <3>1, Overtakes DEF Kept
  <2>2. ASSUME NEW h \in Requests, Publish(h) PROVE Kept
    <3> PICK w : w = [pc |-> "claim", on |-> None, with |-> work[h].with]
      OBVIOUS
    <3>1. w \in Tasks /\ w.pc = "claim"
      <4>1. work[h].with \in Names
        BY <1>1, <2>2 DEF Publish, At, Tasks
      <4> QED BY <4>1 DEF Tasks, Task, Steps
    <3>2. work' = [work EXCEPT ![h] = w] /\ UNCHANGED <<rooms, inService, claim, tenancies, overtaken>>
      BY <2>2 DEF Publish, Goes
    <3>3. Told(h)'
      <4>1. work'[h] = w
        BY <1>1, <3>2
      <4> QED BY <3>1, <4>1 DEF Told, At
    <3> QED BY <3>1, <3>2, <3>3, LooksOnly DEF Kept
  <2>3. CASE UNCHANGED <<work, overtaken>>
    <3>1. ASSUME NEW g \in Requests \ overtaken' PROVE Told(g)'
      <4>1. g \notin overtaken /\ Concerns(g) \subseteq Beds /\ work'[g] = work[g] /\ work[g] \in Tasks
        BY <1>1, <2>3, <3>1 DEF Concerns, Tasks, BedsOf
      <4> QED BY <1>2, <1>4, <4>1, StillTold DEF Inv
    <3> QED BY <1>1, <2>3, <3>1 DEF Kept
  <2> QED BY <2>1, <2>2, <2>3 DEF UpdateRoom, ClaimSlug, Unpublish, SoftDelete, Dies, Rename,
             PhotosChange, vars
<1> QED BY <1>1, <1>2, <1>3, <1>4, <1>5, <1>6, <1>7, <1>8 DEF RowsOK

(* Every step keeps Inv.                                                   *)
LEMMA StepKeepsInv == Inv /\ [Next]_vars => Inv'
<1> SUFFICES ASSUME Inv, [Next]_vars PROVE RowsOK' /\ Kept
  BY InvParts
<1>1. ASSUME NEW h \in Requests, Inventory(h) PROVE RowsOK' /\ Kept
  BY <1>1, Checks, RoomWrites, OtherWrites DEF Inventory
<1>2. ASSUME NEW h \in Requests, Claims(h) PROVE RowsOK' /\ Kept
  BY <1>2, Checks, ClaimWrites DEF Claims
<1>3. ASSUME NEW h \in Requests, Listing(h) PROVE RowsOK' /\ Kept
  BY <1>3, Checks, OtherWrites DEF Listing
<1>4. ASSUME NEW h \in Requests, Upkeep(h) \/ Dies(h) PROVE RowsOK' /\ Kept
  BY <1>4, Checks, OtherWrites DEF Upkeep
<1>5. CASE (\E b \in Beds : ClaimMoves(b)) \/ PhotosChange \/ UNCHANGED vars
  BY <1>5, ClaimWrites, OtherWrites
<1> QED BY <1>1, <1>2, <1>3, <1>4, <1>5 DEF Next

(* Nothing is there, and nobody looks.                                     *)
LEMMA InitInv == Init => Inv
<1> SUFFICES ASSUME Init PROVE Inv
  OBVIOUS
<1>1. Idle \in Tasks /\ Idle.pc = "idle" /\ Tasks \subseteq Task
  BY DEF Idle, Tasks, Task, Steps
<1>2. work = [h \in Requests |-> Idle] /\ work \in [Requests -> Tasks] /\ work \in [Requests -> Task]
  BY <1>1 DEF Init
<1>3. TypeOK
  <2>1. rooms \in [Rooms -> [code : Codes \union {None}, state : {"none", "live", "removed"}]]
    BY DEF Init
  <2>2. /\ listing \in [status : {"DRAFT", "PUBLISHED", "UNLISTED"}, slug : Names \union {None}]
        /\ property \in [name : Names, photos : BOOLEAN, removed : BOOLEAN]
    BY DEF Init
  <2>3. deaths \in 0..MaxDeaths
    BY HouseFacts DEF Init
  <2> QED BY <1>2, <2>1, <2>2, <2>3 DEF Init, TypeOK, Task
<1>4. \A h \in Requests : Told(h)
  BY <1>1, <1>2 DEF Told, At
<1> QED BY <1>2, <1>3, <1>4 DEF Inv

(***************************************************************************)
(* Theorems                                                                *)
(***************************************************************************)

(* A request that no other has overtaken finds things as it saw them.      *)
THEOREM InvHolds == Spec => []Inv
<1> QED BY InitInv, StepKeepsInv, PTL DEF Spec

(* Rows and requests always have the shape the schema and the handlers     *)
(* give them, and a bed is in service only in a room that stands.          *)
THEOREM TypeCorrect == Spec => []TypeOK
<1>1. Inv => TypeOK
  BY DEF Inv
<1> QED BY <1>1, InvHolds, PTL

(* "What a tenant is shown cannot disagree with what booking would allow"  *)
(* (freeBedsByProperty), whatever the staff do meanwhile.                  *)
THEOREM SearchAgreesWithBooking == Spec => []OfferedIsBookable
<1>1. TypeOK => OfferedIsBookable
  BY DEF TypeOK, OfferedIsBookable, FreeBeds, CandidateBeds, InService
<1> QED BY <1>1, TypeCorrect, PTL

(* A claimed bed goes out of service, or a bed out of service is claimed,  *)
(* only at the hand of a request that another overtook between its check   *)
(* and its write: updateBed, removeRoom, and the claims themselves.        *)
THEOREM OnlyTheOvertakenStrand == Spec => NobodyIsStranded
<1> DEFINE Strands == \A b \in Beds : ~Stranded(b) /\ Stranded(b)' =>
                        \E h \in overtaken : b \in Concerns(h) /\ work'[h] = Idle
<1>1. Inv /\ [Next]_vars => [Strands]_vars
  <2> SUFFICES ASSUME Inv, Next, NEW b \in Beds, ~Stranded(b), Stranded(b)'
               PROVE  \E h \in overtaken : b \in Concerns(h) /\ work'[h] = Idle
    BY DEF vars
  <2>1. RowsOK /\ work \in [Requests -> Tasks] /\ RoomOf[b] \in Rooms
    BY InvParts, HouseFacts
  <2>2. ASSUME NEW h \in Requests, NEW B, EndsHavingWritten(h, B) PROVE work'[h] = Idle
    BY <2>1, <2>2 DEF EndsHavingWritten
  <2>3. claim'[b] # "NONE" /\ ~InService(b)' /\ (claim[b] # "NONE" => InService(b))
    BY DEF Stranded
  <2>4. ASSUME NEW h \in Requests, PlaceClaim(h) PROVE h \in overtaken /\ b \in Concerns(h) /\ work'[h] = Idle
    <3>1. ~InService(b)
      BY <2>3, <2>4 DEF PlaceClaim, InService, Standing
    <3>2. work[h].on = b /\ claim[b] = "NONE"
      <4>1. claim[b] = "NONE"
        BY <2>3, <3>1
      <4>2. work[h].on # b => claim'[b] = claim[b]
        BY <2>1, <2>4 DEF PlaceClaim, RowsOK
      <4> QED BY <2>3, <4>1, <4>2
    <3>3. b \in Concerns(h) /\ h \in overtaken
      BY <2>4, <3>1, <3>2 DEF PlaceClaim, Concerns, Inv, Told
    <3>4. EndsHavingWritten(h, {b})
      BY <2>4, <3>2 DEF PlaceClaim
    <3> QED BY <2>2, <3>3, <3>4
  <2>5. ASSUME NEW h \in Requests, SoftDeleteRoom(h)
        PROVE  h \in overtaken /\ b \in Concerns(h) /\ work'[h] = Idle
    <3>1. claim[b] # "NONE" /\ InService(b)
      BY <2>3, <2>5 DEF SoftDeleteRoom
    <3>2. b \in BedsOf(work[h].on)
      <4>1. ASSUME b \notin BedsOf(work[h].on) PROVE FALSE
        <5>1. RoomOf[b] # work[h].on
          BY <4>1 DEF BedsOf
        <5>2. rooms'[RoomOf[b]] = rooms[RoomOf[b]] /\ inService' = inService \ BedsOf(work[h].on)
          BY <2>1, <2>5, <5>1 DEF SoftDeleteRoom, BedsGone, RowsOK
        <5> QED BY <2>3, <3>1, <4>1, <5>2 DEF InService, Standing
      <4> QED BY <4>1
    <3>3. b \in Concerns(h)
      BY <2>5, <3>2 DEF SoftDeleteRoom, Concerns, At
    <3>4. h \in overtaken
      BY <2>5, <3>1, <3>3 DEF SoftDeleteRoom, At, Inv, Told
    <3>5. EndsHavingWritten(h, BedsOf(work[h].on))
      BY <2>5 DEF SoftDeleteRoom
    <3> QED BY <2>2, <3>3, <3>4, <3>5
  <2>6. ASSUME NEW h \in Requests, UpdateBed(h)
        PROVE  h \in overtaken /\ b \in Concerns(h) /\ work'[h] = Idle
    <3>1. claim[b] # "NONE" /\ InService(b)
      BY <2>3, <2>6 DEF UpdateBed
    <3>2. b = work[h].on
      BY <2>3, <2>6, <3>1 DEF UpdateBed, InService, Standing
    <3>3. b \in Concerns(h)
      BY <2>6, <3>2 DEF UpdateBed, Concerns, At
    <3>4. h \in overtaken
      BY <2>6, <3>1, <3>3 DEF UpdateBed, At, Inv, Told
    <3>5. EndsHavingWritten(h, {b})
      BY <2>6, <3>2 DEF UpdateBed
    <3> QED BY <2>2, <3>3, <3>4, <3>5
  <2>7. ASSUME NEW d \in Beds, ClaimMoves(d) PROVE FALSE
    <3>1. InService(b)' <=> InService(b)
      BY <2>7 DEF ClaimMoves, InService, Standing
    <3>2. claim'[b] # "NONE" => claim[b] # "NONE"
      BY <2>1, <2>7 DEF ClaimMoves, RowsOK
    <3> QED BY <2>3, <3>1, <3>2
  <2>8. ASSUME claim'[b] = claim[b], InService(b) => InService(b)' PROVE FALSE
    BY <2>3, <2>8
  <2>9. ASSUME NEW h \in Requests,
               \/ CreateRoomsWithBeds(h) \/ UpdateRoom(h) \/ BackInService(h)
        PROVE  FALSE
    <3>1. claim' = claim /\ inService \subseteq inService'
      BY <2>9 DEF CreateRoomsWithBeds, UpdateRoom, BackInService
    <3>2. rooms[RoomOf[b]].state = "live" => rooms'[RoomOf[b]].state = "live"
      <4>1. CASE CreateRoomsWithBeds(h)
        BY <2>1, <4>1 DEF CreateRoomsWithBeds, RowsOK
      <4>2. CASE UpdateRoom(h)
        <5>1. rooms' \in {rooms, [rooms EXCEPT ![work[h].on].code = work[h].with]}
          BY <4>2 DEF UpdateRoom
        <5> QED BY <2>1, <5>1 DEF RowsOK, RoomRow
      <4> QED BY <2>9, <4>1, <4>2 DEF BackInService
    <3> QED BY <2>8, <3>1, <3>2 DEF InService, Standing
  <2>10. CASE UNCHANGED <<rooms, inService, claim>>
    BY <2>8, <2>10 DEF InService, Standing
  <2>11. \/ UNCHANGED <<rooms, inService, claim>>
         \/ \E h \in Requests : \/ PlaceClaim(h) \/ SoftDeleteRoom(h) \/ UpdateBed(h)
                                \/ CreateRoomsWithBeds(h) \/ UpdateRoom(h)
                                \/ BackInService(h)
         \/ \E d \in Beds : ClaimMoves(d)
    <3>1. ASSUME NEW h \in Requests, Inventory(h) \/ Claims(h)
          PROVE  \/ UNCHANGED <<rooms, inService, claim>>
                 \/ PlaceClaim(h) \/ SoftDeleteRoom(h) \/ UpdateBed(h) \/ CreateRoomsWithBeds(h)
                 \/ UpdateRoom(h) \/ BackInService(h)
      BY <3>1 DEF Inventory, Claims, AssertCodesFree, CheckRemoveRoom, CheckUpdateBed, CheckBackInService,
         FindCandidate, FindBedForSeating
    <3>2. ASSUME NEW h \in Requests, Listing(h) \/ Upkeep(h) \/ Dies(h)
          PROVE  UNCHANGED <<rooms, inService, claim>>
      BY <3>2 DEF Listing, Upkeep, Dies, CheckPublish, Publish, ClaimSlug, Unpublish, Rename,
         CheckRemoveProperty, SoftDelete
    <3>3. PhotosChange => UNCHANGED <<rooms, inService, claim>>
      BY DEF PhotosChange
    <3> QED BY <3>1, <3>2, <3>3 DEF Next
  <2> QED BY <2>4, <2>5, <2>6, <2>7, <2>9, <2>10, <2>11
<1> QED BY <1>1, InvHolds, PTL DEF Spec, NobodyIsStranded

(* "Refused outright while anyone is living there" (remove): a property    *)
(* goes with a tenant in it only at the hand of a request that was         *)
(* overtaken after it had counted them.                                    *)
THEOREM OnlyTheOvertakenEvict == Spec => NobodyLosesTheHouse
<1> DEFINE Evicts == ~property.removed /\ property'.removed /\ CountTenancies(Beds) > 0 =>
                       \E h \in overtaken : At(h, "delete") /\ work'[h] = Idle
<1>1. Inv /\ [Next]_vars => [Evicts]_vars
  <2> SUFFICES ASSUME Inv, Next, ~property.removed, property'.removed, CountTenancies(Beds) > 0
               PROVE  \E h \in overtaken : At(h, "delete") /\ work'[h] = Idle
    BY DEF vars
  <2>1. property \in PropertyRow /\ work \in [Requests -> Tasks]
    BY InvParts DEF RowsOK
  <2>2. \/ \E h \in Requests : SoftDelete(h)
        \/ property'.removed = property.removed
    <3>1. CASE \E h \in Requests : \E name \in Names : Rename(h, name)
      BY <2>1, <3>1 DEF Rename, PropertyRow
    <3>2. CASE PhotosChange
      <4>1. property' = [property EXCEPT !.photos = ~property.photos]
        BY <3>2 DEF PhotosChange
      <4> QED BY <2>1, <4>1 DEF PropertyRow
    <3>3. CASE property' = property
      BY <3>3
    <3>4. ASSUME NEW h \in Requests, Inventory(h) \/ Claims(h) PROVE property' = property
      BY <3>4 DEF Inventory, Claims, AssertCodesFree, CheckRemoveRoom, CreateRoomsWithBeds, UpdateRoom,
         SoftDeleteRoom, CheckUpdateBed, UpdateBed, CheckBackInService, BackInService, FindCandidate,
         FindBedForSeating, PlaceClaim
    <3>5. ASSUME NEW h \in Requests, Listing(h) \/ Dies(h) PROVE property' = property
      BY <3>5 DEF Listing, Dies, CheckPublish, Publish, ClaimSlug, Unpublish
    <3>6. ASSUME NEW h \in Requests, Upkeep(h)
          PROVE  SoftDelete(h) \/ property' = property \/ \E name \in Names : Rename(h, name)
      BY <3>6 DEF Upkeep, CheckRemoveProperty
    <3>7. \A d \in Beds : ClaimMoves(d) => property' = property
      BY DEF ClaimMoves
    <3> QED BY <3>1, <3>2, <3>3, <3>4, <3>5, <3>6, <3>7 DEF Next
  <2>3. PICK h \in Requests : SoftDelete(h)
    BY <2>2
  <2>4. tenancies # {}
    <3>1. CountTenancies(Beds) # 0 /\ tenancies \subseteq Beds
      BY InvParts DEF RowsOK
    <3> QED BY <3>1, NoneCounted
  <2>5. h \in overtaken
    BY <2>3, <2>4 DEF SoftDelete, Inv, Told
  <2>6. work'[h] = Idle
    BY <2>1, <2>3 DEF SoftDelete, Ends, EndsHavingWritten
  <2> QED BY <2>3, <2>5, <2>6 DEF SoftDelete
<1> QED BY <1>1, InvHolds, PTL DEF Spec, NobodyLosesTheHouse

=============================================================================
