------------------------------- MODULE House -------------------------------
(***************************************************************************)
(* One property as its staff keep it and as the public sees it: rooms and  *)
(* beds, the claims on the beds, the listing.                              *)
(*                                                                         *)
(* Staff operations check something and then write, in separate round      *)
(* trips and without a lock: that no bed of a room is claimed, that a room *)
(* number is free, that the listing is ready.  Claims are placed the same  *)
(* way, and the row lock and the exclusion constraint they go through      *)
(* arbitrate between claims only.  `overtaken' holds the requests whose    *)
(* check another request has since written over.                           *)
(***************************************************************************)
EXTENDS Naturals, FiniteSets

CONSTANTS
    Rooms, Beds,
    RoomOf,         \* the room of each bed
    Codes,          \* room numbers
    Names,          \* names the property may go by, and so its addresses
    Requests,       \* requests the API serves at a time
    MaxDeaths,      \* bound on the requests that are cut short
    None

HouseAssumption ==
    /\ RoomOf \in [Beds -> Rooms] /\ IsFiniteSet(Beds) /\ MaxDeaths \in Nat
    /\ Names # {} /\ None \notin Names \union Rooms \union Beds \union Codes

ASSUME HouseOK == HouseAssumption

VARIABLES
    rooms,      \* number of each room, and whether it is there
    inService,  \* beds whose status is ACTIVE and that were not deleted
    claim,      \* of each bed: the kind of its active allocation
    tenancies,  \* beds with a tenancy that is ACTIVE or NOTICE_GIVEN
    listing,    \* status and address
    property,   \* name, photos, and whether it was removed
    work,       \* what each request is doing, and on what
    overtaken,  \* requests whose check no longer tells the truth
    deaths

vars == <<rooms, inService, claim, tenancies, listing, property, work, overtaken, deaths>>

BedsOf(r) == {b \in Beds : RoomOf[b] = r}
Standing(b) == rooms[RoomOf[b]].state = "live"
InService(b) == Standing(b) /\ b \in inService

Idle == [pc |-> "idle", on |-> None, with |-> None]

At(h, pc) == work[h].pc = pc
Goes(h, pc, on, with) == work' = [work EXCEPT ![h] = [pc |-> pc, on |-> on, with |-> with]]

(* The beds a request has looked at and is going to write about. *)
Concerns(h) ==
    IF work[h].pc \in {"hold", "seat", "block"} THEN {work[h].on}
    ELSE IF At(h, "remove") THEN BedsOf(work[h].on)
    ELSE IF At(h, "delete") THEN Beds ELSE {}

(* The request is done, and those that had looked at the same beds are     *)
(* overtaken.                                                              *)
EndsHavingWritten(h, B) ==
    /\ work' = [work EXCEPT ![h] = Idle]
    /\ overtaken' = (overtaken \union {g \in Requests : Concerns(g) \intersect B # {}}) \ {h}

Ends(h) == EndsHavingWritten(h, {})

(***************************************************************************)
(* Rooms and beds                                                          *)
(***************************************************************************)

(* existingRoomCodes sees the rooms that have not been removed. *)
CodesFree(C) == \A r \in Rooms : rooms[r].state = "live" => rooms[r].code \notin C

(* The unique index does not. *)
Unique(r, code) == \A q \in Rooms : q # r /\ rooms[q].state # "none" => rooms[q].code # code

(* createRoom, and updateRoom when it changes the number. *)
AssertCodesFree(h, r, code) ==
    /\ At(h, "idle") /\ ~property.removed
    /\ rooms[r].state = "none" \/ (rooms[r].state = "live" /\ rooms[r].code # code)
    /\ CodesFree({code})
    /\ Goes(h, IF rooms[r].state = "none" THEN "create" ELSE "rename", r, code)
    /\ UNCHANGED <<rooms, inService, claim, tenancies, listing, property, overtaken, deaths>>

(* A bulk request is as many of these in one transaction. *)
CreateRoomsWithBeds(h) ==
    LET r == work[h].on IN
    /\ At(h, "create") /\ rooms[r].state = "none"
    /\ IF Unique(r, work[h].with)
       THEN /\ rooms' = [rooms EXCEPT ![r] = [code |-> work[h].with, state |-> "live"]]
            /\ inService' = inService \union BedsOf(r)
       ELSE UNCHANGED <<rooms, inService>>
    /\ EndsHavingWritten(h, BedsOf(r))
    /\ UNCHANGED <<claim, tenancies, listing, property, deaths>>

UpdateRoom(h) ==
    LET r == work[h].on IN
    /\ At(h, "rename")
    /\ rooms' = IF Unique(r, work[h].with) THEN [rooms EXCEPT ![r].code = work[h].with] ELSE rooms
    /\ Ends(h)
    /\ UNCHANGED <<inService, claim, tenancies, listing, property, deaths>>

(* Rows, whatever became of the claim; a checkout in progress has none. *)
CountTenancies(B) == Cardinality(B \intersect tenancies)

CountActiveAllocations(B) == Cardinality({b \in B : claim[b] # "NONE"})

CheckRemoveRoom(h, r) ==
    /\ At(h, "idle") /\ ~property.removed /\ rooms[r].state = "live"
    /\ CountActiveAllocations(BedsOf(r)) = 0
    /\ Goes(h, "remove", r, None)
    /\ UNCHANGED <<rooms, inService, claim, tenancies, listing, property, overtaken, deaths>>

(* Variant: the beds are left as they are. *)
BedsKept(r) == inService

BedsGone(r) == inService \ BedsOf(r)

(* Room and beds in one transaction. *)
SoftDeleteRoom(h) ==
    LET r == work[h].on IN
    /\ At(h, "remove")
    /\ rooms' = [rooms EXCEPT ![r].state = "removed"]
    /\ inService' = BedsGone(r)
    /\ EndsHavingWritten(h, BedsOf(r))
    /\ UNCHANGED <<claim, tenancies, listing, property, deaths>>

CheckUpdateBed(h, b) ==
    /\ At(h, "idle") /\ ~property.removed /\ InService(b)
    /\ CountActiveAllocations({b}) = 0
    /\ Goes(h, "block", b, None)
    /\ UNCHANGED <<rooms, inService, claim, tenancies, listing, property, overtaken, deaths>>

UpdateBed(h) ==
    LET b == work[h].on IN
    /\ At(h, "block")
    /\ inService' = inService \ {b}
    /\ EndsHavingWritten(h, {b})
    /\ UNCHANGED <<rooms, claim, tenancies, listing, property, deaths>>

(* Nothing is counted on the way back. *)
CheckBackInService(h, b) ==
    /\ At(h, "idle") /\ ~property.removed /\ Standing(b) /\ b \notin inService
    /\ Goes(h, "return", b, None)
    /\ UNCHANGED <<rooms, inService, claim, tenancies, listing, property, overtaken, deaths>>

(* A bed that was deleted with its room meanwhile stays deleted. *)
BackInService(h) ==
    LET b == work[h].on IN
    /\ At(h, "return")
    /\ inService' = IF Standing(b) THEN inService \union {b} ELSE inService
    /\ Ends(h)
    /\ UNCHANGED <<rooms, claim, tenancies, listing, property, deaths>>

(***************************************************************************)
(* Claims                                                                  *)
(***************************************************************************)

Public == listing.status = "PUBLISHED" /\ ~property.removed

(* What the booking service picks from, once it found the listing. *)
CandidateBeds == {b \in Beds : InService(b) /\ claim[b] = "NONE"}

(* What search counts: the bed's own status, and not the room's. *)
FreeBeds == {b \in inService : claim[b] = "NONE"}

FindCandidate(h, b) ==
    /\ At(h, "idle") /\ Public /\ listing.slug # None /\ b \in CandidateBeds
    /\ Goes(h, "hold", b, None)
    /\ UNCHANGED <<rooms, inService, claim, tenancies, listing, property, overtaken, deaths>>

(* Only the bed's status is looked at; whether it is free is left to the   *)
(* constraint.                                                             *)
FindBedForSeating(h, b) ==
    /\ At(h, "idle") /\ ~property.removed /\ InService(b)
    /\ Goes(h, "seat", b, None)
    /\ UNCHANGED <<rooms, inService, claim, tenancies, listing, property, overtaken, deaths>>

(* The exclusion constraint turns the second one away. *)
PlaceClaim(h) ==
    LET b == work[h].on IN
    /\ work[h].pc \in {"hold", "seat"}
    /\ IF claim[b] = "NONE"
       THEN /\ claim' = [claim EXCEPT ![b] = IF At(h, "hold") THEN "HOLD" ELSE "TENANCY"]
            /\ tenancies' = IF At(h, "hold") THEN tenancies ELSE tenancies \union {b}
            /\ EndsHavingWritten(h, {b})
       ELSE UNCHANGED <<claim, tenancies>> /\ Ends(h)
    /\ UNCHANGED <<rooms, inService, listing, property, deaths>>

(* Confirmed; given up, swept or left, and a booking that is cancelled     *)
(* once confirmed leaves its tenancy behind, which ends later: see         *)
(* Booking.                                                                *)
ClaimMoves(b) ==
    /\ \/ /\ claim[b] = "HOLD" /\ claim' = [claim EXCEPT ![b] = "TENANCY"]
          /\ tenancies' = tenancies \union {b}
       \/ /\ claim[b] # "NONE" /\ claim' = [claim EXCEPT ![b] = "NONE"]
          /\ \/ tenancies' = tenancies
             \/ claim[b] = "TENANCY" /\ tenancies' = tenancies \ {b}
       \/ /\ claim[b] # "TENANCY" /\ b \in tenancies /\ claim' = claim
          /\ tenancies' = tenancies \ {b}
    /\ overtaken' = overtaken \union {g \in Requests : b \in Concerns(g)}
    /\ UNCHANGED <<rooms, inService, listing, property, work, deaths>>

(***************************************************************************)
(* Listing                                                                 *)
(***************************************************************************)

(* Rooms, beds in service and photos are what assessReadiness blocks on.   *)
Ready ==
    /\ \E r \in Rooms : rooms[r].state = "live"
    /\ inService # {} /\ property.photos

(* The address is built from the name the property has now. *)
CheckPublish(h) ==
    /\ At(h, "idle") /\ ~property.removed /\ Ready
    /\ Goes(h, "publish", None, IF listing.slug # None THEN listing.slug ELSE property.name)
    /\ UNCHANGED <<rooms, inService, claim, tenancies, listing, property, overtaken, deaths>>

Publish(h) ==
    /\ At(h, "publish")
    /\ listing' = [listing EXCEPT !.status = "PUBLISHED"]
    /\ Goes(h, "claim", None, work[h].with)
    /\ UNCHANGED <<rooms, inService, claim, tenancies, property, overtaken, deaths>>

(* WHERE slug IS NULL. *)
SlugClaimed(slug) == IF listing.slug = None THEN slug ELSE listing.slug

ClaimSlug(h) ==
    /\ At(h, "claim")
    /\ listing' = [listing EXCEPT !.slug = SlugClaimed(work[h].with)]
    /\ Ends(h)
    /\ UNCHANGED <<rooms, inService, claim, tenancies, property, deaths>>

Unpublish(h) ==
    /\ At(h, "idle") /\ ~property.removed /\ listing.status = "PUBLISHED"
    /\ listing' = [listing EXCEPT !.status = "UNLISTED"]
    /\ UNCHANGED <<rooms, inService, claim, tenancies, property, work, overtaken, deaths>>

(***************************************************************************)
(* The property                                                            *)
(***************************************************************************)

Rename(h, name) ==
    /\ At(h, "idle") /\ ~property.removed /\ name # property.name
    /\ property' = [property EXCEPT !.name = name]
    /\ UNCHANGED <<rooms, inService, claim, tenancies, listing, work, overtaken, deaths>>

(* Photos come and go: see Gallery. *)
PhotosChange ==
    /\ property' = [property EXCEPT !.photos = ~@]
    /\ UNCHANGED <<rooms, inService, claim, tenancies, listing, work, overtaken, deaths>>

(* Variant: nobody has to move out first. *)
NobodyCounts == TRUE

NoTenantLeft == CountTenancies(Beds) = 0

CheckRemoveProperty(h) ==
    /\ At(h, "idle") /\ ~property.removed /\ NoTenantLeft
    /\ Goes(h, "delete", None, None)
    /\ UNCHANGED <<rooms, inService, claim, tenancies, listing, property, overtaken, deaths>>

SoftDelete(h) ==
    /\ At(h, "delete")
    /\ property' = [property EXCEPT !.removed = TRUE]
    /\ Ends(h)
    /\ UNCHANGED <<rooms, inService, claim, tenancies, listing, deaths>>

Dies(h) ==
    /\ ~At(h, "idle") /\ deaths < MaxDeaths
    /\ deaths' = deaths + 1
    /\ Ends(h)
    /\ UNCHANGED <<rooms, inService, claim, tenancies, listing, property>>

(***************************************************************************)
(* The system                                                              *)
(***************************************************************************)

Init ==
    /\ rooms = [r \in Rooms |-> [code |-> None, state |-> "none"]]
    /\ inService = {}
    /\ claim = [b \in Beds |-> "NONE"] /\ tenancies = {}
    /\ listing = [status |-> "DRAFT", slug |-> None]
    /\ property \in [name : Names, photos : {FALSE}, removed : {FALSE}]
    /\ work = [h \in Requests |-> Idle]
    /\ overtaken = {} /\ deaths = 0

Inventory(h) ==
    \/ \E r \in Rooms : \/ \E code \in Codes : AssertCodesFree(h, r, code)
                        \/ CheckRemoveRoom(h, r)
    \/ CreateRoomsWithBeds(h) \/ UpdateRoom(h) \/ SoftDeleteRoom(h)
    \/ \E b \in Beds : CheckUpdateBed(h, b) \/ CheckBackInService(h, b)
    \/ UpdateBed(h) \/ BackInService(h)

Claims(h) ==
    \/ \E b \in Beds : FindCandidate(h, b) \/ FindBedForSeating(h, b)
    \/ PlaceClaim(h)

Listing(h) == CheckPublish(h) \/ Publish(h) \/ ClaimSlug(h) \/ Unpublish(h)

Upkeep(h) ==
    \/ \E name \in Names : Rename(h, name)
    \/ CheckRemoveProperty(h) \/ SoftDelete(h)

Next ==
    \/ \E h \in Requests : Inventory(h) \/ Claims(h) \/ Listing(h) \/ Upkeep(h) \/ Dies(h)
    \/ \E b \in Beds : ClaimMoves(b)
    \/ PhotosChange

Spec == Init /\ [][Next]_vars

(***************************************************************************)
(* Properties                                                              *)
(***************************************************************************)

Steps == {"idle", "create", "rename", "remove", "block", "return", "hold", "seat", "publish", "claim",
          "delete"}

(* Rows and requests have the shape the schema and the handlers give them; *)
(* a bed is in service only in a room that stands.                         *)
TypeOK ==
    /\ rooms \in [Rooms -> [code : Codes \union {None}, state : {"none", "live", "removed"}]]
    /\ inService \subseteq Beds /\ \A b \in inService : Standing(b)
    /\ claim \in [Beds -> {"NONE", "HOLD", "TENANCY"}] /\ tenancies \subseteq Beds
    /\ listing \in [status : {"DRAFT", "PUBLISHED", "UNLISTED"}, slug : Names \union {None}]
    /\ property \in [name : Names, photos : BOOLEAN, removed : BOOLEAN]
    /\ work \in [Requests -> [pc : Steps, on : Rooms \union Beds \union {None},
                              with : Codes \union Names \union {None}]]
    /\ overtaken \subseteq Requests /\ deaths \in 0..MaxDeaths

(* "What a tenant is shown cannot disagree with what booking would allow"  *)
(* (freeBedsByProperty): although search does not look at the room, it     *)
(* counts exactly the beds booking would pick from.                        *)
OfferedIsBookable == FreeBeds = CandidateBeds

Stranded(b) == claim[b] # "NONE" /\ ~InService(b)

(* "Taking an occupied bed out of service would leave a tenant in a bed    *)
(* the system says does not exist" (updateBed, removeRoom): a claim and a  *)
(* withdrawal meet on a bed only when one of them was checked before the   *)
(* other was written.                                                      *)
NobodyIsStranded ==
    [][\A b \in Beds : ~Stranded(b) /\ Stranded(b)' =>
          \E h \in overtaken : b \in Concerns(h) /\ work'[h] = Idle]_vars

(* "Refused outright while anyone is living there" (remove): a property    *)
(* goes with a tenant in it only when the tenant came, or the checkout was *)
(* confirmed, after the tenancies were counted.                            *)
NobodyLosesTheHouse ==
    [][~property.removed /\ property'.removed /\ CountTenancies(Beds) > 0 =>
          \E h \in overtaken : At(h, "delete") /\ work'[h] = Idle]_vars
=============================================================================
