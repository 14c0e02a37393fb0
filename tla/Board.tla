-------------------------------- MODULE Board --------------------------------
(***************************************************************************)
(* Three screens count the free beds of a property, each by a query of its *)
(* own: the owner's board draws a tag per bed, the dashboard subtracts     *)
(* rows from beds, and the search counts what could be booked.  All read   *)
(* the claims Booking writes, on whatever day they are looked at.          *)
(***************************************************************************)
EXTENDS Booking

ASSUME BedsOK == IsFiniteSet(Beds)

(* The live claims on a bed that have not ended (today). *)
ClaimsFrom(bed, today) ==
    {b \in Bookings : Active(b) /\ booking[b].bed = bed /\ today < alloc[b].end}

(* A claim that runs is shown with its end, if it has one, and of those to *)
(* come the first.  Each date is a set, empty for none.                    *)
OccupancyFor(bed, today) ==
    LET running == {b \in ClaimsFrom(bed, today) : booking[b].moveIn <= today}
        coming == ClaimsFrom(bed, today) \ running IN
    [occupied |-> running # {},
     availableFrom |-> {alloc[b].end : b \in running} \ {Forever},
     reservedFrom |-> {booking[b].moveIn : b \in
        {b \in coming : \A c \in coming : booking[b].moveIn <= booking[c].moveIn}}]

(* Variant: whoever is there today. *)
StateTonight(o) == IF o.occupied THEN "taken" ELSE "free"

(* A bed out of service is drawn as blocked; the beds here are in service. *)
StateOf(o) ==
    IF o.occupied THEN "taken"
    ELSE IF o.reservedFrom # {} THEN "reserved"
    ELSE "free"

TagOf(bed, today) == StateOf(OccupancyFor(bed, today))

(* "n free" and "n booked ahead" beside a room.                            *)
TagsDrawn(tag, today) == Cardinality({bed \in Beds : TagOf(bed, today) = tag})

(* Rows, not beds, are counted, and nothing is below zero. *)
AvailableBeds(today) ==
    LET occupied == Cardinality({b \in Bookings :
            Active(b) /\ booking[b].moveIn <= today /\ today < alloc[b].end}) IN
    IF occupied > Cardinality(Beds) THEN 0 ELSE Cardinality(Beds) - occupied

FreeBeds(from) == {bed \in Beds : ClaimsFrom(bed, from) = {}}

(* "So what the owner sees cannot drift from what booking enforces"        *)
(* (occupancyFor) and "the number cannot disagree with reality"            *)
(* (countsFor): whatever was booked, seated, given notice of and released  *)
(* before, on each day a tag is drawn free exactly for a bed that search   *)
(* offers and the exclusion constraint would give away with no end, at     *)
(* most one claim is running and at most one end is shown for a bed, and   *)
(* the dashboard's figure is the tags that are not taken.                  *)
ScreensAgree ==
    \A today \in Days :
        /\ \A bed \in Beds :
              LET free == TagOf(bed, today) = "free" IN
              /\ free <=> bed \in FreeBeds(today)
              /\ free <=> ~Claimed(alloc, bed, today, Forever, {})
              /\ Cardinality(OccupancyFor(bed, today).availableFrom) <= 1
        /\ AvailableBeds(today) = Cardinality(Beds) - TagsDrawn("taken", today)
=============================================================================
