---------------------------- MODULE RoomNumbers ----------------------------
(***************************************************************************)
(* The form that sets up whole floors: what it shows while the sets of     *)
(* rooms are typed in, and what the API makes of them.                     *)
(*                                                                         *)
(* Form and API number the rooms each on their own.  A set starts where it *)
(* says, or where the set before it on the same floor ended, and only the  *)
(* form knows which; it posts the number it arrived at.                    *)
(***************************************************************************)
EXTENDS Integers, Sequences, FiniteSets

CONSTANTS
    Choices,            \* sets of rooms somebody may type in
    MaxSets,            \* bound on the sets of one form
    MaxRoomsPerBulk,    \* MAX_ROOMS_PER_BULK
    Existing,           \* numbers of the rooms the property has already
    Blank               \* nothing typed in

(* `first' is what the field for the first room holds, `size' the one for  *)
(* the beds of a dormitory.                                                *)
SharingOptions == {"SINGLE", "DOUBLE", "TRIPLE", "QUAD", "DORMITORY"}

RoomSet == [floor : Int, count : Nat, sharing : SharingOptions,
            first : Nat \union {Blank}, size : Nat \union {Blank}]

RoomsAssumption ==
    /\ Choices \subseteq RoomSet
    /\ MaxSets \in Nat /\ MaxRoomsPerBulk \in Nat /\ Blank \notin Nat

VARIABLES
    form,       \* the sets in the form
    made,       \* the beds of each room that was created, by number
    outcome     \* of the last submission: none yet, refused, created

vars == <<form, made, outcome>>

(***************************************************************************)
(* Numbers and labels                                                      *)
(***************************************************************************)

(* The position is padded to two digits, and may have three.  "G" stands   *)
(* for the ground floor, "-" for the floors below it.                      *)
Scale(i) == IF i < 100 THEN 100 ELSE 1000

RoomCode(floor, i) ==
    IF floor = 0 THEN <<"G", i>>
    ELSE IF floor < 0 THEN <<"-", Scale(i) * (-floor) + i>>
    ELSE <<"", Scale(i) * floor + i>>

Capacity == [SINGLE |-> 1, DOUBLE |-> 2, TRIPLE |-> 3, QUAD |-> 4, DORMITORY |-> Blank]

(* A to Z, AA to AZ, and so on, as the sequence of the letters' places.    *)
BedLabel(n) ==
    LET label[k \in 0..n] ==
            IF k < 26 THEN <<k>> ELSE Append(label[k \div 26 - 1], k % 26)
    IN  label[n]

BedLabels(count) == {BedLabel(n) : n \in 0..(count - 1)}

(***************************************************************************)
(* The form                                                                *)
(***************************************************************************)

(* "Kept in step; if one changes, change both."  Variant: it is not.       *)
UnpaddedCode(floor, i) ==
    IF i < 10 /\ floor > 0 THEN <<"", 10 * floor + i>> ELSE RoomCode(floor, i)

FormCode(floor, i) == RoomCode(floor, i)

(* 104 and 4 are both the fourth room. *)
ParseFirstRoomNumber(typed) ==
    IF typed = Blank THEN Blank
    ELSE LET position == IF typed >= 100 THEN typed % 100 ELSE typed IN
         IF position = 0 THEN Blank ELSE position

(* Where each set starts. *)
Starts(sets) ==
    LET start[k \in 1..Len(sets)] ==
            LET typed == ParseFirstRoomNumber(sets[k].first)
                before == {j \in 1..(k - 1) : sets[j].floor = sets[k].floor} IN
            IF typed # Blank THEN typed
            ELSE IF before = {} THEN 1
            ELSE LET j == CHOOSE j \in before : \A i \in before : i <= j IN
                 start[j] + sets[j].count
    IN start

CodesOf(set, start) == {FormCode(set.floor, start + i) : i \in 0..(set.count - 1)}

(* An empty dormitory counts as one without beds. *)
FormBeds(set) ==
    IF Capacity[set.sharing] # Blank THEN Capacity[set.sharing]
    ELSE IF set.size = Blank THEN 0 ELSE set.size

Previewed(sets) ==
    UNION {CodesOf(sets[k], Starts(sets)[k]) \X {FormBeds(sets[k])} : k \in DOMAIN sets}

Total(f, n) == LET sum[k \in 0..n] == IF k = 0 THEN 0 ELSE sum[k - 1] + f[k] IN sum[n]

TotalRooms(sets) == Total([k \in DOMAIN sets |-> sets[k].count], Len(sets))

TotalBeds(sets) == Total([k \in DOMAIN sets |-> sets[k].count * FormBeds(sets[k])], Len(sets))

Clashes(sets) ==
    \E j, k \in DOMAIN sets :
        j < k /\ CodesOf(sets[j], Starts(sets)[j]) \intersect CodesOf(sets[k], Starts(sets)[k]) # {}

(* The button is enabled. *)
Submittable(sets) == TotalBeds(sets) > 0 /\ ~Clashes(sets)

(***************************************************************************)
(* What is posted                                                          *)
(***************************************************************************)

(* The size is asked of dormitories only. *)
PostedSet(sets, k) ==
    [floor |-> sets[k].floor, count |-> sets[k].count, start |-> Starts(sets)[k],
     sharing |-> sets[k].sharing,
     size |-> IF sets[k].sharing = "DORMITORY" THEN sets[k].size ELSE Blank]

(* Sets without rooms are skipped. *)
Posted(sets) ==
    LET posted[k \in 0..Len(sets)] ==
            IF k = 0 THEN <<>>
            ELSE IF sets[k].count = 0 THEN posted[k - 1]
            ELSE Append(posted[k - 1], PostedSet(sets, k))
    IN  posted[Len(sets)]

FloorAccepted(f) ==
    /\ f.floor \in -2..60 /\ f.count \in 1..60 /\ f.start \in 1..99
    /\ f.size \in 1..40 \union {Blank}
    /\ f.sharing = "DORMITORY" => f.size # Blank

SchemaAccepts(floors) == Len(floors) \in 1..20 /\ \A k \in DOMAIN floors : FloorAccepted(floors[k])

(***************************************************************************)
(* The API                                                                 *)
(***************************************************************************)

(* Variant: every set starts the floor. *)
AlwaysFromOne(f) == 1

FirstNumber(f) == f.start

PlanCapacity(f) == IF f.size # Blank THEN f.size ELSE Capacity[f.sharing]

(* A sharing type that implies a size takes no other. *)
PlanAccepted(f) ==
    /\ PlanCapacity(f) # Blank
    /\ Capacity[f.sharing] # Blank /\ f.size # Blank => f.size = Capacity[f.sharing]

(* Rooms in the order they are planned, so that one listed twice shows.    *)
Planned(f) == [i \in 1..f.count |-> RoomCode(f.floor, FirstNumber(f) + i - 1)]

Plans(floors) ==
    UNION {{<<k, i>> : i \in 1..floors[k].count} : k \in DOMAIN floors}

CodeOfPlan(floors, p) == Planned(floors[p[1]])[p[2]]

BulkAccepted(floors) ==
    LET plans == Plans(floors)  codes == {CodeOfPlan(floors, p) : p \in plans} IN
    /\ \A k \in DOMAIN floors : PlanAccepted(floors[k])
    /\ Cardinality(plans) <= MaxRoomsPerBulk
    /\ Cardinality(codes) = Cardinality(plans)
    /\ codes \intersect Existing = {}

CreateRoomsWithBeds(floors) ==
    {<<CodeOfPlan(floors, p), Cardinality(BedLabels(PlanCapacity(floors[p[1]])))>> :
        p \in Plans(floors)}

(***************************************************************************)
(* The system                                                              *)
(***************************************************************************)

AddSet(s) ==
    /\ outcome # "created" /\ Len(form) < MaxSets
    /\ form' = Append(form, s) /\ outcome' = "none"
    /\ UNCHANGED made

RemoveSet(k) ==
    /\ outcome # "created" /\ k \in DOMAIN form /\ Len(form) > 1
    /\ form' = SubSeq(form, 1, k - 1) \o SubSeq(form, k + 1, Len(form)) /\ outcome' = "none"
    /\ UNCHANGED made

Submit ==
    LET floors == Posted(form) IN
    /\ outcome = "none" /\ Submittable(form)
    /\ IF SchemaAccepts(floors) /\ BulkAccepted(floors)
       THEN outcome' = "created" /\ made' = CreateRoomsWithBeds(floors)
       ELSE outcome' = "refused" /\ UNCHANGED made
    /\ UNCHANGED form

Init == form = <<>> /\ made = {} /\ outcome = "none"

Next ==
    \/ \E s \in Choices : AddSet(s)
    \/ \E k \in 1..MaxSets : RemoveSet(k)
    \/ Submit

Spec == Init /\ [][Next]_vars

(***************************************************************************)
(* Properties                                                              *)
(***************************************************************************)

Refusable(sets) ==
    \/ \E k \in DOMAIN sets :
          /\ sets[k].count > 0
          /\ \/ sets[k].sharing = "DORMITORY" /\ sets[k].size \notin 1..40
             \/ sets[k].floor \notin -2..60 \/ sets[k].count > 60
             \/ Starts(sets)[k] > 99
    \/ Cardinality({k \in DOMAIN sets : sets[k].count > 0}) > 20
    \/ TotalRooms(sets) > MaxRoomsPerBulk
    \/ \E room \in Previewed(sets) : room[1] \in Existing

(* "What the heading previews is what gets created" (resolveSets) and "The *)
(* heading names what will actually be created, so the field rep can check *)
(* it against the doors": the rooms and beds created are those the form    *)
(* showed and counted, however the sets mix floors, typed and carried-on   *)
(* numbers, and a submission the form lets through is refused only for a   *)
(* floor, number or size out of range, too many sets or rooms, or a room   *)
(* that exists.                                                            *)
PreviewIsWhatIsCreated ==
    /\ outcome = "created" =>
          /\ made = Previewed(form)
          /\ Cardinality(made) = TotalRooms(form)
    /\ outcome = "refused" => Refusable(form)
=============================================================================
