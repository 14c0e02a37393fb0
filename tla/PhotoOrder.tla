----------------------------- MODULE PhotoOrder -----------------------------
(***************************************************************************)
(* The order of the photos of a property.                                  *)
(*                                                                         *)
(* A row has a position, which is not unique, and the time it was written. *)
(* An upload reads the last position once and counts on from it, photo by  *)
(* photo, while other requests add, move and remove rows.                  *)
(***************************************************************************)
EXTENDS Integers, FiniteSets, FiniteSetsExt

CONSTANTS
    Requests,       \* uploads the API serves at a time
    MaxBatch,       \* files in one upload
    MaxPhotos,      \* bound on the photos ever added
    MaxMoves,       \* bound on the photos moved
    Positions       \* positions a client may ask for

OrderAssumption ==
    /\ IsFiniteSet(Requests) /\ {MaxBatch, MaxPhotos, MaxMoves} \subseteq Nat
    /\ Positions \subseteq Nat /\ 0 \in Positions

VARIABLES
    photos,     \* rows: when it was written, which tells it apart, and its position
    clock,      \* rows written so far
    upload,     \* of each request: the next position, files left, rows it saw
    moves

vars == <<photos, clock, upload, moves>>

Idle == [left |-> 0, next |-> 0, saw |-> {}]
Start(n, next) == [left |-> n, next |-> next, saw |-> photos]

(***************************************************************************)
(* Reading                                                                 *)
(***************************************************************************)

(* By position, and of two with the same the older one first: so they are  *)
(* listed for the owner and for tenants alike.                             *)
Before(p, q) == p.position < q.position \/ (p.position = q.position /\ p.at < q.at)

IsFirst(p, rows) == p \in rows /\ \A q \in rows \ {p} : Before(p, q)

(* Variant: as many as there are. *)
HowMany(rows) == Cardinality(rows)

NextSortOrder(rows) == Max({p.position : p \in rows} \union {-1}) + 1

(***************************************************************************)
(* Steps                                                                   *)
(***************************************************************************)

Uploads(h) ==
    /\ upload[h] = Idle
    /\ \E n \in 1..MaxBatch : upload' = [upload EXCEPT ![h] = Start(n, NextSortOrder(photos))]
    /\ UNCHANGED <<photos, clock, moves>>

AfterFile(u) == IF u.left = 1 THEN Idle ELSE [u EXCEPT !.left = @ - 1]

CreatesRow(h) ==
    /\ upload[h].left > 0 /\ clock < MaxPhotos
    /\ clock' = clock + 1
    /\ photos' = photos \union {[at |-> clock', position |-> upload[h].next]}
    /\ upload' = [upload EXCEPT ![h] = AfterFile([upload[h] EXCEPT !.next = @ + 1])]
    /\ UNCHANGED moves

(* A photo that is rejected before its row is written uses up no position; *)
(* one whose row failed does.                                              *)
Rejected(h) ==
    /\ upload[h].left > 0
    /\ \E next \in {upload[h].next, upload[h].next + 1} :
          upload' = [upload EXCEPT ![h] = AfterFile([@ EXCEPT !.next = next])]
    /\ UNCHANGED <<photos, clock, moves>>

Moved(p, k) == (photos \ {p}) \union {[p EXCEPT !.position = k]}

(* Any position by the API, the first by the web application. *)
SetsPosition(p, k) ==
    /\ p \in photos /\ moves < MaxMoves
    /\ moves' = moves + 1 /\ photos' = Moved(p, k)
    /\ UNCHANGED <<clock, upload>>

Removes(p) ==
    /\ p \in photos
    /\ photos' = photos \ {p}
    /\ UNCHANGED <<clock, upload, moves>>

Init == photos = {} /\ clock = 0 /\ upload = [h \in Requests |-> Idle] /\ moves = 0

Next ==
    \/ \E h \in Requests : Uploads(h) \/ CreatesRow(h) \/ Rejected(h)
    \/ \E p \in photos : Removes(p) \/ \E k \in Positions : SetsPosition(p, k)

Spec == Init /\ [][Next]_vars

(***************************************************************************)
(* Properties                                                              *)
(***************************************************************************)

(* "A new photo lands at the end of the gallery" (nextSortOrder): behind   *)
(* every photo that was there when its upload looked and has not moved     *)
(* since, whatever was removed and whoever else uploads.                   *)
LandsBehind ==
    [][\A h \in Requests, q \in photos' \ photos :
          clock' > clock /\ upload'[h] # upload[h] =>
              \A p \in upload[h].saw \intersect photos : Before(p, q)]_vars

(* "Position 0 is the cover" (setCoverPhotoAction, UpdateMediaDto): the    *)
(* photo that is put there is the first one from then on.                  *)
ChosenIsCover ==
    [][\A p \in photos :
          moves' > moves /\ photos' = Moved(p, 0) => IsFirst([p EXCEPT !.position = 0], photos')]_vars
=============================================================================
