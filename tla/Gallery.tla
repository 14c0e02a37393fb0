------------------------------ MODULE Gallery ------------------------------
(***************************************************************************)
(* The photos of one property: rows in the database, and two objects in    *)
(* storage behind each.                                                    *)
(*                                                                         *)
(* Database and storage share no transaction.  An upload stores the        *)
(* objects before it writes the row, a removal deletes the row before the  *)
(* objects, so that whatever fails in between, or dies, leaves objects     *)
(* nobody names and never a row that names objects that are not there.     *)
(***************************************************************************)
EXTENDS Integers, FiniteSets

CONSTANTS
    Photos,         \* ids that randomUUID may give
    Requests,       \* requests the API serves at a time
    MaxPhotos,      \* MAX_PHOTOS_PER_PROPERTY
    MaxBatch,       \* files in one upload
    MaxFailures,    \* bound on the failing calls and the processes that die
    None

GalleryAssumption ==
    /\ IsFiniteSet(Requests) /\ IsFiniteSet(Photos)
    /\ MaxPhotos \in Nat /\ MaxBatch \in Nat \ {0} /\ MaxFailures \in Nat
    /\ Photos \subseteq Nat /\ None \notin Photos

VARIABLES
    rows,       \* property media
    objects,    \* keys in storage: of a photo, display or thumb
    work,       \* what each request is doing, with which photo, and what is left
    failures

vars == <<rows, objects, work, failures>>

Variants == {"display", "thumb"}
Keys(p) == {p} \X Variants

Idle == [pc |-> "idle", p |-> None, left |-> 0]

At(h, pc) == work[h].pc = pc
Goes(h, w) == work' = [work EXCEPT ![h] = w]
Ends(h) == Goes(h, Idle)

InUse == rows \union {k[1] : k \in objects} \union {work[h].p : h \in Requests}

(* A new id is any that is not in use: they differ in nothing.             *)
Fresh(p) == p \notin InUse /\ \A q \in Photos : q < p => q \in InUse

(***************************************************************************)
(* Upload                                                                  *)
(***************************************************************************)

Fits(n) == Cardinality(rows) + n <= MaxPhotos

CountForProperty(h, n) ==
    /\ At(h, "idle") /\ n \in 1..MaxBatch /\ Fits(n)
    /\ Goes(h, [pc |-> "file", p |-> None, left |-> n])
    /\ UNCHANGED <<rows, objects, failures>>

(* The next file of the batch, if any. *)
AfterFile(w) ==
    IF w.left = 1 THEN Idle ELSE [pc |-> "file", p |-> None, left |-> w.left - 1]

Process(h, p) ==
    /\ At(h, "file") /\ Fresh(p)
    /\ Goes(h, [work[h] EXCEPT !.pc = "display", !.p = p])
    /\ UNCHANGED <<rows, objects, failures>>

(* Variant: the row is written before the thumbnail. *)
RowAfterDisplay(pc) == IF pc = "display" THEN "row" ELSE "thumb"

AfterPut(pc) == IF pc = "display" THEN "thumb" ELSE "row"

Put(h) ==
    /\ work[h].pc \in Variants
    /\ objects' = objects \union {<<work[h].p, work[h].pc>>}
    /\ Goes(h, [work[h] EXCEPT !.pc = AfterPut(@)])
    /\ UNCHANGED <<rows, failures>>

CreateRow(h) ==
    /\ At(h, "row")
    /\ rows' = rows \union {work[h].p}
    /\ Goes(h, AfterFile(work[h]))
    /\ UNCHANGED <<objects, failures>>

(* "One bad file does not fail the batch": a file that is no image is      *)
(* rejected, and the next one follows.                                     *)
Rejected(h) ==
    /\ At(h, "file")
    /\ Goes(h, AfterFile(work[h]))
    /\ UNCHANGED <<rows, objects, failures>>

(* So is one whose put or row fails, or only seems to: what was stored of  *)
(* it stays, and where the answer alone was lost that is all of it.        *)
PutFails(h) ==
    /\ work[h].pc \in Variants \union {"row"} /\ failures < MaxFailures
    /\ failures' = failures + 1
    /\ Goes(h, AfterFile(work[h]))
    /\ \/ UNCHANGED <<rows, objects>>
       \/ ~At(h, "row") /\ objects' = objects \union {<<work[h].p, work[h].pc>>} /\ UNCHANGED rows
       \/ At(h, "row") /\ rows' = rows \union {work[h].p} /\ UNCHANGED objects

(***************************************************************************)
(* Removal                                                                 *)
(***************************************************************************)

(* Variant: the objects first. *)
ObjectsFirst == "objects-display"

RowFirst == "delete"

FindForRemoval(h, p) ==
    /\ At(h, "idle") /\ p \in rows
    /\ Goes(h, [Idle EXCEPT !.pc = RowFirst, !.p = p])
    /\ UNCHANGED <<rows, objects, failures>>

(* Somebody else may have been first: then there is nothing to delete, and *)
(* the request ends with an error.                                         *)
DeleteRow(h) ==
    /\ At(h, "delete")
    /\ rows' = rows \ {work[h].p}
    /\ IF work[h].p \in rows THEN Goes(h, [work[h] EXCEPT !.pc = "objects-display"]) ELSE Ends(h)
    /\ UNCHANGED <<objects, failures>>

AfterObject(w) == IF w.pc = "objects-display" THEN [w EXCEPT !.pc = "objects-thumb"] ELSE Idle

(* A delete that fails is logged, and its object stays. *)
DeleteObject(h, variant) ==
    /\ At(h, IF variant = "display" THEN "objects-display" ELSE "objects-thumb")
    /\ \/ objects' = objects \ {<<work[h].p, variant>>} /\ UNCHANGED failures
       \/ failures < MaxFailures /\ failures' = failures + 1 /\ UNCHANGED objects
    /\ Goes(h, AfterObject(work[h]))
    /\ UNCHANGED rows

Dies(h) ==
    /\ ~At(h, "idle") /\ failures < MaxFailures
    /\ failures' = failures + 1
    /\ Ends(h)
    /\ UNCHANGED <<rows, objects>>

(***************************************************************************)
(* The system                                                              *)
(***************************************************************************)

Init ==
    /\ rows = {} /\ objects = {}
    /\ work = [h \in Requests |-> Idle]
    /\ failures = 0

Next ==
    \/ \E h \in Requests :
          \/ \E n \in 1..MaxBatch : CountForProperty(h, n)
          \/ \E p \in Photos : Process(h, p) \/ FindForRemoval(h, p)
          \/ Put(h) \/ CreateRow(h) \/ Rejected(h) \/ PutFails(h) \/ DeleteRow(h)
          \/ \E variant \in Variants : DeleteObject(h, variant)
          \/ Dies(h)

Spec == Init /\ [][Next]_vars

(***************************************************************************)
(* Properties                                                              *)
(***************************************************************************)

Uploading == {"display", "thumb", "row"}
Removing == {"delete", "objects-display", "objects-thumb"}

(* Rows, objects and requests have their shape, and no two requests store  *)
(* a photo under the same id, nor does one store what another removes.     *)
TypeOK ==
    /\ rows \subseteq Photos /\ objects \subseteq Photos \X Variants
    /\ work \in [Requests -> [pc : {"idle", "file"} \union Uploading \union Removing,
                              p : Photos \union {None}, left : 0..MaxBatch]]
    /\ \A h \in Requests : /\ work[h].pc \in Uploading \union Removing <=> work[h].p # None
                           /\ work[h].pc \in {"file"} \union Uploading => work[h].left > 0
    /\ \A g, h \in Requests :
          g # h /\ work[h].pc \in Uploading => work[g].p # work[h].p
    /\ failures \in 0..MaxFailures

(* "A row pointing at nothing breaks the gallery" (upload, remove): each   *)
(* row has both its objects in storage, whatever fails and whoever dies,   *)
(* and although two requests remove a photo at once.                       *)
RowHasItsObjects == \A p \in rows : Keys(p) \subseteq objects

(* The other way round only a failure leaves something behind: an object   *)
(* without a row belongs to a request that is still at it, unless a call   *)
(* or a process failed.                                                    *)
NothingIsLeftBehind ==
    failures = 0 =>
        \A k \in objects : k[1] \in rows \/ \E h \in Requests : work[h].p = k[1]
=============================================================================
