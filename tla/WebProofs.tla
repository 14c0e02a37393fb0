----------------------------- MODULE WebProofs -----------------------------
(***************************************************************************)
(* What the screens of the web application promise, for any number of      *)
(* requests, calls, pages, passes and photos: an inductive invariant for   *)
(* each machine, which the others leave alone.                             *)
(***************************************************************************)
EXTENDS Web, FiniteSetTheorems, FunctionTheorems, SequenceTheorems, TLAPS

(***************************************************************************)
(* One screen at a time                                                    *)
(***************************************************************************)

(* Whatever happens is a step of a machine, or leaves it alone.            *)
LEMMA EachMovesAlone ==
    ASSUME [Next]_vars
    PROVE  /\ [G!Next]_(G!vars) /\ [P!Next]_(P!vars) /\ [W!Next]_(W!vars) /\ [R!Next]_(R!vars)
           /\ [F!Next]_(F!vars) /\ [D!Next]_(D!vars) /\ [O!Next]_(O!vars) /\ [C!Next]_(C!vars)
<1> USE DEF galleryVars, orderVars, sessionVars, numbersVars, formsVars, detailsVars, offerVars,
            deskVars, G!vars, P!vars, W!vars, R!vars, F!vars, D!vars, O!vars, C!vars
<1>1. CASE UNCHANGED vars
  BY <1>1 DEF vars
<1>2. CASE Gallery
  BY <1>2 DEF Gallery
<1>3. CASE Order
  BY <1>3 DEF Order
<1>4. CASE Session
  BY <1>4 DEF Session
<1>5. CASE Numbers
  BY <1>5 DEF Numbers
<1>6. CASE Presses
  BY <1>6 DEF Presses
<1>7. CASE Details
  BY <1>7 DEF Details
<1>8. CASE Offer
  BY <1>8 DEF Offer
<1>9. CASE Desk
  BY <1>9 DEF Desk
<1> QED BY <1>1, <1>2, <1>3, <1>4, <1>5, <1>6, <1>7, <1>8, <1>9 DEF Next

(* Also those that rest start as they would by themselves.                 *)
LEMMA EachStartsAlone ==
    ASSUME Init
    PROVE  G!Init /\ P!Init /\ W!Init /\ R!Init /\ F!Init /\ D!Init /\ O!Init /\ C!Init
BY DEF Init, FormsRest, DetailsRest, OfferRests

(* The screens side by side behave as each of them does by itself.         *)
THEOREM EachScreenIsItself ==
    Spec => G!Spec /\ P!Spec /\ W!Spec /\ R!Spec /\ F!Spec /\ D!Spec /\ O!Spec /\ C!Spec
BY EachMovesAlone, EachStartsAlone, PTL
   DEF Spec, G!Spec, P!Spec, W!Spec, R!Spec, F!Spec, D!Spec, O!Spec, C!Spec

(***************************************************************************)
(* Gallery                                                                 *)
(***************************************************************************)

GalleryWork ==
    [pc : {"idle", "file", "display", "thumb", "row", "delete", "objects-display", "objects-thumb"},
     p : PhotoIds \union {None}, left : 0..MaxBatch]

(* What a request does to a photo: store it, clear away what is left of    *)
(* it, or nothing yet.                                                     *)
Stores(h) == galleryWork[h].pc \in {"display", "thumb", "row"}
Clears(h) == galleryWork[h].pc \in {"objects-display", "objects-thumb"}
Has(h, variant) == <<galleryWork[h].p, variant>> \in objects

(* A request that stores or clears away has a photo to itself that no row  *)
(* names, and it knows what is stored of it.                               *)
PhotoIsItsOwn(h) == Stores(h) \/ Clears(h) => galleryWork[h].p \notin rows

StoredSoFar(h) ==
    /\ galleryWork[h].pc \in {"thumb", "row"} => Has(h, "display")
    /\ galleryWork[h].pc = "row" => Has(h, "thumb")

ClearedSoFar(h) ==
    galleryFailures = 0 /\ galleryWork[h].pc = "objects-thumb" => ~Has(h, "display")

(* Of the objects without a row.                                           *)
SomebodyIsAtIt(k) ==
    k[1] \in rows \/ \E h \in Requests : (Stores(h) \/ Clears(h)) /\ galleryWork[h].p = k[1]

GalleryInv ==
    /\ G!TypeOK /\ G!RowHasItsObjects
    /\ \A h \in Requests : PhotoIsItsOwn(h) /\ StoredSoFar(h) /\ ClearedSoFar(h)
    /\ galleryFailures = 0 => \A k \in objects : SomebodyIsAtIt(k)

Shape(w) ==
    /\ w.pc \in {"idle", "file"} <=> w.p = None
    /\ w.pc \in {"file", "display", "thumb", "row"} => w.left > 0

(* The display version and the thumbnail.                                  *)
LEMMA BothKeys ==
    ASSUME NEW p, NEW stored
    PROVE  G!Keys(p) \subseteq stored <=> <<p, "display">> \in stored /\ <<p, "thumb">> \in stored
BY DEF G!Keys, G!Variants

(* What the invariant says of one request, and of one beside another.      *)
LEMMA GalleryRequest ==
    ASSUME GalleryInv, NEW h \in Requests
    PROVE  /\ galleryWork \in [Requests -> GalleryWork] /\ galleryWork[h] \in GalleryWork
           /\ Shape(galleryWork[h])
           /\ \A g \in Requests \ {h} :
                 Stores(g) \/ Stores(h) => galleryWork[g].p # galleryWork[h].p
           /\ rows \subseteq PhotoIds /\ objects \subseteq PhotoIds \X {"display", "thumb"}
           /\ galleryFailures \in 0..MaxFailures /\ MaxFailures \in Nat /\ MaxBatch \in Nat
           /\ None \notin PhotoIds
<1>1. galleryWork \in [Requests -> GalleryWork]
  <2>1. {"idle", "file"} \union G!Uploading \union G!Removing =
        {"idle", "file", "display", "thumb", "row", "delete", "objects-display", "objects-thumb"}
    BY DEF G!Uploading, G!Removing
  <2> QED BY <2>1 DEF GalleryInv, G!TypeOK, GalleryWork
<1>2. galleryWork[h] \in GalleryWork
  BY <1>1
<1>3. Shape(galleryWork[h])
  BY <1>2 DEF GalleryInv, G!TypeOK, GalleryWork, Shape, G!Uploading, G!Removing
<1> QED BY <1>1, <1>2, <1>3, WebAssumption
        DEF GalleryInv, G!TypeOK, Stores, G!Uploading, G!Variants, G!GalleryAssumption

(* No other request stores the photo; none has it at all if it is stored.  *)
NobodyElses(h, p, stored) ==
    \A g \in Requests \ {h} : Stores(g) \/ stored => galleryWork[g].p # p

(* One request moves on, with a photo nobody else stores.                  *)
LEMMA GalleryMove ==
    ASSUME GalleryInv, NEW h \in Requests, NEW w \in GalleryWork, Shape(w),
           G!Goes(h, w), NobodyElses(h, w.p, w.pc \in {"display", "thumb", "row"}),
           rows' \subseteq PhotoIds, objects' \subseteq PhotoIds \X {"display", "thumb"},
           galleryFailures' \in 0..MaxFailures
    PROVE  /\ G!TypeOK' /\ galleryWork'[h] = w
           /\ \A g \in Requests \ {h} : galleryWork'[g] = galleryWork[g]
<1>1. galleryWork \in [Requests -> GalleryWork] /\ galleryWork' \in [Requests -> GalleryWork]
  BY GalleryRequest DEF G!Goes
<1>2. galleryWork'[h] = w /\ \A g \in Requests \ {h} : galleryWork'[g] = galleryWork[g]
  BY <1>1 DEF G!Goes
<1>3. \A g \in Requests : Shape(galleryWork'[g])
  BY <1>2, GalleryRequest
<1>4. \A g, k \in Requests :
         g # k /\ galleryWork'[k].pc \in {"display", "thumb", "row"} => galleryWork'[g].p # galleryWork'[k].p
  BY <1>2, GalleryRequest DEF Stores, NobodyElses
<1>5. {"idle", "file"} \union G!Uploading \union G!Removing =
      {"idle", "file", "display", "thumb", "row", "delete", "objects-display", "objects-thumb"}
  BY DEF G!Uploading, G!Removing
<1>6. \A v \in GalleryWork :
         Shape(v) => /\ v.pc \in G!Uploading \union G!Removing <=> v.p # None
                     /\ v.pc \in {"file"} \union G!Uploading => v.left > 0
  BY DEF Shape, GalleryWork, G!Uploading, G!Removing
<1>7. galleryWork' \in [Requests -> [pc : {"idle", "file"} \union G!Uploading \union G!Removing,
                                      p : PhotoIds \union {None}, left : 0..MaxBatch]]
  BY <1>1, <1>5 DEF GalleryWork
<1>8. \A g \in Requests : galleryWork'[g] \in GalleryWork
  BY <1>1
<1> QED BY <1>2, <1>3, <1>4, <1>6, <1>7, <1>8 DEF G!TypeOK, G!Variants, G!Uploading

(* The next file of the batch, or none.                                    *)
LEMMA AfterFileIsWork ==
    ASSUME NEW u \in GalleryWork, Shape(u), MaxBatch \in Nat,
           u.pc \in {"file", "display", "thumb", "row"}
    PROVE  /\ G!AfterFile(u) \in GalleryWork /\ Shape(G!AfterFile(u))
           /\ G!AfterFile(u).pc \in {"idle", "file"} /\ G!AfterFile(u).p = None
<1>1. CASE u.left = 1
  BY <1>1 DEF GalleryWork, Shape, G!AfterFile, G!Idle
<1>2. CASE u.left # 1
  <2>1. u.left \in 0..MaxBatch /\ u.left > 0
    BY DEF GalleryWork, Shape
  <2> QED BY <1>2, <2>1 DEF GalleryWork, Shape, G!AfterFile
<1> QED BY <1>1, <1>2

(* One step per action, and under it one per part of the invariant.        *)
LEMMA GalleryStep ==
    ASSUME GalleryInv, G!Next \/ UNCHANGED G!vars
    PROVE  GalleryInv'
<1> USE DEF G!At, G!Ends, G!Idle, Stores, Clears
<1>1. ASSUME NEW h \in Requests, NEW n \in 1..MaxBatch, G!CountForProperty(h, n) PROVE GalleryInv'
  <2>u. PICK u : u = galleryWork[h]
    OBVIOUS
  <2>1. u \in GalleryWork /\ Shape(u) /\ None \notin PhotoIds /\ MaxBatch \in Nat
    BY <2>u, GalleryRequest
  <2>2. UNCHANGED <<rows, objects, galleryFailures>> /\ u.pc = "idle"
    BY <1>1, <2>u, <2>1 DEF G!CountForProperty
  <2>w. PICK w : w = [pc |-> "file", p |-> None, left |-> n]
    OBVIOUS
  <2>3. G!Goes(h, w)
    BY <1>1, <2>u, <2>w DEF G!CountForProperty
  <2>4. /\ w \in GalleryWork /\ Shape(w)
        /\ w.pc = "file" /\ w.p = None
    BY <2>w, <2>1, <2>2 DEF GalleryWork, Shape
  <2>5. /\ rows' \subseteq PhotoIds /\ objects' \subseteq PhotoIds \X {"display", "thumb"}
        /\ galleryFailures' \in 0..MaxFailures
    BY <2>u, <2>1, <2>2, GalleryRequest DEF GalleryWork, Shape
  <2>6. NobodyElses(h, w.p, w.pc \in {"display", "thumb", "row"})
    BY <2>u, <2>1, <2>2, <2>4, GalleryRequest DEF NobodyElses, GalleryInv, PhotoIsItsOwn, Shape
  <2>7. /\ G!TypeOK' /\ galleryWork'[h] = w
        /\ \A g \in Requests \ {h} : galleryWork'[g] = galleryWork[g]
    BY <2>3, <2>4, <2>5, <2>6, GalleryMove
  <2>8. G!RowHasItsObjects'
    BY <2>u, <2>1, <2>2, BothKeys DEF GalleryInv, G!RowHasItsObjects, StoredSoFar, PhotoIsItsOwn, Has
  <2>9. ASSUME NEW g \in Requests PROVE (PhotoIsItsOwn(g) /\ StoredSoFar(g) /\ ClearedSoFar(g))'
    BY <2>u, <2>1, <2>2, <2>4, <2>7, GalleryRequest
       DEF GalleryInv, PhotoIsItsOwn, StoredSoFar, ClearedSoFar, Has
  <2>10. ASSUME galleryFailures' = 0, NEW k \in objects' PROVE SomebodyIsAtIt(k)'
    BY <2>u, <2>1, <2>2, <2>4, <2>7, <2>10, GalleryRequest DEF GalleryInv, SomebodyIsAtIt, ClearedSoFar, Has
  <2> QED BY <2>7, <2>8, <2>9, <2>10 DEF GalleryInv
<1>2. ASSUME NEW h \in Requests, NEW p \in PhotoIds, G!Process(h, p) PROVE GalleryInv'
  <2>u. PICK u : u = galleryWork[h]
    OBVIOUS
  <2>1. u \in GalleryWork /\ Shape(u) /\ None \notin PhotoIds /\ MaxBatch \in Nat
    BY <2>u, GalleryRequest
  <2>2. /\ UNCHANGED <<rows, objects, galleryFailures>> /\ u.pc = "file" /\ p \notin rows
        /\ \A k \in objects : k[1] # p
        /\ \A g \in Requests : galleryWork[g].p # p
    BY <1>2, <2>u, <2>1 DEF G!Process, G!Fresh, G!InUse
  <2>w. PICK w : w = [u EXCEPT !.pc = "display", !.p = p]
    OBVIOUS
  <2>3. G!Goes(h, w)
    BY <1>2, <2>u, <2>w DEF G!Process, G!Fresh, G!InUse
  <2>4. /\ w \in GalleryWork /\ Shape(w)
        /\ w.pc = "display" /\ w.p = p
    BY <2>w, <2>1, <2>2 DEF GalleryWork, Shape
  <2>5. /\ rows' \subseteq PhotoIds /\ objects' \subseteq PhotoIds \X {"display", "thumb"}
        /\ galleryFailures' \in 0..MaxFailures
    BY <2>u, <2>1, <2>2, GalleryRequest DEF GalleryWork, Shape
  <2>6. NobodyElses(h, w.p, w.pc \in {"display", "thumb", "row"})
    BY <2>u, <2>1, <2>2, <2>4, GalleryRequest DEF NobodyElses, GalleryInv, PhotoIsItsOwn, Shape
  <2>7. /\ G!TypeOK' /\ galleryWork'[h] = w
        /\ \A g \in Requests \ {h} : galleryWork'[g] = galleryWork[g]
    BY <2>3, <2>4, <2>5, <2>6, GalleryMove
  <2>8. G!RowHasItsObjects'
    BY <2>u, <2>1, <2>2, BothKeys DEF GalleryInv, G!RowHasItsObjects, StoredSoFar, PhotoIsItsOwn, Has
  <2>9. ASSUME NEW g \in Requests PROVE (PhotoIsItsOwn(g) /\ StoredSoFar(g) /\ ClearedSoFar(g))'
    BY <2>u, <2>1, <2>2, <2>4, <2>7, GalleryRequest
       DEF GalleryInv, PhotoIsItsOwn, StoredSoFar, ClearedSoFar, Has
  <2>10. ASSUME galleryFailures' = 0, NEW k \in objects' PROVE SomebodyIsAtIt(k)'
    BY <2>u, <2>1, <2>2, <2>4, <2>7, <2>10, GalleryRequest DEF GalleryInv, SomebodyIsAtIt, ClearedSoFar, Has
  <2> QED BY <2>7, <2>8, <2>9, <2>10 DEF GalleryInv
<1>3. ASSUME NEW h \in Requests, NEW p \in PhotoIds, G!FindForRemoval(h, p) PROVE GalleryInv'
  <2>u. PICK u : u = galleryWork[h]
    OBVIOUS
  <2>1. u \in GalleryWork /\ Shape(u) /\ None \notin PhotoIds /\ MaxBatch \in Nat
    BY <2>u, GalleryRequest
  <2>2. UNCHANGED <<rows, objects, galleryFailures>> /\ u.pc = "idle" /\ p \in rows
    BY <1>3, <2>u, <2>1 DEF G!FindForRemoval, G!RowFirst
  <2>w. PICK w : w = [G!Idle EXCEPT !.pc = "delete", !.p = p]
    OBVIOUS
  <2>3. G!Goes(h, w)
    BY <1>3, <2>u, <2>w DEF G!FindForRemoval, G!RowFirst
  <2>d. w = [pc |-> "delete", p |-> p, left |-> 0]
    BY <2>w
  <2>4. /\ w \in GalleryWork /\ Shape(w)
        /\ w.pc = "delete" /\ w.p = p
    BY <2>d, <2>1, <2>2 DEF GalleryWork, Shape
  <2>5. /\ rows' \subseteq PhotoIds /\ objects' \subseteq PhotoIds \X {"display", "thumb"}
        /\ galleryFailures' \in 0..MaxFailures
    BY <2>u, <2>1, <2>2, GalleryRequest DEF GalleryWork, Shape
  <2>6. NobodyElses(h, w.p, w.pc \in {"display", "thumb", "row"})
    BY <2>u, <2>1, <2>2, <2>4, GalleryRequest DEF NobodyElses, GalleryInv, PhotoIsItsOwn, Shape
  <2>7. /\ G!TypeOK' /\ galleryWork'[h] = w
        /\ \A g \in Requests \ {h} : galleryWork'[g] = galleryWork[g]
    BY <2>3, <2>4, <2>5, <2>6, GalleryMove
  <2>8. G!RowHasItsObjects'
    BY <2>u, <2>1, <2>2, BothKeys DEF GalleryInv, G!RowHasItsObjects, StoredSoFar, PhotoIsItsOwn, Has
  <2>9. ASSUME NEW g \in Requests PROVE (PhotoIsItsOwn(g) /\ StoredSoFar(g) /\ ClearedSoFar(g))'
    BY <2>u, <2>1, <2>2, <2>4, <2>7, GalleryRequest
       DEF GalleryInv, PhotoIsItsOwn, StoredSoFar, ClearedSoFar, Has
  <2>10. ASSUME galleryFailures' = 0, NEW k \in objects' PROVE SomebodyIsAtIt(k)'
    BY <2>u, <2>1, <2>2, <2>4, <2>7, <2>10, GalleryRequest DEF GalleryInv, SomebodyIsAtIt, ClearedSoFar, Has
  <2> QED BY <2>7, <2>8, <2>9, <2>10 DEF GalleryInv
<1>4. ASSUME NEW h \in Requests, G!Put(h) PROVE GalleryInv'
  <2>u. PICK u : u = galleryWork[h]
    OBVIOUS
  <2>1. u \in GalleryWork /\ Shape(u) /\ None \notin PhotoIds /\ MaxBatch \in Nat
    BY <2>u, GalleryRequest
  <2>2. /\ UNCHANGED <<rows, galleryFailures>> /\ u.pc \in {"display", "thumb"}
        /\ objects' = objects \union {<<u.p, u.pc>>}
    BY <1>4, <2>u, <2>1 DEF G!Put, G!AfterPut, G!Variants
  <2>w. PICK w : w = [u EXCEPT !.pc = IF @ = "display" THEN "thumb" ELSE "row"]
    OBVIOUS
  <2>3. G!Goes(h, w)
    BY <1>4, <2>u, <2>w DEF G!Put, G!AfterPut, G!Variants
  <2>4. /\ w \in GalleryWork /\ Shape(w)
        /\ w.p = u.p /\ w.pc = IF u.pc = "display" THEN "thumb" ELSE "row"
    BY <2>w, <2>1, <2>2 DEF GalleryWork, Shape
  <2>5. /\ rows' \subseteq PhotoIds /\ objects' \subseteq PhotoIds \X {"display", "thumb"}
        /\ galleryFailures' \in 0..MaxFailures
    BY <2>u, <2>1, <2>2, GalleryRequest DEF GalleryWork, Shape
  <2>6. NobodyElses(h, w.p, w.pc \in {"display", "thumb", "row"})
    BY <2>u, <2>1, <2>2, <2>4, GalleryRequest DEF NobodyElses, GalleryInv, PhotoIsItsOwn, Shape
  <2>7. /\ G!TypeOK' /\ galleryWork'[h] = w
        /\ \A g \in Requests \ {h} : galleryWork'[g] = galleryWork[g]
    BY <2>3, <2>4, <2>5, <2>6, GalleryMove
  <2>8. G!RowHasItsObjects'
    BY <2>u, <2>1, <2>2, BothKeys DEF GalleryInv, G!RowHasItsObjects, StoredSoFar, PhotoIsItsOwn, Has
  <2>9. ASSUME NEW g \in Requests PROVE (PhotoIsItsOwn(g) /\ StoredSoFar(g) /\ ClearedSoFar(g))'
    BY <2>u, <2>1, <2>2, <2>4, <2>7, GalleryRequest
       DEF GalleryInv, PhotoIsItsOwn, StoredSoFar, ClearedSoFar, Has
  <2>10. ASSUME galleryFailures' = 0, NEW k \in objects' PROVE SomebodyIsAtIt(k)'
    BY <2>u, <2>1, <2>2, <2>4, <2>7, <2>10, GalleryRequest DEF GalleryInv, SomebodyIsAtIt, ClearedSoFar, Has
  <2> QED BY <2>7, <2>8, <2>9, <2>10 DEF GalleryInv
<1>5. ASSUME NEW h \in Requests, G!CreateRow(h) PROVE GalleryInv'
  <2>u. PICK u : u = galleryWork[h]
    OBVIOUS
  <2>1. u \in GalleryWork /\ Shape(u) /\ None \notin PhotoIds /\ MaxBatch \in Nat
    BY <2>u, GalleryRequest
  <2>2. UNCHANGED <<objects, galleryFailures>> /\ u.pc = "row" /\ rows' = rows \union {u.p}
    BY <1>5, <2>u, <2>1 DEF G!CreateRow
  <2>w. PICK w : w = G!AfterFile(u)
    OBVIOUS
  <2>3. G!Goes(h, w)
    BY <1>5, <2>u, <2>w DEF G!CreateRow
  <2>4. /\ w \in GalleryWork /\ Shape(w)
        /\ w.pc \in {"idle", "file"} /\ w.p = None
    BY <2>w, <2>1, <2>2, AfterFileIsWork DEF GalleryWork, Shape
  <2>5. /\ rows' \subseteq PhotoIds /\ objects' \subseteq PhotoIds \X {"display", "thumb"}
        /\ galleryFailures' \in 0..MaxFailures
    BY <2>u, <2>1, <2>2, GalleryRequest DEF GalleryWork, Shape
  <2>6. NobodyElses(h, w.p, w.pc \in {"display", "thumb", "row"})
    BY <2>u, <2>1, <2>2, <2>4, GalleryRequest DEF NobodyElses, GalleryInv, PhotoIsItsOwn, Shape
  <2>7. /\ G!TypeOK' /\ galleryWork'[h] = w
        /\ \A g \in Requests \ {h} : galleryWork'[g] = galleryWork[g]
    BY <2>3, <2>4, <2>5, <2>6, GalleryMove
  <2>8. G!RowHasItsObjects'
    BY <2>u, <2>1, <2>2, BothKeys DEF GalleryInv, G!RowHasItsObjects, StoredSoFar, PhotoIsItsOwn, Has
  <2>9. ASSUME NEW g \in Requests PROVE (PhotoIsItsOwn(g) /\ StoredSoFar(g) /\ ClearedSoFar(g))'
    BY <2>u, <2>1, <2>2, <2>4, <2>7, GalleryRequest
       DEF GalleryInv, PhotoIsItsOwn, StoredSoFar, ClearedSoFar, Has
  <2>10. ASSUME galleryFailures' = 0, NEW k \in objects' PROVE SomebodyIsAtIt(k)'
    BY <2>u, <2>1, <2>2, <2>4, <2>7, <2>10, GalleryRequest DEF GalleryInv, SomebodyIsAtIt, ClearedSoFar, Has
  <2> QED BY <2>7, <2>8, <2>9, <2>10 DEF GalleryInv
<1>6. ASSUME NEW h \in Requests, G!Rejected(h) PROVE GalleryInv'
  <2>u. PICK u : u = galleryWork[h]
    OBVIOUS
  <2>1. u \in GalleryWork /\ Shape(u) /\ None \notin PhotoIds /\ MaxBatch \in Nat
    BY <2>u, GalleryRequest
  <2>2. UNCHANGED <<rows, objects, galleryFailures>> /\ u.pc = "file"
    BY <1>6, <2>u, <2>1 DEF G!Rejected
  <2>w. PICK w : w = G!AfterFile(u)
    OBVIOUS
  <2>3. G!Goes(h, w)
    BY <1>6, <2>u, <2>w DEF G!Rejected
  <2>4. /\ w \in GalleryWork /\ Shape(w)
        /\ w.pc \in {"idle", "file"} /\ w.p = None
    BY <2>w, <2>1, <2>2, AfterFileIsWork DEF GalleryWork, Shape
  <2>5. /\ rows' \subseteq PhotoIds /\ objects' \subseteq PhotoIds \X {"display", "thumb"}
        /\ galleryFailures' \in 0..MaxFailures
    BY <2>u, <2>1, <2>2, GalleryRequest DEF GalleryWork, Shape
  <2>6. NobodyElses(h, w.p, w.pc \in {"display", "thumb", "row"})
    BY <2>u, <2>1, <2>2, <2>4, GalleryRequest DEF NobodyElses, GalleryInv, PhotoIsItsOwn, Shape
  <2>7. /\ G!TypeOK' /\ galleryWork'[h] = w
        /\ \A g \in Requests \ {h} : galleryWork'[g] = galleryWork[g]
    BY <2>3, <2>4, <2>5, <2>6, GalleryMove
  <2>8. G!RowHasItsObjects'
    BY <2>u, <2>1, <2>2, BothKeys DEF GalleryInv, G!RowHasItsObjects, StoredSoFar, PhotoIsItsOwn, Has
  <2>9. ASSUME NEW g \in Requests PROVE (PhotoIsItsOwn(g) /\ StoredSoFar(g) /\ ClearedSoFar(g))'
    BY <2>u, <2>1, <2>2, <2>4, <2>7, GalleryRequest
       DEF GalleryInv, PhotoIsItsOwn, StoredSoFar, ClearedSoFar, Has
  <2>10. ASSUME galleryFailures' = 0, NEW k \in objects' PROVE SomebodyIsAtIt(k)'
    BY <2>u, <2>1, <2>2, <2>4, <2>7, <2>10, GalleryRequest DEF GalleryInv, SomebodyIsAtIt, ClearedSoFar, Has
  <2> QED BY <2>7, <2>8, <2>9, <2>10 DEF GalleryInv
<1>7. ASSUME NEW h \in Requests, G!PutFails(h) PROVE GalleryInv'
  <2>u. PICK u : u = galleryWork[h]
    OBVIOUS
  <2>1. u \in GalleryWork /\ Shape(u) /\ None \notin PhotoIds /\ MaxBatch \in Nat
    BY <2>u, GalleryRequest
  <2>2. /\ galleryFailures' = galleryFailures + 1 /\ galleryFailures < MaxFailures
        /\ u.pc \in {"display", "thumb", "row"}
        /\ \/ UNCHANGED <<rows, objects>>
           \/ u.pc # "row" /\ objects' = objects \union {<<u.p, u.pc>>} /\ rows' = rows
           \/ u.pc = "row" /\ rows' = rows \union {u.p} /\ objects' = objects
    BY <1>7, <2>u, <2>1 DEF G!PutFails, G!Variants
  <2>w. PICK w : w = G!AfterFile(u)
    OBVIOUS
  <2>3. G!Goes(h, w)
    BY <1>7, <2>u, <2>w DEF G!PutFails, G!Variants
  <2>4. /\ w \in GalleryWork /\ Shape(w)
        /\ w.pc \in {"idle", "file"} /\ w.p = None
    BY <2>w, <2>1, <2>2, AfterFileIsWork DEF GalleryWork, Shape
  <2>5. /\ rows' \subseteq PhotoIds /\ objects' \subseteq PhotoIds \X {"display", "thumb"}
        /\ galleryFailures' \in 0..MaxFailures
    BY <2>u, <2>1, <2>2, GalleryRequest DEF GalleryWork, Shape
  <2>6. NobodyElses(h, w.p, w.pc \in {"display", "thumb", "row"})
    BY <2>u, <2>1, <2>2, <2>4, GalleryRequest DEF NobodyElses, GalleryInv, PhotoIsItsOwn, Shape
  <2>7. /\ G!TypeOK' /\ galleryWork'[h] = w
        /\ \A g \in Requests \ {h} : galleryWork'[g] = galleryWork[g]
    BY <2>3, <2>4, <2>5, <2>6, GalleryMove
  <2>8. G!RowHasItsObjects'
    BY <2>u, <2>1, <2>2, BothKeys DEF GalleryInv, G!RowHasItsObjects, StoredSoFar, PhotoIsItsOwn, Has
  <2>9. ASSUME NEW g \in Requests PROVE (PhotoIsItsOwn(g) /\ StoredSoFar(g) /\ ClearedSoFar(g))'
    BY <2>u, <2>1, <2>2, <2>4, <2>7, GalleryRequest
       DEF GalleryInv, PhotoIsItsOwn, StoredSoFar, ClearedSoFar, Has
  <2>10. ASSUME galleryFailures' = 0, NEW k \in objects' PROVE SomebodyIsAtIt(k)'
    BY <2>u, <2>1, <2>2, <2>4, <2>7, <2>10, GalleryRequest DEF GalleryInv, SomebodyIsAtIt, ClearedSoFar, Has
  <2> QED BY <2>7, <2>8, <2>9, <2>10 DEF GalleryInv
<1>8. ASSUME NEW h \in Requests, G!DeleteRow(h) PROVE GalleryInv'
  <2>u. PICK u : u = galleryWork[h]
    OBVIOUS
  <2>1. u \in GalleryWork /\ Shape(u) /\ None \notin PhotoIds /\ MaxBatch \in Nat
    BY <2>u, GalleryRequest
  <2>2. UNCHANGED <<objects, galleryFailures>> /\ u.pc = "delete" /\ rows' = rows \ {u.p}
    BY <1>8, <2>u, <2>1 DEF G!DeleteRow
  <2>w. PICK w : w = IF u.p \in rows THEN [u EXCEPT !.pc = "objects-display"] ELSE [pc |-> "idle", p |-> None, left |-> 0]
    OBVIOUS
  <2>3. G!Goes(h, w)
    BY <1>8, <2>u, <2>w DEF G!DeleteRow
  <2>4. /\ w \in GalleryWork /\ Shape(w)
        /\ IF u.p \in rows THEN w.pc = "objects-display" /\ w.p = u.p ELSE w.pc = "idle" /\ w.p = None
    BY <2>w, <2>1, <2>2 DEF GalleryWork, Shape
  <2>5. /\ rows' \subseteq PhotoIds /\ objects' \subseteq PhotoIds \X {"display", "thumb"}
        /\ galleryFailures' \in 0..MaxFailures
    BY <2>u, <2>1, <2>2, GalleryRequest DEF GalleryWork, Shape
  <2>6. NobodyElses(h, w.p, w.pc \in {"display", "thumb", "row"})
    BY <2>u, <2>1, <2>2, <2>4, GalleryRequest DEF NobodyElses, GalleryInv, PhotoIsItsOwn, Shape
  <2>7. /\ G!TypeOK' /\ galleryWork'[h] = w
        /\ \A g \in Requests \ {h} : galleryWork'[g] = galleryWork[g]
    BY <2>3, <2>4, <2>5, <2>6, GalleryMove
  <2>8. G!RowHasItsObjects'
    BY <2>u, <2>1, <2>2, BothKeys DEF GalleryInv, G!RowHasItsObjects, StoredSoFar, PhotoIsItsOwn, Has
  <2>9. ASSUME NEW g \in Requests PROVE (PhotoIsItsOwn(g) /\ StoredSoFar(g) /\ ClearedSoFar(g))'
    BY <2>u, <2>1, <2>2, <2>4, <2>7, GalleryRequest
       DEF GalleryInv, PhotoIsItsOwn, StoredSoFar, ClearedSoFar, Has
  <2>10. ASSUME galleryFailures' = 0, NEW k \in objects' PROVE SomebodyIsAtIt(k)'
    BY <2>u, <2>1, <2>2, <2>4, <2>7, <2>10, GalleryRequest DEF GalleryInv, SomebodyIsAtIt, ClearedSoFar, Has
  <2> QED BY <2>7, <2>8, <2>9, <2>10 DEF GalleryInv
<1>9. ASSUME NEW h \in Requests, NEW variant \in G!Variants, G!DeleteObject(h, variant) PROVE GalleryInv'
  <2>u. PICK u : u = galleryWork[h]
    OBVIOUS
  <2>1. u \in GalleryWork /\ Shape(u) /\ None \notin PhotoIds /\ MaxBatch \in Nat
    BY <2>u, GalleryRequest
  <2>2. /\ rows' = rows
        /\ u.pc \in {"objects-display", "objects-thumb"}
        /\ variant = IF u.pc = "objects-display" THEN "display" ELSE "thumb"
        /\ \/ objects' = objects \ {<<u.p, variant>>} /\ galleryFailures' = galleryFailures
           \/ objects' = objects /\ galleryFailures' = galleryFailures + 1 /\ galleryFailures < MaxFailures
    BY <1>9, <2>u, <2>1 DEF G!DeleteObject, G!AfterObject, G!Variants
  <2>w. PICK w : w = IF u.pc = "objects-display" THEN [u EXCEPT !.pc = "objects-thumb"] ELSE [pc |-> "idle", p |-> None, left |-> 0]
    OBVIOUS
  <2>3. G!Goes(h, w)
    BY <1>9, <2>u, <2>w DEF G!DeleteObject, G!AfterObject, G!Variants
  <2>4. /\ w \in GalleryWork /\ Shape(w)
        /\ IF u.pc = "objects-display" THEN w.pc = "objects-thumb" /\ w.p = u.p
           ELSE w.pc = "idle" /\ w.p = None
    BY <2>w, <2>1, <2>2 DEF GalleryWork, Shape
  <2>5. /\ rows' \subseteq PhotoIds /\ objects' \subseteq PhotoIds \X {"display", "thumb"}
        /\ galleryFailures' \in 0..MaxFailures
    BY <2>u, <2>1, <2>2, GalleryRequest DEF GalleryWork, Shape
  <2>6. NobodyElses(h, w.p, w.pc \in {"display", "thumb", "row"})
    BY <2>u, <2>1, <2>2, <2>4, GalleryRequest DEF NobodyElses, GalleryInv, PhotoIsItsOwn, Shape
  <2>7. /\ G!TypeOK' /\ galleryWork'[h] = w
        /\ \A g \in Requests \ {h} : galleryWork'[g] = galleryWork[g]
    BY <2>3, <2>4, <2>5, <2>6, GalleryMove
  <2>8. G!RowHasItsObjects'
    <3>1. u.p \notin rows
      BY <2>u, <2>2 DEF GalleryInv, PhotoIsItsOwn, Clears
    <3>2. ASSUME NEW p \in rows', NEW v \in G!Variants PROVE <<p, v>> \in objects'
      <4>1. p \in rows /\ <<p, v>> \in objects
        BY <2>2, <3>2 DEF GalleryInv, G!RowHasItsObjects, G!Keys
      <4>2. p # u.p
        BY <3>1, <4>1
      <4> QED BY <2>2, <4>1, <4>2
    <3> QED BY <3>2 DEF G!RowHasItsObjects, G!Keys
  <2>9. ASSUME NEW g \in Requests PROVE (PhotoIsItsOwn(g) /\ StoredSoFar(g) /\ ClearedSoFar(g))'
    BY <2>u, <2>1, <2>2, <2>4, <2>7, GalleryRequest
       DEF GalleryInv, PhotoIsItsOwn, StoredSoFar, ClearedSoFar, Has
  <2>10. ASSUME galleryFailures' = 0, NEW k \in objects' PROVE SomebodyIsAtIt(k)'
    BY <2>u, <2>1, <2>2, <2>4, <2>7, <2>10, GalleryRequest DEF GalleryInv, SomebodyIsAtIt, ClearedSoFar, Has
  <2> QED BY <2>7, <2>8, <2>9, <2>10 DEF GalleryInv
<1>10. ASSUME NEW h \in Requests, G!Dies(h) PROVE GalleryInv'
  <2>u. PICK u : u = galleryWork[h]
    OBVIOUS
  <2>1. u \in GalleryWork /\ Shape(u) /\ None \notin PhotoIds /\ MaxBatch \in Nat
    BY <2>u, GalleryRequest
  <2>2. UNCHANGED <<rows, objects>> /\ galleryFailures' = galleryFailures + 1 /\ galleryFailures < MaxFailures
    BY <1>10, <2>u, <2>1 DEF G!Dies
  <2>w. PICK w : w = [pc |-> "idle", p |-> None, left |-> 0]
    OBVIOUS
  <2>3. G!Goes(h, w)
    BY <1>10, <2>u, <2>w DEF G!Dies
  <2>4. /\ w \in GalleryWork /\ Shape(w)
        /\ w.pc = "idle" /\ w.p = None
    BY <2>w, <2>1, <2>2 DEF GalleryWork, Shape
  <2>5. /\ rows' \subseteq PhotoIds /\ objects' \subseteq PhotoIds \X {"display", "thumb"}
        /\ galleryFailures' \in 0..MaxFailures
    BY <2>u, <2>1, <2>2, GalleryRequest DEF GalleryWork, Shape
  <2>6. NobodyElses(h, w.p, w.pc \in {"display", "thumb", "row"})
    BY <2>u, <2>1, <2>2, <2>4, GalleryRequest DEF NobodyElses, GalleryInv, PhotoIsItsOwn, Shape
  <2>7. /\ G!TypeOK' /\ galleryWork'[h] = w
        /\ \A g \in Requests \ {h} : galleryWork'[g] = galleryWork[g]
    BY <2>3, <2>4, <2>5, <2>6, GalleryMove
  <2>8. G!RowHasItsObjects'
    BY <2>u, <2>1, <2>2, BothKeys DEF GalleryInv, G!RowHasItsObjects, StoredSoFar, PhotoIsItsOwn, Has
  <2>9. ASSUME NEW g \in Requests PROVE (PhotoIsItsOwn(g) /\ StoredSoFar(g) /\ ClearedSoFar(g))'
    BY <2>u, <2>1, <2>2, <2>4, <2>7, GalleryRequest
       DEF GalleryInv, PhotoIsItsOwn, StoredSoFar, ClearedSoFar, Has
  <2>10. ASSUME galleryFailures' = 0, NEW k \in objects' PROVE SomebodyIsAtIt(k)'
    BY <2>u, <2>1, <2>2, <2>4, <2>7, <2>10, GalleryRequest DEF GalleryInv, SomebodyIsAtIt, ClearedSoFar, Has
  <2> QED BY <2>7, <2>8, <2>9, <2>10 DEF GalleryInv
<1>11. CASE UNCHANGED G!vars
  BY <1>11 DEF G!vars, GalleryInv, G!TypeOK, G!RowHasItsObjects, PhotoIsItsOwn, StoredSoFar,
               ClearedSoFar, SomebodyIsAtIt, Has
<1> QED BY <1>1, <1>2, <1>3, <1>4, <1>5, <1>6, <1>7, <1>8, <1>9, <1>10, <1>11 DEF G!Next

(* Nothing is stored and nobody is at work.                                *)
LEMMA GalleryStart ==
    ASSUME G!Init
    PROVE  GalleryInv
<1> USE WebAssumption DEF G!GalleryAssumption, G!Init, G!Idle
<1>1. galleryWork \in [Requests -> GalleryWork]
  BY DEF GalleryWork
<1>2. {"idle", "file"} \union G!Uploading \union G!Removing =
      {"idle", "file", "display", "thumb", "row", "delete", "objects-display", "objects-thumb"}
  BY DEF G!Uploading, G!Removing
<1>3. G!TypeOK
  BY <1>1, <1>2 DEF G!TypeOK, GalleryWork, G!Uploading, G!Removing
<1> QED BY <1>3 DEF GalleryInv, G!RowHasItsObjects, PhotoIsItsOwn, StoredSoFar, ClearedSoFar,
                   Stores, Clears

(* The invariant holds of the gallery, whichever screen is the one.        *)
LEMMA GalleryInvariant == Spec => []GalleryInv
<1>1. Init => GalleryInv
  BY EachStartsAlone, GalleryStart
<1>2. GalleryInv /\ [Next]_vars => GalleryInv'
  BY EachMovesAlone, GalleryStep
<1> QED BY <1>1, <1>2, PTL DEF Spec

(* "A row pointing at nothing breaks the gallery": each row has both its   *)
(* objects in storage, for any number of uploads and removals at once, and *)
(* whatever fails or dies.                                                 *)
THEOREM RowsHaveTheirObjects == Spec => []RowHasItsObjects
<1>1. GalleryInv => RowHasItsObjects
  BY DEF GalleryInv, RowHasItsObjects
<1> QED BY <1>1, GalleryInvariant, PTL

(* And as long as nothing failed, an object without a row is in the hands  *)
(* of a request.                                                           *)
THEOREM OnlyFailuresLeaveObjects == Spec => []NothingIsLeftBehind
<1>1. GalleryInv => NothingIsLeftBehind
  BY DEF GalleryInv, NothingIsLeftBehind, G!NothingIsLeftBehind, SomebodyIsAtIt
<1> QED BY <1>1, GalleryInvariant, PTL

(***************************************************************************)
(* WebSession                                                              *)
(***************************************************************************)

TokenOrNone == W!Tokens \union {None}

SessionCall ==
    [pc : {"idle", "send", "refresh", "issue", "save", "respond", "verify", "logout", "clear"},
     kind : {"page", "action"}, at : TokenOrNone, rt : TokenOrNone, got : TokenOrNone]

SessionRow == [family : TokenOrNone, live : BOOLEAN]

SessionTypes ==
    /\ jar \in [at : TokenOrNone, rt : TokenOrNone]
    /\ session \in [W!Tokens -> SessionRow] /\ valid \subseteq W!Tokens
    /\ call \in [Calls -> SessionCall] /\ disturbed \in BOOLEAN

(* What a call needs for its next step.                                    *)
CallShape(w) ==
    /\ w.pc \in {"refresh", "issue", "save", "logout"} => w.rt # None
    /\ w.pc \in {"save", "respond"} => w.got # None
    /\ w.pc = "verify" => w.rt = None

(* A call may still rotate what it came with, is about to replace it, or   *)
(* has a pair of tokens that the browser does not have yet.                *)
Asks(c) == call[c].pc \in {"send", "refresh"} /\ call[c].rt # None
Replaces(c) == call[c].pc \in {"issue", "save"} \/ (call[c].pc = "respond" /\ call[c].rt # None)
Brings(c) == call[c].pc \in {"save", "respond"}

Issued(t) == session[t].family # None

IssuedInOrder ==
    /\ \A t \in W!Tokens : IF Issued(t) THEN Issued(session[t].family) ELSE ~session[t].live
    /\ jar.rt # None => Issued(jar.rt)
    /\ \A c \in Calls : /\ call[c].rt # None => Issued(call[c].rt)
                        /\ Brings(c) => Issued(call[c].got)

(* What a call brings nobody else has.                                     *)
BroughtOnce ==
    \A c \in Calls : Brings(c) =>
        /\ call[c].got # jar.rt
        /\ \A d \in Calls : /\ call[d].rt # call[c].got
                            /\ d # c /\ Brings(d) => call[d].got # call[c].got

(* As long as no rotation was disturbed: a dead token is about to be       *)
(* replaced or cleared, what is brought works, who rotates is alone, and   *)
(* of a family a call that may rotate and the browser have the same token. *)
DeadIsReplaced ==
    jar.rt # None /\ ~session[jar.rt].live => \E c \in Calls : W!Refreshing(c) \/ W!At(c, "clear")

BroughtWorks == \A c \in Calls : Brings(c) => session[call[c].got].live

ReplacesAlone == \A c, d \in Calls : Replaces(c) => ~Asks(d)

OneOfTheFamily ==
    \A c \in Calls : Asks(c) =>
        /\ jar.rt # None /\ session[jar.rt].family = session[call[c].rt].family =>
              jar.rt = call[c].rt
        /\ \A d \in Calls : Brings(d) =>
              session[call[d].got].family # session[call[c].rt].family

SessionInv ==
    /\ SessionTypes /\ \A c \in Calls : CallShape(call[c])
    /\ IssuedInOrder /\ BroughtOnce
    /\ ~disturbed => DeadIsReplaced /\ BroughtWorks /\ ReplacesAlone /\ OneOfTheFamily

(* What the invariant says of the calls and the tokens by themselves.      *)
LEMMA SessionCalls ==
    ASSUME SessionInv, NEW c \in Calls
    PROVE  /\ call[c] \in SessionCall /\ CallShape(call[c]) /\ None \notin W!Tokens
           /\ jar.rt \in TokenOrNone /\ jar.at \in TokenOrNone
           /\ \A t \in W!Tokens : session[t] \in SessionRow
BY WebAssumption DEF SessionInv, SessionTypes, W!SessionAssumption, W!Tokens

(* One session ends and the others are as they were.                       *)
LEMMA OneSessionEnds ==
    ASSUME session \in [W!Tokens -> SessionRow], NEW t \in W!Tokens,
           session' = [session EXCEPT ![t].live = FALSE]
    PROVE  /\ session' \in [W!Tokens -> SessionRow]
           /\ \A v \in W!Tokens : /\ session'[v].family = session[v].family
                                  /\ session'[v].live => session[v].live
<1> PICK ended : ended = [session[t] EXCEPT !.live = FALSE]
  OBVIOUS
<1>1. ended \in SessionRow /\ ended.family = session[t].family /\ ended.live = FALSE
  BY DEF SessionRow
<1>2. session' = [session EXCEPT ![t] = ended]
  OBVIOUS
<1>3. \A v \in W!Tokens : session'[v] = IF v = t THEN ended ELSE session[v]
  BY <1>2
<1> QED BY <1>1, <1>2, <1>3

(* A call goes on, and nothing is issued: the tokens are those there were. *)
LEMMA NothingIssued ==
    ASSUME SessionInv, NEW c \in Calls, NEW w \in SessionCall, CallShape(w), W!Goes(c, w),
           session' \in [W!Tokens -> SessionRow],
           \A t \in W!Tokens : /\ session'[t].family = session[t].family
                               /\ session'[t].live => session[t].live,
           jar' \in [at : TokenOrNone, rt : TokenOrNone], valid' \subseteq W!Tokens,
           disturbed' \in BOOLEAN,
           w.rt \in {None, call[c].rt, jar.rt},
           w.pc \in {"save", "respond"} => Brings(c) /\ w.got = call[c].got /\ w.rt = call[c].rt,
           \/ jar'.rt \in {None, jar.rt}
           \/ Brings(c) /\ jar'.rt = call[c].got /\ w.pc = "idle"
    PROVE  /\ SessionTypes' /\ \A d \in Calls : CallShape(call[d])'
           /\ IssuedInOrder' /\ BroughtOnce'
           /\ call'[c] = w /\ \A d \in Calls \ {c} : call'[d] = call[d]
<1>1. call' \in [Calls -> SessionCall]
  BY DEF SessionInv, SessionTypes, W!Goes
<1>2. call'[c] = w /\ \A d \in Calls \ {c} : call'[d] = call[d]
  BY DEF SessionInv, SessionTypes, W!Goes
<1>3. SessionTypes'
  BY <1>1 DEF SessionTypes
<1>4. \A d \in Calls : CallShape(call[d])'
  BY <1>2 DEF SessionInv, CallShape
<1>5. \A t \in W!Tokens : session'[t].family = session[t].family /\ session'[t].family \in TokenOrNone
  BY DEF SessionRow
<1>6. /\ jar.rt \in TokenOrNone /\ None \notin W!Tokens
      /\ \A d \in Calls : call[d] \in SessionCall /\ CallShape(call[d])
  BY SessionCalls DEF SessionInv, SessionTypes
<1>7. \A d \in Calls : Brings(d)' => Brings(d) /\ call'[d].got = call[d].got /\ call[d].got \in W!Tokens
  BY <1>2, <1>6 DEF Brings, SessionCall, CallShape, TokenOrNone
<1>8. IssuedInOrder'
  <2>1. ASSUME NEW t \in W!Tokens
        PROVE  IF session'[t].family # None THEN session'[session'[t].family].family # None
               ELSE ~session'[t].live
    BY <1>5 DEF SessionInv, IssuedInOrder, Issued, TokenOrNone
  <2>2. jar'.rt # None => session'[jar'.rt].family # None
    BY <1>5, <1>6, <1>7 DEF SessionInv, IssuedInOrder, Issued, TokenOrNone
  <2>3. ASSUME NEW d \in Calls
        PROVE  /\ call'[d].rt # None => session'[call'[d].rt].family # None
               /\ Brings(d)' => session'[call'[d].got].family # None
    <3>1. call'[d].rt # None => call'[d].rt \in W!Tokens /\ Issued(call'[d].rt)
      BY <1>2, <1>6 DEF SessionInv, IssuedInOrder, SessionCall, TokenOrNone
    <3>2. Brings(d)' => call'[d].got \in W!Tokens /\ Issued(call'[d].got)
      BY <1>7 DEF SessionInv, IssuedInOrder
    <3> QED BY <3>1, <3>2, <1>5 DEF Issued
  <2> QED BY <2>1, <2>2, <2>3 DEF IssuedInOrder, Issued
<1>9. BroughtOnce'
  <2> SUFFICES ASSUME NEW d \in Calls, Brings(d)'
      PROVE  /\ call'[d].got # jar'.rt
             /\ \A e \in Calls : /\ call'[e].rt # call'[d].got
                                 /\ e # d /\ Brings(e)' => call'[e].got # call'[d].got
    BY DEF BroughtOnce
  <2>1. Brings(d) /\ call'[d].got = call[d].got /\ call[d].got # None
    BY <1>6, <1>7
  <2>2. call'[d].got # jar'.rt
    BY <2>1, <1>2 DEF SessionInv, BroughtOnce, Brings
  <2>3. ASSUME NEW e \in Calls
        PROVE  /\ call'[e].rt # call'[d].got
               /\ e # d /\ Brings(e)' => call'[e].got # call'[d].got
    BY <2>1, <1>2, <1>7 DEF SessionInv, BroughtOnce
  <2> QED BY <2>2, <2>3
<1> QED BY <1>2, <1>3, <1>4, <1>8, <1>9

(* A pair of tokens is issued to a call, in a family of its own or that of *)
(* the token the call came with.                                           *)
LEMMA PairIssued ==
    ASSUME SessionInv, NEW c \in Calls, NEW w \in SessionCall, CallShape(w), W!Goes(c, w),
           NEW t \in W!Tokens, NEW f \in W!Tokens, W!Issues(t, f), UNCHANGED <<jar, disturbed>>,
           w.pc \in {"save", "respond"}, w.got = t, w.rt = call[c].rt,
           f # t => Issued(f) /\ t # f
    PROVE  /\ SessionTypes' /\ \A d \in Calls : CallShape(call[d])'
           /\ IssuedInOrder' /\ BroughtOnce'
           /\ call'[c] = w /\ \A d \in Calls \ {c} : call'[d] = call[d]
           /\ ~Issued(t) /\ session'[t].live /\ session'[t].family = f
           /\ \A v \in W!Tokens \ {t} : session'[v] = session[v]
<1>1. call' \in [Calls -> SessionCall] /\ session \in [W!Tokens -> SessionRow]
  BY DEF SessionInv, SessionTypes, W!Goes
<1>2. call'[c] = w /\ \A d \in Calls \ {c} : call'[d] = call[d]
  BY DEF SessionInv, SessionTypes, W!Goes
<1>3. /\ session' = [session EXCEPT ![t] = [family |-> f, live |-> TRUE]]
      /\ valid' = valid \union {t} /\ ~Issued(t)
  BY DEF W!Issues, W!Unissued, Issued
<1>4. session' \in [W!Tokens -> SessionRow]
  BY <1>1, <1>3 DEF SessionRow, TokenOrNone
<1>5. /\ session'[t].family = f /\ session'[t].live
      /\ \A v \in W!Tokens \ {t} : session'[v] = session[v]
  BY <1>1, <1>3
<1>6. SessionTypes'
  BY <1>1, <1>3, <1>4 DEF SessionTypes, SessionInv
<1>7. \A d \in Calls : CallShape(call[d])'
  BY <1>2 DEF SessionInv, CallShape
<1>8. /\ jar.rt \in TokenOrNone /\ None \notin W!Tokens
      /\ \A d \in Calls : call[d] \in SessionCall /\ CallShape(call[d])
      /\ \A v \in W!Tokens : session[v].family \in TokenOrNone
  BY SessionCalls DEF SessionInv, SessionTypes, SessionRow
<1>9. \A v \in W!Tokens : Issued(v) => session'[v].family # None /\ v # t
  BY <1>3, <1>5 DEF Issued
<1>10. IssuedInOrder'
  <2>1. ASSUME NEW v \in W!Tokens
        PROVE  IF session'[v].family # None THEN session'[session'[v].family].family # None
               ELSE ~session'[v].live
    <3>1. CASE v = t
      BY <3>1, <1>5, <1>8, <1>9
    <3>2. CASE v # t
      BY <3>2, <1>5, <1>8, <1>9 DEF SessionInv, IssuedInOrder, Issued, TokenOrNone
    <3> QED BY <3>1, <3>2
  <2>2. jar'.rt # None => session'[jar'.rt].family # None
    BY <1>8, <1>9 DEF SessionInv, IssuedInOrder, TokenOrNone
  <2>3. ASSUME NEW d \in Calls
        PROVE  /\ call'[d].rt # None => session'[call'[d].rt].family # None
               /\ Brings(d)' => session'[call'[d].got].family # None
    <3>1. call'[d].rt # None => call'[d].rt \in W!Tokens /\ Issued(call'[d].rt)
      BY <1>2, <1>8 DEF SessionInv, IssuedInOrder, SessionCall, TokenOrNone
    <3>2. d # c /\ Brings(d)' => call'[d].got \in W!Tokens /\ Issued(call'[d].got)
      BY <1>2, <1>8 DEF SessionInv, IssuedInOrder, Brings, SessionCall, CallShape, TokenOrNone
    <3>3. d = c => session'[call'[d].got].family # None
      BY <1>2, <1>5, <1>8
    <3> QED BY <3>1, <3>2, <3>3, <1>9
  <2> QED BY <2>1, <2>2, <2>3 DEF IssuedInOrder, Issued
<1>11. BroughtOnce'
  <2>1. ASSUME NEW d \in Calls PROVE call'[d].rt # t /\ jar'.rt # t /\ (Brings(d) => call[d].got # t)
    BY <1>2, <1>3, <1>8 DEF SessionInv, IssuedInOrder
  <2> SUFFICES ASSUME NEW d \in Calls, Brings(d)'
      PROVE  /\ call'[d].got # jar'.rt
             /\ \A e \in Calls : /\ call'[e].rt # call'[d].got
                                 /\ e # d /\ Brings(e)' => call'[e].got # call'[d].got
    BY DEF BroughtOnce
  <2>2. CASE d = c
    BY <2>1, <2>2, <1>2 DEF Brings
  <2>3. CASE d # c
    BY <2>1, <2>3, <1>2 DEF SessionInv, BroughtOnce, Brings
  <2> QED BY <2>2, <2>3
<1> QED BY <1>2, <1>3, <1>5, <1>6, <1>7, <1>10, <1>11

Undisturbed == DeadIsReplaced /\ BroughtWorks /\ ReplacesAlone /\ OneOfTheFamily

(* A call goes on and the tables stay: what is true of an undisturbed      *)
(* browser stays true, if the call neither leaves a dead token behind nor  *)
(* begins to ask beside one that replaces.                                 *)
LEMMA TablesStay ==
    ASSUME Undisturbed, NEW c \in Calls, NEW w, call'[c] = w,
           \A d \in Calls \ {c} : call'[d] = call[d],
           session' = session, jar'.rt = jar.rt,
           W!Refreshing(c) \/ W!At(c, "clear") => w.pc \in {"issue", "save", "respond", "clear"},
           w.pc \in {"save", "respond"} => Brings(c) /\ w.got = call[c].got /\ w.rt = call[c].rt,
           w.pc \notin {"issue", "save"},
           w.pc \in {"send", "refresh"} /\ w.rt # None =>
              \/ Asks(c) /\ w.rt = call[c].rt
              \/ w.rt = jar.rt /\ \A d \in Calls : ~W!Refreshing(d)
    PROVE  Undisturbed'
<1>1. DeadIsReplaced'
  BY DEF Undisturbed, DeadIsReplaced, W!Refreshing, W!At
<1>2. \A d \in Calls : Brings(d)' => Brings(d) /\ call'[d].got = call[d].got
  BY DEF Brings
<1>3. BroughtWorks'
  BY <1>2 DEF Undisturbed, BroughtWorks
<1>4. \A d \in Calls : Replaces(d)' => Replaces(d)
  BY DEF Replaces, Brings
<1>5. \A d \in Calls : Asks(d)' => \/ Asks(d) /\ call'[d].rt = call[d].rt
                                   \/ call'[d].rt = jar.rt /\ \A e \in Calls : ~W!Refreshing(e)
  BY DEF Asks
<1>6. \A d \in Calls : Replaces(d) \/ Brings(d) => W!Refreshing(d)
  BY DEF Replaces, Brings, W!Refreshing
<1>7. ReplacesAlone'
  BY <1>4, <1>5, <1>6 DEF Undisturbed, ReplacesAlone
<1>8. OneOfTheFamily'
  BY <1>2, <1>5, <1>6 DEF Undisturbed, OneOfTheFamily
<1> QED BY <1>1, <1>3, <1>7, <1>8 DEF Undisturbed

(* One step per action of a call, of the browser and of the API.           *)
LEMMA SessionStep ==
    ASSUME SessionInv, W!Next \/ UNCHANGED W!vars
    PROVE  SessionInv'
<1> USE DEF W!Ends, W!Steps
<1>1. ASSUME NEW c \in Calls, NEW kind \in W!Kinds, W!Opens(c, kind) PROVE SessionInv'
  <2>u. PICK u : u = call[c]
    OBVIOUS
  <2>1. u \in SessionCall /\ CallShape(u) /\ jar.rt \in TokenOrNone /\ jar.at \in TokenOrNone
    BY <2>u, SessionCalls
  <2>2. /\ UNCHANGED <<jar, session, valid>> /\ disturbed' \in BOOLEAN /\ (~disturbed' => ~disturbed)
        /\ u.pc = "idle" /\ kind \in {"page", "action"}
        /\ ~disturbed' => \A d \in Calls : ~W!Refreshing(d)
    BY <1>1, <2>u DEF W!Opens, W!At, W!Kinds, SessionInv, SessionTypes
  <2>w. PICK w : w = [pc |-> "send", kind |-> kind, at |-> jar.at, rt |-> jar.rt, got |-> None]
    OBVIOUS
  <2>3. W!Goes(c, w)
    BY <1>1, <2>u, <2>w, <2>2 DEF W!Opens, W!At, W!Kinds
  <2>4. /\ w \in SessionCall /\ CallShape(w)
        /\ w.pc = "send" /\ w.rt = jar.rt
    BY <2>w, <2>1, <2>2 DEF SessionCall, CallShape, TokenOrNone
  <2>5. /\ jar' \in [at : TokenOrNone, rt : TokenOrNone] /\ session' \in [W!Tokens -> SessionRow]
        /\ valid' \subseteq W!Tokens /\ jar'.rt = jar.rt /\ session' = session
    BY <2>2 DEF SessionInv, SessionTypes
  <2>6. /\ w.rt \in {None, call[c].rt, jar.rt}
        /\ w.pc \in {"save", "respond"} => Brings(c) /\ w.got = call[c].got /\ w.rt = call[c].rt
    BY <2>u, <2>1, <2>2, <2>4 DEF Brings
  <2>7. /\ SessionTypes' /\ \A d \in Calls : CallShape(call[d])'
        /\ IssuedInOrder' /\ BroughtOnce'
        /\ call'[c] = w /\ \A d \in Calls \ {c} : call'[d] = call[d]
    BY <2>2, <2>3, <2>4, <2>5, <2>6, NothingIssued
  <2>8. ASSUME ~disturbed' PROVE Undisturbed'
    <3>1. /\ W!Refreshing(c) \/ W!At(c, "clear") => w.pc \in {"issue", "save", "respond", "clear"}
          /\ w.pc \notin {"issue", "save"}
          /\ w.pc \in {"send", "refresh"} /\ w.rt # None =>
                \/ Asks(c) /\ w.rt = call[c].rt
                \/ w.rt = jar.rt /\ \A d \in Calls : ~W!Refreshing(d)
      BY <2>8, <2>u, <2>2, <2>4 DEF W!Refreshing, W!At, Asks
    <3> QED BY <2>2, <2>5, <2>6, <2>7, <2>8, <3>1, TablesStay DEF SessionInv, Undisturbed
  <2> QED BY <2>7, <2>8 DEF SessionInv, Undisturbed
<1>2. ASSUME NEW c \in Calls, W!Sends(c) PROVE SessionInv'
  <2>u. PICK u : u = call[c]
    OBVIOUS
  <2>1. u \in SessionCall /\ CallShape(u) /\ jar.rt \in TokenOrNone /\ jar.at \in TokenOrNone
    BY <2>u, SessionCalls
  <2>2. /\ UNCHANGED <<jar, session, valid>> /\ disturbed' \in BOOLEAN /\ (~disturbed' => ~disturbed)
        /\ u.pc = "send"
    BY <1>2, <2>u DEF W!Sends, W!At, W!Idle, SessionInv, SessionTypes
  <2>w. PICK w : w = IF W!MustRefresh(c) /\ u.rt # None THEN [u EXCEPT !.pc = "refresh"] ELSE [pc |-> "idle", kind |-> "page", at |-> None, rt |-> None, got |-> None]
    OBVIOUS
  <2>3. W!Goes(c, w)
    BY <1>2, <2>u, <2>w, <2>2 DEF W!Sends, W!At, W!Idle
  <2>4. /\ w \in SessionCall /\ CallShape(w)
        /\ \/ w.pc = "refresh" /\ w.rt = u.rt
           \/ w.pc = "idle" /\ w.rt = None
    BY <2>w, <2>1, <2>2 DEF SessionCall, CallShape, TokenOrNone
  <2>5. /\ jar' \in [at : TokenOrNone, rt : TokenOrNone] /\ session' \in [W!Tokens -> SessionRow]
        /\ valid' \subseteq W!Tokens /\ jar'.rt = jar.rt /\ session' = session
    BY <2>2 DEF SessionInv, SessionTypes
  <2>6. /\ w.rt \in {None, call[c].rt, jar.rt}
        /\ w.pc \in {"save", "respond"} => Brings(c) /\ w.got = call[c].got /\ w.rt = call[c].rt
    BY <2>u, <2>1, <2>2, <2>4 DEF Brings
  <2>7. /\ SessionTypes' /\ \A d \in Calls : CallShape(call[d])'
        /\ IssuedInOrder' /\ BroughtOnce'
        /\ call'[c] = w /\ \A d \in Calls \ {c} : call'[d] = call[d]
    BY <2>2, <2>3, <2>4, <2>5, <2>6, NothingIssued
  <2>8. ASSUME ~disturbed' PROVE Undisturbed'
    <3>1. /\ W!Refreshing(c) \/ W!At(c, "clear") => w.pc \in {"issue", "save", "respond", "clear"}
          /\ w.pc \notin {"issue", "save"}
          /\ w.pc \in {"send", "refresh"} /\ w.rt # None =>
                \/ Asks(c) /\ w.rt = call[c].rt
                \/ w.rt = jar.rt /\ \A d \in Calls : ~W!Refreshing(d)
      BY <2>8, <2>u, <2>2, <2>4 DEF W!Refreshing, W!At, Asks
    <3> QED BY <2>2, <2>5, <2>6, <2>7, <2>8, <3>1, TablesStay DEF SessionInv, Undisturbed
  <2> QED BY <2>7, <2>8 DEF SessionInv, Undisturbed
<1>3. ASSUME NEW c \in Calls, W!SaveSession(c) PROVE SessionInv'
  <2>u. PICK u : u = call[c]
    OBVIOUS
  <2>1. u \in SessionCall /\ CallShape(u) /\ jar.rt \in TokenOrNone /\ jar.at \in TokenOrNone
    BY <2>u, SessionCalls
  <2>2. /\ UNCHANGED <<jar, session, valid>> /\ disturbed' \in BOOLEAN /\ (~disturbed' => ~disturbed)
        /\ u.pc = "save" /\ (u.kind = "page" => disturbed')
    BY <1>3, <2>u DEF W!SaveSession, W!At, W!Idle, SessionInv, SessionTypes
  <2>w. PICK w : w = IF u.kind = "page" THEN [pc |-> "idle", kind |-> "page", at |-> None, rt |-> None, got |-> None]
                      ELSE [u EXCEPT !.pc = "respond"]
    OBVIOUS
  <2>3. W!Goes(c, w)
    BY <1>3, <2>u, <2>w, <2>2 DEF W!SaveSession, W!At, W!Idle
  <2>4. /\ w \in SessionCall /\ CallShape(w)
        /\ \/ w.pc = "respond" /\ w.rt = u.rt /\ w.got = u.got
           \/ w.pc = "idle" /\ w.rt = None /\ disturbed' 
    BY <2>w, <2>1, <2>2 DEF SessionCall, CallShape, TokenOrNone
  <2>5. /\ jar' \in [at : TokenOrNone, rt : TokenOrNone] /\ session' \in [W!Tokens -> SessionRow]
        /\ valid' \subseteq W!Tokens /\ jar'.rt = jar.rt /\ session' = session
    BY <2>2 DEF SessionInv, SessionTypes
  <2>6. /\ w.rt \in {None, call[c].rt, jar.rt}
        /\ w.pc \in {"save", "respond"} => Brings(c) /\ w.got = call[c].got /\ w.rt = call[c].rt
    BY <2>u, <2>1, <2>2, <2>4 DEF Brings
  <2>7. /\ SessionTypes' /\ \A d \in Calls : CallShape(call[d])'
        /\ IssuedInOrder' /\ BroughtOnce'
        /\ call'[c] = w /\ \A d \in Calls \ {c} : call'[d] = call[d]
    BY <2>2, <2>3, <2>4, <2>5, <2>6, NothingIssued
  <2>8. ASSUME ~disturbed' PROVE Undisturbed'
    <3>1. /\ W!Refreshing(c) \/ W!At(c, "clear") => w.pc \in {"issue", "save", "respond", "clear"}
          /\ w.pc \notin {"issue", "save"}
          /\ w.pc \in {"send", "refresh"} /\ w.rt # None =>
                \/ Asks(c) /\ w.rt = call[c].rt
                \/ w.rt = jar.rt /\ \A d \in Calls : ~W!Refreshing(d)
      BY <2>8, <2>u, <2>2, <2>4 DEF W!Refreshing, W!At, Asks
    <3> QED BY <2>2, <2>5, <2>6, <2>7, <2>8, <3>1, TablesStay DEF SessionInv, Undisturbed
  <2> QED BY <2>7, <2>8 DEF SessionInv, Undisturbed
<1>4. ASSUME NEW c \in Calls, W!CutShort(c) PROVE SessionInv'
  <2>u. PICK u : u = call[c]
    OBVIOUS
  <2>1. u \in SessionCall /\ CallShape(u) /\ jar.rt \in TokenOrNone /\ jar.at \in TokenOrNone
    BY <2>u, SessionCalls
  <2>2. /\ UNCHANGED <<jar, session, valid>> /\ disturbed' \in BOOLEAN /\ (~disturbed' => ~disturbed)
        /\ (~disturbed' => u.pc \notin {"issue", "save", "respond", "clear"})
    BY <1>4, <2>u DEF W!CutShort, W!At, W!Refreshing, W!Idle, SessionInv, SessionTypes
  <2>w. PICK w : w = [pc |-> "idle", kind |-> "page", at |-> None, rt |-> None, got |-> None]
    OBVIOUS
  <2>3. W!Goes(c, w)
    BY <1>4, <2>u, <2>w, <2>2 DEF W!CutShort, W!At, W!Refreshing, W!Idle
  <2>4. /\ w \in SessionCall /\ CallShape(w)
        /\ w.pc = "idle" /\ w.rt = None
    BY <2>w, <2>1, <2>2 DEF SessionCall, CallShape, TokenOrNone
  <2>5. /\ jar' \in [at : TokenOrNone, rt : TokenOrNone] /\ session' \in [W!Tokens -> SessionRow]
        /\ valid' \subseteq W!Tokens /\ jar'.rt = jar.rt /\ session' = session
    BY <2>2 DEF SessionInv, SessionTypes
  <2>6. /\ w.rt \in {None, call[c].rt, jar.rt}
        /\ w.pc \in {"save", "respond"} => Brings(c) /\ w.got = call[c].got /\ w.rt = call[c].rt
    BY <2>u, <2>1, <2>2, <2>4 DEF Brings
  <2>7. /\ SessionTypes' /\ \A d \in Calls : CallShape(call[d])'
        /\ IssuedInOrder' /\ BroughtOnce'
        /\ call'[c] = w /\ \A d \in Calls \ {c} : call'[d] = call[d]
    BY <2>2, <2>3, <2>4, <2>5, <2>6, NothingIssued
  <2>8. ASSUME ~disturbed' PROVE Undisturbed'
    <3>1. /\ W!Refreshing(c) \/ W!At(c, "clear") => w.pc \in {"issue", "save", "respond", "clear"}
          /\ w.pc \notin {"issue", "save"}
          /\ w.pc \in {"send", "refresh"} /\ w.rt # None =>
                \/ Asks(c) /\ w.rt = call[c].rt
                \/ w.rt = jar.rt /\ \A d \in Calls : ~W!Refreshing(d)
      BY <2>8, <2>u, <2>2, <2>4 DEF W!Refreshing, W!At, Asks
    <3> QED BY <2>2, <2>5, <2>6, <2>7, <2>8, <3>1, TablesStay DEF SessionInv, Undisturbed
  <2> QED BY <2>7, <2>8 DEF SessionInv, Undisturbed
<1>5. ASSUME NEW c \in Calls, W!OpensLogin(c) PROVE SessionInv'
  <2>u. PICK u : u = call[c]
    OBVIOUS
  <2>1. u \in SessionCall /\ CallShape(u) /\ jar.rt \in TokenOrNone /\ jar.at \in TokenOrNone
    BY <2>u, SessionCalls
  <2>2. /\ UNCHANGED <<jar, session, valid>> /\ disturbed' \in BOOLEAN /\ (~disturbed' => ~disturbed)
        /\ u.pc = "idle"
    BY <1>5, <2>u DEF W!OpensLogin, W!At, W!Idle, SessionInv, SessionTypes
  <2>w. PICK w : w = [W!Idle EXCEPT !.pc = "verify", !.kind = "action"]
    OBVIOUS
  <2>3. W!Goes(c, w)
    BY <1>5, <2>u, <2>w, <2>2 DEF W!OpensLogin, W!At, W!Idle
  <2>d. w = [pc |-> "verify", kind |-> "action", at |-> None, rt |-> None, got |-> None]
    BY <2>w DEF W!Idle
  <2>4. /\ w \in SessionCall /\ CallShape(w)
        /\ w.pc = "verify" /\ w.rt = None
    BY <2>d, <2>1, <2>2 DEF SessionCall, CallShape, TokenOrNone
  <2>5. /\ jar' \in [at : TokenOrNone, rt : TokenOrNone] /\ session' \in [W!Tokens -> SessionRow]
        /\ valid' \subseteq W!Tokens /\ jar'.rt = jar.rt /\ session' = session
    BY <2>2 DEF SessionInv, SessionTypes
  <2>6. /\ w.rt \in {None, call[c].rt, jar.rt}
        /\ w.pc \in {"save", "respond"} => Brings(c) /\ w.got = call[c].got /\ w.rt = call[c].rt
    BY <2>u, <2>1, <2>2, <2>4 DEF Brings
  <2>7. /\ SessionTypes' /\ \A d \in Calls : CallShape(call[d])'
        /\ IssuedInOrder' /\ BroughtOnce'
        /\ call'[c] = w /\ \A d \in Calls \ {c} : call'[d] = call[d]
    BY <2>2, <2>3, <2>4, <2>5, <2>6, NothingIssued
  <2>8. ASSUME ~disturbed' PROVE Undisturbed'
    <3>1. /\ W!Refreshing(c) \/ W!At(c, "clear") => w.pc \in {"issue", "save", "respond", "clear"}
          /\ w.pc \notin {"issue", "save"}
          /\ w.pc \in {"send", "refresh"} /\ w.rt # None =>
                \/ Asks(c) /\ w.rt = call[c].rt
                \/ w.rt = jar.rt /\ \A d \in Calls : ~W!Refreshing(d)
      BY <2>8, <2>u, <2>2, <2>4 DEF W!Refreshing, W!At, Asks
    <3> QED BY <2>2, <2>5, <2>6, <2>7, <2>8, <3>1, TablesStay DEF SessionInv, Undisturbed
  <2> QED BY <2>7, <2>8 DEF SessionInv, Undisturbed
<1>6. ASSUME NEW c \in Calls, W!OpensSignOut(c) PROVE SessionInv'
  <2>u. PICK u : u = call[c]
    OBVIOUS
  <2>1. u \in SessionCall /\ CallShape(u) /\ jar.rt \in TokenOrNone /\ jar.at \in TokenOrNone
    BY <2>u, SessionCalls
  <2>2. /\ UNCHANGED <<jar, session, valid>> /\ disturbed' \in BOOLEAN /\ (~disturbed' => ~disturbed)
        /\ u.pc = "idle" /\ jar.rt # None
    BY <1>6, <2>u DEF W!OpensSignOut, W!At, W!Idle, SessionInv, SessionTypes
  <2>w. PICK w : w = [W!Idle EXCEPT !.pc = "logout", !.kind = "action", !.rt = jar.rt]
    OBVIOUS
  <2>3. W!Goes(c, w)
    BY <1>6, <2>u, <2>w, <2>2 DEF W!OpensSignOut, W!At, W!Idle
  <2>d. w = [pc |-> "logout", kind |-> "action", at |-> None, rt |-> jar.rt, got |-> None]
    BY <2>w DEF W!Idle
  <2>4. /\ w \in SessionCall /\ CallShape(w)
        /\ w.pc = "logout" /\ w.rt = jar.rt
    BY <2>d, <2>1, <2>2 DEF SessionCall, CallShape, TokenOrNone
  <2>5. /\ jar' \in [at : TokenOrNone, rt : TokenOrNone] /\ session' \in [W!Tokens -> SessionRow]
        /\ valid' \subseteq W!Tokens /\ jar'.rt = jar.rt /\ session' = session
    BY <2>2 DEF SessionInv, SessionTypes
  <2>6. /\ w.rt \in {None, call[c].rt, jar.rt}
        /\ w.pc \in {"save", "respond"} => Brings(c) /\ w.got = call[c].got /\ w.rt = call[c].rt
    BY <2>u, <2>1, <2>2, <2>4 DEF Brings
  <2>7. /\ SessionTypes' /\ \A d \in Calls : CallShape(call[d])'
        /\ IssuedInOrder' /\ BroughtOnce'
        /\ call'[c] = w /\ \A d \in Calls \ {c} : call'[d] = call[d]
    BY <2>2, <2>3, <2>4, <2>5, <2>6, NothingIssued
  <2>8. ASSUME ~disturbed' PROVE Undisturbed'
    <3>1. /\ W!Refreshing(c) \/ W!At(c, "clear") => w.pc \in {"issue", "save", "respond", "clear"}
          /\ w.pc \notin {"issue", "save"}
          /\ w.pc \in {"send", "refresh"} /\ w.rt # None =>
                \/ Asks(c) /\ w.rt = call[c].rt
                \/ w.rt = jar.rt /\ \A d \in Calls : ~W!Refreshing(d)
      BY <2>8, <2>u, <2>2, <2>4 DEF W!Refreshing, W!At, Asks
    <3> QED BY <2>2, <2>5, <2>6, <2>7, <2>8, <3>1, TablesStay DEF SessionInv, Undisturbed
  <2> QED BY <2>7, <2>8 DEF SessionInv, Undisturbed
<1>7. ASSUME NEW c \in Calls, W!Rotates(c), session[call[c].rt].live PROVE SessionInv'
  <2>u. PICK u : u = call[c]
    OBVIOUS
  <2>1. /\ u \in SessionCall /\ CallShape(u) /\ jar.rt \in TokenOrNone /\ jar.at \in TokenOrNone
        /\ None \notin W!Tokens /\ \A v \in W!Tokens : session[v] \in SessionRow
    BY <2>u, SessionCalls
  <2>2. /\ u.pc = "refresh" /\ u.rt \in W!Tokens
        /\ session' = [session EXCEPT ![u.rt].live = FALSE] /\ UNCHANGED <<jar, valid>>
        /\ disturbed' \in BOOLEAN
        /\ ~disturbed' => ~disturbed /\ \A d \in Calls \ {c} : call[d].pc = "idle"
    BY <1>7, <2>u, <2>1 DEF W!Rotates, W!At, SessionInv, SessionTypes, SessionCall, CallShape, TokenOrNone
  <2>w. PICK w : w = [u EXCEPT !.pc = "issue"]
    OBVIOUS
  <2>3. W!Goes(c, w)
    BY <1>7, <2>u, <2>w, <2>2 DEF W!Rotates, W!At
  <2>4. /\ w \in SessionCall /\ CallShape(w)
        /\ w.pc = "issue" /\ w.rt = u.rt
    BY <2>w, <2>1, <2>2 DEF SessionCall, CallShape, TokenOrNone
  <2>5. /\ jar' \in [at : TokenOrNone, rt : TokenOrNone] /\ session' \in [W!Tokens -> SessionRow]
        /\ \A v \in W!Tokens : /\ session'[v].family = session[v].family
                               /\ session'[v].live => session[v].live
        /\ valid' \subseteq W!Tokens /\ disturbed' \in BOOLEAN
    BY <2>1, <2>2, OneSessionEnds DEF SessionInv, SessionTypes
  <2>7. /\ SessionTypes' /\ \A d \in Calls : CallShape(call[d])'
        /\ IssuedInOrder' /\ BroughtOnce'
        /\ call'[c] = w /\ \A d \in Calls \ {c} : call'[d] = call[d]
    <3>1. /\ w.rt \in {None, call[c].rt, jar.rt} /\ w.pc \notin {"save", "respond"}
          /\ \/ jar'.rt \in {None, jar.rt}
             \/ Brings(c) /\ jar'.rt = call[c].got /\ w.pc = "idle"
      BY <2>u, <2>1, <2>2, <2>4 DEF Brings
    <3> QED BY <2>3, <2>4, <2>5, <3>1, NothingIssued
  <2>8. ASSUME ~disturbed' PROVE Undisturbed'
    <3>1. ~disturbed /\ Undisturbed
      BY <2>2, <2>8 DEF SessionInv, Undisturbed
    <3>6. \A d \in Calls \ {c} : call'[d].pc = "idle"
      BY <2>2, <2>7, <2>8
    <3>2. DeadIsReplaced'
      BY <2>4, <2>7 DEF DeadIsReplaced, W!Refreshing
    <3>3. BroughtWorks'
      BY <2>4, <2>7, <3>6 DEF BroughtWorks, Brings
    <3>4. ReplacesAlone'
      BY <2>4, <2>7, <3>6 DEF ReplacesAlone, Asks
    <3>5. OneOfTheFamily'
      BY <2>4, <2>7, <3>6 DEF OneOfTheFamily, Asks
    <3> QED BY <3>2, <3>3, <3>4, <3>5 DEF Undisturbed
  <2> QED BY <2>7, <2>8 DEF SessionInv, Undisturbed
<1>8. ASSUME NEW c \in Calls, W!Rotates(c), ~session[call[c].rt].live PROVE SessionInv'
  <2>u. PICK u : u = call[c]
    OBVIOUS
  <2>1. /\ u \in SessionCall /\ CallShape(u) /\ jar.rt \in TokenOrNone /\ jar.at \in TokenOrNone
        /\ None \notin W!Tokens /\ \A v \in W!Tokens : session[v] \in SessionRow
    BY <2>u, SessionCalls
  <2>2. /\ u.pc = "refresh" /\ u.rt \in W!Tokens /\ ~session[u.rt].live
        /\ session' = W!Revoked(session[u.rt].family) /\ UNCHANGED <<jar, valid>>
        /\ disturbed' \in BOOLEAN
        /\ ~disturbed' => ~disturbed /\ \A d \in Calls \ {c} : call[d].pc = "idle"
    BY <1>8, <2>u, <2>1 DEF W!Rotates, W!At, W!Idle, SessionInv, SessionTypes, SessionCall, CallShape, TokenOrNone
  <2>w. PICK w : w = [pc |-> "idle", kind |-> "page", at |-> None, rt |-> None, got |-> None]
    OBVIOUS
  <2>3. W!Goes(c, w)
    BY <1>8, <2>u, <2>w, <2>2 DEF W!Rotates, W!At, W!Idle
  <2>4. /\ w \in SessionCall /\ CallShape(w)
        /\ w.pc = "idle" /\ w.rt = None
    BY <2>w, <2>1, <2>2 DEF SessionCall, CallShape, TokenOrNone
  <2>5. /\ jar' \in [at : TokenOrNone, rt : TokenOrNone] /\ session' \in [W!Tokens -> SessionRow]
        /\ \A v \in W!Tokens : /\ session'[v].family = session[v].family
                               /\ session'[v].live => session[v].live
        /\ valid' \subseteq W!Tokens /\ disturbed' \in BOOLEAN
    <3>1. \A v \in W!Tokens : /\ session'[v] \in SessionRow /\ session'[v].family = session[v].family
                              /\ session'[v].live => session[v].live
      BY <2>1, <2>2 DEF W!Revoked, SessionRow
    <3>2. session' \in [W!Tokens -> SessionRow]
      BY <2>2, <3>1 DEF W!Revoked
    <3> QED BY <2>2, <3>1, <3>2 DEF SessionInv, SessionTypes
  <2>7. /\ SessionTypes' /\ \A d \in Calls : CallShape(call[d])'
        /\ IssuedInOrder' /\ BroughtOnce'
        /\ call'[c] = w /\ \A d \in Calls \ {c} : call'[d] = call[d]
    <3>1. /\ w.rt \in {None, call[c].rt, jar.rt} /\ w.pc \notin {"save", "respond"}
          /\ \/ jar'.rt \in {None, jar.rt}
             \/ Brings(c) /\ jar'.rt = call[c].got /\ w.pc = "idle"
      BY <2>u, <2>1, <2>2, <2>4 DEF Brings
    <3> QED BY <2>3, <2>4, <2>5, <3>1, NothingIssued
  <2>8. ASSUME ~disturbed' PROVE Undisturbed'
    <3>1. ~disturbed /\ Undisturbed
      BY <2>2, <2>8 DEF SessionInv, Undisturbed
    <3>6. \A d \in Calls \ {c} : call'[d].pc = "idle"
      BY <2>2, <2>7, <2>8
    <3>2. DeadIsReplaced'
      <4> SUFFICES ASSUME jar.rt # None PROVE session'[jar.rt].live
        BY <2>2 DEF DeadIsReplaced
      <4>1. jar.rt \in W!Tokens /\ session[jar.rt].live
        BY <2>1, <2>2, <2>8, <2>u, <3>1 DEF Undisturbed, DeadIsReplaced, W!Refreshing, W!At, TokenOrNone
      <4>2. Asks(c)
        BY <2>u, <2>1, <2>2 DEF Asks, CallShape
      <4>3. session[jar.rt].family # session[u.rt].family
        BY <2>u, <2>2, <3>1, <4>1, <4>2 DEF Undisturbed, OneOfTheFamily
      <4> QED BY <2>2, <4>1, <4>3 DEF W!Revoked
    <3>3. BroughtWorks'
      BY <2>4, <2>7, <3>6 DEF BroughtWorks, Brings
    <3>4. ReplacesAlone'
      BY <2>4, <2>7, <3>6 DEF ReplacesAlone, Asks
    <3>5. OneOfTheFamily'
      BY <2>4, <2>7, <3>6 DEF OneOfTheFamily, Asks
    <3> QED BY <3>2, <3>3, <3>4, <3>5 DEF Undisturbed
  <2> QED BY <2>7, <2>8 DEF SessionInv, Undisturbed
<1>9. ASSUME NEW c \in Calls, NEW t \in W!Tokens, W!IssuesNext(c, t) PROVE SessionInv'
  <2>u. PICK u : u = call[c]
    OBVIOUS
  <2>1. /\ u \in SessionCall /\ CallShape(u) /\ jar.rt \in TokenOrNone /\ jar.at \in TokenOrNone
        /\ None \notin W!Tokens /\ \A v \in W!Tokens : session[v] \in SessionRow
    BY <2>u, SessionCalls
  <2>2. /\ u.pc = "issue" /\ u.rt \in W!Tokens /\ W!Issues(t, session[u.rt].family)
        /\ UNCHANGED <<jar, disturbed>>
    BY <1>9, <2>u, <2>1 DEF W!IssuesNext, W!At, SessionInv, SessionTypes, SessionCall, CallShape, TokenOrNone
  <2>w. PICK w : w = [u EXCEPT !.pc = "save", !.got = t]
    OBVIOUS
  <2>3. W!Goes(c, w)
    BY <1>9, <2>u, <2>w, <2>2 DEF W!IssuesNext, W!At
  <2>4. /\ w \in SessionCall /\ CallShape(w)
        /\ w.pc = "save" /\ w.rt = u.rt /\ w.got = t
    BY <2>w, <2>1, <2>2 DEF SessionCall, CallShape, TokenOrNone
  <2>5. session[u.rt].family \in W!Tokens /\ (session[u.rt].family # t => Issued(session[u.rt].family) /\ t # session[u.rt].family)
    <3>1. Issued(u.rt) /\ ~Issued(t)
      BY <2>u, <2>2, <2>1 DEF SessionInv, IssuedInOrder, CallShape, W!Issues, W!Unissued, Issued
    <3>2. Issued(session[u.rt].family) /\ session[u.rt].family \in W!Tokens
      BY <3>1, <2>1, <2>2 DEF SessionInv, IssuedInOrder, SessionRow, TokenOrNone, Issued
    <3> QED BY <3>1, <3>2
  <2>7. /\ SessionTypes' /\ \A d \in Calls : CallShape(call[d])'
        /\ IssuedInOrder' /\ BroughtOnce'
        /\ call'[c] = w /\ \A d \in Calls \ {c} : call'[d] = call[d]
        /\ ~Issued(t) /\ session'[t].live /\ session'[t].family = session[u.rt].family
        /\ \A v \in W!Tokens \ {t} : session'[v] = session[v]
    BY <2>u, <2>2, <2>3, <2>4, <2>5, PairIssued
  <2>8. ASSUME ~disturbed' PROVE Undisturbed'
    <3>1. ~disturbed /\ Undisturbed
      BY <2>2, <2>8 DEF SessionInv, Undisturbed
    <3>6. /\ jar.rt # None => jar.rt \in W!Tokens \ {t}
          /\ \A d \in Calls : Asks(d) => call[d].rt \in W!Tokens \ {t}
          /\ \A d \in Calls : Brings(d) => call[d].got \in W!Tokens \ {t}
      BY <2>7, SessionCalls DEF SessionInv, IssuedInOrder, SessionCall, TokenOrNone, Asks, Brings, CallShape
    <3>7. \A d \in Calls : /\ Asks(d)' => d # c /\ Asks(d) /\ call'[d].rt = call[d].rt
                           /\ Brings(d)' => \/ d = c /\ call'[d].got = t
                                            \/ d # c /\ Brings(d) /\ call'[d].got = call[d].got
      BY <2>4, <2>7 DEF Asks, Brings
    <3>2. DeadIsReplaced'
      BY <2>2, <2>4, <2>7, <3>1, <3>6 DEF Undisturbed, DeadIsReplaced, W!Refreshing, W!At
    <3>3. BroughtWorks'
      BY <2>7, <3>1, <3>6, <3>7 DEF Undisturbed, BroughtWorks
    <3>8. Replaces(c) /\ \A d \in Calls : ~Asks(d)
      BY <2>u, <2>2, <3>1 DEF Undisturbed, ReplacesAlone, Replaces
    <3>4. ReplacesAlone'
      BY <3>7, <3>8 DEF ReplacesAlone
    <3>5. OneOfTheFamily'
      BY <3>7, <3>8 DEF OneOfTheFamily
    <3> QED BY <3>2, <3>3, <3>4, <3>5 DEF Undisturbed
  <2> QED BY <2>7, <2>8 DEF SessionInv, Undisturbed
<1>10. ASSUME NEW c \in Calls, NEW t \in W!Tokens, W!VerifyOtp(c, t) PROVE SessionInv'
  <2>u. PICK u : u = call[c]
    OBVIOUS
  <2>1. /\ u \in SessionCall /\ CallShape(u) /\ jar.rt \in TokenOrNone /\ jar.at \in TokenOrNone
        /\ None \notin W!Tokens /\ \A v \in W!Tokens : session[v] \in SessionRow
    BY <2>u, SessionCalls
  <2>2. /\ u.pc = "verify" /\ u.rt = None /\ W!Issues(t, t)
        /\ UNCHANGED <<jar, disturbed>>
    BY <1>10, <2>u, <2>1 DEF W!VerifyOtp, W!At, SessionInv, SessionTypes, SessionCall, CallShape, TokenOrNone
  <2>w. PICK w : w = [u EXCEPT !.pc = "respond", !.got = t]
    OBVIOUS
  <2>3. W!Goes(c, w)
    BY <1>10, <2>u, <2>w, <2>2 DEF W!VerifyOtp, W!At
  <2>4. /\ w \in SessionCall /\ CallShape(w)
        /\ w.pc = "respond" /\ w.rt = u.rt /\ w.got = t
    BY <2>w, <2>1, <2>2 DEF SessionCall, CallShape, TokenOrNone
  <2>5. t \in W!Tokens /\ (t # t => Issued(t) /\ t # t)
    OBVIOUS
  <2>7. /\ SessionTypes' /\ \A d \in Calls : CallShape(call[d])'
        /\ IssuedInOrder' /\ BroughtOnce'
        /\ call'[c] = w /\ \A d \in Calls \ {c} : call'[d] = call[d]
        /\ ~Issued(t) /\ session'[t].live /\ session'[t].family = t
        /\ \A v \in W!Tokens \ {t} : session'[v] = session[v]
    BY <2>u, <2>2, <2>3, <2>4, <2>5, PairIssued
  <2>8. ASSUME ~disturbed' PROVE Undisturbed'
    <3>1. ~disturbed /\ Undisturbed
      BY <2>2, <2>8 DEF SessionInv, Undisturbed
    <3>6. /\ jar.rt # None => jar.rt \in W!Tokens \ {t}
          /\ \A d \in Calls : Asks(d) => call[d].rt \in W!Tokens \ {t}
          /\ \A d \in Calls : Brings(d) => call[d].got \in W!Tokens \ {t}
      BY <2>7, SessionCalls DEF SessionInv, IssuedInOrder, SessionCall, TokenOrNone, Asks, Brings, CallShape
    <3>7. \A d \in Calls : /\ Asks(d)' => d # c /\ Asks(d) /\ call'[d].rt = call[d].rt
                           /\ Brings(d)' => \/ d = c /\ call'[d].got = t
                                            \/ d # c /\ Brings(d) /\ call'[d].got = call[d].got
      BY <2>4, <2>7 DEF Asks, Brings
    <3>2. DeadIsReplaced'
      BY <2>2, <2>4, <2>7, <3>1, <3>6 DEF Undisturbed, DeadIsReplaced, W!Refreshing, W!At
    <3>3. BroughtWorks'
      BY <2>7, <3>1, <3>6, <3>7 DEF Undisturbed, BroughtWorks
    <3>4. ReplacesAlone'
      BY <2>2, <2>4, <2>7, <3>1, <3>7 DEF Undisturbed, ReplacesAlone, Replaces
    <3>8. \A d \in Calls : Asks(d) => session[call[d].rt].family # t
      BY <2>7, <3>6 DEF SessionInv, IssuedInOrder, Issued, Asks
    <3>5. OneOfTheFamily'
      BY <2>2, <2>7, <3>1, <3>6, <3>7, <3>8 DEF Undisturbed, OneOfTheFamily
    <3> QED BY <3>2, <3>3, <3>4, <3>5 DEF Undisturbed
  <2> QED BY <2>7, <2>8 DEF SessionInv, Undisturbed
<1>11. ASSUME NEW c \in Calls, W!Responds(c) PROVE SessionInv'
  <2>u. PICK u : u = call[c]
    OBVIOUS
  <2>1. /\ u \in SessionCall /\ CallShape(u) /\ jar.rt \in TokenOrNone /\ jar.at \in TokenOrNone
        /\ None \notin W!Tokens /\ \A v \in W!Tokens : session[v] \in SessionRow
    BY <2>u, SessionCalls
  <2>2. /\ u.pc = "respond" /\ u.got \in W!Tokens
        /\ jar' = [at |-> u.got, rt |-> u.got] /\ UNCHANGED <<session, valid, disturbed>>
    BY <1>11, <2>u, <2>1 DEF W!Responds, W!At, W!Cookies, W!Idle, SessionInv, SessionTypes, SessionCall, CallShape, TokenOrNone
  <2>w. PICK w : w = [pc |-> "idle", kind |-> "page", at |-> None, rt |-> None, got |-> None]
    OBVIOUS
  <2>3. W!Goes(c, w)
    BY <1>11, <2>u, <2>w, <2>2 DEF W!Responds, W!At, W!Cookies, W!Idle
  <2>4. /\ w \in SessionCall /\ CallShape(w)
        /\ w.pc = "idle" /\ w.rt = None
    BY <2>w, <2>1, <2>2 DEF SessionCall, CallShape, TokenOrNone
  <2>5. /\ jar' \in [at : TokenOrNone, rt : TokenOrNone] /\ session' \in [W!Tokens -> SessionRow]
        /\ \A v \in W!Tokens : /\ session'[v].family = session[v].family
                               /\ session'[v].live => session[v].live
        /\ valid' \subseteq W!Tokens /\ disturbed' \in BOOLEAN
    BY <2>1, <2>2 DEF SessionInv, SessionTypes, SessionRow, SessionCall, TokenOrNone, CallShape
  <2>7. /\ SessionTypes' /\ \A d \in Calls : CallShape(call[d])'
        /\ IssuedInOrder' /\ BroughtOnce'
        /\ call'[c] = w /\ \A d \in Calls \ {c} : call'[d] = call[d]
    <3>1. /\ w.rt \in {None, call[c].rt, jar.rt} /\ w.pc \notin {"save", "respond"}
          /\ \/ jar'.rt \in {None, jar.rt}
             \/ Brings(c) /\ jar'.rt = call[c].got /\ w.pc = "idle"
      BY <2>u, <2>1, <2>2, <2>4 DEF Brings
    <3> QED BY <2>3, <2>4, <2>5, <3>1, NothingIssued
  <2>8. ASSUME ~disturbed' PROVE Undisturbed'
    <3>1. ~disturbed /\ Undisturbed
      BY <2>2, <2>8 DEF SessionInv, Undisturbed
    <3>6. \A d \in Calls : /\ Asks(d)' => d # c /\ Asks(d) /\ call'[d].rt = call[d].rt
                           /\ Brings(d)' => d # c /\ Brings(d) /\ call'[d].got = call[d].got
                           /\ Replaces(d)' => Replaces(d)
      BY <2>4, <2>7 DEF Asks, Brings, Replaces
    <3>7. \A d \in Calls : /\ Asks(d) => call[d].rt \in W!Tokens
                           /\ Brings(d) => call[d].got \in W!Tokens
      BY SessionCalls DEF Asks, Brings, SessionCall, CallShape, TokenOrNone
    <3>8. Brings(c) /\ u.got = call[c].got /\ jar'.rt = u.got
      BY <2>u, <2>2 DEF Brings
    <3>2. DeadIsReplaced'
      BY <2>2, <3>1, <3>8 DEF Undisturbed, DeadIsReplaced, BroughtWorks
    <3>3. BroughtWorks'
      BY <2>2, <3>1, <3>6 DEF Undisturbed, BroughtWorks
    <3>4. ReplacesAlone'
      BY <3>1, <3>6 DEF Undisturbed, ReplacesAlone
    <3>5. OneOfTheFamily'
      BY <2>2, <3>1, <3>6, <3>8 DEF Undisturbed, OneOfTheFamily
    <3> QED BY <3>2, <3>3, <3>4, <3>5 DEF Undisturbed
  <2> QED BY <2>7, <2>8 DEF SessionInv, Undisturbed
<1>12. ASSUME NEW c \in Calls, W!Logout(c) PROVE SessionInv'
  <2>u. PICK u : u = call[c]
    OBVIOUS
  <2>1. /\ u \in SessionCall /\ CallShape(u) /\ jar.rt \in TokenOrNone /\ jar.at \in TokenOrNone
        /\ None \notin W!Tokens /\ \A v \in W!Tokens : session[v] \in SessionRow
    BY <2>u, SessionCalls
  <2>2. /\ u.pc = "logout" /\ u.rt \in W!Tokens
        /\ session' \in {session, [session EXCEPT ![u.rt].live = FALSE]}
        /\ UNCHANGED <<jar, valid, disturbed>>
    BY <1>12, <2>u, <2>1 DEF W!Logout, W!At, SessionInv, SessionTypes, SessionCall, CallShape, TokenOrNone
  <2>w. PICK w : w = [u EXCEPT !.pc = "clear"]
    OBVIOUS
  <2>3. W!Goes(c, w)
    BY <1>12, <2>u, <2>w, <2>2 DEF W!Logout, W!At
  <2>4. /\ w \in SessionCall /\ CallShape(w)
        /\ w.pc = "clear" /\ w.rt = u.rt
    BY <2>w, <2>1, <2>2 DEF SessionCall, CallShape, TokenOrNone
  <2>5. /\ jar' \in [at : TokenOrNone, rt : TokenOrNone] /\ session' \in [W!Tokens -> SessionRow]
        /\ \A v \in W!Tokens : /\ session'[v].family = session[v].family
                               /\ session'[v].live => session[v].live
        /\ valid' \subseteq W!Tokens /\ disturbed' \in BOOLEAN
    <3>1. CASE session' = session
      BY <2>2, <3>1 DEF SessionInv, SessionTypes
    <3>2. CASE session' = [session EXCEPT ![u.rt].live = FALSE]
      BY <2>2, <3>2, OneSessionEnds DEF SessionInv, SessionTypes
    <3> QED BY <2>2, <3>1, <3>2
  <2>7. /\ SessionTypes' /\ \A d \in Calls : CallShape(call[d])'
        /\ IssuedInOrder' /\ BroughtOnce'
        /\ call'[c] = w /\ \A d \in Calls \ {c} : call'[d] = call[d]
    <3>1. /\ w.rt \in {None, call[c].rt, jar.rt} /\ w.pc \notin {"save", "respond"}
          /\ \/ jar'.rt \in {None, jar.rt}
             \/ Brings(c) /\ jar'.rt = call[c].got /\ w.pc = "idle"
      BY <2>u, <2>1, <2>2, <2>4 DEF Brings
    <3> QED BY <2>3, <2>4, <2>5, <3>1, NothingIssued
  <2>8. ASSUME ~disturbed' PROVE Undisturbed'
    <3>1. ~disturbed /\ Undisturbed
      BY <2>2, <2>8 DEF SessionInv, Undisturbed
    <3>6. \A d \in Calls : /\ Asks(d)' => d # c /\ Asks(d) /\ call'[d].rt = call[d].rt
                           /\ Brings(d)' => d # c /\ Brings(d) /\ call'[d].got = call[d].got
                           /\ Replaces(d)' => Replaces(d)
      BY <2>4, <2>7 DEF Asks, Brings, Replaces
    <3>7. \A d \in Calls : /\ Asks(d) => call[d].rt \in W!Tokens
                           /\ Brings(d) => call[d].got \in W!Tokens
      BY SessionCalls DEF Asks, Brings, SessionCall, CallShape, TokenOrNone
    <3>8. \A v \in W!Tokens : v # u.rt => session'[v].live = session[v].live
      BY <2>2 DEF SessionInv, SessionTypes
    <3>2. DeadIsReplaced'
      BY <2>4, <2>7 DEF DeadIsReplaced, W!At
    <3>3. BroughtWorks'
      BY <2>u, <3>1, <3>6, <3>7, <3>8 DEF Undisturbed, BroughtWorks, SessionInv, BroughtOnce
    <3>4. ReplacesAlone'
      BY <3>1, <3>6 DEF Undisturbed, ReplacesAlone
    <3>5. OneOfTheFamily'
      BY <2>2, <2>5, <3>1, <3>6, <3>7, <2>1 DEF Undisturbed, OneOfTheFamily, TokenOrNone
    <3> QED BY <3>2, <3>3, <3>4, <3>5 DEF Undisturbed
  <2> QED BY <2>7, <2>8 DEF SessionInv, Undisturbed
<1>13. ASSUME NEW c \in Calls, W!ClearSession(c) PROVE SessionInv'
  <2>u. PICK u : u = call[c]
    OBVIOUS
  <2>1. /\ u \in SessionCall /\ CallShape(u) /\ jar.rt \in TokenOrNone /\ jar.at \in TokenOrNone
        /\ None \notin W!Tokens /\ \A v \in W!Tokens : session[v] \in SessionRow
    BY <2>u, SessionCalls
  <2>2. /\ u.pc = "clear" /\ jar' = [at |-> None, rt |-> None] /\ UNCHANGED <<session, valid, disturbed>>
    BY <1>13, <2>u, <2>1 DEF W!ClearSession, W!At, W!NoCookies, W!Idle, SessionInv, SessionTypes, SessionCall, CallShape, TokenOrNone
  <2>w. PICK w : w = [pc |-> "idle", kind |-> "page", at |-> None, rt |-> None, got |-> None]
    OBVIOUS
  <2>3. W!Goes(c, w)
    BY <1>13, <2>u, <2>w, <2>2 DEF W!ClearSession, W!At, W!NoCookies, W!Idle
  <2>4. /\ w \in SessionCall /\ CallShape(w)
        /\ w.pc = "idle" /\ w.rt = None
    BY <2>w, <2>1, <2>2 DEF SessionCall, CallShape, TokenOrNone
  <2>5. /\ jar' \in [at : TokenOrNone, rt : TokenOrNone] /\ session' \in [W!Tokens -> SessionRow]
        /\ \A v \in W!Tokens : /\ session'[v].family = session[v].family
                               /\ session'[v].live => session[v].live
        /\ valid' \subseteq W!Tokens /\ disturbed' \in BOOLEAN
    BY <2>1, <2>2 DEF SessionInv, SessionTypes, SessionRow, SessionCall, TokenOrNone, CallShape
  <2>7. /\ SessionTypes' /\ \A d \in Calls : CallShape(call[d])'
        /\ IssuedInOrder' /\ BroughtOnce'
        /\ call'[c] = w /\ \A d \in Calls \ {c} : call'[d] = call[d]
    <3>1. /\ w.rt \in {None, call[c].rt, jar.rt} /\ w.pc \notin {"save", "respond"}
          /\ \/ jar'.rt \in {None, jar.rt}
             \/ Brings(c) /\ jar'.rt = call[c].got /\ w.pc = "idle"
      BY <2>u, <2>1, <2>2, <2>4 DEF Brings
    <3> QED BY <2>3, <2>4, <2>5, <3>1, NothingIssued
  <2>8. ASSUME ~disturbed' PROVE Undisturbed'
    <3>1. ~disturbed /\ Undisturbed
      BY <2>2, <2>8 DEF SessionInv, Undisturbed
    <3>6. \A d \in Calls : /\ Asks(d)' => d # c /\ Asks(d) /\ call'[d].rt = call[d].rt
                           /\ Brings(d)' => d # c /\ Brings(d) /\ call'[d].got = call[d].got
                           /\ Replaces(d)' => Replaces(d)
      BY <2>4, <2>7 DEF Asks, Brings, Replaces
    <3>7. \A d \in Calls : /\ Asks(d) => call[d].rt \in W!Tokens
                           /\ Brings(d) => call[d].got \in W!Tokens
      BY SessionCalls DEF Asks, Brings, SessionCall, CallShape, TokenOrNone
    <3>2. DeadIsReplaced'
      BY <2>2 DEF DeadIsReplaced
    <3>3. BroughtWorks'
      BY <2>2, <3>1, <3>6 DEF Undisturbed, BroughtWorks
    <3>4. ReplacesAlone'
      BY <3>1, <3>6 DEF Undisturbed, ReplacesAlone
    <3>5. OneOfTheFamily'
      BY <2>2, <3>1, <3>6 DEF Undisturbed, OneOfTheFamily
    <3> QED BY <3>2, <3>3, <3>4, <3>5 DEF Undisturbed
  <2> QED BY <2>7, <2>8 DEF SessionInv, Undisturbed
<1>14. CASE UNCHANGED <<jar.rt, session, call, disturbed>> /\ SessionTypes'
  BY <1>14 DEF SessionInv, IssuedInOrder, BroughtOnce, DeadIsReplaced, BroughtWorks, ReplacesAlone,
               OneOfTheFamily, Issued, Brings, Asks, Replaces, W!Refreshing, W!At
<1>15. ASSUME NEW t \in W!Tokens, W!Lapses(t) PROVE SessionInv'
  <2>1. UNCHANGED <<jar.rt, session, call, disturbed>>
    BY <1>15 DEF W!Lapses, SessionInv, SessionTypes
  <2>2. SessionTypes'
    BY <1>15 DEF W!Lapses, SessionInv, SessionTypes, TokenOrNone
  <2> QED BY <1>14, <2>1, <2>2
<1>16. CASE UNCHANGED W!vars
  BY <1>14, <1>16 DEF W!vars, SessionInv, SessionTypes
<1> QED BY <1>1, <1>2, <1>3, <1>4, <1>5, <1>6, <1>7, <1>8, <1>9, <1>10, <1>11, <1>12, <1>13,
           <1>15, <1>16 DEF W!Next

(* The first pair is in the jar, and no call is made.                      *)
LEMMA SessionStart ==
    ASSUME W!Init
    PROVE  SessionInv
<1> USE WebAssumption DEF W!SessionAssumption, W!Init, W!Idle, W!NoCookies, W!Unissued
<1>1. SessionTypes
  BY DEF SessionTypes, SessionCall, SessionRow, TokenOrNone
<1>2. \A c \in Calls : ~Asks(c) /\ ~Replaces(c) /\ ~Brings(c) /\ CallShape(call[c])
  BY DEF Asks, Replaces, Brings, CallShape
<1>3. IssuedInOrder
  BY <1>2 DEF IssuedInOrder, Issued
<1> QED BY <1>1, <1>2, <1>3 DEF SessionInv, BroughtOnce, DeadIsReplaced, BroughtWorks, ReplacesAlone,
                                OneOfTheFamily

(* The invariant holds of the session, whichever screen is the one.        *)
LEMMA SessionInvariant == Spec => []SessionInv
<1>1. Init => SessionInv
  BY EachStartsAlone, SessionStart
<1>2. SessionInv /\ [Next]_vars => SessionInv'
  BY EachMovesAlone, SessionStep
<1> QED BY <1>1, <1>2, PTL DEF Spec

(* A rotation of its own keeps the browser signed in: with any number of   *)
(* calls, tabs, sign-ins and sign-outs, the refresh token of a browser     *)
(* whose calls have ended works, if no rotation was lost, cut short or     *)
(* beside another call.                                                    *)
THEOREM SoleRefreshIsSafe == Spec => []SoleRefreshKeepsSession
<1>1. SessionInv => SoleRefreshKeepsSession
  BY DEF SessionInv, DeadIsReplaced, SoleRefreshKeepsSession, W!SoleRefreshKeepsSession,
         W!SignedInForReal, W!Quiet, W!Refreshing, W!At
<1> QED BY <1>1, SessionInvariant, PTL

(***************************************************************************)
(* Scanner                                                                 *)
(***************************************************************************)

DeskTypes ==
    /\ phase \in {"idle", "starting", "scanning", "working", "done"}
    /\ open \in [C!Opens -> {"unopened", "asks", "plays", "over"}]
    /\ sent \in [C!Sends -> [pass : Passes \union {None}, by : {"nobody", "hand", "camera"},
                             at : {"unsent", "queued", "redeemed", "refused", "over"}]]

(* What the page believes to be under way is under way.                    *)
CameraIsAwaited == mounted /\ phase = "starting" => \E o \in C!Opens : open[o] \in {"asks", "plays"}
AnswerIsAwaited == ~thrown /\ phase = "working" => \E s \in C!Sends : C!UnderWay(s)

DeskInv == DeskTypes /\ CameraIsAwaited /\ AnswerIsAwaited

(* A code is on its way, once it was typed or found.                       *)
LEMMA SubmitIsAwaited ==
    ASSUME DeskInv, NEW s \in C!Sends, NEW p \in Passes, NEW by \in {"hand", "camera"},
           C!Submit(s, p, by), UNCHANGED <<open, mounted, thrown>>
    PROVE  DeskInv'
<1>1. sent' = [sent EXCEPT ![s] = [pass |-> p, by |-> by, at |-> "queued"]] /\ phase' = "working"
  BY DEF C!Submit
<1>2. DeskTypes' /\ sent'[s].at = "queued"
  BY <1>1 DEF DeskInv, DeskTypes
<1> QED BY <1>1, <1>2 DEF DeskInv, CameraIsAwaited, AnswerIsAwaited, C!UnderWay

(* Whoever waits is answered, or has somebody left to wait for.            *)
LEMMA DeskStep ==
    ASSUME DeskInv, C!Next \/ UNCHANGED C!vars
    PROVE  DeskInv'
<1> USE DEF DeskInv, DeskTypes, CameraIsAwaited, AnswerIsAwaited, C!UnderWay
<1>1. ASSUME NEW s \in C!Sends, C!Redeems(s) PROVE DeskInv'
  <2>1. PICK at \in {"redeemed", "refused"} : sent' = [sent EXCEPT ![s].at = at]
    BY <1>1 DEF C!Redeems
  <2>2. UNCHANGED <<phase, open, mounted, thrown>>
    BY <1>1 DEF C!Redeems
  <2>3. /\ sent' \in [C!Sends -> [pass : Passes \union {None}, by : {"nobody", "hand", "camera"},
                                  at : {"unsent", "queued", "redeemed", "refused", "over"}]]
        /\ sent'[s].at = at /\ \A t \in C!Sends \ {s} : sent'[t] = sent[t]
    BY <2>1
  <2> QED BY <2>2, <2>3
<1>2. ASSUME NEW s \in C!Sends, C!ShowsError(s) \/ C!ShowsResult(s) \/ C!Throws(s) PROVE DeskInv'
  <2>1. /\ sent' = [sent EXCEPT ![s].at = "over"] /\ UNCHANGED <<open, mounted>>
        /\ \/ phase' \in {"idle", "done"} /\ thrown' = thrown
           \/ phase' = phase /\ thrown' = TRUE
    <3>1. CASE C!ShowsError(s)
      BY <3>1 DEF C!ShowsError, C!AfterError
    <3>2. CASE C!ShowsResult(s)
      BY <3>2 DEF C!ShowsResult
    <3>3. CASE C!Throws(s)
      BY <3>3 DEF C!Throws
    <3> QED BY <1>2, <3>1, <3>2, <3>3
  <2>2. sent' \in [C!Sends -> [pass : Passes \union {None}, by : {"nobody", "hand", "camera"},
                               at : {"unsent", "queued", "redeemed", "refused", "over"}]]
    BY <2>1
  <2> QED BY <2>1, <2>2
<1>3. ASSUME NEW s \in C!Sends, NEW p \in Passes, C!Types(s, p) PROVE DeskInv'
  <2> HIDE DEF DeskInv
  <2> QED BY <1>3, SubmitIsAwaited DEF C!Types
<1>4. ASSUME NEW s \in C!Sends, NEW p \in Passes, NEW o \in C!Opens, C!Finds(o, s, p) PROVE DeskInv'
  <2> HIDE DEF DeskInv
  <2> QED BY <1>4, SubmitIsAwaited DEF C!Finds
<1>5. ASSUME NEW o \in C!Opens, C!StartCamera(o) PROVE DeskInv'
  BY <1>5 DEF C!StartCamera
<1>6. ASSUME NEW o \in C!Opens, C!GetsStream(o) PROVE DeskInv'
  BY <1>6 DEF C!GetsStream, C!OnCard
<1>7. ASSUME NEW o \in C!Opens, C!Plays(o) \/ C!CannotOpen(o) PROVE DeskInv'
  BY <1>7 DEF C!Plays, C!CannotOpen
<1>8. ASSUME NEW o \in C!Opens, C!Tick(o) PROVE DeskInv'
  BY <1>8 DEF C!Tick
<1>9. CASE C!CheckSomeoneElseIn \/ C!StopsCamera \/ C!LeavesPage
  BY <1>9 DEF C!CheckSomeoneElseIn, C!StopsCamera, C!LeavesPage
<1>10. CASE UNCHANGED C!vars
  BY <1>10 DEF C!vars
<1> QED BY <1>1, <1>2, <1>3, <1>4, <1>5, <1>6, <1>7, <1>8, <1>9, <1>10 DEF C!Next

(* The invariant holds of the desk, whichever screen is the one.           *)
LEMMA DeskInvariant == Spec => []DeskInv
<1>1. C!Init => DeskInv
  BY DEF C!Init, C!Unsent, DeskInv, DeskTypes, CameraIsAwaited, AnswerIsAwaited
<1>2. Init => DeskInv
  BY <1>1, EachStartsAlone
<1>3. DeskInv /\ [Next]_vars => DeskInv'
  BY EachMovesAlone, DeskStep
<1> QED BY <1>2, <1>3, PTL DEF Spec

(* The buttons at the desk work again once nothing is under way, however   *)
(* many codes, scans and cameras overtook each other.                      *)
THEOREM DeskIsFree == Spec => []DeskIsFreeAgain
<1>1. DeskInv => DeskIsFreeAgain
  BY DEF DeskInv, DeskTypes, CameraIsAwaited, AnswerIsAwaited, DeskIsFreeAgain, C!DeskIsFreeAgain, C!Quiet
<1> QED BY <1>1, DeskInvariant, PTL

(***************************************************************************)
(* Details                                                                 *)
(***************************************************************************)

Letters == Words \union {"+91", CHOOSE w \in Words : TRUE}
Buildings == [D!Fields -> Seq(Letters)]
Sheets ==
    [at : {"closed", "open", "sent", "saved"}, seen : Buildings, form : Buildings,
     changed : SUBSET D!Fields]

(* A number that was stored is stored as it is when it is sent again.      *)
HasItsCode(v) == v = D!Blank \/ v[1] = "+91"

(* A form that can be sent shows what its page saw, but where it was       *)
(* changed.                                                                *)
ShowsWhatItSaw(w) ==
    w.at \in {"open", "sent"} => \A f \in D!Fields \ w.changed : w.form[f] = D!Defaults(w.seen)[f]

DetailsInv ==
    /\ row \in Buildings /\ page \in [Pages -> Sheets]
    /\ HasItsCode(row["phone"])
    /\ \A p \in Pages : HasItsCode(page[p].seen["phone"]) /\ ShowsWhatItSaw(page[p])

(* What may be entered is text.                                            *)
LEMMA EntriesAreText ==
    D!Blank \in Seq(Letters) /\ \A w \in Letters : <<w>> \in Seq(Letters)
<1>1. D!Blank \in Seq(Letters)
  BY DEF D!Blank
<1>2. ASSUME NEW w \in Letters PROVE <<w>> \in Seq(Letters)
  OBVIOUS
<1> QED BY <1>1, <1>2

(* What is stored of a number has its code in front, and a number that has *)
(* it is left as it is.                                                    *)
LEMMA CodeIsAdded ==
    ASSUME NEW f \in D!Fields, NEW v \in Seq(Letters)
    PROVE  /\ D!Normalised(f, v) \in Seq(Letters)
           /\ f = "phone" => HasItsCode(D!Normalised(f, v))
           /\ f # "phone" \/ HasItsCode(v) => D!Normalised(f, v) = v
<1>1. <<"+91">> \in Seq(Letters)
  BY DEF Letters
<1>2. <<"+91">> \o v \in Seq(Letters) /\ (<<"+91">> \o v)[1] = "+91"
  BY <1>1
<1> QED BY <1>2 DEF D!Normalised, D!NormalisePhone, D!Blank, HasItsCode

(* The form starts from the row, and empties one field.                    *)
LEMMA DefaultsAreShown ==
    ASSUME NEW r \in Buildings
    PROVE  D!Defaults(r) \in Buildings
BY EntriesAreText DEF D!Defaults, Buildings

(* A form that was opened, or put back, shows what its page saw.           *)
LEMMA FreshSheet ==
    ASSUME NEW r \in Buildings, HasItsCode(r["phone"]), NEW at \in {"closed", "open"}
    PROVE  LET w == [at |-> at, seen |-> r, form |-> D!Defaults(r), changed |-> {}] IN
           w \in Sheets /\ HasItsCode(w.seen["phone"]) /\ ShowsWhatItSaw(w)
BY DefaultsAreShown DEF Sheets, ShowsWhatItSaw

(* A building that is written from a form that was sent.                   *)
LEMMA WrittenBuilding ==
    ASSUME NEW r \in Buildings, NEW sheet \in Buildings, HasItsCode(r["phone"])
    PROVE  /\ D!UpdatedRow(r, D!Body(sheet)) \in Buildings
           /\ HasItsCode(D!UpdatedRow(r, D!Body(sheet))["phone"])
           /\ \A f \in D!Fields : D!UpdatedRow(r, D!Body(sheet))[f] # r[f] =>
                 f # "charge" /\ D!UpdatedRow(r, D!Body(sheet))[f] = D!Normalised(f, sheet[f])
<1> DEFINE body == D!Body(sheet)
<1>1. DOMAIN body \subseteq D!Fields /\ \A f \in DOMAIN body : body[f] = sheet[f]
  BY DEF D!Body
<1>2. \A f \in D!Fields : sheet[f] \in Seq(Letters) /\ r[f] \in Seq(Letters)
  BY DEF Buildings
<1>3. \A f \in D!Fields :
         \/ D!UpdatedRow(r, body)[f] = r[f]
         \/ f # "charge" /\ D!UpdatedRow(r, body)[f] = D!Normalised(f, sheet[f])
  BY <1>1 DEF D!UpdatedRow
<1>4. \A f \in D!Fields : D!UpdatedRow(r, body)[f] \in Seq(Letters)
  BY <1>2, <1>3, CodeIsAdded
<1>5. D!UpdatedRow(r, body) \in Buildings
  BY <1>4 DEF D!UpdatedRow, Buildings
<1>6. "phone" \in D!Fields
  BY DEF D!Fields
<1>7. HasItsCode(D!UpdatedRow(r, body)["phone"])
  BY <1>2, <1>3, <1>6, CodeIsAdded
<1> QED BY <1>3, <1>5, <1>7

(* One page changes, and the building does not.                            *)
LEMMA OnePage ==
    ASSUME DetailsInv, NEW p \in Pages, NEW w \in Sheets,
           HasItsCode(w.seen["phone"]), ShowsWhatItSaw(w),
           page' = [page EXCEPT ![p] = w], row' \in Buildings, HasItsCode(row'["phone"])
    PROVE  DetailsInv'
<1>1. page' \in [Pages -> Sheets]
  BY DEF DetailsInv
<1>2. page'[p] = w /\ \A q \in Pages \ {p} : page'[q] = page[q]
  BY DEF DetailsInv
<1>3. \A q \in Pages : HasItsCode(page'[q].seen["phone"]) /\ ShowsWhatItSaw(page'[q])
  BY <1>2 DEF DetailsInv
<1> QED BY <1>1, <1>3 DEF DetailsInv

(* One step per action of the owner and of the API.                        *)
LEMMA DetailsStep ==
    ASSUME DetailsInv, D!Next \/ UNCHANGED D!vars
    PROVE  DetailsInv'
<1>1. ASSUME NEW p \in Pages, D!Opens(p) PROVE DetailsInv'
  <2>1. page' = [page EXCEPT ![p] = D!Filled] /\ row' = row
    BY <1>1 DEF D!Opens
  <2> QED BY <2>1, FreshSheet, OnePage DEF DetailsInv, D!Filled
<1>2. ASSUME NEW p \in Pages, D!Resets(p), row' = row PROVE DetailsInv'
  <2>1. PICK u \in Sheets : u = page[p] /\ HasItsCode(u.seen["phone"])
    BY DEF DetailsInv
  <2>2. PICK w : w = [at |-> "open", seen |-> u.seen, form |-> D!Defaults(u.seen), changed |-> {}]
    OBVIOUS
  <2>3. w \in Sheets /\ HasItsCode(w.seen["phone"]) /\ ShowsWhatItSaw(w)
    BY <2>1, <2>2, FreshSheet DEF Sheets
  <2>4. page' = [page EXCEPT ![p] = w]
    <3>1. PICK v : v = [u EXCEPT !.at = "open", !.form = D!Defaults(u.seen), !.changed = {}]
      OBVIOUS
    <3>2. u.seen \in Buildings /\ D!Defaults(u.seen) \in Buildings
      BY <2>1, DefaultsAreShown DEF Sheets
    <3>3. /\ v \in Sheets /\ v.at = "open" /\ v.seen = u.seen
          /\ v.form = D!Defaults(u.seen) /\ v.changed = {}
      BY <2>1, <3>1, <3>2 DEF Sheets
    <3>4. v = w
      BY <2>2, <2>3, <3>3 DEF Sheets
    <3> QED BY <1>2, <2>1, <3>1, <3>4 DEF D!Resets
  <2> QED BY <1>2, <2>3, <2>4, OnePage DEF DetailsInv
<1>3. ASSUME NEW p \in Pages, NEW at \in {"sent", "saved"}, at = "sent" => D!At(p, "open"),
             page' = [page EXCEPT ![p].at = at], row' \in Buildings, HasItsCode(row'["phone"])
      PROVE  DetailsInv'
  <2>1. PICK u \in Sheets : u = page[p] /\ HasItsCode(u.seen["phone"]) /\ ShowsWhatItSaw(u)
    BY DEF DetailsInv
  <2>2. PICK w : w = [u EXCEPT !.at = at]
    OBVIOUS
  <2>3. w \in Sheets /\ w.at = at /\ w.seen = u.seen /\ w.form = u.form /\ w.changed = u.changed
    BY <2>1, <2>2 DEF Sheets
  <2>4. HasItsCode(w.seen["phone"]) /\ ShowsWhatItSaw(w)
    BY <1>3, <2>1, <2>3 DEF ShowsWhatItSaw, D!At
  <2>5. page' = [page EXCEPT ![p] = w]
    BY <1>3, <2>1, <2>2
  <2> QED BY <1>3, <2>3, <2>4, <2>5, OnePage
<1>4. ASSUME NEW p \in Pages, NEW f \in D!Fields, NEW v \in D!Entries, D!Enters(p, f, v) PROVE DetailsInv'
  <2>1. PICK u \in Sheets : u = page[p] /\ HasItsCode(u.seen["phone"]) /\ ShowsWhatItSaw(u)
    BY DEF DetailsInv
  <2>2. PICK w : w = [u EXCEPT !.form = [@ EXCEPT ![f] = v], !.changed = @ \union {f}]
    OBVIOUS
  <2>3. v \in Seq(Letters)
    BY <1>4, EntriesAreText DEF D!Entries, Letters
  <2>4. /\ w \in Sheets /\ w.at = u.at /\ w.seen = u.seen
        /\ w.changed = u.changed \union {f} /\ \A g \in D!Fields \ {f} : w.form[g] = u.form[g]
    BY <2>1, <2>2, <2>3 DEF Sheets, Buildings
  <2>5. HasItsCode(w.seen["phone"]) /\ ShowsWhatItSaw(w)
    BY <2>1, <2>4 DEF ShowsWhatItSaw
  <2>6. page' = [page EXCEPT ![p] = w] /\ row' = row
    BY <1>4, <2>1, <2>2 DEF D!Enters
  <2> QED BY <2>4, <2>5, <2>6, OnePage DEF DetailsInv
<1>5. ASSUME NEW p \in Pages, D!Submits(p) PROVE DetailsInv'
  BY <1>2, <1>3, <1>5 DEF D!Submits, DetailsInv
<1>6. ASSUME NEW p \in Pages, D!IsRefused(p) PROVE DetailsInv'
  BY <1>2, <1>6 DEF D!IsRefused
<1>7. ASSUME NEW p \in Pages, D!Updates(p) PROVE DetailsInv'
  <2>1. page[p].form \in Buildings
    BY DEF DetailsInv, Sheets
  <2>2. row' \in Buildings /\ HasItsCode(row'["phone"])
    BY <1>7, <2>1, WrittenBuilding DEF D!Updates, DetailsInv
  <2> QED BY <1>3, <1>7, <2>2 DEF D!Updates
<1>8. ASSUME NEW p \in Pages, D!Leaves(p) PROVE DetailsInv'
  <2>1. PICK w : w = D!Closed
    OBVIOUS
  <2>2. w \in Sheets /\ HasItsCode(w.seen["phone"]) /\ ShowsWhatItSaw(w)
    BY <2>1 DEF D!Closed, D!Nothing, D!Blank, D!Fields, HasItsCode, ShowsWhatItSaw, Sheets, Buildings
  <2> QED BY <1>8, <2>1, <2>2, OnePage DEF D!Leaves, DetailsInv
<1>9. CASE UNCHANGED D!vars
  BY <1>9 DEF DetailsInv, D!vars
<1> QED BY <1>1, <1>4, <1>5, <1>6, <1>7, <1>8, <1>9 DEF D!Next

(* The building was created from a form, and no page is open.              *)
LEMMA DetailsStart == D!Init => DetailsInv
<1> SUFFICES ASSUME D!Init PROVE DetailsInv
  OBVIOUS
<1>1. PICK sheet \in [D!Fields -> {D!Blank, <<CHOOSE w \in Words : TRUE>>}] :
         row = D!CreatedRow(D!Body(sheet))
  BY DEF D!Init
<1>2. sheet \in Buildings
  BY <1>1, EntriesAreText DEF Buildings, Letters
<1>3. \A f \in D!Fields : row[f] = D!Blank \/ row[f] = D!Normalised(f, sheet[f])
  BY <1>1 DEF D!CreatedRow, D!Body
<1>4. \A f \in D!Fields : row[f] \in Seq(Letters)
  BY <1>2, <1>3, CodeIsAdded, EntriesAreText DEF Buildings
<1>5. row \in Buildings
  BY <1>1, <1>4 DEF D!CreatedRow, Buildings
<1>6. "phone" \in D!Fields
  BY DEF D!Fields
<1>7. HasItsCode(row["phone"])
  BY <1>2, <1>3, <1>6, CodeIsAdded DEF Buildings, HasItsCode
<1>8. D!Closed \in Sheets /\ HasItsCode(D!Closed.seen["phone"]) /\ ShowsWhatItSaw(D!Closed)
  BY DEF D!Closed, D!Nothing, D!Blank, D!Fields, HasItsCode, ShowsWhatItSaw, Sheets, Buildings
<1>9. page \in [Pages -> Sheets] /\ \A p \in Pages : page[p] = D!Closed
  BY <1>8 DEF D!Init
<1> QED BY <1>5, <1>7, <1>8, <1>9 DEF DetailsInv

(* The invariant holds of the building and its form.                       *)
LEMMA DetailsInvariant == Spec => []DetailsInv
<1>1. Init => DetailsInv
  BY EachStartsAlone, DetailsStart
<1>2. DetailsInv /\ [Next]_vars => DetailsInv'
  BY EachMovesAlone, DetailsStep
<1> QED BY <1>1, <1>2, PTL DEF Spec

(* A save changes what its owner changed, and what another page saved      *)
(* since this one was opened, and nothing else: a field that was left      *)
(* alone comes back as it was seen, the code of a number included.         *)
THEOREM SaveLeavesTheRestAlone == Spec => UntouchedSurvives
<1> DEFINE OnlyChanged ==
      \A p \in Pages, f \in D!Fields :
         D!At(p, "sent") /\ page'[p].at = "saved" /\ row'[f] # row[f] =>
             f \in page[p].changed \/ row[f] # page[p].seen[f]
<1>1. ASSUME DetailsInv, D!Next PROVE OnlyChanged
  <2> SUFFICES ASSUME NEW p \in Pages, NEW f \in D!Fields, D!At(p, "sent"), page'[p].at = "saved",
                      row'[f] # row[f], f \notin page[p].changed, row[f] = page[p].seen[f]
               PROVE  FALSE
    OBVIOUS
  <2>1. PICK q \in Pages : D!Updates(q)
    BY <1>1 DEF D!Next, D!Opens, D!Enters, D!Submits, D!IsRefused, D!Resets, D!Leaves
  <2>2. q = p
    BY <1>1, <2>1 DEF D!Updates, D!At, DetailsInv
  <2>3. page[p] \in Sheets /\ page[p].form \in Buildings /\ page[p].seen \in Buildings
    BY <1>1 DEF DetailsInv, Sheets
  <2>4. f # "charge" /\ row'[f] = D!Normalised(f, page[p].form[f])
    BY <1>1, <2>1, <2>2, <2>3, WrittenBuilding DEF D!Updates, DetailsInv
  <2>5. page[p].form[f] = D!Defaults(page[p].seen)[f]
    BY <1>1 DEF DetailsInv, ShowsWhatItSaw, D!At
  <2>6. page[p].form[f] = row[f]
    BY <2>3, <2>4, <2>5 DEF D!Defaults, Buildings
  <2>7. D!Normalised(f, row[f]) = row[f]
    BY <1>1, CodeIsAdded DEF DetailsInv, Buildings
  <2> QED BY <2>4, <2>6, <2>7
<1>2. DetailsInv /\ [Next]_vars => [OnlyChanged]_(D!vars)
  BY <1>1, EachMovesAlone
<1> QED BY <1>2, DetailsInvariant, PTL DEF Spec, UntouchedSurvives, D!UntouchedSurvives

(***************************************************************************)
(* PhotoOrder                                                              *)
(***************************************************************************)

PhotoRow == [at : Nat, position : Nat]
PhotoUpload == [left : Nat, next : Nat, saw : SUBSET PhotoRow]

(* An upload counts on from behind all it saw, wherever those are now.     *)
CountsFromBehind(u) == \A p \in u.saw : p.position < u.next

OrderInv ==
    /\ photos \subseteq PhotoRow /\ IsFiniteSet(photos) /\ clock \in Nat
    /\ upload \in [Requests -> PhotoUpload]
    /\ \A h \in Requests : CountsFromBehind(upload[h])

(* Of some photos one is last: those behind it are none.                   *)
LEMMA OneIsLast ==
    ASSUME NEW S \in SUBSET PhotoRow, IsFiniteSet(S), S # {}
    PROVE  \E p \in S : \A q \in S : q.position <= p.position
<1> DEFINE Behind(p) == {q \in S : q.position > p.position}
           T == {Behind(p) : p \in S}
<1>1. T \subseteq FiniteSubsetsOf(S) /\ T # {}
  <2>1. ASSUME NEW p \in S PROVE Behind(p) \in FiniteSubsetsOf(S)
    BY FS_Subset DEF FiniteSubsetsOf
  <2> QED BY <2>1
<1>2. \E x \in T : \A y \in T : <<y, x>> \notin StrictSubsetOrdering(S)
  BY <1>1, FS_StrictSubsetOrderingWellFounded, WFMin
<1>3. PICK p \in S : \A q \in S : <<Behind(q), Behind(p)>> \notin StrictSubsetOrdering(S)
  BY <1>2
<1>4. ASSUME NEW q \in S, q.position > p.position PROVE FALSE
  <2>1. \A r \in S : r.position \in Nat
    BY DEF PhotoRow
  <2>2. Behind(q) \subseteq Behind(p) /\ q \in Behind(p) /\ q \notin Behind(q)
    BY <1>4, <2>1
  <2>3. <<Behind(q), Behind(p)>> \in StrictSubsetOrdering(S)
    BY <2>2 DEF StrictSubsetOrdering
  <2> QED BY <1>3, <2>3
<1>5. \A r \in S : r.position \in Nat
  BY DEF PhotoRow
<1> QED BY <1>4, <1>5

(* The next position is behind that of every row, and zero is the first.   *)
LEMMA NextIsBehind ==
    ASSUME NEW S \in SUBSET PhotoRow, IsFiniteSet(S)
    PROVE  P!NextSortOrder(S) \in Nat /\ \A p \in S : p.position < P!NextSortOrder(S)
<1> DEFINE positions == {p.position : p \in S} \union {-1}
<1>1. \A p \in S : p.position \in Nat
  BY DEF PhotoRow
<1>2. \E x \in positions : \A y \in positions : x >= y
  BY <1>1, OneIsLast
<1>3. P!Max(positions) \in positions /\ \A y \in positions : P!Max(positions) >= y
  BY <1>2 DEF P!Max
<1>4. P!NextSortOrder(S) = P!Max(positions) + 1
  BY DEF P!NextSortOrder
<1> HIDE DEF positions
<1>5. positions \subseteq Int /\ -1 \in positions
  BY <1>1 DEF positions
<1>6. \A p \in S : p.position \in positions
  BY DEF positions
<1>7. P!Max(positions) \in Int /\ P!Max(positions) >= -1
  BY <1>3, <1>5
<1>8. \A p \in S : P!Max(positions) >= p.position
  BY <1>3, <1>6
<1> QED BY <1>1, <1>4, <1>7, <1>8

(* An upload goes on, from behind what it saw at first.                    *)
LEMMA UploadGoesOn ==
    ASSUME OrderInv, NEW h \in Requests, NEW next \in Nat, upload[h].left > 0,
           next \in {upload[h].next, upload[h].next + 1},
           upload' = [upload EXCEPT ![h] = P!AfterFile([upload[h] EXCEPT !.next = next])]
    PROVE  /\ upload' \in [Requests -> PhotoUpload]
           /\ \A g \in Requests : CountsFromBehind(upload'[g])
<1>1. PICK u \in PhotoUpload : u = upload[h] /\ CountsFromBehind(u)
  BY DEF OrderInv
<1>2. PICK v : v = [u EXCEPT !.next = next]
  OBVIOUS
<1>3. v \in PhotoUpload /\ v.left > 0 /\ v.saw = u.saw /\ v.next = next
  BY <1>1, <1>2 DEF PhotoUpload
<1>4. PICK w : w = P!AfterFile(v)
  OBVIOUS
<1>5. w \in PhotoUpload /\ (w.saw = {} \/ (w.saw = v.saw /\ w.next = v.next))
  <2>1. CASE v.left = 1
    <3>1. w = [left |-> 0, next |-> 0, saw |-> {}]
      BY <1>4, <2>1 DEF P!AfterFile, P!Idle
    <3> QED BY <3>1 DEF PhotoUpload
  <2>2. CASE v.left # 1
    BY <1>3, <1>4, <2>2 DEF P!AfterFile, PhotoUpload
  <2> QED BY <2>1, <2>2
<1>6. CountsFromBehind(w)
  <2>1. \A p \in u.saw : p.position \in Nat
    BY <1>1 DEF PhotoUpload, PhotoRow
  <2>2. u.next \in Nat /\ (next = u.next \/ next = u.next + 1)
    BY <1>1 DEF PhotoUpload
  <2> QED BY <1>1, <1>3, <1>5, <2>1, <2>2 DEF CountsFromBehind
<1>7. upload' = [upload EXCEPT ![h] = w]
  BY <1>1, <1>2, <1>4
<1> QED BY <1>5, <1>6, <1>7 DEF OrderInv

(* One step per action: uploads start and go on, rows come, go and move.   *)
LEMMA OrderStep ==
    ASSUME OrderInv, P!Next \/ UNCHANGED P!vars
    PROVE  OrderInv'
<1>1. ASSUME NEW h \in Requests, P!Uploads(h) PROVE OrderInv'
  <2>1. PICK n \in 1..MaxBatch : upload' = [upload EXCEPT ![h] = P!Start(n, P!NextSortOrder(photos))]
    BY <1>1 DEF P!Uploads
  <2>2. MaxBatch \in Nat
    BY WebAssumption DEF P!OrderAssumption
  <2>3. PICK w : w = P!Start(n, P!NextSortOrder(photos))
    OBVIOUS
  <2>4. w \in PhotoUpload /\ CountsFromBehind(w)
    BY <2>2, <2>3, NextIsBehind DEF OrderInv, P!Start, PhotoUpload, CountsFromBehind
  <2>5. /\ upload' \in [Requests -> PhotoUpload]
        /\ \A g \in Requests : CountsFromBehind(upload'[g])
    BY <2>1, <2>3, <2>4 DEF OrderInv
  <2> QED BY <1>1, <2>5 DEF OrderInv, P!Uploads
<1>2. ASSUME NEW h \in Requests, P!CreatesRow(h) PROVE OrderInv'
  <2>1. upload[h] \in PhotoUpload /\ upload[h].next \in Nat
    BY DEF OrderInv, PhotoUpload
  <2>2. /\ upload' \in [Requests -> PhotoUpload]
        /\ \A g \in Requests : CountsFromBehind(upload'[g])
    <3>1. upload[h].left > 0 /\ upload[h].next + 1 \in Nat
      BY <1>2, <2>1 DEF P!CreatesRow
    <3>2. upload' = [upload EXCEPT ![h] =
                       P!AfterFile([upload[h] EXCEPT !.next = upload[h].next + 1])]
      BY <1>2 DEF P!CreatesRow
    <3> QED BY <3>1, <3>2, UploadGoesOn
  <2>3. clock' \in Nat /\ photos' = photos \union {[at |-> clock', position |-> upload[h].next]}
    BY <1>2 DEF P!CreatesRow, OrderInv
  <2>4. photos' \subseteq PhotoRow /\ IsFiniteSet(photos')
    <3>1. PICK q : q = [at |-> clock', position |-> upload[h].next]
      OBVIOUS
    <3>2. q \in PhotoRow
      BY <2>1, <2>3, <3>1 DEF PhotoRow
    <3> QED BY <2>3, <3>1, <3>2, FS_AddElement DEF OrderInv
  <2> QED BY <2>2, <2>3, <2>4 DEF OrderInv
<1>3. ASSUME NEW h \in Requests, P!Rejected(h) PROVE OrderInv'
  <2>1. PICK next \in {upload[h].next, upload[h].next + 1} :
           upload' = [upload EXCEPT ![h] = P!AfterFile([upload[h] EXCEPT !.next = next])]
    BY <1>3 DEF P!Rejected
  <2>2. next \in Nat
    BY <2>1 DEF OrderInv, PhotoUpload
  <2> QED BY <1>3, <2>1, <2>2, UploadGoesOn DEF P!Rejected, OrderInv
<1>4. ASSUME NEW p \in photos, P!Removes(p) PROVE OrderInv'
  BY <1>4, FS_RemoveElement DEF P!Removes, OrderInv
<1>5. ASSUME NEW p \in photos, NEW k \in Positions, P!SetsPosition(p, k) PROVE OrderInv'
  <2>1. k \in Nat
    BY WebAssumption DEF P!OrderAssumption
  <2>2. [p EXCEPT !.position = k] \in PhotoRow
    BY <2>1 DEF OrderInv, PhotoRow
  <2>3. photos' \subseteq PhotoRow /\ IsFiniteSet(photos')
    BY <1>5, <2>2, FS_RemoveElement, FS_AddElement DEF OrderInv, P!SetsPosition, P!Moved
  <2> QED BY <1>5, <2>3 DEF OrderInv, P!SetsPosition
<1>6. CASE UNCHANGED P!vars
  BY <1>6 DEF OrderInv, P!vars
<1> QED BY <1>1, <1>2, <1>3, <1>4, <1>5, <1>6 DEF P!Next

(* The invariant holds of the photos and of those who add to them.         *)
LEMMA OrderInvariant == Spec => []OrderInv
<1>1. P!Init => OrderInv
  BY FS_EmptySet DEF P!Init, P!Idle, OrderInv, PhotoUpload, CountsFromBehind
<1>2. Init => OrderInv
  BY <1>1, EachStartsAlone
<1>3. OrderInv /\ [Next]_vars => OrderInv'
  BY EachMovesAlone, OrderStep
<1> QED BY <1>2, <1>3, PTL DEF Spec

(* A new photo is behind every photo its upload found in its place, though *)
(* the position was read once and counted on from, whoever else uploads,   *)
(* removes or moves photos meanwhile.                                      *)
THEOREM NewPhotosGoLast == Spec => LandsBehind
<1> DEFINE Last ==
      \A h \in Requests, q \in photos' \ photos :
          clock' > clock /\ upload'[h] # upload[h] =>
              \A p \in upload[h].saw \intersect photos : P!Before(p, q)
<1>1. ASSUME OrderInv, P!Next PROVE Last
  <2> SUFFICES ASSUME NEW h \in Requests, NEW q \in photos' \ photos, clock' > clock,
                      upload'[h] # upload[h], NEW p \in upload[h].saw
               PROVE  P!Before(p, q)
    OBVIOUS
  <2>1. PICK g \in Requests : P!CreatesRow(g)
    <3>1. clock' # clock
      BY <1>1 DEF OrderInv
    <3> QED BY <1>1, <3>1 DEF P!Next, P!Uploads, P!Rejected, P!Removes, P!SetsPosition
  <2>2. g = h
    BY <1>1, <2>1 DEF P!CreatesRow, OrderInv
  <2>3. q = [at |-> clock', position |-> upload[h].next]
    BY <2>1, <2>2 DEF P!CreatesRow
  <2>4. p.position < q.position
    BY <1>1, <2>3 DEF OrderInv, CountsFromBehind
  <2> QED BY <2>4 DEF P!Before
<1>2. OrderInv /\ [Next]_vars => [Last]_(P!vars)
  BY <1>1, EachMovesAlone
<1> QED BY <1>2, OrderInvariant, PTL DEF Spec, LandsBehind, P!LandsBehind

(***************************************************************************)
(* Forms                                                                   *)
(***************************************************************************)

PressCall ==
    [key : Nat, web : {"unpressed", "queued", "waits", "seen", "unseen"},
     api : {"none", "check", "write", "after", "made", "failed", "given", "refused"}, saw : Nat]

(* The API has committed it. *)
MadeBy(api) == api \in {"after", "made", "failed"}
Made(c) == MadeBy(press[c].api)

FormsTypes ==
    /\ form \in DOMAIN F!Form /\ script \in BOOLEAN
    /\ mount \in Nat /\ done \in Nat /\ shows \in {"form", "message", "error", "done"}
    /\ press \in [F!Presses -> PressCall]

(* What is queued has not been sent, and what was answered has come to an  *)
(* end; where the API looks first, it writes on having found nothing, and  *)
(* it breaks off where there is more to do.                                *)
PressOK(u, api) ==
    /\ u.web \in {"unpressed", "queued"} => u.api = "none"
    /\ u.web = "seen" => u.api \in {"made", "given", "failed", "refused"}
    /\ api.check = "checked" /\ (u.api = "write" \/ MadeBy(u.api)) => u.saw = 0
    /\ u.api \in {"after", "failed"} => api.after

(* It went on to its end, and that was heard. *)
Heard(c) == press[c].web = "seen" /\ press[c].api = "made"

(* A second press cannot be under way beside the first, be it that the     *)
(* button is disabled or that the browser drops the page that was to come. *)
OneByOne == F!UI.locks \/ ~script

(* Then who heard that it is done is shown so, and all has come to an end. *)
UnderWayAlone == \A c, d \in F!Presses : F!UnderWay(c) /\ F!UnderWay(d) => c = d
DoneIsTheEnd == shows = "done" => \A c \in F!Presses : ~F!UnderWay(c)
HeardIsShown == \A c \in F!Presses : Heard(c) => shows = "done"
HeardOnce == \A c, d \in F!Presses : Heard(c) /\ Heard(d) => c = d

Orderly == UnderWayAlone /\ DoneIsTheEnd /\ HeardIsShown /\ HeardOnce

(* What was done once or twice was so for one or two of the presses, and   *)
(* what the writes go by has kept them apart.                              *)
DoneForAPress == done > 0 => \E c \in F!Presses : Made(c)

DoneForTwo ==
    done > 1 => \E c, d \in F!Presses :
        /\ c # d /\ Made(c) /\ Made(d)
        /\ F!API.write = "keyed" => press[c].key # press[d].key

DoneOnce == F!API.write \in {"row", "state"} => done <= 1

FormsInv ==
    /\ FormsTypes /\ \A c \in F!Presses : PressOK(press[c], F!API)
    /\ OneByOne => Orderly
    /\ DoneForAPress /\ DoneForTwo /\ DoneOnce

(* A press goes on, in the web server or in the API; it is not forgotten   *)
(* that it was made, and what is shown of it is said by each step.         *)
LEMMA PressGoesOn ==
    ASSUME FormsInv, NEW c \in F!Presses, NEW w \in PressCall, PressOK(w, F!API),
           press' = [press EXCEPT ![c] = w], form' = form, script' = script,
           mount' \in Nat, done' \in Nat, shows' \in {"form", "message", "error", "done"},
           w.key = press[c].key, Made(c) => MadeBy(w.api),
           w.web \in {"queued", "waits"} => F!UnderWay(c)
    PROVE  /\ FormsTypes' /\ \A d \in F!Presses : PressOK(press'[d], F!API')
           /\ press'[c] = w /\ \A d \in F!Presses \ {c} : press'[d] = press[d]
           /\ UnderWayAlone => UnderWayAlone'
           /\ done' = done => DoneForAPress' /\ DoneForTwo' /\ DoneOnce'
<1>1. press \in [F!Presses -> PressCall] /\ F!API' = F!API
  BY DEF FormsInv, FormsTypes, F!API
<1>2. /\ press' \in [F!Presses -> PressCall] /\ press'[c] = w
      /\ \A d \in F!Presses \ {c} : press'[d] = press[d]
  BY <1>1
<1>3. FormsTypes' /\ \A d \in F!Presses : PressOK(press'[d], F!API')
  <2>1. \A d \in F!Presses : PressOK(press'[d], F!API)
    BY <1>2 DEF FormsInv
  <2> QED BY <1>1, <1>2, <2>1 DEF FormsInv, FormsTypes
<1>4. UnderWayAlone => UnderWayAlone'
  BY <1>2 DEF UnderWayAlone, F!UnderWay
<1>5. \A d \in F!Presses : press'[d].key = press[d].key /\ (Made(d) => MadeBy(press'[d].api))
  BY <1>2 DEF Made
<1>6. ASSUME done' = done PROVE DoneForAPress' /\ DoneForTwo' /\ DoneOnce'
  <2>1. DoneForAPress'
    BY <1>5, <1>6 DEF FormsInv, DoneForAPress, Made
  <2>2. DoneForTwo'
    BY <1>1, <1>5, <1>6 DEF FormsInv, DoneForTwo, Made
  <2>3. DoneOnce'
    BY <1>1, <1>6 DEF FormsInv, DoneOnce
  <2> QED BY <2>1, <2>2, <2>3
<1> QED BY <1>2, <1>3, <1>4, <1>6

(* The API goes on with a press, and nobody hears of it.                   *)
LEMMA OutOfSight ==
    ASSUME FormsInv, NEW c \in F!Presses, NEW w \in PressCall, PressOK(w, F!API),
           press' = [press EXCEPT ![c] = w], UNCHANGED <<form, script, mount, shows>>,
           w.key = press[c].key, Made(c) => MadeBy(w.api), w.web # "seen", done' \in Nat,
           w.web \in {"queued", "waits"} => F!UnderWay(c)
    PROVE  /\ FormsTypes' /\ \A d \in F!Presses : PressOK(press'[d], F!API')
           /\ OneByOne' => Orderly'
           /\ press'[c] = w /\ \A d \in F!Presses \ {c} : press'[d] = press[d]
           /\ done' = done => FormsInv'
<1>2. mount' \in Nat /\ shows' \in {"form", "message", "error", "done"}
  BY DEF FormsInv, FormsTypes
<1>3. /\ FormsTypes' /\ \A d \in F!Presses : PressOK(press'[d], F!API')
      /\ press'[c] = w /\ \A d \in F!Presses \ {c} : press'[d] = press[d]
      /\ UnderWayAlone => UnderWayAlone'
      /\ done' = done => DoneForAPress' /\ DoneForTwo' /\ DoneOnce'
  BY <1>2, PressGoesOn
<1>4. OneByOne' <=> OneByOne
  BY DEF OneByOne, F!UI
<1>5. \A d \in F!Presses : (F!UnderWay(d)' => F!UnderWay(d)) /\ (Heard(d)' => Heard(d))
  BY <1>3 DEF F!UnderWay, Heard, Made
<1>6. Orderly => Orderly'
  BY <1>3, <1>5 DEF Orderly, DoneIsTheEnd, HeardIsShown, HeardOnce
<1>7. OneByOne' => Orderly'
  BY <1>4, <1>6 DEF FormsInv
<1> QED BY <1>3, <1>7 DEF FormsInv

(* A press comes to its end in the web server, and what is shown follows.  *)
LEMMA ComesToItsEnd ==
    ASSUME FormsInv, NEW c \in F!Presses, NEW w \in PressCall, PressOK(w, F!API),
           press' = [press EXCEPT ![c] = w], UNCHANGED <<form, script, done>>,
           w.key = press[c].key, Made(c) => MadeBy(w.api),
           F!UnderWay(c), w.web \in {"seen", "unseen"},
           NEW s \in {"message", "error", "done"}, F!Shows(s),
           w.web = "seen" /\ w.api = "made" => s = "done"
    PROVE  FormsInv'
<1>1. mount' \in Nat /\ done' \in Nat /\ shows' \in {"form", "message", "error", "done"}
  BY DEF FormsInv, FormsTypes, F!Shows
<1>2. /\ FormsTypes' /\ \A d \in F!Presses : PressOK(press'[d], F!API')
      /\ press'[c] = w /\ \A d \in F!Presses \ {c} : press'[d] = press[d]
      /\ UnderWayAlone => UnderWayAlone'
      /\ DoneForAPress' /\ DoneForTwo' /\ DoneOnce'
  BY <1>1, PressGoesOn
<1>3. OneByOne' <=> OneByOne
  BY DEF OneByOne, F!UI
<1>4. ASSUME OneByOne PROVE Orderly'
  <2>1. Orderly /\ shows # "done" /\ \A d \in F!Presses : ~Heard(d)
    BY <1>4 DEF FormsInv, Orderly, DoneIsTheEnd, HeardIsShown
  <2>2. shows' = s
    BY <2>1 DEF F!Shows
  <2>3. \A d \in F!Presses : ~F!UnderWay(d)'
    BY <1>2, <2>1 DEF Orderly, UnderWayAlone, F!UnderWay
  <2>4. \A d \in F!Presses : Heard(d)' => d = c /\ s = "done"
    BY <1>2, <2>1 DEF Heard, Made
  <2> QED BY <1>2, <2>1, <2>2, <2>3, <2>4 DEF Orderly, DoneIsTheEnd, HeardIsShown, HeardOnce
<1> QED BY <1>2, <1>3, <1>4 DEF FormsInv

(* A press is made beside those there were; a browser without script drops *)
(* the page of the one under way.                                          *)
LEMMA PressIsMade ==
    ASSUME FormsInv, NEW c \in F!Presses, F!Press(c)
    PROVE  FormsInv'
<1>1. /\ UNCHANGED <<form, script, mount, shows, done>> /\ F!API' = F!API
      /\ press[c] = F!Unpressed /\ shows \in {"form", "message"} /\ F!Enabled
  BY DEF F!Press, F!API
<1>2. PICK w : w = [F!Unpressed EXCEPT !.key = mount, !.web = "queued"]
  OBVIOUS
<1>3. w = [key |-> mount, web |-> "queued", api |-> "none", saw |-> 0]
  BY <1>2 DEF F!Unpressed
<1>4. w \in PressCall /\ w.web = "queued" /\ w.api = "none"
  BY <1>3 DEF FormsInv, FormsTypes, PressCall
<1> DEFINE Dropped(d) == ~script /\ F!UnderWay(d)
<1>6. press' = [d \in F!Presses |->
                  IF d = c THEN w
                  ELSE IF Dropped(d) THEN [press[d] EXCEPT !.web = "unseen"] ELSE press[d]]
  BY <1>2 DEF F!Press
<1>7. \A d \in F!Presses : press[d] \in PressCall
  BY DEF FormsInv, FormsTypes
<1>8. ASSUME NEW d \in F!Presses \ {c}
      PROVE  /\ press'[d] \in PressCall /\ press'[d].api = press[d].api
             /\ press'[d].key = press[d].key /\ press'[d].saw = press[d].saw
             /\ press'[d].web = IF Dropped(d) THEN "unseen" ELSE press[d].web
  <2>1. PICK v \in PressCall : v = press[d]
    BY <1>7
  <2>2. CASE Dropped(d)
    <3>1. press'[d] = [v EXCEPT !.web = "unseen"]
      BY <1>6, <2>1, <2>2
    <3> QED BY <2>1, <2>2, <3>1 DEF PressCall
  <2>3. CASE ~Dropped(d)
    BY <1>6, <2>1, <2>3
  <2> QED BY <2>2, <2>3
<1>9. press'[c] = w
  BY <1>6
<1>10. press' \in [F!Presses -> PressCall]
  <2>1. \A d \in F!Presses : press'[d] \in PressCall
    BY <1>4, <1>8, <1>9
  <2> QED BY <1>6, <2>1
<1>11. FormsTypes'
  BY <1>1, <1>10 DEF FormsInv, FormsTypes
<1>12. \A d \in F!Presses : PressOK(press'[d], F!API)
  <2>1. PressOK(w, F!API)
    BY <1>4 DEF PressOK, MadeBy
  <2>2. \A d \in F!Presses \ {c} : PressOK(press'[d], F!API)
    BY <1>8 DEF FormsInv, PressOK
  <2> QED BY <1>9, <2>1, <2>2
<1>13. press[c].api = "none"
  BY <1>1 DEF F!Unpressed
<1>14. ASSUME OneByOne PROVE Orderly'
  <2>1. \A d \in F!Presses \ {c} : ~F!UnderWay(d)'
    <3>1. CASE script
      BY <1>1, <1>8, <1>14, <3>1 DEF OneByOne, F!Enabled, F!UnderWay
    <3>2. CASE ~script
      BY <1>8, <3>2 DEF F!UnderWay
    <3> QED BY <3>1, <3>2
  <2>2. \A d \in F!Presses : Heard(d)' => Heard(d)
    BY <1>4, <1>8, <1>9 DEF Heard, Made
  <2>3. \A d \in F!Presses : ~Heard(d)
    BY <1>1, <1>14 DEF FormsInv, Orderly, HeardIsShown
  <2> QED BY <1>1, <2>1, <2>2, <2>3
          DEF Orderly, UnderWayAlone, DoneIsTheEnd, HeardIsShown, HeardOnce
<1>15. OneByOne' <=> OneByOne
  BY <1>1 DEF OneByOne, F!UI
<1>16. \A d \in F!Presses : Made(d) => MadeBy(press'[d].api) /\ press'[d].key = press[d].key
  BY <1>8, <1>13 DEF Made, MadeBy
<1>17. DoneForAPress'
  BY <1>1, <1>16 DEF FormsInv, DoneForAPress, Made
<1>18. DoneForTwo'
  BY <1>1, <1>16 DEF FormsInv, DoneForTwo, Made
<1>19. DoneOnce'
  BY <1>1 DEF FormsInv, DoneOnce
<1> QED BY <1>1, <1>11, <1>12, <1>14, <1>15, <1>17, <1>18, <1>19 DEF FormsInv

(* The page is loaded afresh, and what is under way is not heard of.       *)
LEMMA PageIsReloaded ==
    ASSUME FormsInv, F!Reload
    PROVE  FormsInv'
<1>1. /\ UNCHANGED <<form, script, done>> /\ F!API' = F!API
      /\ shows # "done" /\ shows' \in {"form", "done"} /\ mount' = mount + 1
      /\ press' = [d \in F!Presses |-> F!ReloadedCall(d)]
  BY DEF F!Reload, F!API
<1>2. ASSUME NEW d \in F!Presses
      PROVE  /\ press'[d] \in PressCall /\ PressOK(press'[d], F!API)
             /\ press'[d].key = press[d].key /\ press'[d].web \in {press[d].web, "unseen"}
             /\ ~(press'[d].web \in {"queued", "waits"})
             /\ Made(d) => MadeBy(press'[d].api)
             /\ press'[d].api = "made" => press[d].api = "made"
  <2>1. PICK v \in PressCall : v = press[d] /\ PressOK(v, F!API)
    BY DEF FormsInv, FormsTypes
  <2>2. CASE v.web = "queued"
    <3>1. press'[d] = [v EXCEPT !.web = "unseen", !.api = "refused"]
      BY <1>1, <2>1, <2>2 DEF F!ReloadedCall
    <3>2. /\ press'[d] \in PressCall /\ press'[d].web = "unseen" /\ press'[d].api = "refused"
          /\ press'[d].key = v.key
      BY <2>1, <3>1 DEF PressCall
    <3> QED BY <2>1, <2>2, <3>2 DEF PressOK, Made, MadeBy
  <2>3. CASE v.web = "waits"
    <3>1. press'[d] = [v EXCEPT !.web = "unseen"]
      BY <1>1, <2>1, <2>3 DEF F!ReloadedCall
    <3>2. /\ press'[d] \in PressCall /\ press'[d].web = "unseen" /\ press'[d].api = v.api
          /\ press'[d].key = v.key /\ press'[d].saw = v.saw
      BY <2>1, <3>1 DEF PressCall
    <3> QED BY <2>1, <2>3, <3>2 DEF PressOK, Made
  <2>4. CASE v.web \notin {"queued", "waits"}
    <3>1. press'[d] = v
      BY <1>1, <2>1, <2>4 DEF F!ReloadedCall
    <3> QED BY <2>1, <2>4, <3>1 DEF Made
  <2> QED BY <2>2, <2>3, <2>4
<1>3. press' \in [F!Presses -> PressCall]
  BY <1>1, <1>2
<1>4. FormsTypes'
  BY <1>1, <1>3 DEF FormsInv, FormsTypes
<1>5. ASSUME OneByOne PROVE Orderly'
  <2>1. \A d \in F!Presses : ~F!UnderWay(d)'
    BY <1>2 DEF F!UnderWay
  <2>2. \A d \in F!Presses : Heard(d)' => Heard(d)
    BY <1>2 DEF Heard, Made
  <2>3. \A d \in F!Presses : ~Heard(d)
    BY <1>1, <1>5 DEF FormsInv, Orderly, HeardIsShown
  <2> QED BY <2>1, <2>2, <2>3 DEF Orderly, UnderWayAlone, DoneIsTheEnd, HeardIsShown, HeardOnce
<1>6. OneByOne' <=> OneByOne
  BY <1>1 DEF OneByOne, F!UI
<1>7. DoneForAPress'
  BY <1>1, <1>2 DEF FormsInv, DoneForAPress, Made
<1>8. DoneForTwo'
  BY <1>1, <1>2 DEF FormsInv, DoneForTwo, Made
<1>9. DoneOnce'
  BY <1>1 DEF FormsInv, DoneOnce
<1>10. \A d \in F!Presses : PressOK(press'[d], F!API')
  BY <1>1, <1>2
<1> QED BY <1>4, <1>5, <1>6, <1>7, <1>8, <1>9, <1>10 DEF FormsInv

(* The API writes, or finds that it has been written.                      *)
LEMMA ApiWrites ==
    ASSUME FormsInv, NEW c \in F!Presses, F!Writes(c)
    PROVE  FormsInv'
<1>1. PICK u \in PressCall : u = press[c] /\ PressOK(u, F!API)
  BY DEF FormsInv, FormsTypes
<1>2. u.api = "write" /\ ~Made(c) /\ u.web \notin {"unpressed", "queued", "seen"}
  BY <1>1 DEF F!Writes, Made, MadeBy, PressOK, PressCall
<1>3. done \in Nat /\ F!API' = F!API
  BY DEF F!Writes, F!API, FormsInv, FormsTypes
<1> DEFINE taken == \/ F!API.write = "row" /\ done > 0
                    \/ F!API.write = "keyed" /\ F!WithSameKey(c)
<1> DEFINE api == IF taken THEN "refused" ELSE IF F!API.after THEN "after" ELSE "made"
<1>4. PICK w : w = [u EXCEPT !.api = api]
  OBVIOUS
<1>5. /\ w \in PressCall /\ w.web = u.web /\ w.key = u.key /\ w.saw = u.saw
      /\ w.api = api
  BY <1>1, <1>4 DEF PressCall
<1>6. PressOK(w, F!API)
  BY <1>1, <1>2, <1>5 DEF PressOK, MadeBy
<1>7. /\ press' = [press EXCEPT ![c] = w] /\ UNCHANGED <<form, script, mount, shows>>
      /\ done' = IF taken \/ (F!API.write = "state" /\ done > 0) THEN done ELSE done + 1
  BY <1>1, <1>4 DEF F!Writes
<1>8. w.web \in {"queued", "waits"} => F!UnderWay(c)
  BY <1>1, <1>5 DEF F!UnderWay
<1>9. /\ FormsTypes' /\ \A d \in F!Presses : PressOK(press'[d], F!API')
      /\ OneByOne' => Orderly'
      /\ press'[c] = w /\ \A d \in F!Presses \ {c} : press'[d] = press[d]
      /\ done' = done => FormsInv'
  <2>1. done' \in Nat
    BY <1>3, <1>7
  <2> HIDE DEF taken, api
  <2> QED BY <1>1, <1>2, <1>5, <1>6, <1>7, <1>8, <2>1, OutOfSight
<1>10. CASE done' = done
  BY <1>9, <1>10
<1>11. CASE done' # done
  <2>1. /\ done' = done + 1 /\ MadeBy(w.api) /\ ~taken
        /\ ~(F!API.write = "state" /\ done > 0)
    BY <1>5, <1>7, <1>11 DEF MadeBy
  <2>2. DoneForAPress'
    BY <1>9, <2>1 DEF DoneForAPress, Made
  <2>3. DoneForTwo'
    <3> SUFFICES ASSUME done > 0
                 PROVE  \E d \in F!Presses \ {c} :
                           Made(d) /\ (F!API.write = "keyed" => press[c].key # press[d].key)
      BY <1>1, <1>3, <1>5, <1>9, <2>1 DEF DoneForTwo, Made
    <3>1. PICK d \in F!Presses : Made(d)
      BY DEF FormsInv, DoneForAPress
    <3>2. d # c
      BY <1>2, <3>1
    <3>3. F!API.write = "keyed" => press[c].key # press[d].key
      BY <2>1, <3>1, <3>2 DEF F!WithSameKey, F!Wrote, Made, MadeBy
    <3> QED BY <3>1, <3>2, <3>3
  <2>4. DoneOnce'
    BY <1>3, <2>1 DEF DoneOnce
  <2> QED BY <1>9, <2>2, <2>3, <2>4 DEF FormsInv
<1> QED BY <1>10, <1>11

(* One step per action of the user, of the web server and of the API.      *)
LEMMA FormsStep ==
    ASSUME FormsInv, F!Next \/ UNCHANGED F!vars
    PROVE  FormsInv'
<1>0. ASSUME NEW c \in F!Presses
      PROVE  \E u \in PressCall : u = press[c] /\ PressOK(u, F!API)
  BY DEF FormsInv, FormsTypes
<1>1. ASSUME NEW c \in F!Presses, F!Sends(c) PROVE FormsInv'
  <2>1. PICK u \in PressCall : u = press[c] /\ PressOK(u, F!API)
    BY <1>0
  <2>2. PICK w : w = [u EXCEPT !.web = "waits", !.api = "check"]
    OBVIOUS
  <2>3. /\ w \in PressCall /\ w.web = "waits" /\ w.api = "check" /\ w.key = u.key
    BY <2>1, <2>2 DEF PressCall
  <2>4. u.web = "queued" /\ u.api = "none" /\ F!UnderWay(c) /\ ~Made(c) /\ PressOK(w, F!API)
    BY <1>1, <2>1, <2>3 DEF F!Sends, F!UnderWay, PressOK, Made, MadeBy
  <2>5. /\ press' = [press EXCEPT ![c] = w] /\ done' = done /\ done' \in Nat
        /\ UNCHANGED <<form, script, mount, shows>>
    BY <1>1, <2>1, <2>2 DEF F!Sends, FormsInv, FormsTypes
  <2> QED BY <2>1, <2>3, <2>4, <2>5, OutOfSight
<1>2. ASSUME NEW c \in F!Presses, F!Checks(c) PROVE FormsInv'
  <2>1. PICK u \in PressCall : u = press[c] /\ PressOK(u, F!API)
    BY <1>0
  <2>2. PICK api : api = IF F!API.check = "key" /\ F!WithSameKey(c) THEN "given"
                         ELSE IF F!API.check = "checked" /\ done > 0 THEN "refused" ELSE "write"
    OBVIOUS
  <2>3. PICK w : w = [u EXCEPT !.saw = done, !.api = api]
    OBVIOUS
  <2>4. /\ api \in {"given", "refused", "write"} /\ done \in Nat
        /\ F!API.check = "checked" /\ api # "refused" => done = 0
    BY <2>2 DEF FormsInv, FormsTypes
  <2>5. w \in PressCall /\ w.web = u.web /\ w.api = api /\ w.key = u.key /\ w.saw = done
    BY <2>1, <2>3, <2>4 DEF PressCall
  <2>6. u.api = "check" /\ ~Made(c) /\ w.web \notin {"unpressed", "queued", "seen"}
    BY <1>2, <2>1, <2>5 DEF F!Checks, PressOK, Made, MadeBy
  <2>7. PressOK(w, F!API) /\ (w.web \in {"queued", "waits"} => F!UnderWay(c))
    BY <2>1, <2>4, <2>5, <2>6 DEF PressOK, MadeBy, F!UnderWay
  <2>8. /\ press' = [press EXCEPT ![c] = w] /\ done' = done /\ done' \in Nat
        /\ UNCHANGED <<form, script, mount, shows>>
    BY <1>2, <2>1, <2>2, <2>3, <2>4 DEF F!Checks
  <2> QED BY <2>1, <2>5, <2>6, <2>7, <2>8, OutOfSight
<1>3. ASSUME NEW c \in F!Presses, F!Refuses(c) PROVE FormsInv'
  <2>1. PICK u \in PressCall : u = press[c] /\ PressOK(u, F!API)
    BY <1>0
  <2>2. PICK w : w = [u EXCEPT !.api = "refused"]
    OBVIOUS
  <2>3. w \in PressCall /\ w.web = u.web /\ w.api = "refused" /\ w.key = u.key
    BY <2>1, <2>2 DEF PressCall
  <2>4. u.api = "check" /\ ~Made(c) /\ w.web \notin {"unpressed", "queued", "seen"}
    BY <1>3, <2>1, <2>3 DEF F!Refuses, PressOK, Made, MadeBy
  <2>5. PressOK(w, F!API) /\ (w.web \in {"queued", "waits"} => F!UnderWay(c))
    BY <2>1, <2>3, <2>4 DEF PressOK, MadeBy, F!UnderWay
  <2>6. /\ press' = [press EXCEPT ![c] = w] /\ done' = done /\ done' \in Nat
        /\ UNCHANGED <<form, script, mount, shows>>
    BY <1>3, <2>1, <2>2 DEF F!Refuses, FormsInv, FormsTypes
  <2> QED BY <2>1, <2>3, <2>4, <2>5, <2>6, OutOfSight
<1>4. ASSUME NEW c \in F!Presses, F!Invalid(c) PROVE FormsInv'
  <2>1. PICK u \in PressCall : u = press[c] /\ PressOK(u, F!API)
    BY <1>0
  <2>2. PICK w : w = [u EXCEPT !.web = "seen", !.api = "refused"]
    OBVIOUS
  <2>3. w \in PressCall /\ w.web = "seen" /\ w.api = "refused" /\ w.key = u.key
    BY <2>1, <2>2 DEF PressCall
  <2>4. u.api = "none" /\ F!UnderWay(c) /\ ~Made(c) /\ PressOK(w, F!API)
    BY <1>4, <2>1, <2>3 DEF F!Invalid, F!UnderWay, PressOK, Made, MadeBy
  <2>5. /\ press' = [press EXCEPT ![c] = w] /\ F!Shows("message")
        /\ UNCHANGED <<form, script, done>>
    BY <1>4, <2>1, <2>2 DEF F!Invalid
  <2> QED BY <2>1, <2>3, <2>4, <2>5, ComesToItsEnd
<1>5. ASSUME NEW c \in F!Presses, F!Answers(c) PROVE FormsInv'
  <2>1. PICK u \in PressCall : u = press[c] /\ PressOK(u, F!API)
    BY <1>0
  <2>2. PICK w : w = [u EXCEPT !.web = "seen"]
    OBVIOUS
  <2>3. w \in PressCall /\ w.web = "seen" /\ w.api = u.api /\ w.key = u.key /\ w.saw = u.saw
    BY <2>1, <2>2 DEF PressCall
  <2>4. /\ u.api \in {"made", "given", "failed", "refused"} /\ F!UnderWay(c)
        /\ PressOK(w, F!API) /\ (Made(c) => MadeBy(w.api))
    BY <1>5, <2>1, <2>3 DEF F!Answers, F!UnderWay, PressOK, Made
  <2>5. PICK s : s = IF u.api \in {"made", "given"} THEN "done" ELSE F!Refusal
    OBVIOUS
  <2>6. s \in {"message", "error", "done"} /\ (w.api = "made" => s = "done")
    BY <2>3, <2>5 DEF F!Refusal
  <2>7. /\ press' = [press EXCEPT ![c] = w] /\ F!Shows(s)
        /\ UNCHANGED <<form, script, done>>
    BY <1>5, <2>1, <2>2, <2>5 DEF F!Answers
  <2> QED BY <2>1, <2>3, <2>4, <2>6, <2>7, ComesToItsEnd
<1>6. ASSUME NEW c \in F!Presses, F!Loses(c) PROVE FormsInv'
  <2>1. PICK u \in PressCall : u = press[c] /\ PressOK(u, F!API)
    BY <1>0
  <2>2. PICK api \in {u.api} \union (IF u.api = "check" THEN {"refused"} ELSE {}) :
           press' = [press EXCEPT ![c].web = "unseen", ![c].api = api]
    BY <1>6, <2>1 DEF F!Loses
  <2>3. PICK s \in {IF F!Action.catches = "all" THEN "message" ELSE "error", "error"} : F!Shows(s)
    BY <1>6 DEF F!Loses
  <2>4. PICK w : w = [u EXCEPT !.web = "unseen", !.api = api]
    OBVIOUS
  <2>5. /\ api \in {"none", "check", "write", "after", "made", "failed", "given", "refused"}
        /\ api \in {u.api, "refused"} /\ (api = u.api \/ u.api = "check")
    BY <2>1, <2>2 DEF PressCall
  <2>6. w \in PressCall /\ w.web = "unseen" /\ w.api = api /\ w.key = u.key /\ w.saw = u.saw
    BY <2>1, <2>4, <2>5 DEF PressCall
  <2>7. F!UnderWay(c) /\ PressOK(w, F!API) /\ (Made(c) => MadeBy(w.api))
    BY <1>6, <2>1, <2>5, <2>6 DEF F!Loses, F!UnderWay, PressOK, Made, MadeBy
  <2>8. /\ press' = [press EXCEPT ![c] = w] /\ UNCHANGED <<form, script, done>>
    BY <1>6, <2>1, <2>2, <2>4 DEF F!Loses
  <2>9. s \in {"message", "error", "done"}
    BY <2>3
  <2> QED BY <2>1, <2>3, <2>6, <2>7, <2>8, <2>9, ComesToItsEnd
<1>8. ASSUME NEW c \in F!Presses, F!GoesOn(c) \/ F!BreaksOff(c) PROVE FormsInv'
  <2>1. PICK u \in PressCall : u = press[c] /\ PressOK(u, F!API)
    BY <1>0
  <2>2. PICK api \in {"made", "failed"} : press' = [press EXCEPT ![c].api = api]
    BY <1>8, <2>1 DEF F!GoesOn, F!BreaksOff
  <2>3. PICK w : w = [u EXCEPT !.api = api]
    OBVIOUS
  <2>4. w \in PressCall /\ w.web = u.web /\ w.api = api /\ w.key = u.key /\ w.saw = u.saw
    BY <2>1, <2>2, <2>3 DEF PressCall
  <2>5. u.api = "after" /\ MadeBy(w.api) /\ w.web \notin {"unpressed", "queued", "seen"}
    BY <1>8, <2>1, <2>2, <2>4 DEF F!GoesOn, F!BreaksOff, PressOK, MadeBy
  <2>6. PressOK(w, F!API) /\ (w.web \in {"queued", "waits"} => F!UnderWay(c))
    BY <2>1, <2>2, <2>4, <2>5 DEF PressOK, MadeBy, F!UnderWay
  <2>7. /\ press' = [press EXCEPT ![c] = w] /\ done' = done /\ done' \in Nat
        /\ UNCHANGED <<form, script, mount, shows>>
    BY <1>8, <2>1, <2>2, <2>3 DEF F!GoesOn, F!BreaksOff, FormsInv, FormsTypes
  <2> QED BY <2>1, <2>4, <2>5, <2>6, <2>7, OutOfSight
<1>7. CASE UNCHANGED F!vars
  BY <1>7 DEF F!vars, FormsInv, FormsTypes, OneByOne, Orderly, UnderWayAlone, DoneIsTheEnd,
              HeardIsShown, HeardOnce, Heard, DoneForAPress, DoneForTwo, DoneOnce, Made,
              F!UnderWay, F!UI, F!API
<1> QED BY <1>1, <1>2, <1>3, <1>4, <1>5, <1>6, <1>7, <1>8, PressIsMade, PageIsReloaded, ApiWrites
        DEF F!Next

(* Nobody has pressed, and nothing is done.                                *)
LEMMA FormsStart == F!Init => FormsInv
<1> SUFFICES ASSUME F!Init PROVE FormsInv
  OBVIOUS
<1>1. F!Unpressed \in PressCall /\ F!Unpressed.web = "unpressed" /\ F!Unpressed.api = "none"
  BY DEF F!Unpressed, PressCall
<1>2. /\ press \in [F!Presses -> PressCall] /\ \A c \in F!Presses : press[c] = F!Unpressed
      /\ form \in DOMAIN F!Form /\ script \in BOOLEAN /\ mount = 1 /\ shows = "form" /\ done = 0
  BY <1>1 DEF F!Init
<1>3. FormsTypes /\ \A c \in F!Presses : PressOK(press[c], F!API)
  BY <1>1, <1>2 DEF FormsTypes, PressOK, MadeBy
<1>4. Orderly
  BY <1>1, <1>2 DEF Orderly, UnderWayAlone, DoneIsTheEnd, HeardIsShown, HeardOnce, Heard, Made, F!UnderWay
<1>5. DoneForAPress /\ DoneForTwo /\ DoneOnce
  BY <1>2 DEF DoneForAPress, DoneForTwo, DoneOnce
<1> QED BY <1>3, <1>4, <1>5 DEF FormsInv

(* The invariant holds of the form, whichever it is.                       *)
LEMMA FormsInvariant == Spec => []FormsInv
<1>1. Init => FormsInv
  BY EachStartsAlone, FormsStart
<1>2. FormsInv /\ [Next]_vars => FormsInv'
  BY EachMovesAlone, FormsStep
<1> QED BY <1>1, <1>2, PTL DEF Spec

(* The forms whose writes add one each time; all but that of the photos    *)
(* disable their button.                                                   *)
LEMMA FormsThatAdd ==
    ASSUME form \in DOMAIN F!Form
    PROVE  /\ F!API.write \in {"row", "state", "keyed", "more"}
           /\ F!API.write = "more" => form \in {"pay", "property", "photos", "organisation"}
           /\ F!API.write = "keyed" => form = "book"
           /\ F!API.write \in {"keyed", "more"} => F!UI.locks \/ form = "photos"
           /\ form = "organisation" => F!API.check = "checked"
BY DEF F!UI, F!API, F!Form, F!BookForm, F!PayForm, F!SeatForm, F!BulkRoomForm, F!PropertyForm,
       F!RoomForm, F!AddMemberForm, F!OrganisationForm, F!ArchiveForm, F!RemoveRoomForm,
       F!DecisionForm, F!CancelForm, F!CheckOutForm, F!PhotoForms, F!MemberForms, F!PhotoUploader,
       F!BookingIsKeyed, F!BedIsTakenOnce, F!CodesAreTakenOnce, F!NameExistsForUser,
       F!PaymentIsAdded, F!PropertyIsAdded, F!PhotosAreAdded, F!MemberIsUpserted,
       F!DetailsAreUpdated, F!RowIsUpdated, F!StatusIsChecked, F!TenancyIsChecked, F!RowMustBeThere

(* A press that was made and did not break off is heard of, under way, or  *)
(* unheard.                                                                *)
LEMMA MadeIsHeardOrUnheard ==
    ASSUME FormsInv, NEW c \in F!Presses, Made(c), ~F!Unheard, ~F!BrokeOff
    PROVE  Heard(c) \/ F!UnderWay(c)
<1>1. PICK u \in PressCall : u = press[c] /\ PressOK(u, F!API) /\ u.api \in {"after", "made"}
  BY DEF FormsInv, FormsTypes, Made, MadeBy, F!BrokeOff
<1>2. u.web # "unseen"
  BY <1>1 DEF F!Unheard
<1>3. u.web \in {"waits", "seen"}
  BY <1>1, <1>2 DEF PressCall, PressOK
<1> QED BY <1>1, <1>3 DEF Heard, PressOK, F!UnderWay

(* A thing is done twice only where an answer was not heard, or an error   *)
(* after the write was, and the API has nothing to tell the presses apart. *)
THEOREM TwiceOnlyWhenUnheard == Spec => []NothingIsDoneTwice
<1>1. ASSUME FormsInv, done > 1 PROVE F!Unheard \/ F!BrokeOff \/ form = "photos"
  <2> SUFFICES ASSUME ~F!Unheard, ~F!BrokeOff, form # "photos" PROVE FALSE
    OBVIOUS
  <2>1. form \in DOMAIN F!Form
    BY <1>1 DEF FormsInv, FormsTypes
  <2>2. F!API.write \in {"keyed", "more"}
    BY <1>1, <2>1, FormsThatAdd DEF FormsInv, FormsTypes, DoneOnce
  <2>3. Orderly
    BY <1>1, <2>1, <2>2, FormsThatAdd DEF FormsInv, OneByOne
  <2>4. PICK c \in F!Presses, d \in F!Presses : c # d /\ Made(c) /\ Made(d)
    BY <1>1 DEF FormsInv, DoneForTwo
  <2>5. (Heard(c) \/ F!UnderWay(c)) /\ (Heard(d) \/ F!UnderWay(d))
    BY <1>1, <2>4, MadeIsHeardOrUnheard
  <2> QED BY <2>3, <2>4, <2>5 DEF Orderly, UnderWayAlone, DoneIsTheEnd, HeardIsShown, HeardOnce
<1>2. ASSUME FormsInv, done > 1
      PROVE  \/ form \in {"pay", "property", "photos"}
             \/ form = "book" /\ \E c, d \in F!Presses :
                   F!Wrote(c) /\ F!Wrote(d) /\ press[c].key # press[d].key
             \/ form = "organisation" /\ \E c, d \in F!Presses :
                   F!Wrote(c) /\ F!Wrote(d) /\ F!WithoutSeeing(c, d)
  <2>1. form \in DOMAIN F!Form
    BY <1>2 DEF FormsInv, FormsTypes
  <2>2. F!API.write \in {"keyed", "more"}
    BY <1>2, <2>1, FormsThatAdd DEF FormsInv, FormsTypes, DoneOnce
  <2>3. PICK c \in F!Presses, d \in F!Presses :
           c # d /\ Made(c) /\ Made(d) /\ (F!API.write = "keyed" => press[c].key # press[d].key)
    BY <1>2 DEF FormsInv, DoneForTwo
  <2>4. CASE F!API.write = "keyed"
    BY <2>1, <2>3, <2>4, FormsThatAdd DEF Made, MadeBy, F!Wrote
  <2>5. CASE form = "organisation"
    BY <1>2, <2>1, <2>3, <2>5, FormsThatAdd DEF FormsInv, PressOK, Made, MadeBy, F!Wrote, F!WithoutSeeing
  <2> QED BY <2>1, <2>2, <2>4, <2>5, FormsThatAdd
<1>3. FormsInv => NothingIsDoneTwice
  BY <1>1, <1>2 DEF NothingIsDoneTwice, F!NothingIsDoneTwice
<1> QED BY <1>3, FormsInvariant, PTL

(* Who is left with a failure of what was done has not heard of a press,   *)
(* or pressed a button twice that script should have disabled, or heard of *)
(* a request that broke off after its write.                               *)
THEOREM FailuresAreBelieved == Spec => []FailureMeansNotDone
<1>1. ASSUME FormsInv, F!AtRest, shows \in {"message", "error"}, done > 0, ~F!Unheard,
             ~F!BrokeOff, OneByOne
      PROVE  FALSE
  <2>1. PICK c \in F!Presses : Made(c)
    BY <1>1 DEF FormsInv, DoneForAPress
  <2>2. Heard(c)
    BY <1>1, <2>1, MadeIsHeardOrUnheard DEF F!AtRest
  <2> QED BY <1>1, <2>2 DEF FormsInv, Orderly, HeardIsShown
<1>2. ASSUME FormsInv, F!BrokeOff PROVE F!API.after
  <2>1. PICK c \in F!Presses : press[c].api = "failed"
    BY <1>2 DEF F!BrokeOff
  <2> QED BY <1>2, <2>1 DEF FormsInv, PressOK
<1>3. FormsInv => FailureMeansNotDone
  BY <1>1, <1>2 DEF FailureMeansNotDone, F!FailureMeansNotDone, OneByOne
<1> QED BY <1>3, FormsInvariant, PTL

(***************************************************************************)
(* Offer                                                                   *)
(***************************************************************************)

OfferTypes ==
    /\ sharing \in [Rooms -> Sharings] /\ rate \in [Rooms -> Rates]
    /\ override \in [Beds -> Overrides] /\ claim \in [Beds -> O!Claims]

(* A line shows a rent that somebody of the kind pays and nobody pays less *)
(* than, and the deposit of a room of the kind.                            *)
RoomsOf(s) == {r \in Rooms : sharing[r] = s}
Rents(s) == {O!RentOf(b) : b \in O!BedsIn(s)} \union {rate[r][1] : r \in RoomsOf(s)}

LineIsRight(s, line) ==
    /\ line.rent \in Rents(s) /\ \A rent \in Rents(s) : line.rent <= rent
    /\ \E r \in RoomsOf(s) : line.deposit = rate[r][2]

HasFreeBed(s, d) == \E b \in O!BedsIn(s) : O!FreeFrom(b, d)

Candidate(c, s, d) ==
    /\ c.bed \in O!BedsIn(s) /\ O!FreeFrom(c.bed, d)
    /\ c.rent = O!RentOf(c.bed) /\ c.deposit = rate[RoomOf[c.bed]][2]

(* Of a copy that is not outdated, and of what was made of it.             *)
CopyIsRight ==
    copy # None => \A s \in DOMAIN copy : \A line \in {copy[s]} :
        LineIsRight(s, line) /\ (O!Open /\ line.free > 0 => HasFreeBed(s, O!Today))

FormIsRight ==
    choice # O!Unfilled => \A s \in {choice.chosen}, d \in {choice.day} :
        /\ \A line \in {choice.lines[s]} : LineIsRight(s, line)
        /\ O!Open => HasFreeBed(s, d)

WalkIsRight ==
    walk # None => \A s \in {choice.chosen}, d \in {choice.day} : \A c \in walk : Candidate(c, s, d)

BillIsRight ==
    /\ bill.state # "refused"
    /\ bill.state = "charged" => choice # O!Unfilled /\ \A s \in {choice.chosen} :
          \E b \in O!BedsIn(s) :
             /\ bill.price.rent = O!RentOf(b)
             /\ bill.price.total = O!RentOf(b) + rate[RoomOf[b]][2] + Fee

OfferInv ==
    /\ OfferTypes /\ bill.state \in {"open", "refused", "charged"}
    /\ IF choice = O!Unfilled THEN walk = None ELSE choice.day \in Days
    /\ ~outdated => CopyIsRight /\ FormIsRight /\ WalkIsRight /\ BillIsRight

(* The community modules count and choose as the standard modules do.      *)
LEMMA CountedAlike ==
    \A S : O!Cardinality(S) = Cardinality(S) /\ O!IsFiniteSet(S) = IsFiniteSet(S)
<1>1. \A S : O!Cardinality(S) = Cardinality(S)
  BY DEF O!Cardinality, Cardinality
<1>2. \A S : O!IsFiniteSet(S) = IsFiniteSet(S)
  BY DEF O!IsFiniteSet, IsFiniteSet
<1> QED BY <1>1, <1>2

(* Of some numbers one is the least.                                       *)
LEMMA OneIsLeast ==
    ASSUME NEW S \in SUBSET Nat, S # {}
    PROVE  O!Min(S) \in S /\ \A n \in S : O!Min(S) <= n
<1> DEFINE T == {0..m : m \in S}
<1>1. T \subseteq FiniteSubsetsOf(Nat) /\ T # {}
  <2>1. ASSUME NEW m \in S PROVE 0..m \in FiniteSubsetsOf(Nat)
    <3>1. 0 \in Int /\ m \in Int /\ 0..m \in SUBSET Nat
      OBVIOUS
    <3> QED BY <3>1, FS_Interval DEF FiniteSubsetsOf
  <2> QED BY <2>1
<1>2. \E x \in T : \A y \in T : <<y, x>> \notin StrictSubsetOrdering(Nat)
  BY <1>1, FS_StrictSubsetOrderingWellFounded, WFMin
<1>3. PICK m \in S : \A n \in S : <<0..n, 0..m>> \notin StrictSubsetOrdering(Nat)
  BY <1>2
<1>4. ASSUME NEW n \in S, n < m PROVE FALSE
  <2>1. 0..n \subseteq 0..m /\ m \in 0..m /\ m \notin 0..n
    BY <1>4
  <2>2. <<0..n, 0..m>> \in StrictSubsetOrdering(Nat)
    BY <2>1 DEF StrictSubsetOrdering
  <2> QED BY <1>3, <2>2
<1>5. m \in S /\ \A n \in S : m <= n
  BY <1>4
<1> QED BY <1>5 DEF O!Min

(* Rents and deposits are amounts.                                         *)
LEMMA RentsAreAmounts ==
    ASSUME OfferTypes
    PROVE  /\ \A r \in Rooms : rate[r][1] \in Nat /\ rate[r][2] \in Nat
           /\ \A b \in Beds : O!RentOf(b) \in Nat /\ RoomOf[b] \in Rooms
           /\ \A s : Rents(s) \subseteq Nat
<1>1. /\ RoomOf \in [Beds -> Rooms] /\ Rates \subseteq Nat \X Nat
      /\ Overrides \subseteq Nat \union {None}
  BY WebAssumption DEF O!OfferAssumption
<1>2. \A r \in Rooms : rate[r] \in Nat \X Nat
  BY <1>1 DEF OfferTypes
<1>3. \A r \in Rooms : rate[r][1] \in Nat /\ rate[r][2] \in Nat
  BY <1>2
<1>4. \A b \in Beds : RoomOf[b] \in Rooms
  BY <1>1
<1>5. \A b \in Beds : O!RentOf(b) \in Nat
  <2>1. \A b \in Beds : override[b] = None \/ override[b] \in Nat
    BY <1>1 DEF OfferTypes
  <2> QED BY <1>3, <1>4, <2>1 DEF O!RentOf
<1>6. \A s : Rents(s) \subseteq Nat
  BY <1>3, <1>5 DEF Rents, RoomsOf, O!BedsIn
<1> QED BY <1>3, <1>4, <1>5, <1>6

(* A bed that is free from a day is free from any later one.               *)
LEMMA FreeLater ==
    ASSUME OfferTypes, NEW b \in Beds, NEW d \in Nat, NEW e \in Nat, d <= e, O!FreeFrom(b, d)
    PROVE  O!FreeFrom(b, e)
<1>1. claim[b] # None => claim[b].to \in Nat
  <2>1. Days \subseteq Nat /\ Forever \in Nat
    BY WebAssumption DEF O!OfferAssumption
  <2>2. claim[b] \in O!Claims
    BY DEF OfferTypes
  <2> QED BY <2>1, <2>2 DEF O!Claims
<1> QED BY <1>1 DEF O!FreeFrom

(* What is shown when it is fetched.                                       *)
LEMMA FreshLine ==
    ASSUME OfferTypes, NEW s, NEW first \in RoomsOf(s)
    PROVE  /\ LineIsRight(s, O!Line(s, first))
           /\ O!Line(s, first).free > 0 => HasFreeBed(s, O!Today)
<1> DEFINE line == O!Line(s, first)
<1>1. /\ line.rent = O!LowestRent(s) /\ line.deposit = rate[first][2]
      /\ line.free = O!Cardinality(O!BedsIn(s) \intersect O!FreeBeds)
  BY DEF O!Line
<1>2. O!LowestRent(s) = O!Min(Rents(s))
  BY DEF O!LowestRent, Rents, RoomsOf
<1>3. Rents(s) \in SUBSET Nat /\ rate[first][1] \in Rents(s)
  BY RentsAreAmounts DEF Rents
<1>4. line.rent \in Rents(s) /\ \A rent \in Rents(s) : line.rent <= rent
  BY <1>1, <1>2, <1>3, OneIsLeast
<1>5. ASSUME line.free > 0 PROVE HasFreeBed(s, O!Today)
  <2>1. Cardinality({}) = 0
    BY FS_EmptySet
  <2>2. O!BedsIn(s) \intersect O!FreeBeds # {}
    <3> SUFFICES ASSUME O!BedsIn(s) \intersect O!FreeBeds = {} PROVE FALSE
      OBVIOUS
    <3>1. line.free = 0
      BY <1>1, <2>1, CountedAlike
    <3> QED BY <1>5, <3>1
  <2> QED BY <2>2 DEF O!FreeBeds, HasFreeBed
<1> QED BY <1>1, <1>4, <1>5 DEF LineIsRight

(* As long as no rent is changed, what was right of a line stays so.       *)
LEMMA RentsStay ==
    ASSUME UNCHANGED <<sharing, rate, override>>
    PROVE  /\ \A s, line : LineIsRight(s, line) => LineIsRight(s, line)'
           /\ \A b : O!RentOf(b)' = O!RentOf(b)
           /\ \A s : O!BedsIn(s)' = O!BedsIn(s)
<1>1. /\ \A b : O!RentOf(b)' = O!RentOf(b) /\ \A s : O!BedsIn(s)' = O!BedsIn(s)
      /\ \A s : RoomsOf(s)' = RoomsOf(s)
  BY DEF O!RentOf, O!BedsIn, RoomsOf
<1>2. \A s : Rents(s)' = Rents(s)
  BY <1>1 DEF Rents
<1>3. \A s, line : LineIsRight(s, line) => LineIsRight(s, line)'
  BY <1>1, <1>2 DEF LineIsRight
<1> QED BY <1>1, <1>3

(* Once a bed was taken or a rent changed, no more is said.                *)
LEMMA OutdatedSaysNothing ==
    ASSUME OfferInv, OfferTypes', UNCHANGED <<choice, walk, bill>>, outdated' = TRUE
    PROVE  OfferInv'
BY DEF OfferInv

(* Others take beds, leave them, and change what they cost.                *)
LEMMA OthersChange ==
    ASSUME OfferInv, NEW b \in Beds,
           \/ O!IsReleased(b)
           \/ \E d \in Days : O!IsClaimed(b, d)
           \/ \E rent \in Overrides : O!UpdatesBed(b, rent)
    PROVE  OfferInv'
<1>1. /\ OfferTypes /\ sharing' = sharing
      /\ UNCHANGED <<copy, choice, walk, bill>>
  BY DEF OfferInv, O!IsReleased, O!IsClaimed, O!UpdatesBed, O!Changes
<1>2. ASSUME NEW d \in Days, O!IsClaimed(b, d) PROVE OfferInv'
  <2>1. [from |-> d, to |-> Forever] \in O!Claims
    BY DEF O!Claims
  <2>2. claim' = [claim EXCEPT ![b] = [from |-> d, to |-> Forever]] /\ UNCHANGED <<rate, override>>
    BY <1>2 DEF O!IsClaimed
  <2>3. OfferTypes'
    BY <1>1, <2>1, <2>2 DEF OfferTypes
  <2> QED BY <1>1, <1>2, <2>3, OutdatedSaysNothing DEF O!IsClaimed
<1>3. ASSUME NEW rent \in Overrides, O!UpdatesBed(b, rent) PROVE OfferInv'
  <2>1. OfferTypes'
    BY <1>1, <1>3 DEF OfferTypes, O!UpdatesBed
  <2> QED BY <1>1, <1>3, <2>1, OutdatedSaysNothing DEF O!UpdatesBed
<1>4. CASE O!IsReleased(b)
  <2>1. claim' = [claim EXCEPT ![b] = None] /\ UNCHANGED <<rate, override, outdated>>
    BY <1>4 DEF O!IsReleased
  <2>2. OfferTypes'
    BY <1>1, <2>1 DEF OfferTypes, O!Claims
  <2>3. \A k \in Beds : \A d : O!FreeFrom(k, d) => O!FreeFrom(k, d)'
    BY <1>1, <2>1 DEF O!FreeFrom, OfferTypes
  <2>4. /\ \A s, line : LineIsRight(s, line) => LineIsRight(s, line)'
        /\ \A k : O!RentOf(k)' = O!RentOf(k)
        /\ \A s : O!BedsIn(s)' = O!BedsIn(s) /\ O!BedsIn(s) \subseteq Beds
    BY <1>1, <2>1, RentsStay DEF O!BedsIn
  <2>5. \A s, d : HasFreeBed(s, d) => HasFreeBed(s, d)'
    BY <2>3, <2>4 DEF HasFreeBed
  <2>6. \A c, s, d : Candidate(c, s, d) => Candidate(c, s, d)'
    BY <2>1, <2>3, <2>4 DEF Candidate
  <2>7. O!Open' <=> O!Open
    BY <1>1 DEF O!Open
  <2>8. CopyIsRight => CopyIsRight'
    BY <1>1, <2>4, <2>5, <2>7 DEF CopyIsRight, O!Today
  <2>9. FormIsRight => FormIsRight'
    BY <1>1, <2>4, <2>5, <2>7 DEF FormIsRight
  <2>10. WalkIsRight => WalkIsRight'
    BY <1>1, <2>6 DEF WalkIsRight
  <2>11. BillIsRight => BillIsRight'
    BY <1>1, <2>1, <2>4 DEF BillIsRight
  <2> QED BY <1>1, <2>1, <2>2, <2>8, <2>9, <2>10, <2>11 DEF OfferInv
<1> QED BY <1>2, <1>3, <1>4

(* A rent or a deposit of a room changes.                                  *)
LEMMA RoomChanges ==
    ASSUME OfferInv, NEW r \in Rooms, NEW new \in Rates, O!UpdatesRoom(r, new)
    PROVE  OfferInv'
<1>1. UNCHANGED <<sharing, choice, walk, bill, override, claim>> /\ outdated' = TRUE
  BY DEF O!UpdatesRoom, O!Changes
<1>2. rate' = [rate EXCEPT ![r] = new]
  BY DEF O!UpdatesRoom
<1>3. OfferTypes'
  BY <1>1, <1>2 DEF OfferInv, OfferTypes
<1> QED BY <1>1, <1>3, OutdatedSaysNothing

(* The listing is fetched before a form is filled from it.                 *)
LEMMA CopyIsFetched ==
    ASSUME OfferInv, O!Revalidates
    PROVE  OfferInv'
<1>1. /\ UNCHANGED <<sharing, rate, override, claim, choice, walk, bill>>
      /\ choice = O!Unfilled /\ walk = None /\ O!Open /\ OfferTypes
  BY DEF O!Revalidates, OfferInv
<1>2. OfferTypes'
  BY <1>1 DEF OfferTypes
<1>3. PICK first \in [O!Offered -> Rooms] :
         /\ \A s \in O!Offered : sharing[first[s]] = s
         /\ copy' = [s \in O!Offered |-> O!Line(s, first[s])]
  BY DEF O!Revalidates
<1>4. \A s \in O!Offered : first[s] \in RoomsOf(s)
  BY <1>3 DEF RoomsOf
<1>5. \A s \in O!Offered : \A line \in {copy'[s]} :
         LineIsRight(s, line) /\ (line.free > 0 => HasFreeBed(s, O!Today))
  BY <1>1, <1>3, <1>4, FreshLine
<1>6. \A s, line : LineIsRight(s, line) => LineIsRight(s, line)'
  BY <1>1, RentsStay
<1>7. \A s : HasFreeBed(s, O!Today) => HasFreeBed(s, O!Today)'
  BY <1>1 DEF HasFreeBed, O!BedsIn, O!FreeFrom, O!Today
<1>8. DOMAIN copy' = O!Offered
  BY <1>3
<1>9. CopyIsRight'
  BY <1>5, <1>6, <1>7, <1>8 DEF CopyIsRight, O!Today
<1>10. FormIsRight' /\ WalkIsRight' /\ BillIsRight'
  BY <1>1 DEF FormIsRight, WalkIsRight, BillIsRight, O!Open, O!Unfilled
<1> QED BY <1>1, <1>2, <1>9, <1>10 DEF OfferInv

(* A form is filled from the copy, with a kind that has a free bed.        *)
LEMMA FormIsFilled ==
    ASSUME OfferInv, NEW s \in Sharings, NEW d \in Days, O!Fills(s, d)
    PROVE  OfferInv'
<1>1. /\ UNCHANGED <<sharing, rate, override, claim, copy, walk, bill, outdated>>
      /\ choice' = [lines |-> copy, chosen |-> s, day |-> d] /\ walk = None /\ O!Open
      /\ copy # None /\ s \in DOMAIN copy /\ copy[s].free > 0 /\ OfferTypes
  BY DEF O!Fills, OfferInv
<1>2. OfferTypes'
  BY <1>1 DEF OfferTypes
<1>3. choice' # O!Unfilled
  BY <1>1 DEF O!Unfilled
<1>4. /\ \A k, line : LineIsRight(k, line) => LineIsRight(k, line)'
      /\ \A k : O!BedsIn(k)' = O!BedsIn(k)
  BY <1>1, RentsStay
<1>5. \A k, e : HasFreeBed(k, e) => HasFreeBed(k, e)'
  BY <1>1 DEF HasFreeBed, O!BedsIn, O!FreeFrom
<1>6. O!Open'
  BY <1>1 DEF O!Open
<1>7. ASSUME CopyIsRight PROVE CopyIsRight'
  BY <1>1, <1>4, <1>5, <1>6, <1>7 DEF CopyIsRight, O!Today
<1>8. ASSUME CopyIsRight PROVE FormIsRight'
  <2>1. LineIsRight(s, copy[s]) /\ HasFreeBed(s, O!Today)
    BY <1>1, <1>8 DEF CopyIsRight
  <2>2. O!Today \in Nat /\ O!Today <= d /\ d \in Nat
    <3>1. Days \subseteq Nat
      BY WebAssumption DEF O!OfferAssumption
    <3> QED BY <3>1, OneIsLeast DEF O!Today
  <2>3. HasFreeBed(s, d)
    BY <1>1, <2>1, <2>2, FreeLater DEF HasFreeBed, O!BedsIn
  <2>4. PICK line : line = copy[s]
    OBVIOUS
  <2>5. choice'.chosen = s /\ choice'.day = d /\ choice'.lines[s] = line
    BY <1>1, <2>4
  <2>6. LineIsRight(s, line)' /\ HasFreeBed(s, d)'
    BY <1>4, <1>5, <2>1, <2>3, <2>4
  <2> QED BY <2>5, <2>6 DEF FormIsRight
<1>9. WalkIsRight'
  BY <1>1 DEF WalkIsRight
<1>10. BillIsRight'
  BY <1>1, <1>6 DEF BillIsRight, O!Open
<1> QED BY <1>1, <1>2, <1>3, <1>7, <1>8, <1>9, <1>10 DEF OfferInv

(* The candidates are the free beds of the kind, and there is one.         *)
LEMMA BedsAreListed ==
    ASSUME OfferInv, O!Shortlists
    PROVE  OfferInv'
<1>1. /\ UNCHANGED <<sharing, rate, override, claim, copy, choice, outdated>>
      /\ choice # O!Unfilled /\ walk = None /\ O!Open /\ OfferTypes
  BY DEF O!Shortlists, OfferInv
<1>2. PICK s, d : s = choice.chosen /\ d = choice.day
  OBVIOUS
<1> DEFINE found == O!CandidateBeds(s, d)
<1>3. IF found = {} THEN bill' = O!Refused /\ walk' = walk ELSE walk' = found /\ bill' = bill
  BY <1>2 DEF O!Shortlists
<1>4. OfferTypes' /\ bill'.state \in {"open", "refused", "charged"}
  BY <1>1, <1>3 DEF OfferTypes, OfferInv, O!Refused, O!Closed
<1>5. /\ \A k, line : LineIsRight(k, line) => LineIsRight(k, line)'
      /\ \A b : O!RentOf(b)' = O!RentOf(b) /\ \A k : O!BedsIn(k)' = O!BedsIn(k)
  BY <1>1, RentsStay
<1>6. \A b, e : O!FreeFrom(b, e)' <=> O!FreeFrom(b, e)
  BY <1>1 DEF O!FreeFrom
<1>7. \A k, e : HasFreeBed(k, e) => HasFreeBed(k, e)'
  BY <1>5, <1>6 DEF HasFreeBed
<1>8. \A c, k, e : Candidate(c, k, e) => Candidate(c, k, e)'
  BY <1>1, <1>5, <1>6 DEF Candidate
<1>9. \A c \in found : Candidate(c, s, d)
  BY DEF O!CandidateBeds, Candidate
<1>10. ASSUME ~outdated, CopyIsRight, FormIsRight, WalkIsRight, BillIsRight
       PROVE  CopyIsRight' /\ FormIsRight' /\ WalkIsRight' /\ BillIsRight'
  <2>1. HasFreeBed(s, d)
    BY <1>1, <1>2, <1>10 DEF FormIsRight
  <2>2. found # {}
    BY <2>1 DEF HasFreeBed, O!CandidateBeds
  <2> HIDE DEF found
  <2>3. walk' = found /\ bill' = bill
    BY <1>3, <2>2
  <2>4. CopyIsRight'
    BY <1>1, <1>5, <1>7, <1>10, <2>3 DEF CopyIsRight, O!Open, O!Today
  <2>5. FormIsRight'
    BY <1>1, <1>5, <1>7, <1>10, <2>3 DEF FormIsRight, O!Open
  <2>6. WalkIsRight'
    BY <1>1, <1>2, <1>8, <1>9, <2>3 DEF WalkIsRight
  <2>7. BillIsRight'
    BY <1>1, <1>10, <2>3 DEF BillIsRight, O!Open
  <2> QED BY <2>4, <2>5, <2>6, <2>7
<1> QED BY <1>1, <1>4, <1>10 DEF OfferInv

(* The first candidate that is still free is held and priced.              *)
LEMMA BedIsHeld ==
    ASSUME OfferInv, NEW c \in walk, walk # None, O!Holds(c)
    PROVE  OfferInv'
<1>1. /\ UNCHANGED <<sharing, rate, override, copy, choice, outdated>>
      /\ choice # O!Unfilled /\ O!Open /\ OfferTypes
  BY DEF O!Holds, OfferInv
<1>2. PICK s, d : s = choice.chosen /\ d = choice.day
  OBVIOUS
<1>3. /\ \A k, line : LineIsRight(k, line) => LineIsRight(k, line)'
      /\ \A b : O!RentOf(b)' = O!RentOf(b) /\ \A k : O!BedsIn(k)' = O!BedsIn(k)
  BY <1>1, RentsStay
<1>4. CASE ~O!FreeFrom(c.bed, choice.day)
  <2>1. claim' = claim /\ bill' = (IF walk = {c} THEN O!Refused ELSE bill)
    BY <1>4 DEF O!Holds
  <2>2. OfferTypes' /\ bill'.state \in {"open", "refused", "charged"}
    BY <1>1, <2>1 DEF OfferTypes, OfferInv, O!Refused, O!Closed
  <2>3. outdated
    BY <1>1, <1>4 DEF OfferInv, WalkIsRight, Candidate
  <2> QED BY <1>1, <2>2, <2>3 DEF OfferInv
<1>5. CASE O!FreeFrom(c.bed, choice.day)
  <2>1. /\ claim' = [claim EXCEPT ![c.bed] = [from |-> d, to |-> Forever]]
        /\ walk' = None /\ bill'.state = "charged" /\ bill'.price = O!PriceBooking(c)
    BY <1>2, <1>5 DEF O!Holds
  <2>2. O!PriceBooking(c).rent = c.rent /\ O!PriceBooking(c).total = c.rent + c.deposit + Fee
    BY DEF O!PriceBooking
  <2>3. ~O!Open'
    BY <2>1 DEF O!Open
  <2>4. ASSUME ~outdated, CopyIsRight, FormIsRight, WalkIsRight, BillIsRight
        PROVE  CopyIsRight' /\ FormIsRight' /\ WalkIsRight' /\ BillIsRight'
    <3>1. Candidate(c, s, d)
      BY <1>2, <2>4 DEF WalkIsRight
    <3>2. CopyIsRight'
      BY <1>1, <1>3, <2>3, <2>4 DEF CopyIsRight
    <3>3. FormIsRight'
      BY <1>1, <1>3, <2>3, <2>4 DEF FormIsRight
    <3>4. WalkIsRight'
      BY <2>1 DEF WalkIsRight
    <3>5. \E b \in O!BedsIn(s) :
             /\ bill'.price.rent = O!RentOf(b)
             /\ bill'.price.total = O!RentOf(b) + rate[RoomOf[b]][2] + Fee
      BY <2>1, <2>2, <3>1 DEF Candidate
    <3>6. BillIsRight'
      BY <1>1, <1>2, <1>3, <2>1, <3>5 DEF BillIsRight
    <3> QED BY <3>2, <3>3, <3>4, <3>6
  <2>5. OfferTypes'
    <3>1. [from |-> d, to |-> Forever] \in O!Claims
      BY <1>1, <1>2 DEF OfferInv, O!Claims
    <3> QED BY <1>1, <2>1, <3>1 DEF OfferTypes
  <2> QED BY <1>1, <2>1, <2>4, <2>5 DEF OfferInv
<1> QED BY <1>4, <1>5

(* One step per action of the server, of the tenant and of the others.     *)
LEMMA OfferStep ==
    ASSUME OfferInv, O!Next \/ UNCHANGED O!vars
    PROVE  OfferInv'
<1>1. CASE UNCHANGED O!vars
  <2>1. OfferTypes' = OfferTypes
    BY <1>1 DEF O!vars, OfferTypes, O!Claims
  <2>2. CopyIsRight' = CopyIsRight
    BY <1>1 DEF O!vars, CopyIsRight, LineIsRight, HasFreeBed, Candidate, RoomsOf, Rents, O!RentOf,
                O!BedsIn, O!FreeFrom, O!Open, O!Today
  <2>3. FormIsRight' = FormIsRight
    BY <1>1 DEF O!vars, FormIsRight, LineIsRight, HasFreeBed, Candidate, RoomsOf, Rents, O!RentOf,
                O!BedsIn, O!FreeFrom, O!Open, O!Unfilled
  <2>4. WalkIsRight' = WalkIsRight
    BY <1>1 DEF O!vars, WalkIsRight, Candidate, O!RentOf, O!BedsIn, O!FreeFrom
  <2>5. BillIsRight' = BillIsRight
    BY <1>1 DEF O!vars, BillIsRight, O!RentOf, O!BedsIn, O!Unfilled
  <2> QED BY <1>1, <2>1, <2>2, <2>3, <2>4, <2>5 DEF OfferInv, O!vars, O!Unfilled
<1> QED BY <1>1, OthersChange, RoomChanges, CopyIsFetched, FormIsFilled, BedsAreListed, BedIsHeld
        DEF O!Next

(* There is no copy yet, and nobody has chosen.                            *)
LEMMA OfferStart == O!Init => OfferInv
BY DEF O!Init, O!Closed, OfferInv, OfferTypes, CopyIsRight, FormIsRight, WalkIsRight, BillIsRight

(* The invariant holds of the offer.                                       *)
LEMMA OfferInvariant == Spec => []OfferInv
<1>1. Init => OfferInv
  BY EachStartsAlone, OfferStart
<1>2. OfferInv /\ [Next]_vars => OfferInv'
  BY EachMovesAlone, OfferStep
<1> QED BY <1>1, <1>2, PTL DEF Spec

(* Where one value is counted, all that are counted are that one.          *)
LEMMA AllAlike ==
    ASSUME NEW S, IsFiniteSet(S), NEW f, f = [x \in S |-> f[x]],
           O!Cardinality({f[x] : x \in S}) = 1, NEW a \in S, NEW b \in S
    PROVE  f[a] = f[b]
<1> DEFINE T == {f[x] : x \in S}
<1>1. f \in [S -> T]
  OBVIOUS
<1>2. IsFiniteSet(T)
  <2>1. f \in Surjection(S, T)
    BY <1>1 DEF Surjection
  <2> QED BY <2>1, FS_Surjection
<1>3. \E v : T = {v}
  <2>1. Cardinality(T) = 1
    BY CountedAlike
  <2> QED BY <1>2, <2>1, FS_Singleton
<1> QED BY <1>3

(* What the form offered is not refused, whoever left meanwhile, and costs *)
(* what was shown or more; where the beds of the kind are alike, what was  *)
(* shown to the rupee.                                                     *)
THEOREM WhatIsOfferedIsKept == Spec => []OfferIsKept
<1> SUFFICES OfferInv => OfferIsKept
  BY OfferInvariant, PTL
<1> SUFFICES ASSUME OfferInv, ~outdated PROVE
       /\ bill.state # "refused"
       /\ bill.state = "charged" =>
             /\ bill.price.rent >= O!Shown.rent
             /\ O!Uniform(choice.chosen) => bill.price.total = O!ShownTotal
  BY DEF OfferIsKept, O!OfferIsKept
<1>1. bill.state # "refused"
  BY DEF OfferInv, BillIsRight
<1>2. ASSUME bill.state = "charged"
      PROVE  /\ bill.price.rent >= O!Shown.rent
             /\ O!Uniform(choice.chosen) => bill.price.total = O!ShownTotal
  <2>1. PICK s, line : s = choice.chosen /\ line = choice.lines[s]
    OBVIOUS
  <2>2. PICK b \in O!BedsIn(s) :
           /\ bill.price.rent = O!RentOf(b)
           /\ bill.price.total = O!RentOf(b) + rate[RoomOf[b]][2] + Fee
    BY <1>2, <2>1 DEF OfferInv, BillIsRight
  <2>3. choice # O!Unfilled
    BY <1>2 DEF OfferInv, BillIsRight
  <2>4. LineIsRight(s, line)
    BY <2>1, <2>3 DEF OfferInv, FormIsRight
  <2>5. O!Shown = line
    BY <2>1 DEF O!Shown
  <2>6. /\ O!RentOf(b) \in Rents(s) /\ O!RentOf(b) \in Nat /\ line.rent \in Nat
        /\ RoomOf[b] \in RoomsOf(s)
    BY <2>2, <2>4, RentsAreAmounts DEF OfferInv, Rents, LineIsRight, O!BedsIn, RoomsOf
  <2>7. O!RentOf(b) >= line.rent
    BY <2>4, <2>6 DEF LineIsRight
  <2>8. ASSUME O!Uniform(s) PROVE O!RentOf(b) + rate[RoomOf[b]][2] + Fee = line.rent + line.deposit + Fee
    <3>1. IsFiniteSet(O!BedsIn(s)) /\ IsFiniteSet(RoomsOf(s))
      <4>1. IsFiniteSet(Beds) /\ IsFiniteSet(Rooms)
        BY WebAssumption, CountedAlike DEF O!OfferAssumption
      <4> QED BY <4>1, FS_Subset DEF O!BedsIn, RoomsOf
    <3>2. \A k \in O!BedsIn(s) : O!RentOf(k) = O!RentOf(b)
      <4> DEFINE f == [k \in O!BedsIn(s) |-> O!RentOf(k)]
      <4>1. {f[k] : k \in O!BedsIn(s)} = {O!RentOf(k) : k \in O!BedsIn(s)}
        OBVIOUS
      <4>2. O!Cardinality({f[k] : k \in O!BedsIn(s)}) = 1
        BY <2>8, <4>1 DEF O!Uniform
      <4>3. f = [k \in O!BedsIn(s) |-> f[k]] /\ \A k \in O!BedsIn(s) : f[k] = O!RentOf(k)
        OBVIOUS
      <4> HIDE DEF f
      <4>4. \A k \in O!BedsIn(s) : f[k] = f[b]
        BY <2>2, <3>1, <4>2, <4>3, AllAlike
      <4> QED BY <2>2, <4>3, <4>4
    <3>3. \A r \in RoomsOf(s) : rate[r] = rate[RoomOf[b]]
      <4> DEFINE f == [r \in RoomsOf(s) |-> rate[r]]
      <4>1. {f[r] : r \in RoomsOf(s)} = {rate[r] : r \in RoomsOf(s)}
        OBVIOUS
      <4>2. O!Cardinality({f[r] : r \in RoomsOf(s)}) = 1
        BY <2>8, <4>1 DEF O!Uniform, RoomsOf
      <4>3. f = [r \in RoomsOf(s) |-> f[r]] /\ \A r \in RoomsOf(s) : f[r] = rate[r]
        OBVIOUS
      <4> HIDE DEF f
      <4>4. \A r \in RoomsOf(s) : f[r] = f[RoomOf[b]]
        BY <2>6, <3>1, <4>2, <4>3, AllAlike
      <4> QED BY <2>6, <4>3, <4>4
    <3>4. O!RentOf(b) = rate[RoomOf[b]][1]
      BY <2>2, <2>8 DEF O!Uniform
    <3>5. \A rent \in Rents(s) : rent = O!RentOf(b)
      BY <3>2, <3>3, <3>4 DEF Rents
    <3>6. line.rent = O!RentOf(b) /\ line.deposit = rate[RoomOf[b]][2]
      BY <2>4, <3>3, <3>5 DEF LineIsRight
    <3> QED BY <3>6
  <2> QED BY <2>1, <2>2, <2>5, <2>6, <2>7, <2>8 DEF O!ShownTotal
<1> QED BY <1>1, <1>2

(***************************************************************************)
(* RoomNumbers                                                             *)
(***************************************************************************)

(* Of some numbers one is smallest.                                        *)
LEMMA SmallestNumber ==
    ASSUME NEW T \in SUBSET Nat, T # {} PROVE \E n \in T : \A m \in T : n <= m
<1>1. PICK N \in T : TRUE
  OBVIOUS
<1> DEFINE S == {n \in T : n <= N}
           I == [n \in S |-> 0..n]
           Upto == {I[n] : n \in S}
<1>2. N \in S /\ S \subseteq 0..N /\ \A n \in S : I[n] = 0..n /\ I[n] \in SUBSET (0..N)
  <2>1. N \in S /\ S \subseteq 0..N
    <3>1. N \in Nat /\ N <= N
      OBVIOUS
    <3>2. N \in S
      BY <3>1
    <3>3. \A n \in T : n \in Nat /\ (n <= N => n \in 0..N)
      BY <3>1
    <3> QED BY <3>2, <3>3
  <2>2. \A n \in S : I[n] = 0..n
    OBVIOUS
  <2>3. \A n \in 0..N : 0..n \in SUBSET (0..N)
    OBVIOUS
  <2> HIDE DEF I, S
  <2> QED BY <2>1, <2>2, <2>3
<1> HIDE DEF I
<1>3. Upto \subseteq FiniteSubsetsOf(0..N) /\ Upto # {} /\ IsFiniteSet(0..N)
  <2>1. IsFiniteSet(0..N)
    BY FS_Interval
  <2> QED BY <1>2, <2>1, FS_Subset DEF FiniteSubsetsOf
<1>4. \E r \in Upto : \A q \in Upto : <<q, r>> \notin StrictSubsetOrdering(0..N)
  <2> HIDE DEF Upto
  <2> QED BY <1>3, FS_StrictSubsetOrderingWellFounded, WFMin
<1>5. PICK n \in S : \A m \in S : <<I[m], I[n]>> \notin StrictSubsetOrdering(0..N)
  BY <1>4
<1>6. ASSUME NEW m \in T, m < n PROVE FALSE
  <2>1. m \in S /\ n \in Nat /\ m \in Nat
    BY <1>6
  <2>2. I[m] = 0..m /\ I[n] = 0..n
    BY <1>2, <2>1
  <2>3. I[m] \subseteq I[n] /\ n \notin I[m] /\ n \in I[n]
    BY <1>6, <2>1, <2>2
  <2>4. <<I[m], I[n]>> \in StrictSubsetOrdering(0..N)
    BY <1>2, <2>1, <2>3 DEF StrictSubsetOrdering
  <2> QED BY <1>5, <2>1, <2>4
<1> QED BY <1>6

(* Of some numbers below another one is biggest.                           *)
LEMMA BiggestNumber ==
    ASSUME NEW n \in Nat, NEW T \in SUBSET (1..n), T # {} PROVE \E m \in T : \A k \in T : k <= m
<1> DEFINE U == {n - m : m \in T}
<1>1. U \in SUBSET Nat /\ U # {}
  OBVIOUS
<1> HIDE DEF U
<1>2. PICK u \in U : \A v \in U : u <= v
  BY <1>1, SmallestNumber
<1>3. PICK m \in T : u = n - m
  BY DEF U
<1>4. \A k \in T : n - m <= n - k
  BY <1>2, <1>3 DEF U
<1> QED BY <1>3, <1>4

(***************************************************************************)
(* Where sets start                                                        *)
(***************************************************************************)

(* What may be on the form.                                                *)
Sets == Seq(R!RoomSet)

(* Where one set starts, from where those before it do.                    *)
StartOf(st, fs, k) ==
    LET typed == R!ParseFirstRoomNumber(fs[k].first)
        before == {j \in 1..(k - 1) : fs[j].floor = fs[k].floor}
    IN  IF typed # None THEN typed
        ELSE IF before = {} THEN 1
        ELSE LET j == CHOOSE j \in before : \A i \in before : i <= j IN st[j] + fs[j].count

(* All of them, as the recursion of Starts has them.                       *)
Starting(st, fs, n) == st = [k \in 1..n |-> StartOf(st, fs, k)]

(* It depends on those before it only.                                     *)
LEMMA StartLooksBack ==
    \A g, h, fs : \A k \in Nat \ {0} :
        (\A i \in 1..(k - 1) : g[i] = h[i]) => StartOf(g, fs, k) = StartOf(h, fs, k)
<1> SUFFICES ASSUME NEW g, NEW h, NEW fs, NEW k \in Nat \ {0}, \A i \in 1..(k - 1) : g[i] = h[i]
             PROVE  StartOf(g, fs, k) = StartOf(h, fs, k)
  OBVIOUS
<1> PICK before : before = {j \in 1..(k - 1) : fs[j].floor = fs[k].floor}
  OBVIOUS
<1> PICK j : j = CHOOSE m \in before : \A i \in before : i <= m
  OBVIOUS
<1>1. ASSUME before # {} PROVE g[j] = h[j]
  <2>1. before \in SUBSET (1..(k - 1)) /\ k - 1 \in Nat
    OBVIOUS
  <2>2. \E m \in before : \A i \in before : i <= m
    BY <1>1, <2>1, BiggestNumber
  <2>3. j \in before
    BY <2>2
  <2> QED BY <2>1, <2>3
<1> QED BY <1>1 DEF StartOf

(* So all of them are found.                                               *)
LEMMA StartsExist == \A fs : \A n \in Nat : \E st : Starting(st, fs, n)
<1> SUFFICES ASSUME NEW fs PROVE \A n \in Nat : \E st : Starting(st, fs, n)
  OBVIOUS
<1> DEFINE T == {n \in Nat : ~\E st : Starting(st, fs, n)}
<1>1. SUFFICES ASSUME T # {} PROVE FALSE
  OBVIOUS
<1>2. PICK n \in T : \A m \in T : n <= m
  <2>1. T \in SUBSET Nat
    OBVIOUS
  <2> HIDE DEF T
  <2> QED BY <1>1, <2>1, SmallestNumber
<1>3. n \in Nat /\ ~\E st : Starting(st, fs, n)
  BY DEF T
<1>4. n # 0
  <2> SUFFICES ASSUME n = 0 PROVE FALSE
    OBVIOUS
  <2> PICK st : st = [k \in 1..0 |-> 0]
    OBVIOUS
  <2>1. st = [k \in 1..0 |-> StartOf(st, fs, k)]
    OBVIOUS
  <2> QED BY <1>3, <2>1 DEF Starting
<1>5. n - 1 \in Nat /\ n - 1 \notin T
  BY <1>2, <1>3, <1>4
<1>6. PICK g : Starting(g, fs, n - 1)
  BY <1>5 DEF T
<1> PICK st : st = [k \in 1..n |-> StartOf(g, fs, k)]
  OBVIOUS
<1>7. \A k \in 1..(n - 1) : st[k] = g[k]
  <2> SUFFICES ASSUME NEW k \in 1..(n - 1) PROVE st[k] = g[k]
    OBVIOUS
  <2>1. g[k] = StartOf(g, fs, k)
    <3>1. g = [i \in 1..(n - 1) |-> StartOf(g, fs, i)]
      BY <1>6 DEF Starting
    <3> QED BY <3>1
  <2>2. k \in 1..n
    BY <1>3
  <2> QED BY <2>1, <2>2
<1>8. \A k \in 1..n : StartOf(g, fs, k) = StartOf(st, fs, k)
  <2> SUFFICES ASSUME NEW k \in 1..n PROVE StartOf(g, fs, k) = StartOf(st, fs, k)
    OBVIOUS
  <2>1. \A i \in 1..(k - 1) : i \in 1..(n - 1)
    BY <1>3
  <2>2. \A i \in 1..(k - 1) : g[i] = st[i]
    BY <1>7, <2>1
  <2> QED BY <1>3, <2>2, StartLooksBack
<1>9. Starting(st, fs, n)
  BY <1>8 DEF Starting
<1> QED BY <1>3, <1>9

(* A number that was typed is a position, or none at all.                  *)
LEMMA TypedIsPosition ==
    ASSUME NEW typed \in Nat \union {None}
    PROVE  R!ParseFirstRoomNumber(typed) \in (Nat \ {0}) \union {None}
BY WebAssumption DEF R!RoomsAssumption, R!ParseFirstRoomNumber

(* Every set starts at one or later.                                       *)
LEMMA StartsAtOne ==
    ASSUME NEW fs \in Sets
    PROVE  \A k \in DOMAIN fs : R!Starts(fs)[k] \in Nat \ {0}
<1> PICK n : n = Len(fs)
  OBVIOUS
<1>1. n \in Nat /\ DOMAIN fs = 1..n /\ \A k \in 1..n : fs[k] \in R!RoomSet
  BY DEF Sets
<1>2. PICK st : Starting(st, fs, n) /\ R!Starts(fs) = st
  <2>1. Starting(CHOOSE st : Starting(st, fs, n), fs, n)
    BY <1>1, StartsExist
  <2>2. R!Starts(fs) = CHOOSE st : Starting(st, fs, n)
    BY DEF R!Starts, Starting, StartOf
  <2> QED BY <2>1, <2>2
<1> DEFINE T == {k \in 1..n : st[k] \notin Nat \ {0}}
<1>3. T = {}
  <2> SUFFICES ASSUME T # {} PROVE FALSE
    OBVIOUS
  <2>1. PICK k \in T : \A m \in T : k <= m
    <3>1. T \in SUBSET Nat
      OBVIOUS
    <3> HIDE DEF T
    <3> QED BY <3>1, SmallestNumber
  <2>2. k \in 1..n /\ st[k] \notin Nat \ {0} /\ \A i \in 1..(k - 1) : st[i] \in Nat \ {0}
    BY <1>1, <2>1
  <2>3. st[k] = StartOf(st, fs, k)
    <3>1. st = [i \in 1..n |-> StartOf(st, fs, i)]
      BY <1>2 DEF Starting
    <3> QED BY <2>2, <3>1
  <2>b. PICK before : before = {j \in 1..(k - 1) : fs[j].floor = fs[k].floor}
    OBVIOUS
  <2>j. PICK j : j = CHOOSE m \in before : \A i \in before : i <= m
    OBVIOUS
  <2>t. PICK typed : typed = R!ParseFirstRoomNumber(fs[k].first)
    OBVIOUS
  <2>4. typed \in (Nat \ {0}) \union {None}
    <3>1. fs[k].first \in Nat \union {None}
      BY <1>1, <2>2 DEF R!RoomSet
    <3> QED BY <2>t, <3>1, TypedIsPosition
  <2>5. ASSUME before # {} PROVE st[j] + fs[j].count \in Nat \ {0}
    <3>1. before \in SUBSET (1..(k - 1)) /\ k - 1 \in Nat
      BY <1>1, <2>2, <2>b
    <3>2. \E m \in before : \A i \in before : i <= m
      BY <2>5, <3>1, BiggestNumber
    <3>3. j \in before
      BY <2>j, <3>2
    <3>4. j \in 1..(k - 1) /\ j \in 1..n
      BY <1>1, <2>2, <3>1, <3>3
    <3>5. fs[j].count \in Nat
      BY <1>1, <3>4 DEF R!RoomSet
    <3>6. st[j] \in Nat \ {0}
      BY <2>2, <3>4
    <3> QED BY <3>5, <3>6
  <2>6. st[k] = IF typed # None THEN typed ELSE IF before = {} THEN 1 ELSE st[j] + fs[j].count
    BY <2>3, <2>b, <2>j, <2>t DEF StartOf
  <2>7. st[k] \in Nat \ {0}
    <3>s. PICK sum : sum = st[j] + fs[j].count
      OBVIOUS
    <3>1. st[k] = IF typed # None THEN typed ELSE IF before = {} THEN 1 ELSE sum
      BY <2>6, <3>s
    <3>2. before # {} => sum \in Nat \ {0}
      BY <2>5, <3>s
    <3> QED BY <2>4, <3>1, <3>2
  <2> QED BY <2>2, <2>7
<1> QED BY <1>1, <1>2, <1>3

(***************************************************************************)
(* The labels of beds                                                      *)
(***************************************************************************)

(* The labels of the first beds, as the recursion of BedLabel has them.    *)
Labels(l, n) ==
    l = [k \in 0..n |-> IF k < 26 THEN <<k>> ELSE Append(l[k \div 26 - 1], k % 26)]

(* What comes before the last letter is the label of an earlier bed.       *)
LEMMA EarlierBed ==
    ASSUME NEW k \in Nat, ~(k < 26), NEW q, q = k \div 26 - 1, NEW r, r = k % 26
    PROVE  q \in 0..(k - 1) /\ r \in Nat /\ k = 26 * (q + 1) + r
<1> PICK d : d = k \div 26
  OBVIOUS
<1>1. d \in Int /\ r \in 0..25 /\ k = 26 * d + r
  OBVIOUS
<1>2. d \in Nat /\ d >= 1 /\ d <= k
  BY <1>1
<1>3. q = d - 1
  OBVIOUS
<1> QED BY <1>1, <1>2, <1>3

(* So every bed has a label.                                               *)
LEMMA LabelsExist == \A n \in Nat : \E l : Labels(l, n)
<1> DEFINE T == {n \in Nat : ~\E l : Labels(l, n)}
<1>1. SUFFICES ASSUME T # {} PROVE FALSE
  OBVIOUS
<1>2. PICK n \in T : \A m \in T : n <= m
  <2>1. T \in SUBSET Nat
    OBVIOUS
  <2> HIDE DEF T
  <2> QED BY <1>1, <2>1, SmallestNumber
<1>3. n \in Nat /\ ~\E l : Labels(l, n)
  BY DEF T
<1>4. n # 0
  <2> SUFFICES ASSUME n = 0 PROVE FALSE
    OBVIOUS
  <2> PICK l : l = [k \in 0..0 |-> <<0>>]
    OBVIOUS
  <2>1. \A k \in 0..0 : k < 26 /\ k = 0
    OBVIOUS
  <2>2. Labels(l, 0)
    BY <2>1 DEF Labels
  <2> QED BY <1>3, <2>2
<1>5. n - 1 \in Nat /\ n - 1 \notin T
  BY <1>2, <1>3, <1>4
<1>6. PICK g : Labels(g, n - 1)
  BY <1>5 DEF T
<1> DEFINE Label(h, k) == IF k < 26 THEN <<k>> ELSE Append(h[k \div 26 - 1], k % 26)
<1> PICK l : l = [k \in 0..n |-> Label(g, k)]
  OBVIOUS
<1>7. \A k \in 0..(n - 1) : l[k] = g[k]
  <2> SUFFICES ASSUME NEW k \in 0..(n - 1) PROVE l[k] = g[k]
    OBVIOUS
  <2>1. g[k] = Label(g, k)
    <3>1. g = [i \in 0..(n - 1) |-> Label(g, i)]
      BY <1>6 DEF Labels
    <3> QED BY <3>1
  <2>2. k \in 0..n
    BY <1>3
  <2> QED BY <2>1, <2>2
<1>8. ASSUME NEW k \in 0..n PROVE Label(g, k) = Label(l, k)
  <2>1. CASE k < 26
    BY <2>1
  <2>2. CASE ~(k < 26)
    <3> PICK j : j = k \div 26 - 1
      OBVIOUS
    <3> PICK r : r = k % 26
      OBVIOUS
    <3>1. k \in Nat /\ j \in 0..(k - 1)
      BY <1>3, <2>2, EarlierBed
    <3>2. j \in 0..(n - 1)
      BY <1>3, <3>1
    <3>3. l[j] = g[j]
      BY <1>7, <3>2
    <3>4. Label(g, k) = Append(g[j], r) /\ Label(l, k) = Append(l[j], r)
      BY <2>2
    <3> QED BY <3>3, <3>4
  <2> QED BY <2>1, <2>2
<1>9. Labels(l, n)
  BY <1>8 DEF Labels
<1> QED BY <1>3, <1>9

(* Of one letter or more.                                                  *)
LEMMA LabelsAreLetters ==
    ASSUME NEW n \in Nat, NEW l, Labels(l, n)
    PROVE  \A k \in 0..n : l[k] \in Seq(Nat) /\ Len(l[k]) > 0
<1> DEFINE T == {k \in 0..n : ~(l[k] \in Seq(Nat) /\ Len(l[k]) > 0)}
<1>1. SUFFICES ASSUME T # {} PROVE FALSE
  OBVIOUS
<1>2. PICK k \in T : \A m \in T : k <= m
  <2>1. T \in SUBSET Nat
    OBVIOUS
  <2> HIDE DEF T
  <2> QED BY <1>1, <2>1, SmallestNumber
<1>3. k \in 0..n /\ ~(l[k] \in Seq(Nat) /\ Len(l[k]) > 0)
  BY DEF T
<1>4. l[k] = IF k < 26 THEN <<k>> ELSE Append(l[k \div 26 - 1], k % 26)
  BY <1>3 DEF Labels
<1>5. ~(k < 26)
  BY <1>3, <1>4
<1> PICK j : j = k \div 26 - 1
  OBVIOUS
<1> PICK r : r = k % 26
  OBVIOUS
<1>6. k \in Nat /\ j \in 0..(k - 1) /\ r \in Nat
  BY <1>3, <1>5, EarlierBed
<1>7. j \in 0..n /\ j \notin T
  BY <1>2, <1>3, <1>6
<1>8. l[j] \in Seq(Nat) /\ l[k] = Append(l[j], r)
  BY <1>4, <1>5, <1>7
<1> QED BY <1>3, <1>6, <1>8

(* What it is for a sequence to end in a letter.                           *)
Ends(u, s, x) == Len(u) = Len(s) + 1 /\ u[Len(s) + 1] = x /\ \A k \in 1..Len(s) : u[k] = s[k]

(* With a letter more it ends in that letter.                              *)
LEMMA LetterEnds == ASSUME NEW s \in Seq(Nat), NEW x \in Nat PROVE Ends(Append(s, x), s, x)
BY AppendProperties DEF Ends

(* A last letter comes off in one way.                                     *)
LEMMA LastLetter ==
    ASSUME NEW s \in Seq(Nat), NEW t \in Seq(Nat), NEW x, NEW y,
           NEW u, Ends(u, s, x), Ends(u, t, y)
    PROVE  s = t /\ x = y
<1>1. PICK p \in Nat : p = Len(s)
  OBVIOUS
<1>2. PICK q \in Nat : q = Len(t)
  OBVIOUS
<1>3. p = q
  BY <1>1, <1>2 DEF Ends
<1>4. x = y
  BY <1>1, <1>2, <1>3 DEF Ends
<1>5. \A k \in 1..Len(s) : s[k] = t[k]
  BY <1>1, <1>2, <1>3 DEF Ends
<1>6. s = t
  <2>1. Len(s) = Len(t)
    BY <1>1, <1>2, <1>3
  <2> QED BY <1>5, <2>1, SeqEqual
<1> QED BY <1>4, <1>6

(* No two beds have one label.                                             *)
LEMMA LabelsDiffer ==
    ASSUME NEW m \in Nat, NEW l, Labels(l, m), NEW n \in Nat, NEW h, Labels(h, n)
    PROVE  \A i \in 0..m, j \in 0..n : l[i] = h[j] => i = j
<1> DEFINE T == {i \in 0..m : \E j \in 0..n : l[i] = h[j] /\ i # j}
<1>1. SUFFICES ASSUME T # {} PROVE FALSE
  OBVIOUS
<1>2. PICK i \in T : \A k \in T : i <= k
  <2>1. T \in SUBSET Nat
    OBVIOUS
  <2> HIDE DEF T
  <2> QED BY <1>1, <2>1, SmallestNumber
<1>3. i \in 0..m /\ \E j \in 0..n : l[i] = h[j] /\ i # j
  BY DEF T
<1>4. PICK j \in 0..n : l[i] = h[j] /\ i # j
  BY <1>3
<1>5. /\ l[i] = IF i < 26 THEN <<i>> ELSE Append(l[i \div 26 - 1], i % 26)
      /\ h[j] = IF j < 26 THEN <<j>> ELSE Append(h[j \div 26 - 1], j % 26)
  BY <1>3 DEF Labels
<1>6. CASE i < 26 /\ j < 26
  <2>1. <<i>> = <<j>>
    BY <1>4, <1>5, <1>6
  <2>2. <<i>>[1] = i /\ <<j>>[1] = j
    OBVIOUS
  <2> QED BY <1>4, <2>1, <2>2
<1> PICK a : a = i \div 26 - 1
  OBVIOUS
<1> PICK b : b = j \div 26 - 1
  OBVIOUS
<1> PICK x : x = i % 26
  OBVIOUS
<1> PICK y : y = j % 26
  OBVIOUS
<1>7. ASSUME ~(i < 26)
      PROVE  /\ a \in 0..(i - 1) /\ a \in 0..m /\ x \in Nat /\ i = 26 * (a + 1) + x
             /\ l[a] \in Seq(Nat) /\ Len(l[a]) > 0
  <2>1. i \in Nat /\ i <= m
    BY <1>3
  <2>2. a \in 0..(i - 1) /\ x \in Nat /\ i = 26 * (a + 1) + x
    BY <1>7, <2>1, EarlierBed
  <2> QED BY <2>1, <2>2, LabelsAreLetters
<1>8. ASSUME ~(j < 26)
      PROVE  /\ b \in 0..(j - 1) /\ b \in 0..n /\ y \in Nat /\ j = 26 * (b + 1) + y
             /\ h[b] \in Seq(Nat) /\ Len(h[b]) > 0
  <2>1. j \in Nat /\ j <= n
    OBVIOUS
  <2>2. b \in 0..(j - 1) /\ y \in Nat /\ j = 26 * (b + 1) + y
    BY <1>8, <2>1, EarlierBed
  <2> QED BY <2>1, <2>2, LabelsAreLetters
<1>9. CASE i < 26 /\ ~(j < 26)
  <2>1. Len(Append(h[b], y)) = Len(h[b]) + 1 /\ Len(<<i>>) = 1 /\ Len(h[b]) \in Nat
    BY <1>8, <1>9
  <2>2. <<i>> = Append(h[b], y)
    BY <1>4, <1>5, <1>9
  <2> QED BY <1>8, <1>9, <2>1, <2>2
<1>10. CASE ~(i < 26) /\ j < 26
  <2>1. Len(Append(l[a], x)) = Len(l[a]) + 1 /\ Len(<<j>>) = 1 /\ Len(l[a]) \in Nat
    BY <1>7, <1>10
  <2>2. <<j>> = Append(l[a], x)
    BY <1>4, <1>5, <1>10
  <2> QED BY <1>7, <1>10, <2>1, <2>2
<1>11. CASE ~(i < 26) /\ ~(j < 26)
  <2>1. Append(l[a], x) = Append(h[b], y)
    BY <1>4, <1>5, <1>11
  <2>2. l[a] = h[b] /\ x = y
    <3>1. l[a] \in Seq(Nat) /\ h[b] \in Seq(Nat) /\ x \in Nat /\ y \in Nat
      BY <1>7, <1>8, <1>11
    <3>2. Ends(Append(l[a], x), l[a], x) /\ Ends(Append(h[b], y), h[b], y)
      BY <3>1, LetterEnds
    <3>3. PICK u : u = Append(l[a], x)
      OBVIOUS
    <3>4. Ends(u, l[a], x) /\ Ends(u, h[b], y)
      BY <2>1, <3>2, <3>3
    <3> QED BY <3>1, <3>4, LastLetter
  <2>3. a = b
    <3>1. a \notin T
      BY <1>2, <1>3, <1>7, <1>11
    <3> QED BY <1>7, <1>8, <1>11, <2>2, <3>1
  <2> QED BY <1>4, <1>7, <1>8, <1>11, <2>2, <2>3
<1> QED BY <1>6, <1>9, <1>10, <1>11

(* Different things have as many different values.                         *)
LEMMA AsMany ==
    ASSUME NEW S, IsFiniteSet(S), NEW T, NEW f \in [S -> T],
           \A x, y \in S : f[x] = f[y] => x = y, \A z \in T : \E x \in S : f[x] = z
    PROVE  IsFiniteSet(T) /\ Cardinality(T) = Cardinality(S)
<1>1. f \in Injection(S, T)
  BY Fun_IsInj
<1>2. f \in Surjection(S, T)
  BY Fun_IsSurj
<1>3. ExistsBijection(S, T)
  BY <1>1, <1>2 DEF ExistsBijection, Bijection
<1> QED BY <1>3, FS_Bijection

(* The label a bed gets is found by that recursion.                        *)
LEMMA LabelIsFound ==
    ASSUME NEW n \in Nat PROVE \E l : Labels(l, n) /\ R!BedLabel(n) = l[n]
<1> PICK l : l = CHOOSE g : Labels(g, n)
  OBVIOUS
<1>1. R!BedLabel(n) = l[n]
  BY DEF R!BedLabel, Labels
<1>2. Labels(l, n)
  BY LabelsExist
<1> QED BY <1>1, <1>2

(* A room of so many beds has so many labels.                              *)
LEMMA BedsHaveLabels == ASSUME NEW n \in Nat PROVE Cardinality(R!BedLabels(n)) = n
<1>1. ASSUME NEW i \in 0..(n - 1), NEW j \in 0..(n - 1), R!BedLabel(i) = R!BedLabel(j) PROVE i = j
  <2>1. i \in Nat /\ j \in Nat /\ i \in 0..i /\ j \in 0..j
    OBVIOUS
  <2>2. PICK l : Labels(l, i) /\ R!BedLabel(i) = l[i]
    BY <2>1, LabelIsFound
  <2>3. PICK h : Labels(h, j) /\ R!BedLabel(j) = h[j]
    BY <2>1, LabelIsFound
  <2>4. l[i] = h[j]
    BY <1>1, <2>2, <2>3
  <2> QED BY <2>1, <2>2, <2>3, <2>4, LabelsDiffer
<1> PICK S : S = 0..(n - 1)
  OBVIOUS
<1> PICK T : T = R!BedLabels(n)
  OBVIOUS
<1> PICK f : f = [i \in S |-> R!BedLabel(i)]
  OBVIOUS
<1>2. f \in [S -> T] /\ \A i \in S : f[i] = R!BedLabel(i)
  BY DEF R!BedLabels
<1>3. \A z \in T : \E i \in S : f[i] = z
  BY <1>2 DEF R!BedLabels
<1>4. \A i, j \in S : f[i] = f[j] => i = j
  BY <1>1, <1>2
<1>5. IsFiniteSet(S) /\ Cardinality(S) = n
  BY FS_Interval
<1> QED BY <1>2, <1>3, <1>4, <1>5, AsMany

(***************************************************************************)
(* Sums over the sets                                                      *)
(***************************************************************************)

(* The sums so far, as the recursion of Total has them.                    *)
Summing(s, f, n) == s = [k \in 0..n |-> IF k = 0 THEN 0 ELSE s[k - 1] + f[k]]

(* The sums are found one after the other.                                 *)
LEMMA SumsExist == \A f : \A n \in Nat : \E s : Summing(s, f, n)
<1> SUFFICES ASSUME NEW f PROVE \A n \in Nat : \E s : Summing(s, f, n)
  OBVIOUS
<1> DEFINE T == {n \in Nat : ~\E s : Summing(s, f, n)}
<1>1. SUFFICES ASSUME T # {} PROVE FALSE
  OBVIOUS
<1>2. PICK n \in T : \A m \in T : n <= m
  <2>1. T \in SUBSET Nat
    OBVIOUS
  <2> HIDE DEF T
  <2> QED BY <1>1, <2>1, SmallestNumber
<1>3. n \in Nat /\ ~\E s : Summing(s, f, n)
  BY DEF T
<1>4. n # 0
  <2> SUFFICES ASSUME n = 0 PROVE FALSE
    OBVIOUS
  <2> PICK s : s = [k \in 0..0 |-> 0]
    OBVIOUS
  <2>1. s = [k \in 0..0 |-> IF k = 0 THEN 0 ELSE s[k - 1] + f[k]]
    OBVIOUS
  <2> QED BY <1>3, <2>1 DEF Summing
<1>5. n - 1 \in Nat /\ n - 1 \notin T
  BY <1>2, <1>3, <1>4
<1>6. PICK g : Summing(g, f, n - 1)
  BY <1>5 DEF T
<1> PICK s : s = [k \in 0..n |-> IF k = 0 THEN 0 ELSE g[k - 1] + f[k]]
  OBVIOUS
<1>7. \A k \in 0..(n - 1) : s[k] = g[k]
  <2> SUFFICES ASSUME NEW k \in 0..(n - 1) PROVE s[k] = g[k]
    OBVIOUS
  <2>1. g[k] = IF k = 0 THEN 0 ELSE g[k - 1] + f[k]
    <3>1. g = [i \in 0..(n - 1) |-> IF i = 0 THEN 0 ELSE g[i - 1] + f[i]]
      BY <1>6 DEF Summing
    <3> QED BY <3>1
  <2>2. k \in 0..n
    BY <1>3
  <2> QED BY <2>1, <2>2
<1>8. ASSUME NEW k \in 1..n PROVE s[k - 1] = g[k - 1]
  <2>1. k - 1 \in 0..(n - 1)
    BY <1>3
  <2> QED BY <1>7, <2>1
<1>9. Summing(s, f, n)
  <2>1. \A k \in 0..n : k = 0 \/ k \in 1..n
    BY <1>3
  <2> QED BY <1>8, <2>1 DEF Summing
<1> QED BY <1>3, <1>9

(* Rooms by set and place in the set.                                      *)
Places(f, n) == UNION {{<<k, i>> : i \in 1..f[k]} : k \in 1..n}

(* Those of one set.                                                       *)
Line(k, c) == {<<k, i>> : i \in 1..c}

(* The rooms of one set are as many as it counts.                          *)
LEMMA LineCounts ==
    ASSUME NEW k, NEW c \in Nat
    PROVE  IsFiniteSet(Line(k, c)) /\ Cardinality(Line(k, c)) = c
<1>1. PICK I : I = 1..c
  OBVIOUS
<1>2. PICK line : line = Line(k, c)
  OBVIOUS
<1>3. PICK g : g = [i \in I |-> <<k, i>>]
  OBVIOUS
<1>4. \A i \in I : g[i] = <<k, i>>
  BY <1>3
<1>5. g \in [I -> line]
  BY <1>1, <1>2, <1>3 DEF Line
<1>6. \A i, m \in I : g[i] = g[m] => i = m
  BY <1>4
<1>7. \A z \in line : \E i \in I : g[i] = z
  BY <1>1, <1>2, <1>4 DEF Line
<1>8. IsFiniteSet(I) /\ Cardinality(I) = c
  BY <1>1, FS_Interval
<1>9. IsFiniteSet(line) /\ Cardinality(line) = c
  BY <1>5, <1>6, <1>7, <1>8, AsMany
<1> QED BY <1>2, <1>9

(* A sum counts them.                                                      *)
LEMMA SumCounts ==
    ASSUME NEW n \in Nat, NEW f, \A k \in 1..n : f[k] \in Nat
    PROVE  IsFiniteSet(Places(f, n)) /\ Cardinality(Places(f, n)) = R!Total(f, n)
<1> PICK s : s = CHOOSE g : Summing(g, f, n)
  OBVIOUS
<1>1. R!Total(f, n) = s[n]
  BY DEF R!Total, Summing
<1>2. Summing(s, f, n)
  BY SumsExist
<1>3. \A k \in 0..n : s[k] = IF k = 0 THEN 0 ELSE s[k - 1] + f[k]
  <2>1. s = [k \in 0..n |-> IF k = 0 THEN 0 ELSE s[k - 1] + f[k]]
    BY <1>2 DEF Summing
  <2> QED BY <2>1
<1> HIDE DEF Summing
<1> DEFINE Counts(k) == IsFiniteSet(Places(f, k)) /\ Cardinality(Places(f, k)) = s[k]
           T == {k \in 0..n : ~Counts(k)}
<1>4. T = {}
  <2> SUFFICES ASSUME T # {} PROVE FALSE
    OBVIOUS
  <2>1. PICK k \in T : \A m \in T : k <= m
    <3>1. T \in SUBSET Nat
      OBVIOUS
    <3> HIDE DEF T
    <3> QED BY <3>1, SmallestNumber
  <2>2. k \in 0..n /\ ~Counts(k)
    BY DEF T
  <2>3. k # 0
    <3> SUFFICES ASSUME k = 0 PROVE FALSE
      OBVIOUS
    <3>1. Places(f, 0) = {}
      BY DEF Places
    <3>2. s[0] = 0
      BY <1>3
    <3> QED BY <2>2, <3>1, <3>2, FS_EmptySet
  <2> PICK j : j = k - 1
    OBVIOUS
  <2> PICK c : c = f[k]
    OBVIOUS
  <2>4. j \in 0..n /\ Counts(j) /\ c \in Nat /\ s[k] = s[j] + c
    <3>1. j \in 0..n /\ j \notin T
      BY <2>1, <2>2, <2>3
    <3>2. k \in 1..n
      BY <2>2, <2>3
    <3>3. s[k] = s[k - 1] + f[k]
      BY <1>3, <2>2, <2>3
    <3> QED BY <3>1, <3>2, <3>3 DEF T
  <2>L. PICK line : line = Line(k, c)
    OBVIOUS
  <2>5. IsFiniteSet(line) /\ Cardinality(line) = c
    <3>1. c \in Nat
      BY <2>4
    <3> QED BY <2>L, <3>1, LineCounts
  <2>P. PICK U : U = Places(f, j)
    OBVIOUS
  <2>6. Places(f, k) = U \union line
    <3>1. 1..k = (1..j) \union {k}
      BY <2>2, <2>3
    <3>2. \A z : z \in Places(f, k) <=> \E m \in 1..k : \E i \in 1..f[m] : z = <<m, i>>
      BY DEF Places
    <3>3. \A z : z \in U <=> \E m \in 1..j : \E i \in 1..f[m] : z = <<m, i>>
      BY <2>P DEF Places
    <3>4. \A z : z \in line <=> \E i \in 1..f[k] : z = <<k, i>>
      BY <2>L DEF Line
    <3>5. \A z : z \in Places(f, k) <=> z \in U \/ z \in line
      BY <3>1, <3>2, <3>3, <3>4
    <3> QED BY <3>5
  <2>7. U \intersect line = {}
    <3>1. \A z \in U : \E m \in 1..j : \E i : z = <<m, i>>
      BY <2>P DEF Places
    <3>2. \A m \in 1..j : m # k
      BY <2>2
    <3>3. \A z \in line : \E i : z = <<k, i>>
      BY <2>L DEF Line
    <3> QED BY <3>1, <3>2, <3>3
  <2>8. IsFiniteSet(U) /\ Cardinality(U) = s[j]
    BY <2>4, <2>P
  <2>9. /\ IsFiniteSet(U \union line)
        /\ Cardinality(U \union line) = Cardinality(U) + Cardinality(line) - Cardinality(U \intersect line)
    BY <2>5, <2>8, FS_Union
  <2>10. Cardinality(U \intersect line) = 0 /\ Cardinality(U) \in Nat
    BY <2>7, <2>8, FS_EmptySet, FS_CardinalityType
  <2>11. Cardinality(U \union line) = s[k]
    BY <2>4, <2>5, <2>8, <2>9, <2>10
  <2> QED BY <2>2, <2>6, <2>9, <2>11
<1>5. Counts(n)
  <2>1. n \in 0..n /\ n \notin T
    BY <1>4
  <2> QED BY <2>1
<1> QED BY <1>1, <1>5

(***************************************************************************)
(* What is posted                                                          *)
(***************************************************************************)

(* The list with one more set, and all the lists, as the recursion of      *)
(* Posted has them.                                                        *)
Post(q, fs, k) == IF fs[k].count = 0 THEN q ELSE Append(q, R!PostedSet(fs, k))

Posting(p, fs, n) == p = [k \in 0..n |-> IF k = 0 THEN <<>> ELSE Post(p[k - 1], fs, k)]

(* The lists are found one after the other.                                *)
LEMMA PostingsExist == \A fs : \A n \in Nat : \E p : Posting(p, fs, n)
<1> SUFFICES ASSUME NEW fs PROVE \A n \in Nat : \E p : Posting(p, fs, n)
  OBVIOUS
<1> DEFINE T == {n \in Nat : ~\E p : Posting(p, fs, n)}
<1>1. SUFFICES ASSUME T # {} PROVE FALSE
  OBVIOUS
<1>2. PICK n \in T : \A m \in T : n <= m
  <2>1. T \in SUBSET Nat
    OBVIOUS
  <2> HIDE DEF T
  <2> QED BY <1>1, <2>1, SmallestNumber
<1>3. n \in Nat /\ ~\E p : Posting(p, fs, n)
  BY DEF T
<1>4. n # 0
  <2> SUFFICES ASSUME n = 0 PROVE FALSE
    OBVIOUS
  <2> PICK p : p = [k \in 0..0 |-> <<>>]
    OBVIOUS
  <2>1. p = [k \in 0..0 |-> IF k = 0 THEN <<>> ELSE Post(p[k - 1], fs, k)]
    OBVIOUS
  <2> QED BY <1>3, <2>1 DEF Posting
<1>5. n - 1 \in Nat /\ n - 1 \notin T
  BY <1>2, <1>3, <1>4
<1>6. PICK g : Posting(g, fs, n - 1)
  BY <1>5 DEF T
<1> PICK p : p = [k \in 0..n |-> IF k = 0 THEN <<>> ELSE Post(g[k - 1], fs, k)]
  OBVIOUS
<1>7. \A k \in 0..(n - 1) : p[k] = g[k]
  <2> SUFFICES ASSUME NEW k \in 0..(n - 1) PROVE p[k] = g[k]
    OBVIOUS
  <2>1. g[k] = IF k = 0 THEN <<>> ELSE Post(g[k - 1], fs, k)
    <3>1. g = [i \in 0..(n - 1) |-> IF i = 0 THEN <<>> ELSE Post(g[i - 1], fs, i)]
      BY <1>6 DEF Posting
    <3> QED BY <3>1
  <2>2. k \in 0..n
    BY <1>3
  <2> QED BY <2>1, <2>2
<1>8. ASSUME NEW k \in 1..n PROVE p[k - 1] = g[k - 1]
  <2>1. k - 1 \in 0..(n - 1)
    BY <1>3
  <2> QED BY <1>7, <2>1
<1>9. Posting(p, fs, n)
  <2>1. \A k \in 0..n : k = 0 \/ k \in 1..n
    BY <1>3
  <2> QED BY <1>8, <2>1 DEF Posting
<1> QED BY <1>3, <1>9

(* What the sets are posted as.                                            *)
PostedOf(fs) == {R!PostedSet(fs, k) : k \in DOMAIN fs}

(* A list has the sets with rooms among the first ones, each once.         *)
Lists(fs, q, which, n) ==
    /\ q \in Seq(PostedOf(fs)) /\ which \in [1..Len(q) -> 1..n]
    /\ \A m \in 1..Len(q) : q[m] = R!PostedSet(fs, which[m]) /\ fs[which[m]].count # 0
    /\ \A a, b \in 1..Len(q) : which[a] = which[b] => a = b
    /\ \A k \in 1..n : fs[k].count # 0 => \E m \in 1..Len(q) : which[m] = k

(* A set with rooms goes to the end of the list.                           *)
LEMMA OneMorePosted ==
    ASSUME NEW fs \in Sets, NEW k \in DOMAIN fs, NEW q, NEW which, Lists(fs, q, which, k - 1)
    PROVE  \E w : Lists(fs, Post(q, fs, k), w, k)
<1>1. DOMAIN fs = 1..Len(fs) /\ Len(fs) \in Nat /\ k \in Nat \ {0}
  BY DEF Sets
<1>2. CASE fs[k].count = 0
  <2>1. Post(q, fs, k) = q
    BY <1>2 DEF Post
  <2>2. which \in [1..Len(q) -> 1..k]
    BY <1>1 DEF Lists
  <2>3. \A j \in 1..k : fs[j].count # 0 => j \in 1..(k - 1)
    BY <1>1, <1>2
  <2>4. Lists(fs, q, which, k)
    BY <2>2, <2>3 DEF Lists
  <2> QED BY <2>1, <2>4
<1>3. CASE fs[k].count # 0
  <2>1. PICK n : n = Len(q)
    OBVIOUS
  <2>2. PICK x : x = R!PostedSet(fs, k)
    OBVIOUS
  <2>3. q \in Seq(PostedOf(fs)) /\ n \in Nat /\ x \in PostedOf(fs)
    BY <2>1, <2>2 DEF Lists, PostedOf
  <2>4. PICK u : u = Append(q, x)
    OBVIOUS
  <2>5. /\ u \in Seq(PostedOf(fs)) /\ Len(u) = n + 1 /\ u[n + 1] = x
        /\ \A m \in 1..n : u[m] = q[m]
    BY <2>1, <2>3, <2>4
  <2>6. PICK w : w = [m \in 1..(n + 1) |-> IF m = n + 1 THEN k ELSE which[m]]
    OBVIOUS
  <2>7. \A m \in 1..(n + 1) : m = n + 1 \/ m \in 1..n
    BY <2>3
  <2>8. /\ w[n + 1] = k /\ \A m \in 1..n : w[m] = which[m] /\ w[m] \in 1..(k - 1)
        /\ n + 1 \in 1..(n + 1) /\ \A m \in 1..n : m \in 1..(n + 1)
    BY <2>1, <2>3, <2>6 DEF Lists
  <2>9. w \in [1..(n + 1) -> 1..k]
    <3>1. ASSUME NEW m \in 1..(n + 1) PROVE w[m] \in 1..k
      BY <1>1, <2>7, <2>8
    <3>2. w = [m \in 1..(n + 1) |-> w[m]]
      BY <2>6
    <3> QED BY <3>1, <3>2
  <2>10. \A m \in 1..(n + 1) : u[m] = R!PostedSet(fs, w[m]) /\ fs[w[m]].count # 0
    BY <1>3, <2>1, <2>2, <2>5, <2>7, <2>8 DEF Lists
  <2>11. \A a, b \in 1..(n + 1) : w[a] = w[b] => a = b
    <3>1. \A m \in 1..n : w[m] # k
      BY <1>1, <2>8
    <3>2. \A a, b \in 1..n : w[a] = w[b] => a = b
      BY <2>1, <2>8 DEF Lists
    <3> QED BY <2>7, <2>8, <3>1, <3>2
  <2>12. \A j \in 1..k : fs[j].count # 0 => \E m \in 1..(n + 1) : w[m] = j
    <3>1. \A j \in 1..k : j = k \/ j \in 1..(k - 1)
      BY <1>1
    <3>2. \A j \in 1..(k - 1) : fs[j].count # 0 => \E m \in 1..n : which[m] = j
      BY <2>1 DEF Lists
    <3> QED BY <2>8, <3>1, <3>2
  <2>13. Post(q, fs, k) = u
    BY <1>3, <2>2, <2>4 DEF Post
  <2>14. Lists(fs, u, w, k)
    BY <2>5, <2>9, <2>10, <2>11, <2>12 DEF Lists
  <2> QED BY <2>13, <2>14
<1> QED BY <1>2, <1>3

(* So what is posted is a list of all of them.                             *)
LEMMA PostedLists ==
    ASSUME NEW fs \in Sets PROVE \E w : Lists(fs, R!Posted(fs), w, Len(fs))
<1>0. PICK n : n = Len(fs)
  OBVIOUS
<1>1. n \in Nat /\ DOMAIN fs = 1..n
  BY <1>0 DEF Sets
<1> PICK p : p = CHOOSE g : Posting(g, fs, n)
  OBVIOUS
<1>2. R!Posted(fs) = p[n]
  BY <1>0 DEF R!Posted, Posting, Post
<1>3. Posting(p, fs, n)
  BY <1>1, PostingsExist
<1>4. \A k \in 0..n : p[k] = IF k = 0 THEN <<>> ELSE Post(p[k - 1], fs, k)
  <2>1. p = [k \in 0..n |-> IF k = 0 THEN <<>> ELSE Post(p[k - 1], fs, k)]
    BY <1>3 DEF Posting
  <2> QED BY <2>1
<1> HIDE DEF Posting
<1> DEFINE T == {k \in 0..n : ~\E w : Lists(fs, p[k], w, k)}
<1>5. T = {}
  <2> SUFFICES ASSUME T # {} PROVE FALSE
    OBVIOUS
  <2>1. PICK k \in T : \A m \in T : k <= m
    <3>1. T \in SUBSET Nat
      BY <1>1
    <3> HIDE DEF T
    <3> QED BY <3>1, SmallestNumber
  <2>2. k \in 0..n /\ ~\E w : Lists(fs, p[k], w, k)
    BY DEF T
  <2>3. k # 0
    <3> SUFFICES ASSUME k = 0 PROVE FALSE
      OBVIOUS
    <3>1. p[0] = <<>>
      BY <1>1, <1>4
    <3>2. PICK w : w = [m \in 1..0 |-> 0]
      OBVIOUS
    <3>3. w \in [1..0 -> 1..0]
      BY <3>2
    <3>4. <<>> \in Seq(PostedOf(fs)) /\ Len(<<>>) = 0
      OBVIOUS
    <3>5. Lists(fs, <<>>, w, 0)
      BY <3>3, <3>4 DEF Lists
    <3> QED BY <2>2, <3>1, <3>5
  <2>4. k \in DOMAIN fs /\ k - 1 \in 0..n /\ k - 1 \notin T
    <3>1. k \in DOMAIN fs /\ k - 1 \in 0..n /\ ~(k <= k - 1)
      BY <1>1, <2>2, <2>3
    <3> HIDE DEF T
    <3> QED BY <2>1, <3>1
  <2>5. PICK w : Lists(fs, p[k - 1], w, k - 1)
    BY <2>4 DEF T
  <2>6. p[k] = Post(p[k - 1], fs, k)
    BY <1>4, <2>2, <2>3
  <2>7. \E v : Lists(fs, Post(p[k - 1], fs, k), v, k)
    BY <2>4, <2>5, OneMorePosted
  <2> QED BY <2>2, <2>6, <2>7
<1>6. n \in 0..n /\ n \notin T
  <2>1. n \in 0..n
    BY <1>1
  <2> HIDE DEF T
  <2> QED BY <1>5, <2>1
<1>7. \E w : Lists(fs, p[n], w, n)
  BY <1>6 DEF T
<1> QED BY <1>0, <1>2, <1>7

(***************************************************************************)
(* The rooms of the form and those of the list                             *)
(***************************************************************************)

(* The sets on the form.                                                   *)
LEMMA SetsOfRooms ==
    ASSUME NEW fs \in Sets
    PROVE  /\ Len(fs) \in Nat /\ DOMAIN fs = 1..Len(fs)
           /\ \A k \in DOMAIN fs : /\ fs[k].floor \in Int /\ fs[k].count \in Nat
                                   /\ fs[k].sharing \in R!SharingOptions
                                   /\ fs[k].size \in Nat \union {None}
<1>1. Len(fs) \in Nat /\ DOMAIN fs = 1..Len(fs) /\ \A k \in DOMAIN fs : fs[k] \in R!RoomSet
  BY DEF Sets
<1>2. \A f \in R!RoomSet : /\ f.floor \in Int /\ f.count \in Nat /\ f.sharing \in R!SharingOptions
                           /\ f.size \in Nat \union {None}
  BY DEF R!RoomSet
<1> QED BY <1>1, <1>2

(* A set is posted with its floor, its kind and as many rooms.             *)
LEMMA PostedAsTyped ==
    ASSUME NEW fs, NEW k
    PROVE  LET f == R!PostedSet(fs, k) IN
           /\ f.floor = fs[k].floor /\ f.count = fs[k].count /\ f.sharing = fs[k].sharing
           /\ f.start = R!Starts(fs)[k]
           /\ f.size = IF fs[k].sharing = "DORMITORY" THEN fs[k].size ELSE None
BY DEF R!PostedSet

(* As many rooms are planned as the form counts.                           *)
LEMMA PlansAreRooms ==
    ASSUME NEW fs \in Sets, NEW q, NEW which, Lists(fs, q, which, Len(fs))
    PROVE  IsFiniteSet(R!Plans(q)) /\ Cardinality(R!Plans(q)) = R!TotalRooms(fs)
<1>0. PICK n : n = Len(fs)
  OBVIOUS
<1>1. n \in Nat /\ DOMAIN fs = 1..n /\ \A k \in 1..n : fs[k].count \in Nat
  BY <1>0, SetsOfRooms
<1>2. PICK c : c = [k \in DOMAIN fs |-> fs[k].count]
  OBVIOUS
<1>3. \A k \in 1..n : c[k] = fs[k].count /\ c[k] \in Nat
  BY <1>1, <1>2
<1>4. R!TotalRooms(fs) = R!Total(c, n)
  BY <1>0, <1>2 DEF R!TotalRooms
<1>5. PICK S : S = R!Plans(q)
  OBVIOUS
<1>6. PICK T : T = Places(c, n)
  OBVIOUS
<1>7. PICK last : last = Len(q)
  OBVIOUS
<1>8. /\ DOMAIN q = 1..last /\ which \in [1..last -> 1..n]
      /\ \A m \in 1..last : q[m].count = fs[which[m]].count
      /\ \A a, b \in 1..last : which[a] = which[b] => a = b
      /\ \A k \in 1..n : fs[k].count # 0 => \E m \in 1..last : which[m] = k
  BY <1>0, <1>7, PostedAsTyped DEF Lists
<1>9. \A z : z \in S <=> \E m \in 1..last : \E i \in 1..q[m].count : z = <<m, i>>
  BY <1>5, <1>8 DEF R!Plans
<1>10. \A z : z \in T <=> \E k \in 1..n : \E i \in 1..c[k] : z = <<k, i>>
  BY <1>6 DEF Places
<1>11. PICK g : g = [z \in S |-> <<which[z[1]], z[2]>>]
  OBVIOUS
<1>12. \A m \in 1..last : \A i \in 1..q[m].count :
           <<m, i>> \in S /\ g[<<m, i>>] = <<which[m], i>> /\ g[<<m, i>>] \in T
  <2> SUFFICES ASSUME NEW m \in 1..last, NEW i \in 1..q[m].count
               PROVE  <<m, i>> \in S /\ g[<<m, i>>] = <<which[m], i>> /\ g[<<m, i>>] \in T
    OBVIOUS
  <2>1. <<m, i>> \in S
    BY <1>9
  <2>2. g[<<m, i>>] = <<which[m], i>>
    BY <1>11, <2>1
  <2>3. which[m] \in 1..n /\ i \in 1..c[which[m]]
    BY <1>3, <1>8
  <2>4. <<which[m], i>> \in T
    BY <1>10, <2>3
  <2> QED BY <2>1, <2>2, <2>4
<1>13. g \in [S -> T]
  <2>1. g = [z \in S |-> g[z]]
    BY <1>11
  <2>2. \A z \in S : g[z] \in T
    BY <1>9, <1>12
  <2> QED BY <2>1, <2>2
<1>14. \A y, z \in S : g[y] = g[z] => y = z
  <2> SUFFICES ASSUME NEW y \in S, NEW z \in S, g[y] = g[z] PROVE y = z
    OBVIOUS
  <2>1. PICK a \in 1..last : \E i \in 1..q[a].count : y = <<a, i>>
    BY <1>9
  <2>2. PICK i \in 1..q[a].count : y = <<a, i>>
    BY <2>1
  <2>3. PICK b \in 1..last : \E j \in 1..q[b].count : z = <<b, j>>
    BY <1>9
  <2>4. PICK j \in 1..q[b].count : z = <<b, j>>
    BY <2>3
  <2>5. g[y] = <<which[a], i>> /\ g[z] = <<which[b], j>>
    BY <1>12, <2>2, <2>4
  <2>6. which[a] = which[b] /\ i = j
    <3>1. <<which[a], i>> = <<which[b], j>>
      BY <2>5
    <3> QED BY <3>1
  <2> QED BY <1>8, <2>2, <2>4, <2>6
<1>15. \A t \in T : \E z \in S : g[z] = t
  <2> SUFFICES ASSUME NEW t \in T PROVE \E z \in S : g[z] = t
    OBVIOUS
  <2>1. PICK k \in 1..n : \E i \in 1..c[k] : t = <<k, i>>
    BY <1>10
  <2>2. PICK i \in 1..c[k] : t = <<k, i>>
    BY <2>1
  <2>3. fs[k].count # 0
    BY <1>3, <2>2
  <2>4. PICK m \in 1..last : which[m] = k
    BY <1>8, <2>3
  <2>5. i \in 1..q[m].count
    BY <1>3, <1>8, <2>2, <2>4
  <2> QED BY <1>12, <2>2, <2>4, <2>5
<1>16. IsFiniteSet(T) /\ Cardinality(T) = R!Total(c, n)
  BY <1>1, <1>3, <1>6, SumCounts
<1>17. g \in Injection(S, T)
  BY <1>13, <1>14, Fun_IsInj
<1>18. g \in Surjection(S, T)
  BY <1>13, <1>15, Fun_IsSurj
<1>19. IsFiniteSet(S) /\ Cardinality(S) = Cardinality(T)
  BY <1>16, <1>17, <1>18, FS_Injection
<1> QED BY <1>4, <1>5, <1>16, <1>19

(***************************************************************************)
(* Room numbers                                                            *)
(***************************************************************************)

(* On one floor two positions have two numbers.                            *)
LEMMA CodesDiffer ==
    ASSUME NEW f \in Int, NEW i \in Nat, NEW j \in Nat, R!RoomCode(f, i) = R!RoomCode(f, j)
    PROVE  i = j
<1>1. ASSUME NEW h \in Nat \ {0}, R!Scale(i) * h + i = R!Scale(j) * h + j PROVE i = j
  <2>1. CASE i < 100 /\ j < 100
    BY <1>1, <2>1 DEF R!Scale
  <2>2. CASE i < 100 /\ ~(j < 100)
    BY <1>1, <2>2 DEF R!Scale
  <2>3. CASE ~(i < 100) /\ j < 100
    BY <1>1, <2>3 DEF R!Scale
  <2>4. CASE ~(i < 100) /\ ~(j < 100)
    BY <1>1, <2>4 DEF R!Scale
  <2> QED BY <2>1, <2>2, <2>3, <2>4
<1>2. CASE f = 0
  <2>1. <<"G", i>> = <<"G", j>>
    BY <1>2 DEF R!RoomCode
  <2> QED BY <2>1
<1>3. CASE f < 0
  <2>1. <<"-", R!Scale(i) * (-f) + i>> = <<"-", R!Scale(j) * (-f) + j>>
    BY <1>3 DEF R!RoomCode
  <2>2. R!Scale(i) * (-f) + i = R!Scale(j) * (-f) + j
    BY <2>1
  <2>3. -f \in Nat \ {0}
    BY <1>3
  <2> QED BY <1>1, <2>2, <2>3
<1>4. CASE f > 0
  <2>1. <<"", R!Scale(i) * f + i>> = <<"", R!Scale(j) * f + j>>
    <3>1. f # 0 /\ ~(f < 0)
      BY <1>4
    <3> QED BY <3>1 DEF R!RoomCode
  <2>2. R!Scale(i) * f + i = R!Scale(j) * f + j
    BY <2>1
  <2>3. f \in Nat \ {0}
    BY <1>4
  <2> QED BY <1>1, <2>2, <2>3
<1> QED BY <1>2, <1>3, <1>4

(* The room at a place of a set, as form and API number it.                *)
CodeAt(fs, k, i) == R!RoomCode(fs[k].floor, R!Starts(fs)[k] + i - 1)

(* The numbers the form shows of a set.                                    *)
LEMMA CodesOfSet ==
    ASSUME NEW fs \in Sets, NEW k \in DOMAIN fs
    PROVE  \A z : z \in R!CodesOf(fs[k], R!Starts(fs)[k]) <=>
                      \E i \in 1..fs[k].count : z = CodeAt(fs, k, i)
<1>1. PICK c : c = fs[k].count
  OBVIOUS
<1>2. PICK s : s = R!Starts(fs)[k]
  OBVIOUS
<1>3. PICK f : f = fs[k].floor
  OBVIOUS
<1>4. c \in Nat /\ s \in Nat
  BY <1>1, <1>2, StartsAtOne, SetsOfRooms
<1>5. \A z : z \in R!CodesOf(fs[k], s) <=> \E i \in 0..(c - 1) : z = R!RoomCode(f, s + i)
  BY <1>1, <1>3 DEF R!CodesOf, R!FormCode
<1>6. \A z : (\E i \in 0..(c - 1) : z = R!RoomCode(f, s + i)) <=>
             (\E i \in 1..c : z = R!RoomCode(f, s + i - 1))
  <2>1. ASSUME NEW i \in 0..(c - 1) PROVE i + 1 \in 1..c /\ s + (i + 1) - 1 = s + i
    BY <1>4
  <2>2. ASSUME NEW i \in 1..c PROVE i - 1 \in 0..(c - 1) /\ s + (i - 1) = s + i - 1
    BY <1>4
  <2> QED BY <2>1, <2>2
<1>7. \A i : CodeAt(fs, k, i) = R!RoomCode(f, s + i - 1)
  BY <1>2, <1>3 DEF CodeAt
<1> QED BY <1>1, <1>2, <1>5, <1>6, <1>7

(* Where no two sets clash, each place has a number of its own.            *)
LEMMA CodesApart ==
    ASSUME NEW fs \in Sets, ~R!Clashes(fs)
    PROVE  \A j, k \in DOMAIN fs : \A a \in 1..fs[j].count : \A b \in 1..fs[k].count :
               CodeAt(fs, j, a) = CodeAt(fs, k, b) => j = k /\ a = b
<1> SUFFICES ASSUME NEW j \in DOMAIN fs, NEW k \in DOMAIN fs,
                    NEW a \in 1..fs[j].count, NEW b \in 1..fs[k].count,
                    CodeAt(fs, j, a) = CodeAt(fs, k, b)
             PROVE  j = k /\ a = b
  OBVIOUS
<1>1. PICK z : z = CodeAt(fs, j, a)
  OBVIOUS
<1>2. z \in R!CodesOf(fs[j], R!Starts(fs)[j]) /\ z \in R!CodesOf(fs[k], R!Starts(fs)[k])
  BY <1>1, CodesOfSet
<1>3. j \in Nat /\ k \in Nat
  BY SetsOfRooms
<1>4. ~(j < k) /\ ~(k < j)
  BY <1>2 DEF R!Clashes
<1>5. j = k
  BY <1>3, <1>4
<1>6. PICK s : s = R!Starts(fs)[k]
  OBVIOUS
<1>7. s \in Nat \ {0} /\ fs[k].floor \in Int /\ fs[k].count \in Nat
  BY <1>6, StartsAtOne, SetsOfRooms
<1>8. s + a - 1 \in Nat /\ s + b - 1 \in Nat /\ a \in Int /\ b \in Int
  BY <1>5, <1>7
<1>9. R!RoomCode(fs[k].floor, s + a - 1) = R!RoomCode(fs[k].floor, s + b - 1)
  BY <1>5, <1>6 DEF CodeAt
<1>10. s + a - 1 = s + b - 1
  BY <1>7, <1>8, <1>9, CodesDiffer
<1> QED BY <1>5, <1>7, <1>8, <1>10

(***************************************************************************)
(* What is shown is what is made                                           *)
(***************************************************************************)

(* The rooms are counted as the standard modules count.                    *)
LEMMA RoomsCountAlike == \A S : R!Cardinality(S) = Cardinality(S)
BY DEF R!Cardinality, Cardinality

(* The API numbers the rooms of a list as the form numbers those it shows. *)
LEMMA PlansNumbered ==
    ASSUME NEW fs \in Sets, NEW q, NEW which, Lists(fs, q, which, Len(fs))
    PROVE  /\ DOMAIN q = 1..Len(q) /\ \A m \in 1..Len(q) : which[m] \in DOMAIN fs
           /\ \A p : p \in R!Plans(q) <=>
                       \E m \in 1..Len(q) : \E i \in 1..fs[which[m]].count : p = <<m, i>>
           /\ \A m \in 1..Len(q) : \A i \in 1..fs[which[m]].count :
                  R!CodeOfPlan(q, <<m, i>>) = CodeAt(fs, which[m], i)
<1>1. PICK last : last = Len(q)
  OBVIOUS
<1>2. /\ DOMAIN q = 1..last /\ \A m \in 1..last : which[m] \in DOMAIN fs
      /\ \A m \in 1..last : q[m] = R!PostedSet(fs, which[m])
  <2>1. q \in Seq(PostedOf(fs)) /\ which \in [1..last -> 1..Len(fs)]
    BY <1>1 DEF Lists
  <2>2. DOMAIN q = 1..last
    BY <1>1, <2>1
  <2>3. \A m \in 1..last : which[m] \in DOMAIN fs
    BY <2>1, SetsOfRooms
  <2>4. \A m \in 1..last : q[m] = R!PostedSet(fs, which[m])
    BY <1>1 DEF Lists
  <2> QED BY <2>2, <2>3, <2>4
<1>3. \A m \in 1..last : /\ q[m].count = fs[which[m]].count /\ q[m].floor = fs[which[m]].floor
                         /\ q[m].start = R!Starts(fs)[which[m]]
  BY <1>2, PostedAsTyped
<1>4. \A p : p \in R!Plans(q) <=>
               \E m \in 1..last : \E i \in 1..fs[which[m]].count : p = <<m, i>>
  <2>1. \A p : p \in R!Plans(q) <=> \E m \in 1..last : \E i \in 1..q[m].count : p = <<m, i>>
    BY <1>2 DEF R!Plans
  <2> QED BY <1>3, <2>1
<1>5. ASSUME NEW m \in 1..last, NEW i \in 1..fs[which[m]].count
      PROVE  R!CodeOfPlan(q, <<m, i>>) = CodeAt(fs, which[m], i)
  <2>1. R!CodeOfPlan(q, <<m, i>>) = R!Planned(q[m])[i]
    BY DEF R!CodeOfPlan
  <2>2. PICK f : f = q[m]
    OBVIOUS
  <2>3. i \in 1..f.count
    BY <1>3, <2>2
  <2>4. R!Planned(f)[i] = R!RoomCode(f.floor, f.start + i - 1)
    BY <2>3 DEF R!Planned, R!FirstNumber
  <2>5. f.floor = fs[which[m]].floor /\ f.start = R!Starts(fs)[which[m]]
    BY <1>3, <2>2
  <2> QED BY <2>1, <2>2, <2>4, <2>5 DEF CodeAt
<1> QED BY <1>1, <1>2, <1>4, <1>5

(* No two of them have one number.                                         *)
LEMMA PlansApart ==
    ASSUME NEW fs \in Sets, ~R!Clashes(fs), NEW q, NEW which, Lists(fs, q, which, Len(fs))
    PROVE  \A p, r \in R!Plans(q) : R!CodeOfPlan(q, p) = R!CodeOfPlan(q, r) => p = r
<1> SUFFICES ASSUME NEW p \in R!Plans(q), NEW r \in R!Plans(q),
                    R!CodeOfPlan(q, p) = R!CodeOfPlan(q, r)
             PROVE  p = r
  OBVIOUS
<1>1. PICK a \in 1..Len(q) : \E i \in 1..fs[which[a]].count : p = <<a, i>>
  BY PlansNumbered
<1>2. PICK i \in 1..fs[which[a]].count : p = <<a, i>>
  BY <1>1
<1>3. PICK b \in 1..Len(q) : \E j \in 1..fs[which[b]].count : r = <<b, j>>
  BY PlansNumbered
<1>4. PICK j \in 1..fs[which[b]].count : r = <<b, j>>
  BY <1>3
<1>5. CodeAt(fs, which[a], i) = CodeAt(fs, which[b], j)
  BY <1>2, <1>4, PlansNumbered
<1>6. which[a] \in DOMAIN fs /\ which[b] \in DOMAIN fs
  BY PlansNumbered
<1>7. which[a] = which[b] /\ i = j
  BY <1>5, <1>6, CodesApart
<1>8. a = b
  BY <1>7 DEF Lists
<1> QED BY <1>2, <1>4, <1>7, <1>8

(* Only a dormitory asks for its beds, and the schema wants an answer.     *)
LEMMA BedsAsShown ==
    ASSUME NEW fs \in Sets, NEW q, NEW which, Lists(fs, q, which, Len(fs)),
           NEW m \in 1..Len(q), R!FloorAccepted(q[m])
    PROVE  Cardinality(R!BedLabels(R!PlanCapacity(q[m]))) = R!FormBeds(fs[which[m]])
<1>1. PICK k \in DOMAIN fs : k = which[m]
  BY PlansNumbered
<1>2. PICK f : f = q[m]
  OBVIOUS
<1>3. PICK s : s = fs[k]
  OBVIOUS
<1>4. /\ f.sharing = s.sharing /\ f.size = IF s.sharing = "DORMITORY" THEN s.size ELSE None
      /\ f.size \in 1..40 \union {None} /\ (f.sharing = "DORMITORY" => f.size # None)
  <2>1. f = R!PostedSet(fs, k)
    BY <1>1, <1>2 DEF Lists
  <2>2. /\ f.sharing = s.sharing
        /\ f.size = IF s.sharing = "DORMITORY" THEN s.size ELSE None
    BY <1>3, <2>1, PostedAsTyped
  <2>3. R!FloorAccepted(f)
    BY <1>2
  <2>4. f.size \in 1..40 \union {None} /\ (f.sharing = "DORMITORY" => f.size # None)
    BY <2>3 DEF R!FloorAccepted
  <2> QED BY <2>2, <2>4
<1>5. s.sharing \in R!SharingOptions /\ None \notin Nat
  BY <1>3, SetsOfRooms, WebAssumption DEF R!RoomsAssumption
<1>6. PICK n \in Nat : R!PlanCapacity(f) = n /\ R!FormBeds(s) = n
  <2>1. CASE s.sharing = "DORMITORY"
    <3>1. f.size = s.size /\ s.size \in Nat /\ s.size # None
      <4>1. f.size = s.size
        BY <1>4, <2>1
      <4>2. f.size # None
        BY <1>4, <2>1
      <4>3. PICK x : x = f.size
        OBVIOUS
      <4>4. x \in 1..40
        BY <1>4, <4>2, <4>3
      <4>5. x \in Nat
        BY <4>4
      <4> QED BY <4>1, <4>2, <4>3, <4>5
    <3>2. R!Capacity[s.sharing] = None
      BY <2>1 DEF R!Capacity
    <3> QED BY <3>1, <3>2 DEF R!PlanCapacity, R!FormBeds
  <2>2. CASE s.sharing # "DORMITORY"
    <3>1. f.size = None
      BY <1>4, <2>2
    <3>2. R!Capacity[s.sharing] \in Nat /\ R!Capacity[s.sharing] # None
      BY <1>5, <2>2 DEF R!Capacity, R!SharingOptions
    <3> QED BY <1>4, <3>1, <3>2 DEF R!PlanCapacity, R!FormBeds
  <2> QED BY <2>1, <2>2
<1>7. Cardinality(R!BedLabels(n)) = n
  BY BedsHaveLabels
<1> QED BY <1>1, <1>2, <1>3, <1>6, <1>7

(* The rooms the form shows, place by place.                               *)
LEMMA RoomsShown ==
    ASSUME NEW fs \in Sets
    PROVE  \A z : z \in R!Previewed(fs) <=>
                    \E k \in DOMAIN fs : \E i \in 1..fs[k].count :
                        z = <<CodeAt(fs, k, i), R!FormBeds(fs[k])>>
<1>1. \A z : z \in R!Previewed(fs) <=>
               \E k \in DOMAIN fs : \E c \in R!CodesOf(fs[k], R!Starts(fs)[k]) :
                   z = <<c, R!FormBeds(fs[k])>>
  BY DEF R!Previewed
<1>2. ASSUME NEW z, NEW k \in DOMAIN fs
      PROVE  (\E c \in R!CodesOf(fs[k], R!Starts(fs)[k]) : z = <<c, R!FormBeds(fs[k])>>) <=>
             \E i \in 1..fs[k].count : z = <<CodeAt(fs, k, i), R!FormBeds(fs[k])>>
  <2>1. PICK codes : codes = R!CodesOf(fs[k], R!Starts(fs)[k])
    OBVIOUS
  <2>2. \A c : c \in codes <=> \E i \in 1..fs[k].count : c = CodeAt(fs, k, i)
    BY <2>1, CodesOfSet
  <2> QED BY <2>1, <2>2
<1> QED BY <1>1, <1>2

(* The rooms and the beds that are made are those the form showed.         *)
LEMMA CreatedAsShown ==
    ASSUME NEW fs \in Sets, R!Submittable(fs), R!SchemaAccepts(R!Posted(fs))
    PROVE  /\ R!CreateRoomsWithBeds(R!Posted(fs)) = R!Previewed(fs)
           /\ Cardinality(R!CreateRoomsWithBeds(R!Posted(fs))) = R!TotalRooms(fs)
<1>1. PICK q : q = R!Posted(fs)
  OBVIOUS
<1>2. PICK which : Lists(fs, q, which, Len(fs))
  BY <1>1, PostedLists
<1>3. PICK S : S = R!Plans(q)
  OBVIOUS
<1>4. PICK T : T = R!CreateRoomsWithBeds(q)
  OBVIOUS
<1> DEFINE MadeOf(p) == <<R!CodeOfPlan(q, p), Cardinality(R!BedLabels(R!PlanCapacity(q[p[1]])))>>
<1>5. PICK g : g = [p \in S |-> MadeOf(p)]
  OBVIOUS
<1>6. /\ \A p \in S : g[p] = MadeOf(p) /\ g[p] \in T
      /\ \A z \in T : \E p \in S : g[p] = z
  <2>1. \A z : z \in T <=> \E p \in S : z = MadeOf(p)
    <3>1. \A z : z \in R!CreateRoomsWithBeds(q) <=> \E p \in R!Plans(q) : z = MadeOf(p)
      BY RoomsCountAlike DEF R!CreateRoomsWithBeds
    <3> HIDE DEF MadeOf
    <3> QED BY <1>3, <1>4, <3>1
  <2> HIDE DEF MadeOf
  <2>2. \A p \in S : g[p] = MadeOf(p)
    BY <1>5
  <2> QED BY <2>1, <2>2
<1>7. \A p, r \in S : g[p] = g[r] => p = r
  <2> SUFFICES ASSUME NEW p \in S, NEW r \in S, g[p] = g[r] PROVE p = r
    OBVIOUS
  <2>1. R!CodeOfPlan(q, p) = R!CodeOfPlan(q, r)
    BY <1>6
  <2> QED BY <1>2, <1>3, <2>1, PlansApart DEF R!Submittable
<1>8. IsFiniteSet(S) /\ Cardinality(S) = R!TotalRooms(fs)
  BY <1>2, <1>3, PlansAreRooms
<1>9. g \in [S -> T]
  <2>1. g = [p \in S |-> g[p]]
    BY <1>5
  <2> QED BY <1>6, <2>1
<1>10. Cardinality(T) = R!TotalRooms(fs)
  <2>1. \A z \in T : \E p \in S : g[p] = z
    BY <1>6
  <2> QED BY <1>7, <1>8, <1>9, <2>1, AsMany
<1>11. ASSUME NEW m \in 1..Len(q), NEW i \in 1..fs[which[m]].count
       PROVE  MadeOf(<<m, i>>) = <<CodeAt(fs, which[m], i), R!FormBeds(fs[which[m]])>>
  <2>1. R!FloorAccepted(q[m])
    BY <1>1, <1>2, PlansNumbered DEF R!SchemaAccepts
  <2>2. Cardinality(R!BedLabels(R!PlanCapacity(q[m]))) = R!FormBeds(fs[which[m]])
    BY <1>2, <2>1, BedsAsShown
  <2>3. R!CodeOfPlan(q, <<m, i>>) = CodeAt(fs, which[m], i)
    BY <1>2, PlansNumbered
  <2> QED BY <2>2, <2>3
<1> HIDE DEF MadeOf
<1>12. ASSUME NEW z \in T PROVE z \in R!Previewed(fs)
  <2>1. PICK p \in S : z = MadeOf(p)
    BY <1>6
  <2>2. PICK m \in 1..Len(q) : \E i \in 1..fs[which[m]].count : p = <<m, i>>
    BY <1>2, <1>3, PlansNumbered
  <2>3. PICK i \in 1..fs[which[m]].count : p = <<m, i>>
    BY <2>2
  <2>4. which[m] \in DOMAIN fs
    BY <1>2, PlansNumbered
  <2>5. z = <<CodeAt(fs, which[m], i), R!FormBeds(fs[which[m]])>>
    BY <1>11, <2>1, <2>3
  <2> QED BY <2>4, <2>5, RoomsShown
<1>13. ASSUME NEW z \in R!Previewed(fs) PROVE z \in T
  <2>1. PICK k \in DOMAIN fs : \E i \in 1..fs[k].count :
            z = <<CodeAt(fs, k, i), R!FormBeds(fs[k])>>
    BY RoomsShown
  <2>2. PICK i \in 1..fs[k].count : z = <<CodeAt(fs, k, i), R!FormBeds(fs[k])>>
    BY <2>1
  <2>3. fs[k].count # 0 /\ k \in 1..Len(fs)
    BY <2>2, SetsOfRooms
  <2>4. PICK m \in 1..Len(q) : which[m] = k
    BY <1>2, <2>3 DEF Lists
  <2>5. <<m, i>> \in S
    BY <1>2, <1>3, <2>4, PlansNumbered
  <2>6. z = MadeOf(<<m, i>>)
    BY <1>11, <2>2, <2>4
  <2> QED BY <1>6, <2>5, <2>6
<1> QED BY <1>1, <1>4, <1>10, <1>12, <1>13

(* A form that can be sent has a set with rooms.                           *)
LEMMA SomeRooms ==
    ASSUME NEW fs \in Sets, R!Submittable(fs) PROVE \E k \in DOMAIN fs : fs[k].count # 0
<1> SUFFICES ASSUME \A k \in DOMAIN fs : fs[k].count = 0 PROVE FALSE
  OBVIOUS
<1>1. PICK n : n = Len(fs)
  OBVIOUS
<1>2. n \in Nat /\ DOMAIN fs = 1..n
  BY <1>1, SetsOfRooms
<1>3. PICK c : c = [k \in DOMAIN fs |-> fs[k].count * R!FormBeds(fs[k])]
  OBVIOUS
<1>4. R!TotalBeds(fs) = R!Total(c, n)
  BY <1>1, <1>3 DEF R!TotalBeds
<1>5. ASSUME NEW k \in 1..n PROVE c[k] = 0
  <2>1. PICK b : b = R!FormBeds(fs[k])
    OBVIOUS
  <2>2. b \in Nat
    <3>1. fs[k].sharing \in R!SharingOptions /\ fs[k].size \in Nat \union {None}
      BY <1>2, SetsOfRooms
    <3>2. fs[k].sharing # "DORMITORY" => R!Capacity[fs[k].sharing] \in Nat
      BY <3>1 DEF R!Capacity, R!SharingOptions
    <3>3. R!Capacity["DORMITORY"] = None
      BY DEF R!Capacity
    <3> QED BY <2>1, <3>1, <3>2, <3>3 DEF R!FormBeds
  <2>3. c[k] = 0 * b
    BY <1>2, <1>3, <2>1
  <2> QED BY <2>2, <2>3
<1>6. Places(c, n) = {}
  <2>1. \A k \in 1..n : ~\E i \in 1..c[k] : TRUE
    BY <1>5
  <2> QED BY <2>1 DEF Places
<1>7. R!Total(c, n) = 0
  <2>1. Cardinality(Places(c, n)) = R!Total(c, n)
    BY <1>2, <1>5, SumCounts
  <2> QED BY <1>6, <2>1, FS_EmptySet
<1> QED BY <1>4, <1>7 DEF R!Submittable

(* The sets with rooms are as many as the list is long.                    *)
LEMMA ListIsAsLong ==
    ASSUME NEW fs \in Sets, NEW q, NEW which, Lists(fs, q, which, Len(fs))
    PROVE  Len(q) \in Nat /\ Cardinality({k \in DOMAIN fs : fs[k].count > 0}) = Len(q)
<1>1. PICK last : last = Len(q)
  OBVIOUS
<1>2. PICK S : S = 1..last
  OBVIOUS
<1>3. PICK K : K = {k \in DOMAIN fs : fs[k].count > 0}
  OBVIOUS
<1>4. last \in Nat
  BY <1>1 DEF Lists
<1>5. \A k : k \in K <=> k \in DOMAIN fs /\ fs[k].count # 0
  BY <1>3, SetsOfRooms
<1>6. IsFiniteSet(S) /\ Cardinality(S) = last
  BY <1>2, <1>4, FS_Interval
<1>7. which \in [S -> K]
  <2>1. which = [m \in S |-> which[m]]
    BY <1>1, <1>2 DEF Lists
  <2>2. \A m \in S : which[m] \in K
    <3>1. \A m \in S : which[m] \in DOMAIN fs
      BY <1>1, <1>2, PlansNumbered
    <3>2. \A m \in S : fs[which[m]].count # 0
      BY <1>1, <1>2 DEF Lists
    <3> QED BY <1>5, <3>1, <3>2
  <2> QED BY <2>1, <2>2
<1>8. \A a, b \in S : which[a] = which[b] => a = b
  BY <1>1, <1>2 DEF Lists
<1>9. \A k \in K : \E m \in S : which[m] = k
  <2>1. \A k \in K : k \in 1..Len(fs) /\ fs[k].count # 0
    BY <1>5, SetsOfRooms
  <2> QED BY <1>1, <1>2, <2>1 DEF Lists
<1>10. Cardinality(K) = last
  BY <1>6, <1>7, <1>8, <1>9, AsMany
<1> QED BY <1>1, <1>3, <1>4, <1>10

(* A set with rooms is posted as the schema and the plan want it, unless   *)
(* its floor, its kind or its numbers are out of range.                    *)
LEMMA SetIsAccepted ==
    ASSUME NEW fs \in Sets, ~R!Refusable(fs), NEW k \in DOMAIN fs, fs[k].count # 0
    PROVE  R!FloorAccepted(R!PostedSet(fs, k)) /\ R!PlanAccepted(R!PostedSet(fs, k))
<1>1. PICK f : f = R!PostedSet(fs, k)
  OBVIOUS
<1>2. PICK s : s = fs[k]
  OBVIOUS
<1>3. PICK start : start = R!Starts(fs)[k]
  OBVIOUS
<1>4. /\ s.count \in Nat /\ s.count # 0 /\ s.floor \in Int /\ s.sharing \in R!SharingOptions
      /\ s.size \in Nat \union {None} /\ start \in Nat \ {0} /\ None \notin Nat
  BY <1>2, <1>3, SetsOfRooms, StartsAtOne, WebAssumption DEF R!RoomsAssumption
<1>5. /\ f.floor = s.floor /\ f.count = s.count /\ f.sharing = s.sharing /\ f.start = start
      /\ f.size = IF s.sharing = "DORMITORY" THEN s.size ELSE None
  BY <1>1, <1>2, <1>3, PostedAsTyped
<1>6. /\ s.sharing = "DORMITORY" => s.size \in 1..40
      /\ s.floor \in -2..60 /\ s.count <= 60 /\ start <= 99
  <2>1. s.count > 0
    BY <1>4
  <2>2. ~(\/ s.sharing = "DORMITORY" /\ s.size \notin 1..40
          \/ s.floor \notin -2..60 \/ s.count > 60
          \/ start > 99)
    BY <1>2, <1>3, <2>1 DEF R!Refusable
  <2> QED BY <1>4, <2>2
<1>7. CASE s.sharing = "DORMITORY"
  <2>1. f.size \in 1..40 /\ f.size # None
    <3>1. PICK x : x = s.size
      OBVIOUS
    <3>2. x \in 1..40
      BY <1>6, <1>7, <3>1
    <3>3. x # None
      BY <1>4, <3>2
    <3> QED BY <1>5, <1>7, <3>1, <3>2, <3>3
  <2>2. R!Capacity[f.sharing] = None
    BY <1>5, <1>7 DEF R!Capacity
  <2>3. R!FloorAccepted(f)
    BY <1>4, <1>5, <1>6, <2>1 DEF R!FloorAccepted
  <2>4. R!PlanAccepted(f)
    BY <2>1, <2>2 DEF R!PlanAccepted, R!PlanCapacity
  <2> QED BY <1>1, <2>3, <2>4
<1>8. CASE s.sharing # "DORMITORY"
  <2>1. f.size = None
    BY <1>5, <1>8
  <2>2. R!Capacity[f.sharing] # None
    BY <1>4, <1>5, <1>8 DEF R!Capacity, R!SharingOptions
  <2>3. R!FloorAccepted(f)
    BY <1>4, <1>5, <1>6, <1>8, <2>1 DEF R!FloorAccepted
  <2>4. R!PlanAccepted(f)
    BY <2>1, <2>2 DEF R!PlanAccepted, R!PlanCapacity
  <2> QED BY <1>1, <2>3, <2>4
<1> QED BY <1>7, <1>8

(* So what the form lets through is refused for one of the reasons named.  *)
LEMMA RefusedForAReason ==
    ASSUME NEW fs \in Sets, R!Submittable(fs), ~R!Refusable(fs)
    PROVE  R!SchemaAccepts(R!Posted(fs)) /\ R!BulkAccepted(R!Posted(fs))
<1>1. PICK q : q = R!Posted(fs)
  OBVIOUS
<1>2. PICK which : Lists(fs, q, which, Len(fs))
  BY <1>1, PostedLists
<1>3. ASSUME NEW m \in 1..Len(q) PROVE R!FloorAccepted(q[m]) /\ R!PlanAccepted(q[m])
  <2>1. which[m] \in DOMAIN fs
    BY <1>2, PlansNumbered
  <2>2. q[m] = R!PostedSet(fs, which[m]) /\ fs[which[m]].count # 0
    BY <1>2 DEF Lists
  <2> QED BY <2>1, <2>2, SetIsAccepted
<1>4. Len(q) \in 1..20
  <2>1. PICK K : K = {k \in DOMAIN fs : fs[k].count > 0}
    OBVIOUS
  <2>2. Len(q) \in Nat /\ Cardinality(K) = Len(q)
    BY <1>2, <2>1, ListIsAsLong
  <2>3. ~(Cardinality(K) > 20)
    BY <2>1, RoomsCountAlike DEF R!Refusable
  <2>4. PICK k \in DOMAIN fs : fs[k].count # 0
    BY SomeRooms
  <2>5. k \in 1..Len(fs)
    BY SetsOfRooms
  <2>6. \E m \in 1..Len(q) : which[m] = k
    BY <1>2, <2>4, <2>5 DEF Lists
  <2>7. PICK l : l = Len(q)
    OBVIOUS
  <2>8. l \in Nat /\ ~(l > 20) /\ \E m \in 1..l : TRUE
    BY <2>2, <2>3, <2>6, <2>7
  <2>9. l \in 1..20
    BY <2>8
  <2> QED BY <2>7, <2>9
<1>5. DOMAIN q = 1..Len(q)
  BY <1>2, PlansNumbered
<1>6. R!SchemaAccepts(q)
  BY <1>3, <1>4, <1>5 DEF R!SchemaAccepts
<1>7. PICK S : S = R!Plans(q)
  OBVIOUS
<1>8. PICK T : T = {R!CodeOfPlan(q, p) : p \in S}
  OBVIOUS
<1>9. IsFiniteSet(S) /\ Cardinality(S) = R!TotalRooms(fs)
  BY <1>2, <1>7, PlansAreRooms
<1>10. Cardinality(S) <= MaxRoomsPerBulk
  <2>1. ~(R!TotalRooms(fs) > MaxRoomsPerBulk)
    BY DEF R!Refusable
  <2>2. Cardinality(S) \in Nat /\ MaxRoomsPerBulk \in Nat
    BY <1>9, FS_CardinalityType, WebAssumption DEF R!RoomsAssumption
  <2> QED BY <1>9, <2>1, <2>2
<1>11. Cardinality(T) = Cardinality(S)
  <2>1. PICK g : g = [p \in S |-> R!CodeOfPlan(q, p)]
    OBVIOUS
  <2>2. \A p \in S : g[p] = R!CodeOfPlan(q, p)
    BY <2>1
  <2>3. g \in [S -> T]
    BY <1>8, <2>1
  <2>4. \A p, r \in S : g[p] = g[r] => p = r
    BY <1>2, <1>7, <2>2, PlansApart DEF R!Submittable
  <2>5. \A z \in T : \E p \in S : g[p] = z
    BY <1>8, <2>2
  <2> QED BY <1>9, <2>3, <2>4, <2>5, AsMany
<1>12. T \intersect Existing = {}
  <2> SUFFICES ASSUME NEW c \in T, c \in Existing PROVE FALSE
    OBVIOUS
  <2>1. PICK p \in S : c = R!CodeOfPlan(q, p)
    BY <1>8
  <2>2. PICK m \in 1..Len(q) : \E i \in 1..fs[which[m]].count : p = <<m, i>>
    BY <1>2, <1>7, PlansNumbered
  <2>3. PICK i \in 1..fs[which[m]].count : p = <<m, i>>
    BY <2>2
  <2>4. c = CodeAt(fs, which[m], i) /\ which[m] \in DOMAIN fs
    BY <1>2, <2>1, <2>3, PlansNumbered
  <2>5. <<c, R!FormBeds(fs[which[m]])>> \in R!Previewed(fs)
    BY <2>4, RoomsShown
  <2>6. \A room \in R!Previewed(fs) : room[1] \notin Existing
    BY DEF R!Refusable
  <2>7. <<c, R!FormBeds(fs[which[m]])>>[1] = c
    OBVIOUS
  <2> QED BY <2>5, <2>6, <2>7
<1>13. R!BulkAccepted(q)
  <2>1. \A k \in DOMAIN q : R!PlanAccepted(q[k])
    BY <1>3, <1>5
  <2> QED BY <1>7, <1>8, <1>10, <1>11, <1>12, <2>1, RoomsCountAlike DEF R!BulkAccepted
<1> QED BY <1>1, <1>6, <1>13

(***************************************************************************)
(* The invariant                                                           *)
(***************************************************************************)

(* The answer to what was sent last is about the sets on the form.         *)
RoomsInv == sets \in Sets /\ R!PreviewIsWhatIsCreated

(* At first nothing is typed in.                                           *)
LEMMA RoomsStart == ASSUME R!Init PROVE RoomsInv
BY DEF R!Init, RoomsInv, R!PreviewIsWhatIsCreated, Sets

(* One step per action of the form, and one for what the API answers.      *)
LEMMA RoomsStep ==
    ASSUME RoomsInv, R!Next \/ UNCHANGED R!vars PROVE RoomsInv'
<1>1. ASSUME NEW s \in Choices, R!AddSet(s) PROVE RoomsInv'
  <2>1. s \in R!RoomSet
    BY WebAssumption DEF R!RoomsAssumption
  <2>2. sets' \in Sets
    BY <1>1, <2>1 DEF R!AddSet, RoomsInv, Sets
  <2>3. outcome' = "none"
    BY <1>1 DEF R!AddSet
  <2> QED BY <2>2, <2>3 DEF RoomsInv, R!PreviewIsWhatIsCreated
<1>2. ASSUME NEW k \in 1..MaxSets, R!RemoveSet(k) PROVE RoomsInv'
  <2>1. PICK n : n = Len(sets)
    OBVIOUS
  <2>2. n \in Nat /\ k \in 1..n /\ sets \in Seq(R!RoomSet)
    BY <1>2, <2>1 DEF R!RemoveSet, RoomsInv, Sets
  <2>3. SubSeq(sets, 1, k - 1) \in Seq(R!RoomSet) /\ SubSeq(sets, k + 1, n) \in Seq(R!RoomSet)
    BY <2>1, <2>2
  <2>4. sets' = SubSeq(sets, 1, k - 1) \o SubSeq(sets, k + 1, n)
    BY <1>2, <2>1 DEF R!RemoveSet
  <2>5. sets' \in Sets
    BY <2>3, <2>4 DEF Sets
  <2>6. outcome' = "none"
    BY <1>2 DEF R!RemoveSet
  <2> QED BY <2>5, <2>6 DEF RoomsInv, R!PreviewIsWhatIsCreated
<1>3. ASSUME R!Submit PROVE RoomsInv'
  <2>1. sets' = sets /\ sets \in Sets /\ R!Submittable(sets)
    BY <1>3 DEF R!Submit, RoomsInv
  <2>2. CASE R!SchemaAccepts(R!Posted(sets)) /\ R!BulkAccepted(R!Posted(sets))
    <3>1. outcome' = "created" /\ made' = R!CreateRoomsWithBeds(R!Posted(sets))
      BY <1>3, <2>2 DEF R!Submit
    <3>2. made' = R!Previewed(sets) /\ Cardinality(made') = R!TotalRooms(sets)
      BY <2>1, <2>2, <3>1, CreatedAsShown
    <3>3. R!PreviewIsWhatIsCreated'
      BY <2>1, <3>1, <3>2, RoomsCountAlike DEF R!PreviewIsWhatIsCreated
    <3> QED BY <2>1, <3>3 DEF RoomsInv
  <2>3. CASE ~(R!SchemaAccepts(R!Posted(sets)) /\ R!BulkAccepted(R!Posted(sets)))
    <3>1. outcome' = "refused"
      BY <1>3, <2>3 DEF R!Submit
    <3>2. R!Refusable(sets)
      BY <2>1, <2>3, RefusedForAReason
    <3>3. R!PreviewIsWhatIsCreated'
      BY <2>1, <3>1, <3>2 DEF R!PreviewIsWhatIsCreated
    <3> QED BY <2>1, <3>3 DEF RoomsInv
  <2> QED BY <2>2, <2>3
<1>4. CASE UNCHANGED R!vars
  BY <1>4 DEF R!vars, RoomsInv, R!PreviewIsWhatIsCreated
<1> QED BY <1>1, <1>2, <1>3, <1>4 DEF R!Next

(* "What the heading previews is what gets created", and what the form     *)
(* lets through is refused only for a floor, a number or a size out of     *)
(* range, too many sets or rooms, or a room that exists: however many sets *)
(* and rooms of whatever floors, typed and carried-on numbers.             *)
THEOREM WhatIsShownIsMade == Spec => []PreviewIsWhatIsCreated
<1>1. Init => RoomsInv
  BY EachStartsAlone, RoomsStart
<1>2. RoomsInv /\ [Next]_vars => RoomsInv'
  BY EachMovesAlone, RoomsStep
<1>3. RoomsInv => PreviewIsWhatIsCreated
  BY DEF RoomsInv, PreviewIsWhatIsCreated
<1> QED BY <1>1, <1>2, <1>3, PTL DEF Spec
=============================================================================
