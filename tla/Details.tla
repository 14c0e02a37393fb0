------------------------------ MODULE Details ------------------------------
(***************************************************************************)
(* The particulars of a building, and the form they are entered and        *)
(* edited with.                                                            *)
(*                                                                         *)
(* The page fills the form from the row, the owner changes some fields and *)
(* leaves the others, the form is sent whole, and the API decides field by *)
(* field what of it to write.  Two pages may be open on one building.      *)
(***************************************************************************)
EXTENDS Integers, FiniteSets, Sequences

CONSTANTS
    Pages,          \* pages open on the building
    Words,          \* what may be entered in a field
    MaxEdits        \* bound on the fields changed

DetailsAssumption == MaxEdits \in Nat /\ IsFiniteSet(Pages)

VARIABLES
    row,    \* the property with its amenities, meal plan and rules
    page,   \* of each page: the row it was filled from, the form, what the owner changed
    edits

vars == <<row, page, edits>>

(* The name stands for all that is required: who can stay, type, address,  *)
(* area and pincode.                                                       *)
Fields == {"name", "landmark", "phone", "amenities", "meals", "charge", "gate"}

Blank == <<>>
NeverBlank == {"name", "meals"}
Entries == {Blank} \union {<<w>> : w \in Words}

(* Variant: a number that has its country code gets another one. *)
CodeInFront(number) == <<"+91">> \o number

NormalisePhone(number) == IF number[1] = "+91" THEN number ELSE <<"+91">> \o number

Normalised(f, v) == IF f = "phone" /\ v # Blank THEN NormalisePhone(v) ELSE v

(***************************************************************************)
(* The form                                                                *)
(***************************************************************************)

(* All fields start from the row but the charge for food, which starts     *)
(* empty.                                                                  *)
Defaults(r) == [r EXCEPT !["charge"] = Blank]

(* What the actions leave out of the request when it is blank; without a   *)
(* charge, food is said to be included in the rent.                        *)
LeftOutWhenBlank == {"landmark", "phone", "gate"}

Body(form) == [f \in {g \in Fields : form[g] # Blank \/ g \notin LeftOutWhenBlank} |-> form[f]]

Valid(form) == \A f \in NeverBlank : form[f] # Blank

(***************************************************************************)
(* The API                                                                 *)
(***************************************************************************)

CreatedRow(body) ==
    [f \in Fields |-> IF f \in DOMAIN body THEN Normalised(f, body[f]) ELSE Blank]

(* Variant: all that is sent is written. *)
UpdatedAll(r, body) ==
    [f \in Fields |-> IF f \in DOMAIN body THEN Normalised(f, body[f]) ELSE r[f]]

(* The meal plan and the rules are accepted and not written. *)
UpdatedRow(r, body) ==
    [f \in Fields |-> IF f \in DOMAIN body /\ f \notin {"meals", "charge", "gate"}
                      THEN Normalised(f, body[f]) ELSE r[f]]

(***************************************************************************)
(* Steps                                                                   *)
(***************************************************************************)

Nothing == [f \in Fields |-> Blank]
Closed == [at |-> "closed", seen |-> Nothing, form |-> Nothing, changed |-> {}]
Filled == [at |-> "open", seen |-> row, form |-> Defaults(row), changed |-> {}]

At(p, at) == page[p].at = at

Opens(p) ==
    /\ At(p, "closed")
    /\ page' = [page EXCEPT ![p] = Filled]
    /\ UNCHANGED <<row, edits>>

Enters(p, f, v) ==
    /\ At(p, "open") /\ edits < MaxEdits /\ v # page[p].form[f]
    /\ edits' = edits + 1
    /\ page' = [page EXCEPT ![p].form[f] = v, ![p].changed = @ \union {f}]
    /\ UNCHANGED row

(* A message beside the form, which starts from its defaults once more:    *)
(* so React does when the action of a form has run.                        *)
Resets(p) ==
    page' = [page EXCEPT ![p].at = "open", ![p].form = Defaults(page[p].seen), ![p].changed = {}]

Submits(p) ==
    /\ At(p, "open")
    /\ IF Valid(page[p].form) THEN page' = [page EXCEPT ![p].at = "sent"] ELSE Resets(p)
    /\ UNCHANGED <<row, edits>>

IsRefused(p) == At(p, "sent") /\ Resets(p) /\ UNCHANGED <<row, edits>>

Updates(p) ==
    /\ At(p, "sent")
    /\ row' = UpdatedRow(row, Body(page[p].form))
    /\ page' = [page EXCEPT ![p].at = "saved"]
    /\ UNCHANGED edits

(* Saving leads back to the building. *)
Leaves(p) ==
    /\ page[p].at \in {"open", "saved"}
    /\ page' = [page EXCEPT ![p] = Closed]
    /\ UNCHANGED <<row, edits>>

(* The building has been created, with whatever was entered.  The kitchen  *)
(* starts as vegetarian.                                                   *)
Init ==
    /\ \E form \in [Fields -> {Blank, <<CHOOSE w \in Words : TRUE>>}] :
          Valid(form) /\ row = CreatedRow(Body(form))
    /\ page = [p \in Pages |-> Closed]
    /\ edits = 0

Next ==
    \E p \in Pages :
        \/ Opens(p) \/ Submits(p) \/ IsRefused(p) \/ Updates(p) \/ Leaves(p)
        \/ \E f \in Fields, v \in Entries : Enters(p, f, v)

Spec == Init /\ [][Next]_vars

(***************************************************************************)
(* Properties                                                              *)
(***************************************************************************)

(* "One form serves both instead of two that drift apart" (PropertyForm):  *)
(* a save changes what its owner changed, and puts back what another page  *)
(* saved after this one was opened, and leaves all else as it was -        *)
(* although the form is sent whole and does not know all it sends.         *)
UntouchedSurvives ==
    [][\A p \in Pages, f \in Fields :
          At(p, "sent") /\ page'[p].at = "saved" /\ row'[f] # row[f] =>
              f \in page[p].changed \/ row[f] # page[p].seen[f]]_vars

(* "Changes show on your listing straight away" (EditPropertyPage), "a     *)
(* field added to CreatePropertyDto is automatically patchable"            *)
(* (UpdatePropertyDto): what the owner changed is what is stored once it   *)
(* was saved.                                                              *)
EditIsSaved ==
    [][\A p \in Pages : At(p, "sent") /\ page'[p].at = "saved" =>
          \A f \in page[p].changed : row'[f] = Normalised(f, page[p].form[f])]_vars
=============================================================================
