------------------------------- MODULE Forms -------------------------------
(***************************************************************************)
(* What comes of pressing a button of the web application more than once.  *)
(*                                                                         *)
(* Each form posts to a server action, which calls the API.  Whether a     *)
(* second press can go out, what the user is told when a call fails or its *)
(* answer is lost, whether the form is there again after that, what the    *)
(* API does with a request it has served already, and whether it may break *)
(* off with an error once it has written differ from form to form.  The    *)
(* user presses until told that it is done.                                *)
(***************************************************************************)
EXTENDS Integers, FiniteSets

CONSTANTS
    MaxPresses,     \* bound on the presses
    MaxMounts,      \* bound on the times the form is shown afresh
    MaxLosses       \* bound on the answers lost and the requests that break off

FormsAssumption == MaxPresses \in Nat /\ MaxMounts \in Nat \ {0} /\ MaxLosses \in Nat

VARIABLES
    form,       \* which form it is
    script,     \* JavaScript runs in the browser
    mount,      \* times the form was shown afresh
    screen,     \* the form, a message beside it, the error page, or done
    call,       \* of each press: its key, the action's part and the API's
    made,       \* how often what the form is for has been done
    losses

vars == <<form, script, mount, screen, call, made, losses>>

(***************************************************************************)
(* The forms: is the button disabled while an action is under way, and is  *)
(* the form on the page again once the thing is done?                      *)
(***************************************************************************)

BookForm           == [locks |-> TRUE,  again |-> TRUE]
PayForm            == [locks |-> TRUE,  again |-> TRUE]
SeatForm           == [locks |-> TRUE,  again |-> TRUE]
BulkRoomForm       == [locks |-> TRUE,  again |-> TRUE]
PropertyForm       == [locks |-> TRUE,  again |-> TRUE]
RoomForm           == [locks |-> TRUE,  again |-> TRUE]
AddMemberForm      == [locks |-> TRUE,  again |-> TRUE]
OrganisationForm   == [locks |-> TRUE,  again |-> FALSE]
ArchiveForm        == [locks |-> TRUE,  again |-> FALSE]
RemoveRoomForm     == [locks |-> TRUE,  again |-> FALSE]
DecisionForm       == [locks |-> TRUE,  again |-> FALSE]
CancelForm         == [locks |-> FALSE, again |-> FALSE]
CheckOutForm       == [locks |-> FALSE, again |-> FALSE]
PhotoForms         == [locks |-> FALSE, again |-> FALSE]
MemberForms        == [locks |-> FALSE, again |-> FALSE]

(* `busy' ends when the action has been queued, not when it is over.       *)
PhotoUploader      == [locks |-> FALSE, again |-> TRUE]

(***************************************************************************)
(* The actions: which failures become a message beside the form - all, the *)
(* refusals of the API, or none - and does success lead away from it?      *)
(***************************************************************************)

StartBooking       == [catches |-> "all",      leaves |-> TRUE]
RecordPayment      == [catches |-> "all",      leaves |-> TRUE]
SeatTenant         == [catches |-> "all",      leaves |-> TRUE]
BulkCreateRooms    == [catches |-> "all",      leaves |-> TRUE]
CreateProperty     == [catches |-> "all",      leaves |-> TRUE]
CreateOrganisation == [catches |-> "all",      leaves |-> TRUE]
UploadPhotos       == [catches |-> "all",      leaves |-> FALSE]
AddMember          == [catches |-> "all",      leaves |-> FALSE]
UpdateProperty     == [catches |-> "refusals", leaves |-> TRUE]
ArchiveProperty    == [catches |-> "refusals", leaves |-> TRUE]
UpdateRoom         == [catches |-> "refusals", leaves |-> TRUE]
RemoveRoom         == [catches |-> "refusals", leaves |-> TRUE]
ApproveBooking     == [catches |-> "refusals", leaves |-> FALSE]
RejectBooking      == [catches |-> "refusals", leaves |-> FALSE]
CancelBooking      == [catches |-> "none",     leaves |-> FALSE]
CheckOut           == [catches |-> "none",     leaves |-> FALSE]
DeletePhoto        == [catches |-> "none",     leaves |-> FALSE]
SetCoverPhoto      == [catches |-> "none",     leaves |-> FALSE]
SetPermission      == [catches |-> "none",     leaves |-> FALSE]
RemoveMember       == [catches |-> "none",     leaves |-> FALSE]

(***************************************************************************)
(* The API: is a request looked up before, what of writing twice, and is   *)
(* there more to do after the commit that may fail?                        *)
(*   key      the first request with the key answers for all of them       *)
(*   checked  refused once done;   name  the same, and the write adds one  *)
(*   row      a unique index or the exclusion constraint takes one only    *)
(*   state    the write leaves what the first one left                     *)
(*   more     each write adds one                                          *)
(* After holding the bed the order is made at the gateway and attached;    *)
(* elsewhere the rows are read again to be shown.                          *)
(***************************************************************************)

BookingIsKeyed       == [check |-> "key",     write |-> "keyed", after |-> TRUE]
BedIsTakenOnce       == [check |-> "none",    write |-> "row",   after |-> FALSE]
CodesAreTakenOnce    == [check |-> "checked", write |-> "row",   after |-> TRUE]
NameExistsForUser    == [check |-> "checked", write |-> "more",  after |-> FALSE]
PaymentIsAdded       == [check |-> "none",    write |-> "more",  after |-> TRUE]
PropertyIsAdded      == [check |-> "none",    write |-> "more",  after |-> FALSE]
PhotosAreAdded       == [check |-> "none",    write |-> "more",  after |-> FALSE]
MemberIsUpserted     == [check |-> "none",    write |-> "state", after |-> FALSE]
DetailsAreUpdated    == [check |-> "none",    write |-> "state", after |-> TRUE]
RowIsUpdated         == [check |-> "none",    write |-> "state", after |-> FALSE]
StatusIsChecked      == [check |-> "checked", write |-> "state", after |-> TRUE]
TenancyIsChecked     == [check |-> "checked", write |-> "state", after |-> FALSE]
RowMustBeThere       == [check |-> "checked", write |-> "state", after |-> FALSE]

Form ==
    [book         |-> [ui |-> BookForm,         action |-> StartBooking,       api |-> BookingIsKeyed],
     pay          |-> [ui |-> PayForm,          action |-> RecordPayment,      api |-> PaymentIsAdded],
     seat         |-> [ui |-> SeatForm,         action |-> SeatTenant,         api |-> BedIsTakenOnce],
     rooms        |-> [ui |-> BulkRoomForm,     action |-> BulkCreateRooms,    api |-> CodesAreTakenOnce],
     photos       |-> [ui |-> PhotoUploader,    action |-> UploadPhotos,       api |-> PhotosAreAdded],
     property     |-> [ui |-> PropertyForm,     action |-> CreateProperty,     api |-> PropertyIsAdded],
     organisation |-> [ui |-> OrganisationForm, action |-> CreateOrganisation, api |-> NameExistsForUser],
     member       |-> [ui |-> AddMemberForm,    action |-> AddMember,          api |-> MemberIsUpserted],
     edit         |-> [ui |-> PropertyForm,     action |-> UpdateProperty,     api |-> DetailsAreUpdated],
     room         |-> [ui |-> RoomForm,         action |-> UpdateRoom,         api |-> DetailsAreUpdated],
     archive      |-> [ui |-> ArchiveForm,      action |-> ArchiveProperty,    api |-> RowMustBeThere],
     removeRoom   |-> [ui |-> RemoveRoomForm,   action |-> RemoveRoom,         api |-> RowMustBeThere],
     approve      |-> [ui |-> DecisionForm,     action |-> ApproveBooking,     api |-> StatusIsChecked],
     reject       |-> [ui |-> DecisionForm,     action |-> RejectBooking,      api |-> StatusIsChecked],
     cancel       |-> [ui |-> CancelForm,       action |-> CancelBooking,      api |-> StatusIsChecked],
     checkout     |-> [ui |-> CheckOutForm,     action |-> CheckOut,           api |-> TenancyIsChecked],
     delete       |-> [ui |-> PhotoForms,       action |-> DeletePhoto,        api |-> RowMustBeThere],
     cover        |-> [ui |-> PhotoForms,       action |-> SetCoverPhoto,      api |-> RowIsUpdated],
     permission   |-> [ui |-> MemberForms,      action |-> SetPermission,      api |-> RowIsUpdated],
     remove       |-> [ui |-> MemberForms,      action |-> RemoveMember,       api |-> RowIsUpdated]]

UI == Form[form].ui
Action == Form[form].action
API == Form[form].api

(***************************************************************************)
(* In the browser                                                          *)
(***************************************************************************)

Presses == 1..MaxPresses
Unpressed == [key |-> 0, web |-> "unpressed", api |-> "none", saw |-> 0]

UnderWay(c) == call[c].web \in {"queued", "waits"}

(* Variant: the button is left alone. *)
AlwaysEnabled == TRUE

Enabled == script /\ UI.locks => \A c \in Presses : ~UnderWay(c)

(* Without JavaScript a second press drops the page that was to come; with *)
(* it the actions of a page go one after the other.                        *)
Press(c) ==
    /\ call[c] = Unpressed /\ \A d \in 1..(c - 1) : call[d] # Unpressed
    /\ screen \in {"form", "message"} /\ Enabled
    /\ call' = [d \in Presses |->
            IF d = c THEN [Unpressed EXCEPT !.key = mount, !.web = "queued"]
            ELSE IF ~script /\ UnderWay(d) THEN [call[d] EXCEPT !.web = "unseen"] ELSE call[d]]
    /\ UNCHANGED <<form, script, mount, screen, made, losses>>

(* What was queued and not sent is dropped. *)
ReloadedCall(d) ==
    IF call[d].web = "queued" THEN [call[d] EXCEPT !.web = "unseen", !.api = "refused"]
    ELSE IF call[d].web = "waits" THEN [call[d] EXCEPT !.web = "unseen"] ELSE call[d]

Reload ==
    /\ screen # "done" /\ mount < MaxMounts
    /\ mount' = mount + 1
    /\ screen' = IF made = 0 \/ UI.again THEN "form" ELSE "done"
    /\ call' = [d \in Presses |-> ReloadedCall(d)]
    /\ UNCHANGED <<form, script, made, losses>>

(* Once it led away from the form, what comes later is not shown; without  *)
(* JavaScript an answer is a form shown afresh.                            *)
Shows(s) ==
    /\ screen' = IF screen = "done" /\ Action.leaves THEN screen ELSE s
    /\ mount' = IF script THEN mount ELSE mount + 1

(***************************************************************************)
(* In the web server                                                       *)
(***************************************************************************)

Sends(c) ==
    /\ call[c].web = "queued"
    /\ script => \A d \in Presses : call[d].web # "waits"
    /\ call' = [call EXCEPT ![c].web = "waits", ![c].api = "check"]
    /\ UNCHANGED <<form, script, mount, screen, made, losses>>

(* The schema the action parses the form with turns it away. *)
Invalid(c) ==
    /\ call[c].web = "queued"
    /\ script => \A d \in Presses : call[d].web # "waits"
    /\ call' = [call EXCEPT ![c].web = "seen", ![c].api = "refused"]
    /\ Shows("message")
    /\ UNCHANGED <<form, script, made, losses>>

Refusal == IF Action.catches = "none" THEN "error" ELSE "message"

(* A request that broke off is answered with an error like one refused:    *)
(* "Something went wrong. Please try again."                               *)
Answers(c) ==
    /\ call[c].web = "waits" /\ call[c].api \in {"made", "given", "refused", "failed"}
    /\ call' = [call EXCEPT ![c].web = "seen"]
    /\ Shows(IF call[c].api \in {"made", "given"} THEN "done" ELSE Refusal)
    /\ UNCHANGED <<form, script, made, losses>>

(* The answer of the API does not reach the action, or the answer of the   *)
(* action does not reach the browser; the request may never have arrived.  *)
Loses(c) ==
    /\ call[c].web = "waits" /\ losses < MaxLosses
    /\ losses' = losses + 1
    /\ \E api \in {call[c].api} \union (IF call[c].api = "check" THEN {"refused"} ELSE {}) :
          call' = [call EXCEPT ![c].web = "unseen", ![c].api = api]
    /\ \E s \in {IF Action.catches = "all" THEN "message" ELSE "error", "error"} : Shows(s)
    /\ UNCHANGED <<form, script, made>>

(***************************************************************************)
(* In the API                                                              *)
(***************************************************************************)

(* Variant: nothing tells one request from another. *)
NoneBefore(c) == FALSE

(* Committed: with more to do, to the end, or broken off. *)
Wrote(c) == call[c].api \in {"after", "made", "failed"}

WithSameKey(c) == \E d \in Presses \ {c} : Wrote(d) /\ call[d].key = call[c].key

(* A request with a key that is taken is given the booking as it is, with  *)
(* an order or without.                                                    *)
Checks(c) ==
    /\ call[c].api = "check"
    /\ call' = [call EXCEPT ![c].saw = made, ![c].api =
            IF API.check = "key" /\ WithSameKey(c) THEN "given"
            ELSE IF API.check = "checked" /\ made > 0 THEN "refused"
            ELSE "write"]
    /\ UNCHANGED <<form, script, mount, screen, made, losses>>

(* For any other reason: nobody signed in, nothing of the kind. *)
Refuses(c) ==
    /\ call[c].api = "check"
    /\ call' = [call EXCEPT ![c].api = "refused"]
    /\ UNCHANGED <<form, script, mount, screen, made, losses>>

Writes(c) ==
    LET rule == API.write
        taken == (rule = "row" /\ made > 0) \/ (rule = "keyed" /\ WithSameKey(c)) IN
    /\ call[c].api = "write"
    /\ call' = [call EXCEPT ![c].api =
            IF taken THEN "refused" ELSE IF API.after THEN "after" ELSE "made"]
    /\ made' = IF taken \/ (rule = "state" /\ made > 0) THEN made ELSE made + 1
    /\ UNCHANGED <<form, script, mount, screen, losses>>

(* The order is made and attached, the rows are read. *)
GoesOn(c) ==
    /\ call[c].api = "after"
    /\ call' = [call EXCEPT ![c].api = "made"]
    /\ UNCHANGED <<form, script, mount, screen, made, losses>>

(* The gateway or the database fails; what is committed stays. *)
BreaksOff(c) ==
    /\ call[c].api = "after" /\ losses < MaxLosses
    /\ losses' = losses + 1
    /\ call' = [call EXCEPT ![c].api = "failed"]
    /\ UNCHANGED <<form, script, mount, screen, made>>

(***************************************************************************)
(* The system                                                              *)
(***************************************************************************)

(* Photos are chosen by script. *)
Init ==
    /\ form \in DOMAIN Form /\ script \in BOOLEAN /\ (form = "photos" => script)
    /\ mount = 1 /\ screen = "form"
    /\ call = [c \in Presses |-> Unpressed]
    /\ made = 0 /\ losses = 0

Next ==
    \/ Reload
    \/ \E c \in Presses :
          Press(c) \/ Sends(c) \/ Invalid(c) \/ Answers(c) \/ Loses(c)
            \/ Checks(c) \/ Refuses(c) \/ Writes(c) \/ GoesOn(c) \/ BreaksOff(c)

Spec == Init /\ [][Next]_vars

(***************************************************************************)
(* Properties                                                              *)
(***************************************************************************)

(* Somebody pressed and has not heard what came of it. *)
Unheard == \E c \in Presses : call[c].web = "unseen" /\ call[c].api # "refused"

(* The API failed a request after it had written. *)
BrokeOff == \E c \in Presses : call[c].api = "failed"

AtRest == \A c \in Presses : ~UnderWay(c)

WithoutSeeing(c, d) == c # d /\ call[c].saw = 0 /\ call[d].saw = 0

(* "Retrying a failed submit must not hold a second bed" (BookForm): only  *)
(* who did not hear of the first time, or was told of an error after the   *)
(* write, does a thing twice, and only where the API has nothing to tell   *)
(* the two apart: payments, buildings and photos; a booking from a form    *)
(* shown afresh; organisations of one name whose checks overlapped.        *)
(* Photos, whose picker is not locked, are added twice without that.       *)
NothingIsDoneTwice ==
    made > 1 =>
        /\ Unheard \/ BrokeOff \/ form = "photos"
        /\ \/ form \in {"pay", "property", "photos"}
           \/ form = "book" /\ \E c, d \in Presses :
                 Wrote(c) /\ Wrote(d) /\ call[c].key # call[d].key
           \/ form = "organisation" /\ \E c, d \in Presses :
                 Wrote(c) /\ Wrote(d) /\ WithoutSeeing(c, d)

(* "A double-tapped accept is a second call against a booking that has     *)
(* already moved on" (DecisionForm): who is left with a failure of         *)
(* something that was done has not heard of the first press, or pressed    *)
(* twice a button that is not disabled, or a request broke off after its   *)
(* write, as only those can that have more to do.                          *)
FailureMeansNotDone ==
    AtRest /\ screen \in {"message", "error"} /\ made > 0 =>
        Unheard \/ (script /\ ~UI.locks) \/ (BrokeOff /\ API.after)

(* What is said of a failure is that it "could not" be done, and to try    *)
(* again (AllExceptionsFilter).  Violated: the bed is held and the order   *)
(* fails, the payment is recorded and the invoices cannot be read.         *)
FailureIsBelieved ==
    AtRest /\ screen \in {"message", "error"} /\ made > 0 => Unheard \/ (script /\ ~UI.locks)

(* Who did "try again" when told to has done it once.  Violated where the  *)
(* payment was recorded before the error.                                  *)
TriedAgainIsDoneOnce == made > 1 => Unheard \/ form = "photos"

(* Who is led to the booking can pay for it: some request went on, or will *)
(* go on, to the order.  Violated: "A retried request returns the original *)
(* booking" (BookingService), which broke off before its order.            *)
BookedCanBePaid ==
    form = "book" /\ screen = "done" =>
        \E c \in Presses : call[c].api \in {"made", "check", "write", "after"}
=============================================================================
