-------------------------------- MODULE Web --------------------------------
(***************************************************************************)
(* The screens of the web application and what is behind them, side by     *)
(* side.  The machines share no state in the model, so a behaviour is one  *)
(* of them, chosen at the start, while the others rest.                    *)
(***************************************************************************)
EXTENDS Integers, FiniteSets, Sequences

CONSTANTS
    None,
    Requests, PhotoIds, MaxPhotos, MaxBatch, MaxFailures,           \* Gallery
    MaxRows, MaxMoves, Positions,                                   \* PhotoOrder
    Calls, MaxTokens, MaxCuts,                                      \* WebSession
    Choices, MaxSets, MaxRoomsPerBulk, Existing,                    \* RoomNumbers
    MaxPresses, MaxMounts, MaxLosses,                               \* Forms
    Pages, Words, MaxEdits,                                         \* Details
    Rooms, Beds, RoomOf, Sharings, Rates, Overrides, Days, Forever, \* Offer
    Fee, CommissionBps, MaxChanges,
    Passes, MaxOpens, MaxSends                                      \* Scanner

VARIABLES screen,
    rows, objects, galleryWork, galleryFailures,
    photos, clock, upload, moves,
    jar, session, valid, call, disturbed, cuts,
    sets, made, outcome,
    form, script, mount, shows, press, done, losses,
    row, page, edits,
    sharing, rate, override, claim, freePeriod, copy, choice, walk, bill, changes, outdated,
    phase, result, refs, running, open, loop, sent, used, mounted, thrown

G == INSTANCE Gallery WITH
        Photos <- PhotoIds, work <- galleryWork, failures <- galleryFailures

P == INSTANCE PhotoOrder WITH MaxPhotos <- MaxRows

W == INSTANCE WebSession WITH MaxFailures <- MaxCuts, row <- session, failures <- cuts

R == INSTANCE RoomNumbers WITH Blank <- None, form <- sets

F == INSTANCE Forms WITH screen <- shows, call <- press, made <- done

D == INSTANCE Details

O == INSTANCE Offer WITH form <- choice, disturbed <- outdated

C == INSTANCE Scanner

ASSUME WebAssumption ==
    /\ G!GalleryAssumption /\ P!OrderAssumption /\ W!SessionAssumption
    /\ R!RoomsAssumption /\ F!FormsAssumption /\ D!DetailsAssumption /\ O!OfferAssumption
    /\ C!ScannerAssumption

(***************************************************************************)
(* One screen at a time                                                    *)
(***************************************************************************)

galleryVars == <<rows, objects, galleryWork, galleryFailures>>
orderVars == <<photos, clock, upload, moves>>
sessionVars == <<jar, session, valid, call, disturbed, cuts>>
numbersVars == <<sets, made, outcome>>
formsVars == <<form, script, mount, shows, press, done, losses>>
detailsVars == <<row, page, edits>>
offerVars == <<sharing, rate, override, claim, freePeriod, copy, choice, walk, bill, changes, outdated>>
deskVars == <<phase, result, refs, running, open, loop, sent, used, mounted, thrown>>

vars == <<screen, galleryVars, orderVars, sessionVars, numbersVars, formsVars, detailsVars,
          offerVars, deskVars>>

Screens == {"gallery", "order", "session", "numbers", "forms", "details", "offer", "desk"}

(* Where there are several, one initial state will do for those that rest. *)
FormsRest == form = "book" /\ script = TRUE /\ F!Init
DetailsRest == D!Init /\ \A f \in D!Fields \ D!NeverBlank : row[f] = D!Blank

OfferRests ==
    /\ sharing = [r \in Rooms |-> CHOOSE s \in Sharings : TRUE]
    /\ rate = [r \in Rooms |-> CHOOSE p \in Rates : TRUE]
    /\ override = [b \in Beds |-> CHOOSE rent \in Overrides : TRUE]
    /\ claim = [b \in Beds |-> None] /\ freePeriod = TRUE
    /\ O!Init

Init ==
    /\ screen \in Screens
    /\ G!Init /\ P!Init /\ W!Init /\ R!Init /\ C!Init
    /\ IF screen = "forms" THEN F!Init ELSE FormsRest
    /\ IF screen = "details" THEN D!Init ELSE DetailsRest
    /\ IF screen = "offer" THEN O!Init ELSE OfferRests

Gallery ==
    /\ screen = "gallery" /\ G!Next
    /\ UNCHANGED <<screen, orderVars, sessionVars, numbersVars, formsVars, detailsVars, offerVars, deskVars>>

Order ==
    /\ screen = "order" /\ P!Next
    /\ UNCHANGED <<screen, galleryVars, sessionVars, numbersVars, formsVars, detailsVars, offerVars, deskVars>>

Session ==
    /\ screen = "session" /\ W!Next
    /\ UNCHANGED <<screen, galleryVars, orderVars, numbersVars, formsVars, detailsVars, offerVars, deskVars>>

Numbers ==
    /\ screen = "numbers" /\ R!Next
    /\ UNCHANGED <<screen, galleryVars, orderVars, sessionVars, formsVars, detailsVars, offerVars, deskVars>>

Presses ==
    /\ screen = "forms" /\ F!Next
    /\ UNCHANGED <<screen, galleryVars, orderVars, sessionVars, numbersVars, detailsVars, offerVars, deskVars>>

Details ==
    /\ screen = "details" /\ D!Next
    /\ UNCHANGED <<screen, galleryVars, orderVars, sessionVars, numbersVars, formsVars, offerVars, deskVars>>

Offer ==
    /\ screen = "offer" /\ O!Next
    /\ UNCHANGED <<screen, galleryVars, orderVars, sessionVars, numbersVars, formsVars, detailsVars, deskVars>>

Desk ==
    /\ screen = "desk" /\ C!Next
    /\ UNCHANGED <<screen, galleryVars, orderVars, sessionVars, numbersVars, formsVars, detailsVars, offerVars>>

Next == Gallery \/ Order \/ Session \/ Numbers \/ Presses \/ Details \/ Offer \/ Desk

Spec == Init /\ [][Next]_vars

(***************************************************************************)
(* Properties, stated where the modules are                                *)
(***************************************************************************)

(* A row names what is stored: see Gallery. *)
RowHasItsObjects == G!RowHasItsObjects

(* What is stored has a row, or a request at work, or a failure behind it: *)
(* see Gallery.                                                            *)
NothingIsLeftBehind == G!NothingIsLeftBehind

(* A new photo is behind those its upload found: see PhotoOrder. *)
LandsBehind == P!LandsBehind

(* A refresh with none beside it keeps the browser signed in: see          *)
(* WebSession.                                                             *)
SoleRefreshKeepsSession == W!SoleRefreshKeepsSession

(* The rooms shown are the rooms created: see RoomNumbers. *)
PreviewIsWhatIsCreated == R!PreviewIsWhatIsCreated

(* Only an unheard answer, or an error after the write, makes a thing      *)
(* happen twice: see Forms.                                                *)
NothingIsDoneTwice == F!NothingIsDoneTwice

(* Who is told of a failure may believe it, but for lost answers, double   *)
(* taps and requests that broke off: see Forms.                            *)
FailureMeansNotDone == F!FailureMeansNotDone

(* A save leaves alone what was left alone: see Details. *)
UntouchedSurvives == D!UntouchedSurvives

(* What was offered can be booked, for what was shown or more: see Offer. *)
OfferIsKept == O!OfferIsKept

(* The desk can go on when nothing is under way: see Scanner. *)
DeskIsFreeAgain == C!DeskIsFreeAgain

(* What the code does otherwise than it says: see WebSession, PhotoOrder,  *)
(* Details, Offer, Scanner and Forms.                                      *)
StaysSignedIn == W!StaysSignedIn
ChosenIsCover == P!ChosenIsCover
EditIsSaved == D!EditIsSaved
ShownIsCharged == O!ShownIsCharged
CheapestIsHeld == O!CheapestIsHeld
CameraIsStopped == C!CameraIsStopped
FailureIsBelieved == F!FailureIsBelieved
TriedAgainIsDoneOnce == F!TriedAgainIsDoneOnce
BookedCanBePaid == F!BookedCanBePaid
=============================================================================
