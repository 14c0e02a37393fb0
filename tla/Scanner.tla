------------------------------ MODULE Scanner ------------------------------
(***************************************************************************)
(* The page at the desk that checks a tenant in: a camera that looks for   *)
(* the tenant's pass, and a field for the six digits below it.             *)
(*                                                                         *)
(* The camera is opened, and a code is sent, by functions that wait and go *)
(* on later.  Meanwhile buttons are pressed, frames are looked at and the  *)
(* page may be left.                                                       *)
(***************************************************************************)
EXTENDS Integers, FiniteSets

CONSTANTS
    Passes,     \* of tenants who come to the desk
    MaxOpens,   \* bound on the times the camera is opened
    MaxSends,   \* bound on the codes sent
    None

ScannerAssumption == IsFiniteSet(Passes) /\ MaxOpens \in Nat /\ MaxSends \in Nat /\ None \notin Passes

VARIABLES
    phase,      \* what the page is doing, as it believes
    result,     \* the pass on the card, once one was shown
    refs,       \* streamRef, frameRef, and the stream of the video element
    running,    \* streams whose tracks have not been stopped
    open,       \* of each call of startCamera: what it waits for
    loop,       \* calls whose tick is scheduled
    sent,       \* of each call of submit: the pass, how it was read, what came
    used,       \* passes redeemed
    mounted,    \* the page has not been left
    thrown      \* an action threw, or never came back

vars == <<phase, result, refs, running, open, loop, sent, used, mounted, thrown>>

(* A stream is known by the call that opened it. *)
Opens == 1..MaxOpens
Sends == 1..MaxSends

Unsent == [pass |-> None, by |-> "nobody", at |-> "unsent"]

UnderWay(s) == sent[s].at \in {"queued", "redeemed", "refused"}

(* The card takes the place of the video. *)
OnCard == phase = "done"

StopCamera ==
    /\ loop' = loop \ {refs.frame}
    /\ running' = running \ {refs.stream}

Unreferenced == [refs EXCEPT !.frame = None, !.stream = None]

(***************************************************************************)
(* Sending                                                                 *)
(***************************************************************************)

Submit(s, p, by) ==
    /\ sent[s] = Unsent /\ \A t \in 1..(s - 1) : sent[t] # Unsent
    /\ sent' = [sent EXCEPT ![s] = [pass |-> p, by |-> by, at |-> "queued"]]
    /\ phase' = "working"

(* The field is there, and its button works, also while the camera is open. *)
Types(s, p) ==
    /\ mounted /\ phase \in {"idle", "starting", "scanning"}
    /\ Submit(s, p, "hand")
    /\ UNCHANGED <<result, refs, running, open, loop, used, mounted, thrown>>

(* Actions of a page go one after the other.  A pass is redeemed once; a   *)
(* code may be refused for much else.                                      *)
Redeems(s) ==
    /\ sent[s].at = "queued" /\ \A t \in 1..(s - 1) : ~UnderWay(t)
    /\ \/ sent[s].pass \notin used /\ used' = used \union {sent[s].pass}
          /\ sent' = [sent EXCEPT ![s].at = "redeemed"]
       \/ sent' = [sent EXCEPT ![s].at = "refused"] /\ UNCHANGED used
    /\ UNCHANGED <<phase, result, refs, running, open, loop, mounted, thrown>>

(* Variant: a refusal is shown, and no more. *)
ErrorOnly == phase

AfterError == "idle"

ShowsError(s) ==
    /\ sent[s].at = "refused"
    /\ sent' = [sent EXCEPT ![s].at = "over"]
    /\ phase' = AfterError
    /\ UNCHANGED <<result, refs, running, open, loop, used, mounted, thrown>>

ShowsResult(s) ==
    /\ sent[s].at = "redeemed"
    /\ sent' = [sent EXCEPT ![s].at = "over"]
    /\ phase' = "done" /\ result' = sent[s].pass
    /\ StopCamera /\ refs' = [Unreferenced EXCEPT !.video = None]
    /\ UNCHANGED <<open, used, mounted, thrown>>

(* What is not a refusal of the API is thrown, and nobody catches it. *)
Throws(s) ==
    /\ UnderWay(s)
    /\ sent' = [sent EXCEPT ![s].at = "over"]
    /\ thrown' = TRUE
    /\ UNCHANGED <<phase, result, refs, running, open, loop, used, mounted>>

CheckSomeoneElseIn ==
    /\ mounted /\ OnCard
    /\ phase' = "idle" /\ result' = None
    /\ UNCHANGED <<refs, running, open, loop, sent, used, mounted, thrown>>

(***************************************************************************)
(* The camera                                                              *)
(***************************************************************************)

(* Without a camera to ask for the page is idle again at once. *)
StartCamera(o) ==
    /\ mounted /\ phase = "idle"
    /\ open[o] = "unopened" /\ \A n \in 1..(o - 1) : open[n] # "unopened"
    /\ \/ open' = [open EXCEPT ![o] = "asks"] /\ phase' = "starting"
       \/ open' = [open EXCEPT ![o] = "over"] /\ UNCHANGED phase
    /\ UNCHANGED <<result, refs, running, loop, sent, used, mounted, thrown>>

(* The camera is on from here, though there may be no video to show it.    *)
GetsStream(o) ==
    LET shown == mounted /\ ~OnCard IN
    /\ open[o] = "asks"
    /\ running' = running \union {o}
    /\ refs' = [refs EXCEPT !.stream = o, !.video = IF shown THEN o ELSE @]
    /\ open' = [open EXCEPT ![o] = IF shown THEN "plays" ELSE "over"]
    /\ UNCHANGED <<phase, result, loop, sent, used, mounted, thrown>>

Plays(o) ==
    /\ open[o] = "plays"
    /\ open' = [open EXCEPT ![o] = "over"]
    /\ phase' = "scanning"
    /\ loop' = loop \union {o} /\ refs' = [refs EXCEPT !.frame = o]
    /\ UNCHANGED <<result, running, sent, used, mounted, thrown>>

(* The camera is refused, or the video does not play. *)
CannotOpen(o) ==
    /\ open[o] \in {"asks", "plays"}
    /\ open' = [open EXCEPT ![o] = "over"]
    /\ phase' = "idle"
    /\ UNCHANGED <<result, refs, running, loop, sent, used, mounted, thrown>>

(* Nothing in the frame, or no frame, and it looks again. *)
Tick(o) ==
    /\ o \in loop
    /\ refs' = [refs EXCEPT !.frame = o]
    /\ UNCHANGED <<phase, result, running, open, loop, sent, used, mounted, thrown>>

(* The frame is of whatever stream the video has. *)
Finds(o, s, p) ==
    /\ o \in loop /\ mounted /\ ~OnCard /\ refs.video # None
    /\ Submit(s, p, "camera")
    /\ loop' = loop \ {o}
    /\ UNCHANGED <<result, refs, running, open, used, mounted, thrown>>

StopsCamera ==
    /\ mounted /\ phase = "scanning"
    /\ phase' = "idle"
    /\ StopCamera /\ refs' = Unreferenced
    /\ UNCHANGED <<result, open, sent, used, mounted, thrown>>

LeavesPage ==
    /\ mounted /\ mounted' = FALSE
    /\ StopCamera /\ refs' = [Unreferenced EXCEPT !.video = None]
    /\ UNCHANGED <<phase, result, open, sent, used, thrown>>

(***************************************************************************)
(* The system                                                              *)
(***************************************************************************)

Init ==
    /\ phase = "idle" /\ result = None
    /\ refs = [stream |-> None, frame |-> None, video |-> None]
    /\ running = {} /\ loop = {}
    /\ open = [o \in Opens |-> "unopened"]
    /\ sent = [s \in Sends |-> Unsent]
    /\ used = {} /\ mounted = TRUE /\ thrown = FALSE

Next ==
    \/ \E s \in Sends :
          \/ Redeems(s) \/ ShowsError(s) \/ ShowsResult(s) \/ Throws(s)
          \/ \E p \in Passes : Types(s, p) \/ \E o \in Opens : Finds(o, s, p)
    \/ \E o \in Opens : StartCamera(o) \/ GetsStream(o) \/ Plays(o) \/ CannotOpen(o) \/ Tick(o)
    \/ CheckSomeoneElseIn \/ StopsCamera \/ LeavesPage

Spec == Init /\ [][Next]_vars

(***************************************************************************)
(* Properties                                                              *)
(***************************************************************************)

Quiet == (\A s \in Sends : ~UnderWay(s)) /\ \A o \in Opens : open[o] \in {"unopened", "over"}

(* The buttons work again (submit, startCamera): once nothing is being     *)
(* sent and no camera opened, the page does not believe that it is, so     *)
(* that there is a button that can be pressed - unless an action threw -   *)
(* however typed codes, scans and cameras overtook each other.             *)
DeskIsFreeAgain == Quiet /\ mounted /\ ~thrown => phase \in {"idle", "scanning", "done"}

(* "A camera left running is a light on the front of someone's phone and a *)
(* flat battery by lunchtime" (CheckinScanner): when nothing is under way  *)
(* the camera is on only while the page is scanning.  It does not hold: a  *)
(* refused scan leaves it on, a code typed while it opens is answered      *)
(* before there is a stream to stop, and so is the page left.              *)
CameraIsStopped == Quiet /\ running # {} => mounted /\ phase = "scanning"
=============================================================================
