------------------------------ MODULE BedClaims ------------------------------
(***************************************************************************)
(* What the platform promises about beds, whoever asks for one: every      *)
(* claimant has at most one claim, on one bed, over one range of days; two *)
(* claims that hold the same bed never overlap; a claim that was paid for  *)
(* (a firm one) ends only by its own doing, and a claim that ended is      *)
(* never taken up again.  Only an unpaid claim can be swept out of another *)
(* claimant's way.  Booking implements this.                               *)
(***************************************************************************)
EXTENDS Naturals

CONSTANTS
    Claimants,      \* who may claim a bed: bookings
    Beds,
    Days,           \* the days a claim can start on
    Forever         \* the end of a claim nobody has given notice on

VARIABLE claim      \* claim[c]: the claim of c, before, while and after it holds

States == {"none", "held", "ended"}

Holds(c, bed) == claim[c].state = "held" /\ claim[c].bed = bed

Overlaps(c, bed, from, to) ==
    Holds(c, bed) /\ claim[c].from < to /\ from < claim[c].to

(* No claimant outside `but' has the bed on a day of from .. to - 1. *)
Clear(bed, from, to, but) ==
    \A c \in Claimants \ but : ~Overlaps(c, bed, from, to)

Soft(c) == claim[c].state = "held" /\ ~claim[c].firm

Ended(gone) ==
    [c \in Claimants |->
        IF c \in gone THEN [claim[c] EXCEPT !.state = "ended"] ELSE claim[c]]

Init == /\ DOMAIN claim = Claimants
        /\ \A c \in Claimants : claim[c].state = "none"

(* Take a bed, sweeping unpaid claims on it out of the way. *)
Take(c, bed, from, firm, gone) ==
    /\ claim[c].state = "none"
    /\ \A g \in gone : Soft(g) /\ Holds(g, bed)
    /\ Clear(bed, from, Forever, gone)
    /\ claim' = [Ended(gone) EXCEPT ![c] =
                    [state |-> "held", bed |-> bed, from |-> from,
                     to |-> Forever, firm |-> firm]]

Sweep(gone) ==
    /\ \A g \in gone : Soft(g)
    /\ claim' = Ended(gone)

MakeFirm(c) ==
    /\ Soft(c)
    /\ claim' = [claim EXCEPT ![c].firm = TRUE]

(* Let a firm claim end on another day, if the bed is clear until then. *)
EndOn(c, to) ==
    /\ claim[c].state = "held" /\ claim[c].firm
    /\ claim[c].from < to
    /\ Clear(claim[c].bed, claim[c].from, to, {c})
    /\ claim' = [claim EXCEPT ![c].to = to]

GiveUp(c) ==
    /\ claim[c].state = "held"
    /\ claim' = Ended({c})

Next ==
    \/ \E c \in Claimants, bed \in Beds, from \in Days, firm \in BOOLEAN,
          gone \in SUBSET Claimants : Take(c, bed, from, firm, gone)
    \/ \E gone \in SUBSET Claimants : Sweep(gone)
    \/ \E c \in Claimants : MakeFirm(c) \/ GiveUp(c)
    \/ \E c \in Claimants, to \in Days : EndOn(c, to)

Spec == Init /\ [][Next]_claim
=============================================================================
