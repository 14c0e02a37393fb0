------------------------------ MODULE MCBooking ------------------------------
(***************************************************************************)
(* Instances of Booking small enough for TLC.                              *)
(***************************************************************************)
EXTENDS Board, TLC

CONSTANTS b1, b2, w1, k1, k2, r1, r2, j1

(* Three days are enough for a stay, one that follows it and a notice that *)
(* moves between them; 9 is later than every day.                          *)
MCDays == {1, 2}
MCOneDay == {1}
MCThreeDays == {1, 2, 3}
MCForever == 9

Event(id, type, b, payment, ok) ==
    [id |-> id, type |-> type, booking |-> b, payment |-> payment, amountOk |-> ok]

MCOneEvent == {Event("captured:2", "payment.captured", b1, "pay2", TRUE)}

(* A first attempt that fails and a second that is captured. *)
MCTwoEvents == MCOneEvent \union {Event("failed:1", "payment.failed", b1, "pay1", TRUE)}

(* The same, and the second is announced under another event id too. *)
MCEvents == MCTwoEvents \union {Event("captured:2'", "payment.captured", b1, "pay2", TRUE)}

(* Every kind of notification. *)
MCAllEvents ==
    MCEvents \union {Event("short:3", "payment.captured", b1, "pay3", FALSE),
                     Event("auth:2", "other", b1, "pay2", TRUE)}

(* Requests in different slots differ in nothing else. *)
SlotSymmetry == Permutations({r1, r2})
=============================================================================
