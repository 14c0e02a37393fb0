---------------------------- MODULE MCSettlement ----------------------------
(***************************************************************************)
(* Instances of Settlement small enough for TLC.                           *)
(***************************************************************************)
EXTENDS Settlement, TLC

CONSTANTS b1, b2

BookingSymmetry == Permutations({b1, b2})
=============================================================================
