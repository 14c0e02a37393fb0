----------------------------- MODULE MCBilling -----------------------------
(***************************************************************************)
(* Instances of Billing small enough for TLC.                              *)
(***************************************************************************)
EXTENDS Billing, TLC

CONSTANTS t1, p1

February == 12 * 2023 + 1
March == February + 1

(* A walk-in whose first period is a part-month, up to a billing day for   *)
(* which February is too short; and a tenant who came of a booking, whose  *)
(* rent falls due on the day they moved in.                                *)
MCWalkIns == {[start |-> On(February, 10), anchor |-> 31, rent |-> 3, online |-> FALSE]}
MCBooked == {[start |-> On(February, 10), anchor |-> 10, rent |-> 3, online |-> TRUE]}

(* The second day reaches, with the lookahead, into the third period.      *)
MCClock == <<On(February, 20), On(March, 30)>>

(* Within a period that was or was not invoiced when notice is given.      *)
MCLeavingDays == {On(March, 10)}

MCOneTenancy == (t1 :> p1)
=============================================================================
