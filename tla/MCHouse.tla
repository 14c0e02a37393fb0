------------------------------ MODULE MCHouse ------------------------------
(***************************************************************************)
(* An instance of House small enough for TLC.                              *)
(***************************************************************************)
EXTENDS House, TLC

CONSTANTS m1, b1, b2

MCRoomOf == [b \in Beds |-> m1]

MCAlike == UNION {Permutations(S) : S \in {Requests, Codes, Names, Beds}}
=============================================================================
