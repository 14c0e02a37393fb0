----------------------------- MODULE MCGuesses -----------------------------
(***************************************************************************)
(* An instance of Guesses small enough for TLC.                            *)
(***************************************************************************)
EXTENDS Guesses, TLC

CONSTANTS c1, c2, c3, ph, pg, k1, r1, r2

MCPhoneOf == [c \in Challenges |-> ph]
MCHomeOf == [k \in Passes |-> pg]

(* Codes are alike, and so are requests. *)
MCAlike == Permutations(Challenges) \union Permutations(Requests)
=============================================================================
