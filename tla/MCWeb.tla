------------------------------- MODULE MCWeb -------------------------------
(***************************************************************************)
(* An instance of Web small enough for TLC.                                *)
(***************************************************************************)
EXTENDS Web, TLC

CONSTANTS m1, m2, b1, b2, b3

(* As many ids as can be in use at a time. *)
MCPhotoIds == 1..6

(* Floors that pass a hundred, mix with the ground floor and run below it, *)
(* numbers typed in and carried on, dormitories without a size.            *)
Set(floor, count, kind, first, size) ==
    [floor |-> floor, count |-> count, sharing |-> kind, first |-> first, size |-> size]

MCChoices ==
    {Set(f, c, "TRIPLE", n, None) : f \in {1, 11}, c \in {2, 60}, n \in {None, 104, 98}}
    \union {Set(f, 2, s, None, z) : f \in {0, -1, 1}, s \in {"DORMITORY", "DOUBLE"}, z \in {None, 8}}
    \union {Set(1, 0, "SINGLE", 150, None), Set(-1, 1, "QUAD", 200, None)}

MCExisting == {<<"", 105>>, <<"G", 3>>}

(* Two beds in one room, one in the other. *)
MCRoomOf == (b1 :> m1) @@ (b2 :> m1) @@ (b3 :> m2)

MCRates == {<<7000, 1>>, <<9000, 2>>}

(* Requests, calls, pages, passes are alike, and so are the kinds of room. *)
MCAlike == Permutations(Requests) \union Permutations(Sharings)
=============================================================================
