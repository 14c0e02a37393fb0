------------------------------ MODULE MCAccess ------------------------------
(***************************************************************************)
(* An instance of Access small enough for TLC.                             *)
(***************************************************************************)
EXTENDS Access, TLC

CONSTANTS o1, o2, sa, p1

MCPlatformRole == (o1 :> "NONE") @@ (o2 :> "NONE") @@ (sa :> "SUPER_ADMIN")

(* Tokens are alike, and so are requests and the two owners. *)
MCAlike == Permutations(Sessions) \union Permutations(Requests) \union Permutations({o1, o2})
=============================================================================
