---------------------------- MODULE MCAuthority ----------------------------
(***************************************************************************)
(* Small instance of Authority for TLC: two versions, the second without   *)
(* the target that requests ask for.                                       *)
(***************************************************************************)
EXTENDS Authority, TLC

CONSTANTS c1, c2, x, d1, d2, j1, j2

Shrinking == 1 :> {x} @@ 2 :> {}

Requests == d1 :> [targets |-> {x}, watch |-> FALSE]
            @@ d2 :> [targets |-> {x}, watch |-> TRUE]

\* Token ids are interchangeable.
Symmetry == Permutations(Token)
=============================================================================
