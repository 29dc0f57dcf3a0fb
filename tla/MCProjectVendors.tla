-------------------------- MODULE MCProjectVendors --------------------------
(***************************************************************************)
(* Instances of ProjectVendors for TLC.                                    *)
(***************************************************************************)
EXTENDS ProjectVendors

CONSTANTS p1, p2, u1, u2, j1, j2, j3

Claimants == 3 :> u1

Owners == j1 :> u1 @@ j2 :> u2 @@ j3 :> u1

\* Requests are interchangeable.
Symmetry == Permutations(Calls)
=============================================================================
