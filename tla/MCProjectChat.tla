--------------------------- MODULE MCProjectChat ---------------------------
(***************************************************************************)
(* Instances of ProjectChat for TLC.                                       *)
(***************************************************************************)
EXTENDS ProjectChat, TLC

CONSTANTS r1, r2, r3, p1, p2

Symmetry == Permutations(Requests) \cup Permutations(Pages)
=============================================================================
