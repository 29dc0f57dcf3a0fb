----------------------------- MODULE MCEmailSync -----------------------------
(***************************************************************************)
(* Instances of EmailSync for TLC.                                         *)
(***************************************************************************)
EXTENDS EmailSync, TLC

CONSTANTS w1, w2

\* Workers are interchangeable.
Symmetry == Permutations(Workers)
=============================================================================
