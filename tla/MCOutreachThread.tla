-------------------------- MODULE MCOutreachThread --------------------------
(***************************************************************************)
(* Instances of OutreachThread for TLC.                                    *)
(***************************************************************************)
EXTENDS OutreachThread, TLC

CONSTANTS r1, r2, r3, s1, s2, v1, t1, t2

\* The mails of two requests begin with the same words.
LikeTexts == {<<r1, r2>>}

\* These two requests, deliveries and conversations are interchangeable.
Symmetry == Permutations({r1, r2}) \cup Permutations(Deliveries) \cup Permutations(Threads)
=============================================================================
