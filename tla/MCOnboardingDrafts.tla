------------------------- MODULE MCOnboardingDrafts -------------------------
(***************************************************************************)
(* Instances of OnboardingDrafts for TLC.                                  *)
(***************************************************************************)
EXTENDS OnboardingDrafts, TLC

CONSTANTS d1, d2, u1, u2, s1, s2, r1, r2, r3

\* Fewer starts: there is a draft d1, the others belong to users, and all have a selection.
MCInit ==
  /\ Init
  /\ status[d1] = "ACTIVE"
  /\ \A d \in Existing : selected[d] /\ (d # d1 => owner[d] \in Users)

MCSpec == MCInit /\ [][Next]_vars /\ Fairness
=============================================================================
