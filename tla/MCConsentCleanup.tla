-------------------------- MODULE MCConsentCleanup --------------------------
(***************************************************************************)
(* Instances of ConsentCleanup for TLC.                                    *)
(***************************************************************************)
EXTENDS ConsentCleanup, TLC

CONSTANTS u1, u2, r1, r2, r3, c1, c2

\* Users, requests and cleaners are interchangeable.
Symmetry == Permutations(Users) \cup Permutations(Requests) \cup Permutations(Cleaners)

\* Fewer starts for the run with two users: nobody has chosen to opt in yet, and every
\* preference row was created by its user.
PlainStart == \A u \in Users : pref[u] # NoPreference => pref[u].owned /\ ~pref[u].optIn

LiveInit == Init /\ PlainStart

LiveSpec == LiveInit /\ [][Next]_vars /\ Fairness
=============================================================================
