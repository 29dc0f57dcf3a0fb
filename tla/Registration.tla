---------------------------- MODULE Registration ----------------------------
(***************************************************************************)
(* What consent and cleanup promise about an account, with rows, locks and *)
(* transactions left out: a pending account is accepted or deleted, once   *)
(* and for ever, an account from before consent enforcement is never       *)
(* deleted, and what a caller was promised about an accepted account holds.*)
(***************************************************************************)
CONSTANT Users

VARIABLES
  stage,     \* stage[u]: "pending", "accepted" or "gone"
  legacy,    \* legacy[u]: u registered before consent enforcement started
  promised   \* users who were told that their choices are saved

accountVars == <<stage, legacy, promised>>

Init ==
  /\ stage \in [Users -> {"pending", "accepted"}]
  /\ legacy \in [Users -> BOOLEAN]
  /\ promised = {}

\* The user accepts and is told so.
Accept(u) ==
  /\ stage[u] = "pending"
  /\ stage' = [stage EXCEPT ![u] = "accepted"]
  /\ promised' = promised \cup {u}
  /\ UNCHANGED legacy

\* A later choice of an accepted user is saved.
Confirm(u) ==
  /\ stage[u] = "accepted"
  /\ promised' = promised \cup {u}
  /\ UNCHANGED <<stage, legacy>>

\* The cleanup deletes an account that never was accepted.
Delete(u) ==
  /\ stage[u] = "pending"
  /\ ~legacy[u]
  /\ stage' = [stage EXCEPT ![u] = "gone"]
  /\ UNCHANGED <<legacy, promised>>

Next == \E u \in Users : Accept(u) \/ Confirm(u) \/ Delete(u)

Spec == Init /\ [][Next]_accountVars
=============================================================================
