---------------------------- MODULE DraftOutcome ----------------------------
(***************************************************************************)
(* What the onboarding service promises about a draft, with rows, locks    *)
(* and requests left out: an open draft is closed, or made into one        *)
(* project, once and for ever, and a project a caller is told about is the *)
(* one some draft was made into.                                           *)
(***************************************************************************)
CONSTANTS Drafts, Projects

VARIABLES
  stage,     \* stage[d]: "absent", "open", "closed" or "made"
  madeInto,  \* madeInto[d]: the project made from d: a set of at most one project
  promised   \* projects some caller was told about

outcomeVars == <<stage, madeInto, promised>>

Init ==
  /\ stage \in [Drafts -> {"absent", "open"}]
  /\ madeInto = [d \in Drafts |-> {}]
  /\ promised = {}

Open(d) ==
  /\ stage[d] = "absent"
  /\ stage' = [stage EXCEPT ![d] = "open"]
  /\ UNCHANGED <<madeInto, promised>>

\* Drafts expire or give way to a newer one; one statement may close several.
Close(S) ==
  /\ \A d \in S : stage[d] = "open"
  /\ stage' = [d \in Drafts |-> IF d \in S THEN "closed" ELSE stage[d]]
  /\ UNCHANGED <<madeInto, promised>>

\* A new project is made from an open draft, and its user is sent to it.
Make(d, p) ==
  /\ stage[d] = "open"
  /\ \A e \in Drafts : p \notin madeInto[e]
  /\ stage' = [stage EXCEPT ![d] = "made"]
  /\ madeInto' = [madeInto EXCEPT ![d] = {p}]
  /\ promised' = promised \cup {p}

\* A user is sent to a project that exists.
Promise(d) ==
  /\ promised' = promised \cup madeInto[d]
  /\ UNCHANGED <<stage, madeInto>>

Next ==
  \/ \E d \in Drafts : Open(d) \/ Promise(d)
  \/ \E S \in SUBSET Drafts : Close(S)
  \/ \E d \in Drafts, p \in Projects : Make(d, p)

Spec == Init /\ [][Next]_outcomeVars
=============================================================================
