----------------------------- MODULE RateLimit -----------------------------
(***************************************************************************)
(* The fixed-window counters of app/services/rate_limit_service.ts, as     *)
(* utils/rate_limit_utils.ts applies them to the requests of one route     *)
(* that share a user, a project and an address.                            *)
(*                                                                         *)
(* The rules are enforced one after the other, each with one atomic        *)
(* statement that counts the request in the window of the time at which    *)
(* the first was reached.  A request that a later rule turns away stays    *)
(* counted by the earlier ones.  Processes have clocks of their own, so    *)
(* what one of them reads says nothing of what another has read before.    *)
(***************************************************************************)
EXTENDS Naturals, FiniteSets

CONSTANTS
  Requests,      \* requests of the route (bound)
  Rules,         \* how many rules the route has, 0 where limits are off
  Limit,         \* Limit[i]: the requests rule i lets through in a window
  Window,        \* Window[i]: the length of its windows
  MaxTime,       \* the clocks stop there (bound)
  MaxElsewhere   \* requests of other routes and users that share a bucket (bound)

ASSUME RulesAssumption ==
  Rules \in Nat /\ Limit \in [1..Rules -> Nat] /\ Window \in [1..Rules -> Nat \ {0}]

ASSUME TimeAssumption == MaxTime \in Nat /\ MaxElsewhere \in Nat

VARIABLES
  count,  \* count[i][w]: request_count of rule i in its window number w
  gate    \* gate[r]: when r was taken up, how many rules it has passed, and what came of it

rateVars == <<count, gate>>

Times    == 0..MaxTime
Verdicts == {"outside", "checking", "admitted", "rejected", "failed"}

\* windowStart, as the number of the window.
WindowOf(i, r) == gate[r].at \div Window[i]

\* The requests that rule i has let through in window w.
Passed(i, w) == {r \in Requests : gate[r].passed >= i /\ WindowOf(i, r) = w}

RateTypeOK ==
  /\ count \in [1..Rules -> [Times -> Nat]]
  /\ gate \in [Requests -> [at : Times, passed : 0..Rules, verdict : Verdicts]]

RateInit ==
  /\ count = [i \in 1..Rules |-> [w \in Times |-> 0]]
  /\ gate = [r \in Requests |-> [at |-> 0, passed |-> 0, verdict |-> "outside"]]

\* enforce: the time is taken once, for all the rules, from the clock of the process.
Arrive(r) ==
  /\ gate[r].verdict = "outside"
  /\ \E now \in Times :
       gate' = [gate EXCEPT ![r] = [at |-> now, passed |-> 0,
                                    verdict |-> IF Rules = 0 THEN "admitted" ELSE "checking"]]
  /\ UNCHANGED count

\* The row after INSERT ... ON CONFLICT DO UPDATE.
Counted(i, w) == [count EXCEPT ![i][w] = @ + 1]

\* enforceRule: count first, compare what came back.
Count(r) ==
  /\ gate[r].verdict = "checking"
  /\ LET i == gate[r].passed + 1
         w == WindowOf(i, r) IN
     /\ count' = Counted(i, w)
     /\ gate' = [gate EXCEPT ![r] =
          IF count'[i][w] <= Limit[i]
          THEN [@ EXCEPT !.passed = i, !.verdict = IF i = Rules THEN "admitted" ELSE "checking"]
          ELSE [@ EXCEPT !.verdict = "rejected"]]

\* The statement fails; the rules before it have counted.
CountFails(r) ==
  /\ gate[r].verdict = "checking"
  /\ gate' = [gate EXCEPT ![r].verdict = "failed"]
  /\ UNCHANGED count

\* A request of another page, route or user is counted in a bucket of rule i, at whatever time its
\* process has.
Elsewhere(i) ==
  /\ \E now \in Times :
       /\ count[i][now \div Window[i]] < MaxElsewhere
       /\ count' = Counted(i, now \div Window[i])
  /\ UNCHANGED gate
-----------------------------------------------------------------------------
(***************************************************************************)
(* Properties                                                              *)
(***************************************************************************)

\* However the requests interleave, and whatever the clocks of their processes say, no
\* rule lets more than its limit through in a window; and who is turned away by a rule finds its
\* limit spent in the window of its arrival.
LimitsHold ==
  /\ \A i \in 1..Rules, w \in Times : Cardinality(Passed(i, w)) <= Limit[i]
  /\ \A r \in Requests : gate[r].verdict = "rejected" =>
       LET i == gate[r].passed + 1 IN count[i][WindowOf(i, r)] > Limit[i]
=============================================================================
