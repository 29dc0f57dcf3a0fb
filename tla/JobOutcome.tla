----------------------------- MODULE JobOutcome -----------------------------
(***************************************************************************)
(* What the extraction-attempt table promises about a model-training job,  *)
(* with leases, clocks, locks and processes left out: attempts are         *)
(* numbered without a gap and claim the job one at a time, an attempt that *)
(* holds the job either gives it up or finishes it, and a finished job is  *)
(* never claimed again.                                                    *)
(***************************************************************************)
EXTENDS Naturals

CONSTANTS
  Jobs,        \* job identifiers
  MaxAttempts  \* bound: attempts per job

VARIABLES
  tried,  \* tried[j]: the numbers of the attempts job j has had
  live,   \* live[j]: the number of the attempt that holds job j, as a set
  done    \* done[j]: an attempt of job j has been recorded as completed

jobVars == <<tried, live, done>>

Init ==
  /\ tried = [j \in Jobs |-> {}]
  /\ live = [j \in Jobs |-> {}]
  /\ done = [j \in Jobs |-> FALSE]

\* The attempts that hold the jobs of G fail or are abandoned.
GiveUp(G) ==
  /\ live' = [j \in Jobs |-> IF j \in G THEN {} ELSE live[j]]
  /\ UNCHANGED <<tried, done>>

\* Attempt n takes job j after the attempts that hold the jobs of G have given them up.
Claim(j, n, G) ==
  /\ ~done[j]
  /\ live[j] = {} \/ j \in G
  /\ tried[j] = 1..(n - 1)
  /\ tried' = [tried EXCEPT ![j] = 1..n]
  /\ live' = [i \in Jobs |-> IF i = j THEN {n} ELSE IF i \in G THEN {} ELSE live[i]]
  /\ UNCHANGED done

\* The attempt that holds job j finishes it.
Finish(j) ==
  /\ live[j] # {}
  /\ live' = [live EXCEPT ![j] = {}]
  /\ done' = [done EXCEPT ![j] = TRUE]
  /\ UNCHANGED tried

Next ==
  \/ \E G \in SUBSET Jobs : GiveUp(G)
  \/ \E j \in Jobs, n \in 1..MaxAttempts, G \in SUBSET Jobs : Claim(j, n, G)
  \/ \E j \in Jobs : Finish(j)

Spec == Init /\ [][Next]_jobVars
=============================================================================
