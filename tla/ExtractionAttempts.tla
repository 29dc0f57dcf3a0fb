------------------------- MODULE ExtractionAttempts -------------------------
(***************************************************************************)
(* Model-training extraction jobs: app/services/                           *)
(* model_training_eligibility_service.ts.                                  *)
(*                                                                         *)
(* A worker that runs a job inserts a numbered audit row (an attempt) that *)
(* carries a lease, renews the lease from a heartbeat while the extraction *)
(* callback runs in a repeatable-read transaction, and records the result  *)
(* only if it still holds the lease.  Expired attempts are abandoned by    *)
(* whoever starts another job and by a reconciler.  Processes crash, the   *)
(* clock moves at any point, and a statement compares the lease with a     *)
(* time the process bound before the statement ran.                        *)
(***************************************************************************)
EXTENDS Integers, FiniteSets

CONSTANTS
  Jobs,         \* job identifiers
  Workers,      \* concurrent calls of runExtraction, in any process
  Users,        \* users with a consent preference row
  NoAttempt,    \* the attempt of a worker that runs nothing
  MaxAttempts,  \* bound: attempts per job
  Lease,        \* MODEL_TRAINING_EXTRACTION_LEASE_SECONDS, in ticks
  MaxTime,      \* bound: no lease reaches past this time
  MaxUpdates    \* bound: preference changes per user

ASSUME BoundsAssumption ==
  /\ MaxAttempts \in Nat \ {0}
  /\ Lease \in Nat \ {0}
  /\ MaxTime \in Nat
  /\ MaxUpdates \in Nat

Attempts == Jobs \X (1..MaxAttempts)

ASSUME NoAttemptAssumption == NoAttempt \notin Jobs \X Nat

VARIABLES
  now,        \* the time
  status,     \* status[a]: the audit row's status, "ABSENT" when there is no row
  leaseEnd,   \* leaseEnd[a]: lease_expires_at, 0 for NULL
  snapshot,   \* snapshot[a]: <<user, preference version>> rows recorded with the attempt
  optIn,      \* optIn[u]: terms accepted and model_training_opt_in
  version,    \* version[u]: which change of the preference is current (its updated_at)
  pc,         \* pc[w]: where worker w is in runExtraction
  attempt,    \* attempt[w]: the attempt w runs; its number is 0 until w has computed it
  stamp,      \* stamp[w]: the earliest time w's next timestamp can carry
  reclaimed,  \* reclaimed[w]: rows w's open transaction has set to ABANDONED and locks
  reads,      \* reads[w]: what w's repeatable-read transaction releases to the callback
  delivered   \* attempts whose result runExtraction has returned to its caller

dbVars     == <<status, leaseEnd, snapshot>>
prefVars   == <<optIn, version>>
workerVars == <<pc, attempt, stamp, reclaimed, reads>>
vars       == <<now, dbVars, prefVars, workerVars, delivered>>

Statuses == {"ABSENT", "STARTED", "COMPLETED", "FAILED", "ABANDONED"}
Terminal == {"COMPLETED", "FAILED", "ABANDONED"}

\* Inside the transaction that holds the job's advisory lock.
Starting == {"checking", "inserting"}
\* With a committed audit row of its own.
Running == {"claimed", "opening", "extracting", "completing", "failing", "lost", "returning"}

-----------------------------------------------------------------------------
(***************************************************************************)
(* What the statements see.                                                *)
(***************************************************************************)

JobOf(w) == attempt[w][1]

\* pg_advisory_xact_lock(hashtext(job)) is held until the starting transaction ends.
LockHolders(j) == {w \in Workers : pc[w] \in Starting /\ JobOf(w) = j}

\* Rows no other transaction has updated without committing.
RowsFree(R) == \A w \in Workers : reclaimed[w] \cap R = {}

\* Mutant of Expired: the comparison is the wrong way round.
ExpiredBackwards(t) == {a \in Attempts : status[a] = "STARTED" /\ leaseEnd[a] > t}

\* The rows abandonExpiredAttempts updates when its bound time is t.
Expired(t) == {a \in Attempts : status[a] = "STARTED" /\ leaseEnd[a] <= t}

\* The condition of renewAttemptLease and completeAttempt at bound time t.
HoldsLease(a, t) == status[a] = "STARTED" /\ leaseEnd[a] > t

\* n is one more than the highest attempt number of job j.
IsNextNumber(j, n) ==
  /\ \A m \in n..MaxAttempts : status[<<j, m>>] = "ABSENT"
  /\ n > 1 => status[<<j, n - 1>>] # "ABSENT"

\* Mutant of Refused: a live attempt does not count.
RefusedIfCompleted(j, R) == \E a \in Attempts \ R : a[1] = j /\ status[a] = "COMPLETED"

\* The starting transaction refuses job j after abandoning the rows of R.
Refused(j, R) ==
  \E a \in Attempts \ R : a[1] = j /\ status[a] \in {"COMPLETED", "STARTED"}

\* model_training_eligible_users, with the version each preference has now.
EligibleUsers == {<<u, version[u]>> : u \in {x \in Users : optIn[x]}}

\* Mutant of ReadableUsers: the source views do not join the attempt's snapshot.
ReadableEligible(a) == EligibleUsers

\* The rows of the source views: users eligible now that the attempt's snapshot names.
ReadableUsers(a) == {e \in EligibleUsers : \E s \in snapshot[a] : s[1] = e[1]}

Abandon(R) ==
  /\ status' = [a \in Attempts |-> IF a \in R THEN "ABANDONED" ELSE status[a]]
  /\ leaseEnd' = [a \in Attempts |-> IF a \in R THEN 0 ELSE leaseEnd[a]]

Goto(w, l) == pc' = [pc EXCEPT ![w] = l]

\* The call of worker w is over, whatever it had open is rolled back.
Leave(w) ==
  /\ Goto(w, "idle")
  /\ attempt' = [attempt EXCEPT ![w] = NoAttempt]
  /\ stamp' = [stamp EXCEPT ![w] = 0]
  /\ reclaimed' = [reclaimed EXCEPT ![w] = {}]
  /\ reads' = [reads EXCEPT ![w] = {}]

\* Worker w goes on at label l and binds its next timestamp from now on.
Proceed(w, l) ==
  /\ Goto(w, l)
  /\ stamp' = [stamp EXCEPT ![w] = now]
-----------------------------------------------------------------------------
Init ==
  /\ now = 0
  /\ status = [a \in Attempts |-> "ABSENT"]
  /\ leaseEnd = [a \in Attempts |-> 0]
  /\ snapshot = [a \in Attempts |-> {}]
  /\ optIn \in [Users -> BOOLEAN]
  /\ version = [u \in Users |-> 0]
  /\ pc = [w \in Workers |-> "idle"]
  /\ attempt = [w \in Workers |-> NoAttempt]
  /\ stamp = [w \in Workers |-> 0]
  /\ reclaimed = [w \in Workers |-> {}]
  /\ reads = [w \in Workers |-> {}]
  /\ delivered = {}

Tick ==
  /\ now < MaxTime
  /\ now' = now + 1
  /\ UNCHANGED <<dbVars, prefVars, workerVars, delivered>>

\* completeOnboarding and updateModelTrainingPreference, as the extraction sees them.
ChangePreference(u) ==
  /\ version[u] < MaxUpdates
  /\ optIn' = [optIn EXCEPT ![u] = ~@]
  /\ version' = [version EXCEPT ![u] = @ + 1]
  /\ UNCHANGED <<now, dbVars, workerVars, delivered>>

-----------------------------------------------------------------------------
(***************************************************************************)
(* The transaction that starts an attempt.                                 *)
(***************************************************************************)

Submit(w, j) ==
  /\ pc[w] = "idle"
  /\ Goto(w, "locking")
  /\ attempt' = [attempt EXCEPT ![w] = <<j, 0>>]
  /\ UNCHANGED <<now, dbVars, prefVars, stamp, reclaimed, reads, delivered>>

TakeJobLock(w) ==
  /\ pc[w] = "locking"
  /\ LockHolders(JobOf(w)) = {}
  /\ Proceed(w, "checking")
  /\ UNCHANGED <<now, dbVars, prefVars, attempt, reclaimed, reads, delivered>>

\* The job is completed or has a live attempt: throw, which rolls the abandonment back.
RefuseJob(w) ==
  /\ pc[w] = "checking"
  /\ \E t \in stamp[w]..now : RowsFree(Expired(t)) /\ Refused(JobOf(w), Expired(t))
  /\ Leave(w)
  /\ UNCHANGED <<now, dbVars, prefVars, delivered>>

\* Abandon what has expired and number the attempt; nothing is committed yet.
ReclaimExpired(w) ==
  /\ pc[w] = "checking"
  /\ \E t \in stamp[w]..now, n \in 1..MaxAttempts :
       /\ t + Lease <= MaxTime
       /\ RowsFree(Expired(t))
       /\ ~Refused(JobOf(w), Expired(t))
       /\ IsNextNumber(JobOf(w), n)
       /\ reclaimed' = [reclaimed EXCEPT ![w] = Expired(t)]
       /\ attempt' = [attempt EXCEPT ![w] = <<JobOf(w), n>>]
       /\ stamp' = [stamp EXCEPT ![w] = t]
  /\ Goto(w, "inserting")
  /\ UNCHANGED <<now, dbVars, prefVars, reads, delivered>>

\* Insert the audit row with the eligible users, read FOR SHARE, and commit.
InsertAttempt(w) ==
  LET a == attempt[w] IN
  /\ pc[w] = "inserting"
  /\ status[a] = "ABSENT"
  /\ status' = [b \in Attempts |-> IF b = a THEN "STARTED"
                                   ELSE IF b \in reclaimed[w] THEN "ABANDONED"
                                   ELSE status[b]]
  /\ leaseEnd' = [b \in Attempts |-> IF b = a THEN stamp[w] + Lease
                                     ELSE IF b \in reclaimed[w] THEN 0
                                     ELSE leaseEnd[b]]
  /\ snapshot' = [snapshot EXCEPT ![a] = EligibleUsers]
  /\ reclaimed' = [reclaimed EXCEPT ![w] = {}]
  /\ Proceed(w, "claimed")
  /\ UNCHANGED <<now, prefVars, attempt, reads, delivered>>

-----------------------------------------------------------------------------
(***************************************************************************)
(* The lease, the extraction transaction and its end.                      *)
(***************************************************************************)

\* renewAttemptLease at bound time t, when its UPDATE finds the row.
Renew(w, t) ==
  /\ RowsFree({attempt[w]})
  /\ HoldsLease(attempt[w], t)
  /\ t + Lease <= MaxTime
  /\ leaseEnd' = [leaseEnd EXCEPT ![attempt[w]] = t + Lease]

ConfirmLease(w) ==
  /\ pc[w] = "claimed"
  /\ \E t \in stamp[w]..now : Renew(w, t)
  /\ Proceed(w, "opening")
  /\ UNCHANGED <<now, status, snapshot, prefVars, attempt, reclaimed, reads, delivered>>

\* The first renewal finds no row to update.
ConfirmLost(w) ==
  /\ pc[w] = "claimed"
  /\ RowsFree({attempt[w]})
  /\ \E t \in stamp[w]..now : ~HoldsLease(attempt[w], t)
  /\ Proceed(w, "lost")
  /\ UNCHANGED <<now, dbVars, prefVars, attempt, reclaimed, reads, delivered>>

\* A heartbeat that finds its row; one that fails or finds none changes nothing.
Heartbeat(w) ==
  /\ pc[w] \in {"opening", "extracting"}
  /\ \E t \in stamp[w]..now : Renew(w, t)
  /\ Proceed(w, pc[w])
  /\ UNCHANGED <<now, status, snapshot, prefVars, attempt, reclaimed, reads, delivered>>

\* The first query of the repeatable-read transaction fixes what all later ones see.
OpenSnapshot(w) ==
  /\ pc[w] = "opening"
  /\ status[attempt[w]] = "STARTED"
  /\ reads' = [reads EXCEPT ![w] = ReadableUsers(attempt[w])]
  /\ Goto(w, "extracting")
  /\ UNCHANGED <<now, dbVars, prefVars, attempt, stamp, reclaimed, delivered>>

\* The audit is not STARTED any more, a query fails or the callback throws.
ExtractionThrows(w) ==
  /\ pc[w] \in {"opening", "extracting"}
  /\ Proceed(w, "failing")
  /\ UNCHANGED <<now, dbVars, prefVars, attempt, reclaimed, reads, delivered>>

CallbackReturns(w) ==
  /\ pc[w] = "extracting"
  /\ Proceed(w, "completing")
  /\ UNCHANGED <<now, dbVars, prefVars, attempt, reclaimed, reads, delivered>>

\* Mutants of MarkAttemptFailed: the lease survives; the status is not looked at.
MarkFailedKeepingLease(w) ==
  LET a == attempt[w] IN
  /\ pc[w] = "failing"
  /\ RowsFree({a})
  /\ status' = [status EXCEPT ![a] = IF @ = "STARTED" THEN "FAILED" ELSE @]
  /\ Leave(w)
  /\ UNCHANGED <<now, leaseEnd, snapshot, prefVars, delivered>>

MarkFailedAnyway(w) ==
  LET a == attempt[w] IN
  /\ pc[w] = "failing"
  /\ RowsFree({a})
  /\ status' = [status EXCEPT ![a] = "FAILED"]
  /\ leaseEnd' = [leaseEnd EXCEPT ![a] = 0]
  /\ Leave(w)
  /\ UNCHANGED <<now, snapshot, prefVars, delivered>>

\* markAttemptFailed does not look at the lease, only at the status.
MarkAttemptFailed(w) ==
  LET a == attempt[w] IN
  /\ pc[w] = "failing"
  /\ RowsFree({a})
  /\ IF status[a] = "STARTED"
       THEN /\ status' = [status EXCEPT ![a] = "FAILED"]
            /\ leaseEnd' = [leaseEnd EXCEPT ![a] = 0]
       ELSE UNCHANGED <<status, leaseEnd>>
  /\ Leave(w)
  /\ UNCHANGED <<now, snapshot, prefVars, delivered>>

\* Mutant of CompleteAttempt: the UPDATE has no WHERE on status and lease.
CompleteAnyway(w) ==
  LET a == attempt[w] IN
  /\ pc[w] = "completing"
  /\ RowsFree({a})
  /\ status' = [status EXCEPT ![a] = "COMPLETED"]
  /\ leaseEnd' = [leaseEnd EXCEPT ![a] = 0]
  /\ Proceed(w, "returning")
  /\ UNCHANGED <<now, snapshot, prefVars, attempt, reclaimed, reads, delivered>>

CompleteAttempt(w) ==
  LET a == attempt[w] IN
  /\ pc[w] = "completing"
  /\ RowsFree({a})
  /\ \E t \in stamp[w]..now : HoldsLease(a, t)
  /\ status' = [status EXCEPT ![a] = "COMPLETED"]
  /\ leaseEnd' = [leaseEnd EXCEPT ![a] = 0]
  /\ Proceed(w, "returning")
  /\ UNCHANGED <<now, snapshot, prefVars, attempt, reclaimed, reads, delivered>>

CompletionRefused(w) ==
  /\ pc[w] = "completing"
  /\ RowsFree({attempt[w]})
  /\ \E t \in stamp[w]..now : ~HoldsLease(attempt[w], t)
  /\ Proceed(w, "lost")
  /\ UNCHANGED <<now, dbVars, prefVars, attempt, reclaimed, reads, delivered>>

\* A worker that lost its lease reconciles before it throws.
ReconcileAndThrow(w) ==
  /\ pc[w] = "lost"
  /\ \E t \in stamp[w]..now : RowsFree(Expired(t)) /\ Abandon(Expired(t))
  /\ Leave(w)
  /\ UNCHANGED <<now, snapshot, prefVars, delivered>>

ReturnResult(w) ==
  /\ pc[w] = "returning"
  /\ delivered' = delivered \cup {attempt[w]}
  /\ Leave(w)
  /\ UNCHANGED <<now, dbVars, prefVars>>

\* The process dies, or a statement fails and its error ends the call.
Crash(w) ==
  /\ pc[w] # "idle"
  /\ Leave(w)
  /\ UNCHANGED <<now, dbVars, prefVars, delivered>>

\* The consent worker's loop, whose bound time t may be old when the UPDATE runs.
ReconcileStaleAttempts(t) ==
  /\ Expired(t) # {}
  /\ RowsFree(Expired(t))
  /\ Abandon(Expired(t))
  /\ UNCHANGED <<now, snapshot, prefVars, workerVars, delivered>>
-----------------------------------------------------------------------------
\* The steps that follow one another inside a call once it has the job's lock.
WorkerStep(w) ==
  \/ RefuseJob(w)
  \/ ReclaimExpired(w)
  \/ InsertAttempt(w)
  \/ ConfirmLease(w)
  \/ ConfirmLost(w)
  \/ OpenSnapshot(w)
  \/ ExtractionThrows(w)
  \/ CallbackReturns(w)
  \/ MarkAttemptFailed(w)
  \/ CompleteAttempt(w)
  \/ CompletionRefused(w)
  \/ ReconcileAndThrow(w)
  \/ ReturnResult(w)

Next ==
  \/ Tick
  \/ \E u \in Users : ChangePreference(u)
  \/ \E w \in Workers, j \in Jobs : Submit(w, j)
  \/ \E w \in Workers : TakeJobLock(w)
  \/ \E w \in Workers : WorkerStep(w)
  \/ \E w \in Workers : Heartbeat(w)
  \/ \E w \in Workers : Crash(w)
  \/ \E t \in 0..now : ReconcileStaleAttempts(t)

Spec == Init /\ [][Next]_vars

\* Time passes, the consent worker's loop keeps reconciling, and a process that has not
\* crashed goes on with its call (the callback returns or throws).
Fairness ==
  /\ WF_vars(Tick)
  /\ WF_vars(ReconcileStaleAttempts(now))
  /\ \A w \in Workers : WF_vars(WorkerStep(w))

FairSpec == Spec /\ Fairness
-----------------------------------------------------------------------------
(***************************************************************************)
(* Correctness.                                                            *)
(***************************************************************************)

\* The state has its types, and every row obeys the lifecycle CHECK of its table: it has a lease
\* exactly while it is STARTED.
TypeOK ==
  /\ now \in Nat
  /\ status \in [Attempts -> Statuses]
  /\ leaseEnd \in [Attempts -> Nat]
  /\ \A a \in Attempts : leaseEnd[a] > 0 <=> status[a] = "STARTED"
  /\ snapshot \in [Attempts -> SUBSET (Users \X Nat)]
  /\ optIn \in [Users -> BOOLEAN]
  /\ version \in [Users -> Nat]
  /\ pc \in [Workers -> {"idle", "locking"} \cup Starting \cup Running]
  /\ attempt \in [Workers -> (Jobs \X (0..MaxAttempts)) \cup {NoAttempt}]
  /\ stamp \in [Workers -> Nat]
  /\ reclaimed \in [Workers -> SUBSET Attempts]
  /\ reads \in [Workers -> SUBSET (Users \X Nat)]
  /\ delivered \in SUBSET Attempts

\* However leases expire, processes crash and starts race, a job never has two STARTED rows:
\* the advisory lock, the abandonment and the live-attempt check keep attempts exclusive.
OneLiveAttempt ==
  \A a, b \in Attempts :
    a[1] = b[1] /\ status[a] = "STARTED" /\ status[b] = "STARTED" => a = b

\* A completed job is closed: its completed attempt is its last, nothing of it is STARTED, and
\* no other attempt of it was completed, not even by a worker that was already running.
CompletedClosesJob ==
  \A a, b \in Attempts :
    a[1] = b[1] /\ a # b /\ status[a] = "COMPLETED" =>
      /\ status[b] \in {"ABSENT", "FAILED", "ABANDONED"}
      /\ b[2] > a[2] => status[b] = "ABSENT"

\* Attempt numbers have no gap, so "the highest number plus one" is the number of attempts
\* plus one although starts, abandonments and rollbacks interleave.
NumbersContiguous ==
  \A a, b \in Attempts :
    a[1] = b[1] /\ b[2] < a[2] /\ status[a] # "ABSENT" => status[b] # "ABSENT"

\* runExtraction returns a result at most once per job, and only the result of the attempt
\* the audit table shows as COMPLETED: an obsolete worker's result is never returned.
DeliveredIsRecorded ==
  /\ \A a \in delivered : status[a] = "COMPLETED"
  /\ \A a, b \in delivered : a[1] = b[1] => a = b

\* The advisory lock makes UNIQUE (job_identifier, attempt_number) unreachable: no start ever
\* reaches its INSERT with a number that another start has used meanwhile.
InsertNeverConflicts ==
  \A w \in Workers : pc[w] = "inserting" => status[attempt[w]] = "ABSENT"

\* A job is done by one attempt at a time and once: the five statements above together.  The
\* advisory lock, the live-attempt check and the guarded UPDATEs of renewal, failure and
\* completion keep it so however starts race, leases run out and processes crash.
JobsAreExclusive ==
  /\ OneLiveAttempt
  /\ CompletedClosesJob
  /\ NumbersContiguous
  /\ DeliveredIsRecorded
  /\ InsertNeverConflicts

\* What the callback can read belongs to users the audit's snapshot names, under that
\* preference or a later one: opting in after the start, or out before the
\* repeatable-read snapshot, keeps a user's records out.
ReadsWithinSnapshot ==
  \A w \in Workers : \A e \in reads[w] :
    \E s \in snapshot[attempt[w]] : s[1] = e[1] /\ s[2] <= e[2] /\ (e[2] - s[2]) % 2 = 0

\* A step never changes a row that has reached a terminal status, and a row is abandoned only
\* when its lease has run out: heartbeats, failures, completions and reconciliation that
\* arrive late leave the recorded outcome alone.
AuditIsFinal ==
  [][\A a \in Attempts :
       /\ status[a] \in Terminal => status'[a] = status[a] /\ leaseEnd'[a] = leaseEnd[a]
       /\ status'[a] = "ABANDONED" /\ status[a] # "ABANDONED" =>
            status[a] = "STARTED" /\ leaseEnd[a] <= now]_vars

\* An attempt does not stay STARTED for ever: its worker ends it, or it crashed and the lease
\* runs out and the reconciler abandons the row.
AttemptsEnd ==
  \A a \in Attempts : status[a] = "STARTED" ~> status[a] # "STARTED"

\* The attempt table implements the one-winner job of JobOutcome.
Outcome == INSTANCE JobOutcome WITH
  tried <- [j \in Jobs |-> {n \in 1..MaxAttempts : status[<<j, n>>] # "ABSENT"}],
  live  <- [j \in Jobs |-> {n \in 1..MaxAttempts : status[<<j, n>>] = "STARTED"}],
  done  <- [j \in Jobs |-> \E n \in 1..MaxAttempts : status[<<j, n>>] = "COMPLETED"]

\* Every step of the attempt table is a step of JobOutcome or changes nothing it shows: one
\* transaction abandons, numbers and claims, and only the holder of the job finishes it.
ImplementsJobOutcome == Outcome!Spec
=============================================================================
