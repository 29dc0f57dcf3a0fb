---------------------- MODULE ExtractionAttempts_proofs ----------------------
(***************************************************************************)
(* Proofs about ExtractionAttempts for every set of jobs, workers and      *)
(* users and every value of the bounds.                                    *)
(***************************************************************************)
EXTENDS ExtractionAttempts, TLAPS

(***************************************************************************)
(* The inductive invariant.  OneLiveAttempt is not inductive by itself: a  *)
(* start checks the job in one step and inserts in a later one, and what   *)
(* it saw stays true only because it holds the job's lock and has the rows *)
(* it abandons locked.                                                     *)
(***************************************************************************)

\* Two starts of the same job are never both inside the advisory lock.
LockExclusive ==
  \A v, w \in Workers :
    pc[v] \in Starting /\ pc[w] \in Starting /\ JobOf(v) = JobOf(w) => v = w

\* A call that is under way has a job, and from the insertion on a row number.
CallsHaveAttempts ==
  \A w \in Workers :
    /\ pc[w] # "idle" => attempt[w] \in Jobs \X (0..MaxAttempts)
    /\ pc[w] = "inserting" => attempt[w] \in Attempts
    /\ pc[w] \in Running => attempt[w] \in Attempts /\ status[attempt[w]] # "ABSENT"

\* The rows a start has abandoned without committing are still STARTED for everybody else,
\* and no two starts have the same row.
ReclaimedAreLocked ==
  /\ \A w \in Workers : pc[w] # "inserting" => reclaimed[w] = {}
  /\ \A w \in Workers : \A a \in reclaimed[w] : status[a] = "STARTED"
  /\ \A v, w \in Workers : v # w => reclaimed[v] \cap reclaimed[w] = {}

\* What a start has checked is still so when it inserts.
InsertIsReady ==
  \A w \in Workers : pc[w] = "inserting" =>
    /\ IsNextNumber(attempt[w][1], attempt[w][2])
    /\ \A b \in Attempts : b[1] = attempt[w][1] =>
         /\ status[b] # "COMPLETED"
         /\ status[b] = "STARTED" => b \in reclaimed[w]

\* A result on its way to the caller, or there already, is recorded.
ResultsAreRecorded ==
  /\ \A w \in Workers : pc[w] = "returning" => status[attempt[w]] = "COMPLETED"
  /\ \A a \in delivered : status[a] = "COMPLETED"

\* The attempt that holds or has finished a job is the job's last one.
HolderIsLast ==
  \A a, b \in Attempts :
    a[1] = b[1] /\ status[a] \in {"STARTED", "COMPLETED"} /\ b[2] > a[2] => status[b] = "ABSENT"

IInv ==
  /\ TypeOK
  /\ LockExclusive
  /\ CallsHaveAttempts
  /\ ReclaimedAreLocked
  /\ InsertIsReady
  /\ ResultsAreRecorded
  /\ HolderIsLast
  /\ NumbersContiguous
-----------------------------------------------------------------------------
(***************************************************************************)
(* Types, and the attempt a call works on.                                 *)
(***************************************************************************)

LEMMA InitTypes == Init => TypeOK /\ CallsHaveAttempts
<1> SUFFICES ASSUME Init PROVE TypeOK /\ CallsHaveAttempts
  OBVIOUS
<1>1. TypeOK
  BY DEF Init, TypeOK, Statuses, Starting, Running
<1>2. CallsHaveAttempts
  BY DEF Init, CallsHaveAttempts, Running
<1>3. QED
  BY <1>1, <1>2

LEMMA StepTypes ==
  ASSUME TypeOK, CallsHaveAttempts, [Next]_vars
  PROVE  TypeOK' /\ CallsHaveAttempts'
<1> USE BoundsAssumption, NoAttemptAssumption
    DEF TypeOK, CallsHaveAttempts, Statuses, Starting, Running, dbVars, prefVars, workerVars
<1>1. CASE Tick
  BY <1>1 DEF Tick
<1>2. ASSUME NEW u \in Users, ChangePreference(u)
      PROVE  TypeOK' /\ CallsHaveAttempts'
  BY <1>2 DEF ChangePreference
<1>3. ASSUME NEW w \in Workers, NEW j \in Jobs, Submit(w, j)
      PROVE  TypeOK' /\ CallsHaveAttempts'
  BY <1>3 DEF Submit, Goto
<1>4. ASSUME NEW w \in Workers, TakeJobLock(w)
      PROVE  TypeOK' /\ CallsHaveAttempts'
  BY <1>4 DEF TakeJobLock, Proceed, Goto
<1>5. ASSUME NEW w \in Workers, RefuseJob(w)
      PROVE  TypeOK' /\ CallsHaveAttempts'
  BY <1>5 DEF RefuseJob, Leave, Goto
<1>6. ASSUME NEW w \in Workers, ReclaimExpired(w)
      PROVE  TypeOK' /\ CallsHaveAttempts'
  BY <1>6 DEF ReclaimExpired, Goto, JobOf, Attempts, Expired
<1>7. ASSUME NEW w \in Workers, InsertAttempt(w)
      PROVE  TypeOK' /\ CallsHaveAttempts'
  BY <1>7 DEF InsertAttempt, Proceed, Goto, EligibleUsers
<1>8. ASSUME NEW w \in Workers, ConfirmLease(w)
      PROVE  TypeOK' /\ CallsHaveAttempts'
  BY <1>8 DEF ConfirmLease, Proceed, Goto, Renew, HoldsLease
<1>9. ASSUME NEW w \in Workers, ConfirmLost(w)
      PROVE  TypeOK' /\ CallsHaveAttempts'
  BY <1>9 DEF ConfirmLost, Proceed, Goto
<1>10. ASSUME NEW w \in Workers, OpenSnapshot(w)
       PROVE  TypeOK' /\ CallsHaveAttempts'
  BY <1>10 DEF OpenSnapshot, Goto, ReadableUsers, EligibleUsers
<1>11. ASSUME NEW w \in Workers, ExtractionThrows(w)
       PROVE  TypeOK' /\ CallsHaveAttempts'
  BY <1>11 DEF ExtractionThrows, Proceed, Goto
<1>12. ASSUME NEW w \in Workers, CallbackReturns(w)
       PROVE  TypeOK' /\ CallsHaveAttempts'
  BY <1>12 DEF CallbackReturns, Proceed, Goto
<1>13. ASSUME NEW w \in Workers, MarkAttemptFailed(w)
       PROVE  TypeOK' /\ CallsHaveAttempts'
  BY <1>13 DEF MarkAttemptFailed, Leave, Goto
<1>14. ASSUME NEW w \in Workers, CompleteAttempt(w)
       PROVE  TypeOK' /\ CallsHaveAttempts'
  BY <1>14 DEF CompleteAttempt, Proceed, Goto, HoldsLease
<1>15. ASSUME NEW w \in Workers, CompletionRefused(w)
       PROVE  TypeOK' /\ CallsHaveAttempts'
  BY <1>15 DEF CompletionRefused, Proceed, Goto
<1>16. ASSUME NEW w \in Workers, ReconcileAndThrow(w)
       PROVE  TypeOK' /\ CallsHaveAttempts'
  BY <1>16 DEF ReconcileAndThrow, Leave, Goto, Abandon, Expired
<1>17. ASSUME NEW w \in Workers, ReturnResult(w)
       PROVE  TypeOK' /\ CallsHaveAttempts'
  BY <1>17 DEF ReturnResult, Leave, Goto
<1>18. ASSUME NEW w \in Workers, Heartbeat(w)
       PROVE  TypeOK' /\ CallsHaveAttempts'
  BY <1>18 DEF Heartbeat, Proceed, Goto, Renew, HoldsLease
<1>19. ASSUME NEW w \in Workers, Crash(w)
       PROVE  TypeOK' /\ CallsHaveAttempts'
  BY <1>19 DEF Crash, Leave, Goto
<1>20. ASSUME NEW t \in 0..now, ReconcileStaleAttempts(t)
       PROVE  TypeOK' /\ CallsHaveAttempts'
  BY <1>20 DEF ReconcileStaleAttempts, Abandon, Expired
<1>21. CASE UNCHANGED vars
  BY <1>21 DEF vars
<1>22. QED
  BY <1>1, <1>2, <1>3, <1>4, <1>5, <1>6, <1>7, <1>8, <1>9, <1>10, <1>11, <1>12, <1>13,
     <1>14, <1>15, <1>16, <1>17, <1>18, <1>19, <1>20, <1>21
  DEF Next, WorkerStep

\* Type correctness of the attempt table and of the calls that work on it.
THEOREM TypeCorrect == Spec => []TypeOK
<1>1. TypeOK /\ CallsHaveAttempts /\ [Next]_vars => (TypeOK /\ CallsHaveAttempts)'
  BY StepTypes
<1>2. QED
  BY InitTypes, <1>1, PTL DEF Spec
-----------------------------------------------------------------------------
(***************************************************************************)
(* The rest of the inductive invariant.                                    *)
(***************************************************************************)

Exclusive ==
  /\ LockExclusive
  /\ ReclaimedAreLocked
  /\ InsertIsReady
  /\ ResultsAreRecorded
  /\ HolderIsLast
  /\ NumbersContiguous

\* Giving up rows that no start has locked, by failure or abandonment, while calls go on as
\* they were or end.
LEMMA GiveUpRows ==
  ASSUME IInv, TypeOK', CallsHaveAttempts',
         NEW R \in SUBSET Attempts, \A a \in R : status[a] = "STARTED", RowsFree(R),
         NEW end \in {"FAILED", "ABANDONED"},
         \A a \in Attempts : status'[a] = IF a \in R THEN end ELSE status[a],
         \A w \in Workers :
           \/ pc'[w] = pc[w] /\ attempt'[w] = attempt[w] /\ reclaimed'[w] = reclaimed[w]
           \/ pc'[w] = "idle" /\ reclaimed'[w] = {},
         delivered' = delivered
  PROVE  Exclusive'
<1> USE BoundsAssumption DEF IInv, TypeOK, CallsHaveAttempts, Statuses, Starting, Running, JobOf
<1>1. LockExclusive'
  BY DEF LockExclusive
<1>2. ReclaimedAreLocked'
  <2>1. \A w \in Workers : reclaimed'[w] \subseteq reclaimed[w]
    OBVIOUS
  <2>2. \A w \in Workers : pc'[w] # "inserting" => reclaimed'[w] = {}
    BY DEF ReclaimedAreLocked
  <2>3. ASSUME NEW w \in Workers, NEW a \in reclaimed'[w] PROVE status'[a] = "STARTED"
    <3>1. a \in reclaimed[w] /\ a \in Attempts /\ a \notin R
      BY <2>1, <2>3 DEF RowsFree
    <3>2. QED
      BY <3>1 DEF ReclaimedAreLocked
  <2>4. ASSUME NEW v \in Workers, NEW w \in Workers, v # w
        PROVE  reclaimed'[v] \cap reclaimed'[w] = {}
    <3>1. reclaimed[v] \cap reclaimed[w] = {}
      BY <2>4 DEF ReclaimedAreLocked
    <3>2. reclaimed'[v] \subseteq reclaimed[v] /\ reclaimed'[w] \subseteq reclaimed[w]
      BY <2>1
    <3>3. QED
      BY ONLY <3>1, <3>2
  <2>5. QED
    BY <2>2, <2>3, <2>4 DEF ReclaimedAreLocked
<1>3. InsertIsReady'
  <2> SUFFICES ASSUME NEW w \in Workers, pc'[w] = "inserting"
               PROVE  /\ IsNextNumber(attempt[w][1], attempt[w][2])'
                      /\ \A b \in Attempts : b[1] = attempt[w][1] =>
                           /\ status'[b] # "COMPLETED"
                           /\ status'[b] = "STARTED" => b \in reclaimed[w]
    BY DEF InsertIsReady
  <2>1. pc[w] = "inserting" /\ attempt'[w] = attempt[w] /\ reclaimed'[w] = reclaimed[w]
    OBVIOUS
  <2>2. attempt[w][1] \in Jobs /\ attempt[w][2] \in 1..MaxAttempts
    BY <2>1 DEF Attempts
  <2>3. \A j \in Jobs, n \in 1..MaxAttempts :
          <<j, n>> \in Attempts /\ (status'[<<j, n>>] = "ABSENT" <=> status[<<j, n>>] = "ABSENT")
    BY DEF Attempts
  <2>4. IsNextNumber(attempt[w][1], attempt[w][2])'
    BY <2>1, <2>2, <2>3 DEF IsNextNumber, InsertIsReady
  <2>5. QED
    BY <2>1, <2>4 DEF InsertIsReady
<1>4. ResultsAreRecorded'
  BY DEF ResultsAreRecorded
<1>5. HolderIsLast'
  BY DEF HolderIsLast
<1>6. NumbersContiguous'
  BY DEF NumbersContiguous
<1>7. QED
  BY <1>1, <1>2, <1>3, <1>4, <1>5, <1>6 DEF Exclusive

LEMMA FailStep ==
  ASSUME IInv, TypeOK', CallsHaveAttempts', NEW w \in Workers, MarkAttemptFailed(w)
  PROVE  Exclusive'
<1> DEFINE a == attempt[w]
           R == IF status[a] = "STARTED" THEN {a} ELSE {}
<1>1. /\ R \in SUBSET Attempts
      /\ RowsFree(R)
      /\ \A b \in R : status[b] = "STARTED"
  BY DEF MarkAttemptFailed, RowsFree, IInv, CallsHaveAttempts, Running
<1>2. \A b \in Attempts : status'[b] = IF b \in R THEN "FAILED" ELSE status[b]
  BY DEF MarkAttemptFailed, IInv, TypeOK
<1>3. \A v \in Workers :
        \/ pc'[v] = pc[v] /\ attempt'[v] = attempt[v] /\ reclaimed'[v] = reclaimed[v]
        \/ pc'[v] = "idle" /\ reclaimed'[v] = {}
  BY DEF MarkAttemptFailed, Leave, Goto, IInv, TypeOK
<1>4. delivered' = delivered
  BY DEF MarkAttemptFailed
<1> HIDE DEF R
<1>5. QED
  BY <1>1, <1>2, <1>3, <1>4, GiveUpRows

LEMMA ReconcileAndThrowStep ==
  ASSUME IInv, TypeOK', CallsHaveAttempts', NEW w \in Workers, ReconcileAndThrow(w)
  PROVE  Exclusive'
<1>1. PICK t \in stamp[w]..now : RowsFree(Expired(t)) /\ Abandon(Expired(t))
  BY DEF ReconcileAndThrow
<1>2. Expired(t) \in SUBSET Attempts /\ \A b \in Expired(t) : status[b] = "STARTED"
  BY DEF Expired
<1>3. \A b \in Attempts : status'[b] = IF b \in Expired(t) THEN "ABANDONED" ELSE status[b]
  BY <1>1 DEF Abandon
<1>4. \A v \in Workers :
        \/ pc'[v] = pc[v] /\ attempt'[v] = attempt[v] /\ reclaimed'[v] = reclaimed[v]
        \/ pc'[v] = "idle" /\ reclaimed'[v] = {}
  BY DEF ReconcileAndThrow, Leave, Goto, IInv, TypeOK
<1>5. delivered' = delivered
  BY DEF ReconcileAndThrow
<1>6. QED
  BY <1>1, <1>2, <1>3, <1>4, <1>5, GiveUpRows

LEMMA ReconcileStep ==
  ASSUME IInv, TypeOK', CallsHaveAttempts', NEW t \in 0..now, ReconcileStaleAttempts(t)
  PROVE  Exclusive'
<1>1. Expired(t) \in SUBSET Attempts /\ \A b \in Expired(t) : status[b] = "STARTED"
  BY DEF Expired
<1>2. \A b \in Attempts : status'[b] = IF b \in Expired(t) THEN "ABANDONED" ELSE status[b]
  BY DEF ReconcileStaleAttempts, Abandon
<1>3. RowsFree(Expired(t)) /\ UNCHANGED <<pc, attempt, reclaimed, delivered>>
  BY DEF ReconcileStaleAttempts, workerVars
<1>4. QED
  BY <1>1, <1>2, <1>3, GiveUpRows

LEMMA CompleteStep ==
  ASSUME IInv, TypeOK', CallsHaveAttempts', NEW w \in Workers, CompleteAttempt(w)
  PROVE  Exclusive'
<1> DEFINE a == attempt[w]
<1>1. /\ a \in Attempts
      /\ status[a] = "STARTED"
      /\ RowsFree({a})
      /\ pc[w] = "completing"
      /\ pc' = [pc EXCEPT ![w] = "returning"]
      /\ UNCHANGED <<attempt, reclaimed, delivered>>
  BY DEF CompleteAttempt, HoldsLease, Proceed, Goto, IInv, CallsHaveAttempts, Running
<1>2. status' = [status EXCEPT ![a] = "COMPLETED"]
  BY DEF CompleteAttempt
<1>3. \A b \in Attempts : status'[b] = IF b = a THEN "COMPLETED" ELSE status[b]
  BY <1>2 DEF IInv, TypeOK
<1>4. LockExclusive'
  BY <1>1 DEF LockExclusive, JobOf, Starting, IInv, TypeOK
<1>5. ReclaimedAreLocked'
  <2>1. \A v \in Workers : \A b \in reclaimed[v] : b \in Attempts /\ b # a
    BY <1>1 DEF RowsFree, IInv, TypeOK
  <2>2. QED
    BY <1>1, <1>3, <2>1 DEF ReclaimedAreLocked, IInv, TypeOK
<1>6. InsertIsReady'
  <2> SUFFICES ASSUME NEW v \in Workers, pc'[v] = "inserting"
               PROVE  /\ IsNextNumber(attempt[v][1], attempt[v][2])'
                      /\ \A b \in Attempts : b[1] = attempt[v][1] =>
                           /\ status'[b] # "COMPLETED"
                           /\ status'[b] = "STARTED" => b \in reclaimed[v]
    BY <1>1 DEF InsertIsReady
  <2>1. pc[v] = "inserting"
    BY <1>1 DEF IInv, TypeOK
  <2>2. a[1] # attempt[v][1]
    \* Otherwise a would be a row that v has locked.
    BY <1>1, <2>1 DEF IInv, InsertIsReady, RowsFree
  <2>3. attempt[v] \in Attempts
    BY <2>1 DEF IInv, CallsHaveAttempts
  <2>4. \A n \in 1..MaxAttempts :
          status'[<<attempt[v][1], n>>] = status[<<attempt[v][1], n>>]
    BY <1>3, <2>2, <2>3 DEF Attempts
  <2>5. attempt[v][2] \in 1..MaxAttempts /\ IsNextNumber(attempt[v][1], attempt[v][2])
    BY <2>1, <2>3 DEF IInv, InsertIsReady, Attempts
  <2>6. IsNextNumber(attempt[v][1], attempt[v][2])'
    BY <1>1, <2>4, <2>5, BoundsAssumption DEF IsNextNumber
  <2>7. QED
    BY <1>1, <1>3, <2>1, <2>2, <2>6 DEF IInv, InsertIsReady
<1>7. ResultsAreRecorded'
  BY <1>1, <1>3 DEF ResultsAreRecorded, IInv, TypeOK, CallsHaveAttempts, Running
<1>8. HolderIsLast'
  BY <1>1, <1>3 DEF HolderIsLast, IInv
<1>9. NumbersContiguous'
  BY <1>1, <1>3 DEF NumbersContiguous, IInv
<1>10. QED
  BY <1>4, <1>5, <1>6, <1>7, <1>8, <1>9 DEF Exclusive

LEMMA ReclaimStep ==
  ASSUME IInv, TypeOK', CallsHaveAttempts', NEW w \in Workers, ReclaimExpired(w)
  PROVE  Exclusive'
<1> DEFINE j == attempt[w][1]
<1>1. PICK t \in stamp[w]..now, n \in 1..MaxAttempts :
        /\ RowsFree(Expired(t))
        /\ ~Refused(j, Expired(t))
        /\ IsNextNumber(j, n)
        /\ reclaimed' = [reclaimed EXCEPT ![w] = Expired(t)]
        /\ attempt' = [attempt EXCEPT ![w] = <<j, n>>]
  BY DEF ReclaimExpired, JobOf
<1>2. /\ pc[w] = "checking"
      /\ pc' = [pc EXCEPT ![w] = "inserting"]
      /\ UNCHANGED <<status, delivered>>
  BY DEF ReclaimExpired, Goto, dbVars
<1>3. /\ \A v \in Workers : v # w => /\ pc'[v] = pc[v]
                                     /\ attempt'[v] = attempt[v]
                                     /\ reclaimed'[v] = reclaimed[v]
      /\ pc'[w] = "inserting" /\ attempt'[w] = <<j, n>> /\ reclaimed'[w] = Expired(t)
  BY <1>1, <1>2 DEF IInv, TypeOK
<1>4. LockExclusive'
  BY <1>2, <1>3 DEF LockExclusive, JobOf, Starting, IInv
<1>5. ReclaimedAreLocked'
  <2>1. \A v \in Workers : v # w => reclaimed'[v] \cap reclaimed'[w] = {}
    BY <1>1, <1>3 DEF RowsFree
  <2>2. \A a \in Expired(t) : status[a] = "STARTED"
    BY DEF Expired
  <2>3. QED
    BY <1>2, <1>3, <2>1, <2>2 DEF ReclaimedAreLocked, IInv
<1>6. InsertIsReady'
  <2> SUFFICES ASSUME NEW v \in Workers, pc'[v] = "inserting"
               PROVE  /\ IsNextNumber(attempt'[v][1], attempt'[v][2])
                      /\ \A b \in Attempts : b[1] = attempt'[v][1] =>
                           /\ status[b] # "COMPLETED"
                           /\ status[b] = "STARTED" => b \in reclaimed'[v]
    BY <1>2 DEF InsertIsReady, IsNextNumber
  <2>1. CASE v = w
    <3>1. attempt'[v] = <<j, n>> /\ reclaimed'[v] = Expired(t)
      BY <1>3, <2>1
    <3>2. ASSUME NEW b \in Attempts, b[1] = j
          PROVE  /\ status[b] # "COMPLETED"
                 /\ status[b] = "STARTED" => b \in Expired(t)
      <4>1. b \notin Expired(t) => status[b] \notin {"COMPLETED", "STARTED"}
        BY <1>1, <3>2 DEF Refused
      <4>2. b \in Expired(t) => status[b] = "STARTED"
        BY DEF Expired
      <4>3. QED
        BY <4>1, <4>2
    <3>3. attempt'[v][1] = j /\ attempt'[v][2] = n
      BY <3>1
    <3>4. QED
      BY <1>1, <3>1, <3>2, <3>3
  <2>2. CASE v # w
    <3>1. /\ pc[v] = "inserting"
          /\ attempt'[v] = attempt[v]
          /\ reclaimed'[v] = reclaimed[v]
      BY <1>3, <2>2
    <3>2. InsertIsReady
      BY DEF IInv
    <3>3. /\ IsNextNumber(attempt[v][1], attempt[v][2])
          /\ \A b \in Attempts : b[1] = attempt[v][1] =>
               /\ status[b] # "COMPLETED"
               /\ status[b] = "STARTED" => b \in reclaimed[v]
      BY <3>1, <3>2, Zenon DEF InsertIsReady
    <3>4. QED
      BY <3>1, <3>3
  <2>3. QED
    BY <2>1, <2>2
<1>7. ResultsAreRecorded'
  BY <1>2, <1>3 DEF ResultsAreRecorded, IInv
<1>8. HolderIsLast' /\ NumbersContiguous'
  BY <1>2 DEF HolderIsLast, NumbersContiguous, IInv
<1>9. QED
  BY <1>4, <1>5, <1>6, <1>7, <1>8 DEF Exclusive

LEMMA InsertStep ==
  ASSUME IInv, TypeOK', CallsHaveAttempts', NEW w \in Workers, InsertAttempt(w)
  PROVE  Exclusive'
<1> DEFINE a == attempt[w]
<1>1. /\ pc[w] = "inserting"
      /\ status[a] = "ABSENT"
      /\ pc' = [pc EXCEPT ![w] = "claimed"]
      /\ reclaimed' = [reclaimed EXCEPT ![w] = {}]
      /\ UNCHANGED <<attempt, delivered>>
  BY DEF InsertAttempt, Proceed, Goto
<1>2. /\ a \in Attempts /\ a[1] \in Jobs /\ a[2] \in 1..MaxAttempts /\ a = <<a[1], a[2]>>
      /\ IsNextNumber(a[1], a[2])
      /\ \A b \in Attempts : b[1] = a[1] =>
           /\ status[b] # "COMPLETED"
           /\ status[b] = "STARTED" => b \in reclaimed[w]
  BY <1>1 DEF IInv, CallsHaveAttempts, InsertIsReady, Attempts
<1>3. \A b \in Attempts : status'[b] = IF b = a THEN "STARTED"
                                       ELSE IF b \in reclaimed[w] THEN "ABANDONED"
                                       ELSE status[b]
  BY DEF InsertAttempt
<1>4. \A b \in reclaimed[w] : b \in Attempts /\ status[b] = "STARTED" /\ b # a
  BY <1>1 DEF IInv, ReclaimedAreLocked, TypeOK
<1>5. /\ \A v \in Workers : v # w => pc'[v] = pc[v] /\ reclaimed'[v] = reclaimed[v]
      /\ pc'[w] = "claimed" /\ reclaimed'[w] = {}
  BY <1>1 DEF IInv, TypeOK
<1>6. LockExclusive'
  BY <1>1, <1>5 DEF LockExclusive, JobOf, Starting, IInv
<1>7. ReclaimedAreLocked'
  <2>1. \A v \in Workers : \A b \in reclaimed'[v] : status'[b] = "STARTED"
    <3> SUFFICES ASSUME NEW v \in Workers, NEW b \in reclaimed'[v] PROVE status'[b] = "STARTED"
      OBVIOUS
    <3>1. v # w /\ b \in reclaimed[v] /\ b \in Attempts
      BY <1>5 DEF IInv, TypeOK
    <3>2. b \notin reclaimed[w] /\ status[b] = "STARTED"
      BY <3>1 DEF IInv, ReclaimedAreLocked
    <3>3. QED
      BY <1>3, <3>1, <3>2
  <2>2. QED
    BY <1>5, <2>1 DEF ReclaimedAreLocked, IInv
<1>8. InsertIsReady'
  <2> SUFFICES ASSUME NEW v \in Workers, pc'[v] = "inserting"
               PROVE  /\ IsNextNumber(attempt[v][1], attempt[v][2])'
                      /\ \A b \in Attempts : b[1] = attempt[v][1] =>
                           /\ status'[b] # "COMPLETED"
                           /\ status'[b] = "STARTED" => b \in reclaimed'[v]
    BY <1>1 DEF InsertIsReady
  <2>1. v # w /\ pc[v] = "inserting" /\ reclaimed'[v] = reclaimed[v]
    BY <1>5
  <2>2. attempt[v][1] # a[1]
    BY <1>1, <2>1 DEF IInv, LockExclusive, Starting, JobOf
  <2>3. attempt[v] \in Attempts /\ attempt[v][1] \in Jobs /\ attempt[v][2] \in 1..MaxAttempts
    BY <2>1 DEF IInv, CallsHaveAttempts, Attempts
  <2>4. \A n \in 1..MaxAttempts :
          status'[<<attempt[v][1], n>>] = "ABSENT" <=> status[<<attempt[v][1], n>>] = "ABSENT"
    <3> SUFFICES ASSUME NEW n \in 1..MaxAttempts
                 PROVE  status'[<<attempt[v][1], n>>] = "ABSENT"
                          <=> status[<<attempt[v][1], n>>] = "ABSENT"
      OBVIOUS
    <3>1. <<attempt[v][1], n>> \in Attempts /\ <<attempt[v][1], n>> # a
      BY <1>2, <2>2, <2>3 DEF Attempts
    <3>2. QED
      BY <1>3, <1>4, <3>1
  <2>5. IsNextNumber(attempt[v][1], attempt[v][2])
    BY <2>1 DEF IInv, InsertIsReady
  <2>6. IsNextNumber(attempt[v][1], attempt[v][2])'
    BY <1>1, <2>3, <2>4, <2>5, BoundsAssumption DEF IsNextNumber
  <2>7. ASSUME NEW b \in Attempts, b[1] = attempt[v][1]
        PROVE  /\ status'[b] # "COMPLETED"
               /\ status'[b] = "STARTED" => b \in reclaimed'[v]
    BY <1>3, <2>1, <2>2, <2>7 DEF IInv, InsertIsReady
  <2>8. QED
    BY <2>6, <2>7
<1>9. ResultsAreRecorded'
  <2>1. \A b \in Attempts : status[b] = "COMPLETED" => status'[b] = "COMPLETED"
    BY <1>1, <1>3, <1>4
  <2>2. QED
    BY <1>1, <1>5, <2>1 DEF ResultsAreRecorded, IInv, TypeOK, CallsHaveAttempts, Running
<1>10. HolderIsLast'
  <2> SUFFICES ASSUME NEW b \in Attempts, NEW c \in Attempts, b[1] = c[1],
                      status'[b] \in {"STARTED", "COMPLETED"}, c[2] > b[2]
               PROVE  status'[c] = "ABSENT"
    BY DEF HolderIsLast
  <2>0. b[2] \in 1..MaxAttempts /\ c[2] \in 1..MaxAttempts /\ c = <<c[1], c[2]>> /\ b = <<b[1], b[2]>>
    BY DEF Attempts
  <2>1. CASE b = a
    <3>1. c # a /\ c[2] \in a[2]..MaxAttempts
      BY <1>2, <2>0, <2>1
    <3>2. status[c] = "ABSENT"
      BY <1>2, <2>0, <2>1, <3>1 DEF IsNextNumber
    <3>3. QED
      BY <1>3, <1>4, <3>1, <3>2
  <2>2. CASE b # a
    <3>1. status[b] \in {"STARTED", "COMPLETED"} /\ b \notin reclaimed[w]
      BY <1>3, <2>2
    <3>2. status[c] = "ABSENT" /\ c # a
      BY <1>2, <3>1 DEF IInv, HolderIsLast
    <3>3. QED
      BY <1>3, <1>4, <3>2
  <2>3. QED
    BY <2>1, <2>2
<1>11. NumbersContiguous'
  <2> SUFFICES ASSUME NEW b \in Attempts, NEW c \in Attempts, b[1] = c[1], c[2] < b[2],
                      status'[b] # "ABSENT"
               PROVE  status'[c] # "ABSENT"
    BY DEF NumbersContiguous
  <2>0. b[2] \in 1..MaxAttempts /\ c[2] \in 1..MaxAttempts /\ c = <<c[1], c[2]>> /\ b = <<b[1], b[2]>>
    BY DEF Attempts
  <2>1. status[c] # "ABSENT"
    <3>1. CASE b = a
      <4> DEFINE p == <<a[1], a[2] - 1>>
      <4>1. a[2] > 1 /\ p \in Attempts /\ p[1] = c[1] /\ p[2] = a[2] - 1
        BY <1>2, <2>0, <3>1, BoundsAssumption DEF Attempts
      <4>2. status[p] # "ABSENT"
        BY <1>2, <4>1 DEF IsNextNumber
      <4>3. c = p \/ c[2] < p[2]
        BY <1>2, <2>0, <3>1, <4>1
      <4>4. QED
        BY <4>1, <4>2, <4>3 DEF IInv, NumbersContiguous
    <3>2. CASE b # a
      <4>1. status[b] # "ABSENT"
        BY <1>3, <1>4, <3>2
      <4>2. QED
        BY <4>1 DEF IInv, NumbersContiguous
    <3>3. QED
      BY <3>1, <3>2
  <2>2. QED
    BY <1>3, <2>1
<1>12. QED
  BY <1>6, <1>7, <1>8, <1>9, <1>10, <1>11 DEF Exclusive

\* Steps that change no row and take no lock: calls go on as they were, end, or move to a label
\* at which they hold nothing.
LEMMA QuietStep ==
  ASSUME IInv, status' = status,
         \A w \in Workers :
           \/ pc'[w] = pc[w] /\ attempt'[w] = attempt[w] /\ reclaimed'[w] = reclaimed[w]
           \/ pc'[w] \notin {"checking", "inserting", "returning"} /\ reclaimed'[w] = {},
         \A a \in delivered' : status[a] = "COMPLETED"
  PROVE  Exclusive'
<1>1. LockExclusive'
  BY DEF IInv, LockExclusive, JobOf, Starting
<1>2. ReclaimedAreLocked'
  BY DEF IInv, ReclaimedAreLocked
<1>3. InsertIsReady'
  <2> SUFFICES ASSUME NEW w \in Workers, pc'[w] = "inserting"
               PROVE  /\ IsNextNumber(attempt'[w][1], attempt'[w][2])
                      /\ \A b \in Attempts : b[1] = attempt'[w][1] =>
                           /\ status[b] # "COMPLETED"
                           /\ status[b] = "STARTED" => b \in reclaimed'[w]
    BY DEF InsertIsReady, IsNextNumber
  <2>1. pc[w] = "inserting" /\ attempt'[w] = attempt[w] /\ reclaimed'[w] = reclaimed[w]
    OBVIOUS
  <2>2. IsNextNumber(attempt[w][1], attempt[w][2])
    BY <2>1 DEF IInv, InsertIsReady
  <2>3. QED
    BY <2>1, <2>2 DEF IInv, InsertIsReady
<1>4. ResultsAreRecorded'
  BY DEF IInv, ResultsAreRecorded
<1>5. HolderIsLast' /\ NumbersContiguous'
  BY DEF IInv, HolderIsLast, NumbersContiguous
<1>6. QED
  BY <1>1, <1>2, <1>3, <1>4, <1>5 DEF Exclusive

LEMMA LockStep ==
  ASSUME IInv, NEW w \in Workers, TakeJobLock(w)
  PROVE  Exclusive'
<1>1. /\ pc' = [pc EXCEPT ![w] = "checking"]
      /\ pc[w] = "locking"
      /\ UNCHANGED <<status, attempt, reclaimed, delivered>>
  BY DEF TakeJobLock, Proceed, Goto, dbVars
<1>2. \A v \in Workers : pc'[v] = IF v = w THEN "checking" ELSE pc[v]
  BY <1>1 DEF IInv, TypeOK
<1>3. LockExclusive'
  <2>1. \A v \in Workers : ~(pc[v] \in Starting /\ JobOf(v) = JobOf(w))
    BY DEF TakeJobLock, LockHolders
  <2>2. QED
    BY <1>1, <1>2, <2>1 DEF IInv, LockExclusive, Starting, JobOf
<1>4. ReclaimedAreLocked'
  BY <1>1, <1>2 DEF IInv, ReclaimedAreLocked
<1>5. InsertIsReady'
  BY <1>1, <1>2 DEF IInv, InsertIsReady, IsNextNumber
<1>6. ResultsAreRecorded'
  BY <1>1, <1>2 DEF IInv, ResultsAreRecorded
<1>7. HolderIsLast' /\ NumbersContiguous'
  BY <1>1 DEF IInv, HolderIsLast, NumbersContiguous
<1>8. QED
  BY <1>3, <1>4, <1>5, <1>6, <1>7 DEF Exclusive

LEMMA StepExclusive ==
  ASSUME IInv, TypeOK', CallsHaveAttempts', [Next]_vars
  PROVE  Exclusive'
<1> USE DEF IInv, TypeOK, ReclaimedAreLocked, ResultsAreRecorded, dbVars, workerVars
<1>1. CASE Tick
  BY <1>1, QuietStep DEF Tick
<1>2. ASSUME NEW u \in Users, ChangePreference(u) PROVE Exclusive'
  BY <1>2, QuietStep DEF ChangePreference
<1>3. ASSUME NEW w \in Workers, NEW j \in Jobs, Submit(w, j) PROVE Exclusive'
  BY <1>3, QuietStep DEF Submit, Goto
<1>4. ASSUME NEW w \in Workers, TakeJobLock(w) PROVE Exclusive'
  BY <1>4, LockStep
<1>5. ASSUME NEW w \in Workers, RefuseJob(w) PROVE Exclusive'
  BY <1>5, QuietStep DEF RefuseJob, Leave, Goto
<1>6. ASSUME NEW w \in Workers, ReclaimExpired(w) PROVE Exclusive'
  BY <1>6, ReclaimStep
<1>7. ASSUME NEW w \in Workers, InsertAttempt(w) PROVE Exclusive'
  BY <1>7, InsertStep
<1>8. ASSUME NEW w \in Workers, ConfirmLease(w) PROVE Exclusive'
  BY <1>8, QuietStep DEF ConfirmLease, Proceed, Goto
<1>9. ASSUME NEW w \in Workers, ConfirmLost(w) PROVE Exclusive'
  BY <1>9, QuietStep DEF ConfirmLost, Proceed, Goto
<1>10. ASSUME NEW w \in Workers, OpenSnapshot(w) PROVE Exclusive'
  BY <1>10, QuietStep DEF OpenSnapshot, Goto
<1>11. ASSUME NEW w \in Workers, ExtractionThrows(w) PROVE Exclusive'
  BY <1>11, QuietStep DEF ExtractionThrows, Proceed, Goto
<1>12. ASSUME NEW w \in Workers, CallbackReturns(w) PROVE Exclusive'
  BY <1>12, QuietStep DEF CallbackReturns, Proceed, Goto
<1>13. ASSUME NEW w \in Workers, MarkAttemptFailed(w) PROVE Exclusive'
  BY <1>13, FailStep
<1>14. ASSUME NEW w \in Workers, CompleteAttempt(w) PROVE Exclusive'
  BY <1>14, CompleteStep
<1>15. ASSUME NEW w \in Workers, CompletionRefused(w) PROVE Exclusive'
  BY <1>15, QuietStep DEF CompletionRefused, Proceed, Goto
<1>16. ASSUME NEW w \in Workers, ReconcileAndThrow(w) PROVE Exclusive'
  BY <1>16, ReconcileAndThrowStep
<1>17. ASSUME NEW w \in Workers, ReturnResult(w) PROVE Exclusive'
  BY <1>17, QuietStep DEF ReturnResult, Leave, Goto
<1>18. ASSUME NEW w \in Workers, Heartbeat(w) PROVE Exclusive'
  BY <1>18, QuietStep DEF Heartbeat, Proceed, Goto
<1>19. ASSUME NEW w \in Workers, Crash(w) PROVE Exclusive'
  BY <1>19, QuietStep DEF Crash, Leave, Goto
<1>20. ASSUME NEW t \in 0..now, ReconcileStaleAttempts(t) PROVE Exclusive'
  BY <1>20, ReconcileStep
<1>21. CASE UNCHANGED vars
  BY <1>21, QuietStep DEF vars
<1>22. QED
  BY <1>1, <1>2, <1>3, <1>4, <1>5, <1>6, <1>7, <1>8, <1>9, <1>10, <1>11, <1>12, <1>13,
     <1>14, <1>15, <1>16, <1>17, <1>18, <1>19, <1>20, <1>21
  DEF Next, WorkerStep

LEMMA InvariantHolds == Spec => []IInv
<1>1. Init => IInv
  <2> SUFFICES ASSUME Init PROVE IInv
    OBVIOUS
  <2>1. TypeOK /\ CallsHaveAttempts
    BY InitTypes
  <2>2. LockExclusive /\ ReclaimedAreLocked /\ InsertIsReady /\ ResultsAreRecorded
    BY DEF Init, LockExclusive, ReclaimedAreLocked, InsertIsReady, ResultsAreRecorded, Starting
  <2>3. HolderIsLast /\ NumbersContiguous
    BY DEF Init, HolderIsLast, NumbersContiguous
  <2>4. QED
    BY <2>1, <2>2, <2>3 DEF IInv
<1>2. IInv /\ [Next]_vars => IInv'
  <2> SUFFICES ASSUME IInv, [Next]_vars PROVE IInv'
    OBVIOUS
  <2>1. TypeOK' /\ CallsHaveAttempts'
    BY StepTypes DEF IInv
  <2>2. Exclusive'
    BY <2>1, StepExclusive
  <2>3. QED
    BY <2>1, <2>2 DEF IInv, Exclusive
<1>3. QED
  BY <1>1, <1>2, PTL DEF Spec

-----------------------------------------------------------------------------
(***************************************************************************)
(* What the invariant gives.                                               *)
(***************************************************************************)

\* Two attempts of one job are told apart by their numbers.
LEMMA NumbersDiffer ==
  ASSUME NEW a \in Attempts, NEW b \in Attempts, a[1] = b[1], a # b
  PROVE  a[2] < b[2] \/ b[2] < a[2]
BY BoundsAssumption DEF Attempts

\* No interleaving of starts, renewals, crashes and reconciliation gives a job two STARTED rows.
THEOREM LiveAttemptIsUnique == Spec => []OneLiveAttempt
<1>1. IInv => OneLiveAttempt
  BY NumbersDiffer DEF IInv, HolderIsLast, OneLiveAttempt
<1>2. QED
  BY <1>1, InvariantHolds, PTL

\* A completed job has no other completed attempt, none that is STARTED and none after it.
THEOREM CompletionClosesJob == Spec => []CompletedClosesJob
<1>1. IInv => CompletedClosesJob
  <2> SUFFICES ASSUME IInv, NEW a \in Attempts, NEW b \in Attempts,
                      a[1] = b[1], a # b, status[a] = "COMPLETED"
               PROVE  /\ status[b] \in {"ABSENT", "FAILED", "ABANDONED"}
                      /\ b[2] > a[2] => status[b] = "ABSENT"
    BY DEF CompletedClosesJob
  <2>1. b[2] > a[2] => status[b] = "ABSENT"
    BY DEF IInv, HolderIsLast
  <2>2. status[b] \notin {"STARTED", "COMPLETED"}
    BY NumbersDiffer DEF IInv, HolderIsLast
  <2>3. QED
    BY <2>1, <2>2 DEF IInv, TypeOK, Statuses
<1>2. QED
  BY <1>1, InvariantHolds, PTL

\* Attempt numbers never have a gap.
THEOREM AttemptNumbersContiguous == Spec => []NumbersContiguous
BY InvariantHolds, PTL DEF IInv

\* No start reaches its INSERT with a number that is already used.
THEOREM InsertsDoNotConflict == Spec => []InsertNeverConflicts
<1>1. IInv => InsertNeverConflicts
  <2> SUFFICES ASSUME IInv, NEW w \in Workers, pc[w] = "inserting"
               PROVE  status[attempt[w]] = "ABSENT"
    BY DEF InsertNeverConflicts
  <2>1. attempt[w] \in Attempts /\ IsNextNumber(attempt[w][1], attempt[w][2])
    BY DEF IInv, CallsHaveAttempts, InsertIsReady
  <2>2. QED
    BY <2>1, BoundsAssumption DEF IsNextNumber, Attempts
<1>2. QED
  BY <1>1, InvariantHolds, PTL

\* A job's result is returned at most once, and only if its attempt is recorded as completed.
THEOREM DeliveryIsRecorded == Spec => []DeliveredIsRecorded
<1>1. IInv => DeliveredIsRecorded
  <2> SUFFICES ASSUME IInv PROVE DeliveredIsRecorded
    OBVIOUS
  <2>1. \A a \in delivered : a \in Attempts /\ status[a] = "COMPLETED"
    BY DEF IInv, TypeOK, ResultsAreRecorded
  <2>2. QED
    BY <2>1, NumbersDiffer DEF IInv, HolderIsLast, DeliveredIsRecorded
<1>2. QED
  BY <1>1, InvariantHolds, PTL

\* A job is done by one attempt at a time and once: the advisory lock, the live-attempt check and
\* the guarded UPDATEs of runExtraction keep attempts exclusive, for any jobs, workers and bounds.
THEOREM JobsStayExclusive == Spec => []JobsAreExclusive
BY LiveAttemptIsUnique, CompletionClosesJob, AttemptNumbersContiguous, DeliveryIsRecorded,
   InsertsDoNotConflict, PTL DEF JobsAreExclusive

-----------------------------------------------------------------------------
(***************************************************************************)
(* What the audit table keeps of the past, and what it lets be read.       *)
(***************************************************************************)

\* A bound time is past, and the rows a start has abandoned had run out at its bound time.
StampsArePast ==
  \A w \in Workers : stamp[w] <= now /\ \A a \in reclaimed[w] : leaseEnd[a] <= stamp[w]

\* Who is named by a snapshot was opted in under the version it names, and every version since has
\* turned the choice round.
SnapshotsFollow ==
  \A a \in Attempts : \A s \in snapshot[a] :
    /\ s[2] <= version[s[1]]
    /\ optIn[s[1]] <=> (version[s[1]] - s[2]) % 2 = 0

\* Who has read something is running.
ReadersRun == \A w \in Workers : reads[w] # {} => pc[w] \in Running

AuditParts == StampsArePast /\ SnapshotsFollow /\ ReadersRun /\ ReadsWithinSnapshot

\* What a step leaves of the audit table.
OutcomesStay ==
  \A a \in Attempts :
    /\ status[a] \in Terminal => status'[a] = status[a] /\ leaseEnd'[a] = leaseEnd[a]
    /\ status'[a] = "ABANDONED" /\ status[a] # "ABANDONED" =>
         status[a] = "STARTED" /\ leaseEnd[a] <= now

LEMMA Parity ==
  ASSUME NEW n \in Nat
  PROVE  (n + 1) % 2 = 0 <=> n % 2 # 0
OBVIOUS

LEMMA PreferenceKeepsAudit ==
  ASSUME IInv, AuditParts, NEW u \in Users, ChangePreference(u)
  PROVE  AuditParts' /\ OutcomesStay
<1>1. /\ version' = [version EXCEPT ![u] = version[u] + 1]
      /\ optIn' = [optIn EXCEPT ![u] = ~optIn[u]]
      /\ UNCHANGED <<now, dbVars, workerVars, delivered>>
  BY DEF ChangePreference
<1>2. SnapshotsFollow'
  <2> SUFFICES ASSUME NEW a \in Attempts, NEW s \in snapshot[a]
               PROVE  /\ s[2] <= version'[s[1]]
                      /\ optIn'[s[1]] <=> (version'[s[1]] - s[2]) % 2 = 0
    BY <1>1 DEF SnapshotsFollow, dbVars
  <2>1. s[1] \in Users /\ s[2] \in Nat /\ version[s[1]] \in Nat /\ optIn[s[1]] \in BOOLEAN
    BY DEF IInv, TypeOK
  <2>2. s[2] <= version[s[1]] /\ (optIn[s[1]] <=> (version[s[1]] - s[2]) % 2 = 0)
    BY DEF AuditParts, SnapshotsFollow
  <2>3. CASE s[1] = u
    <3>1. version'[s[1]] = version[s[1]] + 1 /\ optIn'[s[1]] = ~optIn[s[1]]
      BY <1>1, <2>3 DEF IInv, TypeOK
    <3>2. version[s[1]] - s[2] \in Nat /\ version'[s[1]] - s[2] = (version[s[1]] - s[2]) + 1
      BY <2>1, <2>2, <3>1
    <3>3. (version'[s[1]] - s[2]) % 2 = 0 <=> (version[s[1]] - s[2]) % 2 # 0
      BY <3>2, Parity
    <3>4. s[2] <= version'[s[1]]
      BY <2>1, <2>2, <3>1
    <3>5. QED
      BY <2>1, <2>2, <3>1, <3>3, <3>4
  <2>4. CASE s[1] # u
    BY <1>1, <2>1, <2>2, <2>4 DEF IInv, TypeOK
  <2>5. QED
    BY <2>3, <2>4
<1>3. StampsArePast' /\ ReadersRun' /\ ReadsWithinSnapshot'
  BY <1>1 DEF AuditParts, StampsArePast, ReadersRun, ReadsWithinSnapshot, dbVars, workerVars
<1>4. OutcomesStay
  BY <1>1 DEF OutcomesStay, dbVars, IInv, TypeOK, Statuses
<1>5. QED
  BY <1>2, <1>3, <1>4 DEF AuditParts

\* The steps of a worker, each with what it writes: a start writes what it has abandoned and its own
\* row, a renewal and an end only a row that is STARTED.
LEMMA WorkersKeepAudit ==
  ASSUME IInv, AuditParts, NEW w \in Workers,
         TakeJobLock(w) \/ WorkerStep(w) \/ Heartbeat(w) \/ Crash(w) \/ (\E j \in Jobs : Submit(w, j))
  PROVE  AuditParts' /\ OutcomesStay
<1> USE BoundsAssumption, NoAttemptAssumption
    DEF IInv, TypeOK, AuditParts, StampsArePast, SnapshotsFollow, ReadersRun, ReadsWithinSnapshot,
        OutcomesStay, CallsHaveAttempts, ReclaimedAreLocked, Starting, Running, Terminal, Statuses,
        dbVars, prefVars, workerVars
<1>1. CASE TakeJobLock(w)
  BY <1>1, SMT DEF TakeJobLock, Proceed, Goto
<1>2. CASE RefuseJob(w)
  BY <1>2, SMT DEF RefuseJob, Leave, Goto
<1>3. CASE ReclaimExpired(w)
  BY <1>3, SMT DEF ReclaimExpired, Goto, JobOf, Expired
<1>4. CASE InsertAttempt(w)
  BY <1>4, SMT DEF InsertAttempt, Proceed, Goto, EligibleUsers
<1>5. CASE ConfirmLease(w)
  BY <1>5, SMT DEF ConfirmLease, Proceed, Goto, Renew, HoldsLease, RowsFree
<1>6. CASE ConfirmLost(w)
  BY <1>6, SMT DEF ConfirmLost, Proceed, Goto
<1>7. CASE OpenSnapshot(w)
  BY <1>7, SMT DEF OpenSnapshot, Goto, ReadableUsers, EligibleUsers
<1>8. CASE ExtractionThrows(w)
  BY <1>8, SMT DEF ExtractionThrows, Proceed, Goto
<1>9. CASE CallbackReturns(w)
  BY <1>9, SMT DEF CallbackReturns, Proceed, Goto
<1>10. CASE MarkAttemptFailed(w)
  <2>1. StampsArePast'
    <3>1. \A b \in Attempts : leaseEnd'[b] = leaseEnd[b] \/ leaseEnd'[b] = 0
      BY <1>10, SMT DEF MarkAttemptFailed
    <3>2. now' = now /\ \A v \in Workers : stamp'[v] \in {stamp[v], 0} /\ (v # w => stamp'[v] = stamp[v])
      BY <1>10, SMT DEF MarkAttemptFailed, Leave
    <3>3. \A v \in Workers : reclaimed'[v] = IF v = w THEN {} ELSE reclaimed[v]
      BY <1>10, SMT DEF MarkAttemptFailed, Leave
    <3>4. QED
      BY <3>1, <3>2, <3>3, SMT
  <2>2. SnapshotsFollow' /\ ReadersRun' /\ ReadsWithinSnapshot'
    BY <1>10, SMT DEF MarkAttemptFailed, Leave, Goto
  <2>3. OutcomesStay
    BY <1>10, SMT DEF MarkAttemptFailed
  <2>4. QED
    BY <2>1, <2>2, <2>3
<1>11. CASE CompleteAttempt(w)
  BY <1>11, SMT DEF CompleteAttempt, Proceed, Goto, HoldsLease, RowsFree
<1>12. CASE CompletionRefused(w)
  BY <1>12, SMT DEF CompletionRefused, Proceed, Goto
<1>13. CASE ReconcileAndThrow(w)
  BY <1>13, SMT DEF ReconcileAndThrow, Leave, Goto, Abandon, Expired, RowsFree
<1>14. CASE ReturnResult(w)
  BY <1>14, SMT DEF ReturnResult, Leave, Goto
<1>15. CASE Heartbeat(w)
  BY <1>15, SMT DEF Heartbeat, Proceed, Goto, Renew, HoldsLease, RowsFree
<1>16. CASE Crash(w)
  BY <1>16, SMT DEF Crash, Leave, Goto
<1>17. CASE \E j \in Jobs : Submit(w, j)
  BY <1>17, SMT DEF Submit, Goto
<1>18. QED
  BY <1>1, <1>2, <1>3, <1>4, <1>5, <1>6, <1>7, <1>8, <1>9, <1>10, <1>11, <1>12, <1>13, <1>14,
     <1>15, <1>16, <1>17
  DEF WorkerStep

LEMMA ReconcilingKeepsAudit ==
  ASSUME IInv, AuditParts, NEW t \in 0..now, ReconcileStaleAttempts(t)
  PROVE  AuditParts' /\ OutcomesStay
<1>1. StampsArePast'
  BY SMT DEF ReconcileStaleAttempts, Abandon, Expired, RowsFree, IInv, TypeOK, AuditParts, StampsArePast,
             workerVars, Attempts
<1>2. SnapshotsFollow' /\ ReadersRun' /\ ReadsWithinSnapshot'
  BY DEF ReconcileStaleAttempts, AuditParts, SnapshotsFollow, ReadersRun, ReadsWithinSnapshot, prefVars,
         workerVars
<1>3. OutcomesStay
  BY SMT DEF ReconcileStaleAttempts, Abandon, Expired, OutcomesStay, IInv, TypeOK, Terminal
<1>4. QED
  BY <1>1, <1>2, <1>3 DEF AuditParts

LEMMA TimeKeepsAudit ==
  ASSUME IInv, AuditParts, Tick \/ UNCHANGED vars
  PROVE  AuditParts' /\ OutcomesStay
<1>1. UNCHANGED <<dbVars, prefVars, workerVars>> /\ (now' = now + 1 \/ now' = now)
  BY DEF Tick, vars
<1>2. StampsArePast'
  BY <1>1 DEF AuditParts, StampsArePast, IInv, TypeOK, dbVars, workerVars
<1>3. SnapshotsFollow' /\ ReadersRun' /\ ReadsWithinSnapshot'
  BY <1>1 DEF AuditParts, SnapshotsFollow, ReadersRun, ReadsWithinSnapshot, dbVars, prefVars, workerVars
<1>4. OutcomesStay
  BY <1>1 DEF OutcomesStay, dbVars
<1>5. QED
  BY <1>2, <1>3, <1>4 DEF AuditParts

LEMMA StepsKeepAudit == IInv /\ AuditParts /\ [Next]_vars => AuditParts' /\ OutcomesStay
<1> SUFFICES ASSUME IInv, AuditParts, [Next]_vars PROVE AuditParts' /\ OutcomesStay
  OBVIOUS
<1>1. CASE Tick \/ UNCHANGED vars
  BY <1>1, TimeKeepsAudit
<1>2. CASE \E u \in Users : ChangePreference(u)
  BY <1>2, PreferenceKeepsAudit
<1>3. CASE \E w \in Workers : \/ TakeJobLock(w) \/ WorkerStep(w) \/ Heartbeat(w) \/ Crash(w)
                              \/ \E j \in Jobs : Submit(w, j)
  BY <1>3, WorkersKeepAudit
<1>4. CASE \E t \in 0..now : ReconcileStaleAttempts(t)
  BY <1>4, ReconcilingKeepsAudit
<1>5. QED
  BY <1>1, <1>2, <1>3, <1>4 DEF Next

LEMMA AuditHolds == Spec => [](IInv /\ AuditParts)
<1>1. Init => AuditParts
  BY DEF Init, AuditParts, StampsArePast, SnapshotsFollow, ReadersRun, ReadsWithinSnapshot
<1>2. IInv /\ AuditParts /\ [Next]_vars => AuditParts'
  BY StepsKeepAudit
<1>3. QED
  BY <1>1, <1>2, InvariantHolds, PTL DEF Spec

\* The views the callback reads join the audit's snapshot, and a choice that was turned round since
\* the snapshot keeps a user's records out, for any number of users and changes.
THEOREM ReadsStayWithinSnapshot == Spec => []ReadsWithinSnapshot
<1>1. IInv /\ AuditParts => ReadsWithinSnapshot
  BY DEF AuditParts
<1>2. QED
  BY <1>1, AuditHolds, PTL

\* abandonExpiredAttempts, markAttemptFailed, completeAttempt and renewAttemptLease: a recorded
\* outcome stays, and only a lease that has run out is abandoned.
THEOREM OutcomesAreFinal == Spec => AuditIsFinal
<1>1. IInv /\ AuditParts /\ [Next]_vars => OutcomesStay
  BY StepsKeepAudit
<1>2. Spec => [][OutcomesStay]_vars
  BY <1>1, AuditHolds, PTL DEF Spec
<1>3. QED
  BY <1>2, PTL DEF AuditIsFinal, OutcomesStay

-----------------------------------------------------------------------------
(***************************************************************************)
(* The refinement: what each step does to the job as JobOutcome shows it.  *)
(***************************************************************************)

\* The job that JobOutcome sees in the rows.
Tried(j) == {n \in 1..MaxAttempts : status[<<j, n>>] # "ABSENT"}
Live(j) == {n \in 1..MaxAttempts : status[<<j, n>>] = "STARTED"}
Finished(j) == \E n \in 1..MaxAttempts : status[<<j, n>>] = "COMPLETED"

LEMMA HolderIsAlone == IInv => OneLiveAttempt
  <1> SUFFICES ASSUME IInv, NEW a \in Attempts, NEW b \in Attempts,
                      a[1] = b[1], status[a] = "STARTED", status[b] = "STARTED", a # b
               PROVE  FALSE
    BY DEF OneLiveAttempt
  <1>1. a[2] < b[2] \/ b[2] < a[2]
    BY NumbersDiffer
  <1>2. QED
    BY <1>1 DEF IInv, HolderIsLast

LEMMA RowsUnchanged ==
  ASSUME UNCHANGED status
  PROVE  UNCHANGED Outcome!jobVars
BY DEF Outcome!jobVars

\* Attempts that fail or are abandoned give up their jobs and no others.
LEMMA GiveUpSimulated ==
  ASSUME IInv, NEW R \in SUBSET Attempts, \A a \in R : status[a] = "STARTED",
         NEW end \in {"FAILED", "ABANDONED"},
         status' = [a \in Attempts |-> IF a \in R THEN end ELSE status[a]]
  PROVE  Outcome!Next
  <1> DEFINE G == {a[1] : a \in R}
  <1>1. G \in SUBSET Jobs
    BY DEF Attempts
  <1>2. \A j \in Jobs, n \in 1..MaxAttempts :
          /\ <<j, n>> \in Attempts
          /\ status'[<<j, n>>] = IF <<j, n>> \in R THEN end ELSE status[<<j, n>>]
    BY DEF Attempts
  <1>3. ASSUME NEW j \in Jobs
        PROVE  /\ Tried(j)' = Tried(j)
               /\ Live(j)' = IF j \in G THEN {} ELSE Live(j)
               /\ Finished(j)' = Finished(j)
    <2>1. Tried(j)' = Tried(j) /\ Finished(j)' = Finished(j)
      BY <1>2 DEF Tried, Finished
    <2>2. CASE j \in G
      <3>1. PICK a \in R : a[1] = j
        BY <2>2
      <3>2. ASSUME NEW n \in 1..MaxAttempts, status[<<j, n>>] = "STARTED" PROVE <<j, n>> \in R
        BY <1>2, <3>1, <3>2, HolderIsAlone DEF OneLiveAttempt
      <3>3. QED
        BY <1>2, <2>1, <2>2, <3>2 DEF Live
    <2>3. CASE j \notin G
      <3>1. \A n \in 1..MaxAttempts : <<j, n>> \notin R
        BY <2>3
      <3>2. QED
        BY <1>2, <2>1, <2>3, <3>1 DEF Live
    <2>4. QED
      BY <2>2, <2>3
  <1>4. Outcome!GiveUp(G)
    BY <1>3 DEF Outcome!GiveUp, Tried, Live, Finished
  <1>5. QED
    BY <1>1, <1>4 DEF Outcome!Next

\* The transaction that starts an attempt claims the job, after its holders have given it up.
LEMMA InsertSimulated ==
  ASSUME IInv, NEW w \in Workers, InsertAttempt(w)
  PROVE  Outcome!Next
  <1>1. PICK i \in Jobs, m \in 1..MaxAttempts :
          attempt[w] = <<i, m>> /\ pc[w] = "inserting" /\ status[<<i, m>>] = "ABSENT"
    <2>1. pc[w] = "inserting" /\ status[attempt[w]] = "ABSENT" /\ attempt[w] \in Attempts
      BY DEF InsertAttempt, IInv, CallsHaveAttempts
    <2>2. QED
      BY <2>1 DEF Attempts
  <1>2. /\ IsNextNumber(i, m)
        /\ \A b \in Attempts : b[1] = i =>
             status[b] # "COMPLETED" /\ (status[b] = "STARTED" => b \in reclaimed[w])
    BY <1>1 DEF IInv, InsertIsReady
  <1>3. reclaimed[w] \subseteq Attempts /\ \A b \in reclaimed[w] : status[b] = "STARTED"
    BY DEF IInv, TypeOK, ReclaimedAreLocked
  <1>5. PICK G \in SUBSET Jobs : G = {b[1] : b \in reclaimed[w]}
    BY <1>3 DEF Attempts
  <1>4. \A j \in Jobs, n \in 1..MaxAttempts :
          /\ <<j, n>> \in Attempts
          /\ status'[<<j, n>>] = IF j = i /\ n = m THEN "STARTED"
                                 ELSE IF <<j, n>> \in reclaimed[w] THEN "ABANDONED"
                                 ELSE status[<<j, n>>]
    BY <1>1 DEF InsertAttempt, Attempts
  <1>6. ~Finished(i) /\ (Live(i) = {} \/ i \in G)
    <2>1. \A n \in 1..MaxAttempts : <<i, n>>[1] = i
      OBVIOUS
    <2>2. ~Finished(i) /\ \A n \in Live(i) : <<i, n>> \in reclaimed[w]
      BY <1>2, <1>4, <2>1 DEF Finished, Live
    <2>3. QED
      BY <1>5, <2>1, <2>2 DEF Live
  <1>7. Tried(i) = 1..(m - 1)
    <2>1. \A n \in m..MaxAttempts : status[<<i, n>>] = "ABSENT"
      BY <1>2 DEF IsNextNumber
    <2>2. ASSUME NEW n \in 1..(m - 1) PROVE status[<<i, n>>] # "ABSENT"
      <3>1. m > 1 /\ m - 1 \in 1..MaxAttempts /\ n \in 1..MaxAttempts /\ n <= m - 1
        BY <1>1, BoundsAssumption
      <3>2. status[<<i, m - 1>>] # "ABSENT"
        BY <1>2, <3>1 DEF IsNextNumber
      <3>3. CASE n = m - 1
        BY <3>2, <3>3
      <3>4. CASE n < m - 1
        BY <1>1, <1>4, <3>1, <3>2, <3>4 DEF IInv, NumbersContiguous
      <3>5. QED
        BY <3>1, <3>3, <3>4
    <2>3. QED
      BY <1>1, <2>1, <2>2, BoundsAssumption DEF Tried
  <1>8. ASSUME NEW j \in Jobs
        PROVE  /\ Tried(j)' = IF j = i THEN 1..m ELSE Tried(j)
               /\ Live(j)' = IF j = i THEN {m} ELSE IF j \in G THEN {} ELSE Live(j)
               /\ Finished(j)' = Finished(j)
    <2>1. Finished(j)' = Finished(j)
      BY <1>1, <1>2, <1>3, <1>4 DEF Finished
    <2>2. CASE j = i
      <3>1. Tried(j)' = Tried(j) \cup {m}
        BY <1>1, <1>3, <1>4, <2>2 DEF Tried
      <3>2. Tried(j)' = 1..m
        BY <1>1, <1>7, <2>2, <3>1
      <3>3. \A n \in 1..MaxAttempts : status[<<j, n>>] = "STARTED" => <<j, n>> \in reclaimed[w]
        BY <1>2, <1>4, <2>2
      <3>4. Live(j)' = {m}
        BY <1>1, <1>4, <2>2, <3>3 DEF Live
      <3>5. QED
        BY <2>1, <2>2, <3>2, <3>4
    <2>3. CASE j # i /\ j \in G
      <3>1. PICK b \in reclaimed[w] : b[1] = j
        BY <1>5, <2>3
      <3>2. ASSUME NEW n \in 1..MaxAttempts, status[<<j, n>>] = "STARTED" PROVE <<j, n>> \in reclaimed[w]
        BY <1>3, <1>4, <3>1, <3>2, HolderIsAlone DEF OneLiveAttempt
      <3>3. QED
        BY <1>3, <1>4, <2>1, <2>3, <3>2 DEF Tried, Live
    <2>4. CASE j # i /\ j \notin G
      <3>1. \A n \in 1..MaxAttempts : <<j, n>> \notin reclaimed[w]
        BY <1>5, <2>4
      <3>2. QED
        BY <1>4, <2>1, <2>4, <3>1 DEF Tried, Live
    <2>5. QED
      BY <2>2, <2>3, <2>4
  <1>9. Outcome!Claim(i, m, G)
    BY <1>1, <1>6, <1>7, <1>8 DEF Outcome!Claim, Tried, Live, Finished
  <1>10. QED
    BY <1>1, <1>9 DEF Outcome!Next

\* The attempt that completes is the one that holds the job.
LEMMA CompleteSimulated ==
  ASSUME IInv, NEW w \in Workers, CompleteAttempt(w)
  PROVE  Outcome!Next
  <1>1. PICK i \in Jobs, m \in 1..MaxAttempts :
          attempt[w] = <<i, m>> /\ status[<<i, m>>] = "STARTED"
    BY DEF CompleteAttempt, HoldsLease, IInv, CallsHaveAttempts, Running, Attempts
  <1>2. \A j \in Jobs, n \in 1..MaxAttempts :
          /\ <<j, n>> \in Attempts
          /\ status'[<<j, n>>] = IF j = i /\ n = m THEN "COMPLETED" ELSE status[<<j, n>>]
    BY <1>1 DEF CompleteAttempt, IInv, TypeOK, Attempts
  <1>3. \A n \in 1..MaxAttempts : status[<<i, n>>] = "STARTED" => n = m
    BY <1>1, <1>2, HolderIsAlone DEF OneLiveAttempt
  <1>4. ASSUME NEW j \in Jobs
        PROVE  /\ Tried(j)' = Tried(j)
               /\ Live(j)' = IF j = i THEN {} ELSE Live(j)
               /\ Finished(j)' = IF j = i THEN TRUE ELSE Finished(j)
    <2>1. Tried(j)' = Tried(j)
      BY <1>1, <1>2 DEF Tried
    <2>2. Live(j)' = IF j = i THEN {} ELSE Live(j)
      BY <1>2, <1>3 DEF Live
    <2>3. Finished(j)' = IF j = i THEN TRUE ELSE Finished(j)
      BY <1>1, <1>2 DEF Finished
    <2>4. QED
      BY <2>1, <2>2, <2>3
  <1>5. m \in Live(i)
    BY <1>1 DEF Live
  <1>6. Outcome!Finish(i)
    BY <1>1, <1>4, <1>5 DEF Outcome!Finish, Tried, Live, Finished
  <1>7. QED
    BY <1>1, <1>6 DEF Outcome!Next

LEMMA StepSimulated == IInv /\ [Next]_vars => [Outcome!Next]_(Outcome!jobVars)
  <1> SUFFICES ASSUME IInv, [Next]_vars
               PROVE  Outcome!Next \/ UNCHANGED Outcome!jobVars
    OBVIOUS
  <1>1. ASSUME NEW w \in Workers, MarkAttemptFailed(w)
        PROVE  Outcome!Next \/ UNCHANGED status
    <2> DEFINE a == attempt[w]
    <2>1. CASE status[a] = "STARTED"
      <3>1. {a} \in SUBSET Attempts
        BY <1>1 DEF MarkAttemptFailed, IInv, CallsHaveAttempts, Running
      <3>2. status' = [b \in Attempts |-> IF b \in {a} THEN "FAILED" ELSE status[b]]
        BY <1>1, <2>1 DEF MarkAttemptFailed, IInv, TypeOK
      <3>3. QED
        BY <2>1, <3>1, <3>2, GiveUpSimulated
    <2>2. CASE status[a] # "STARTED"
      BY <1>1, <2>2 DEF MarkAttemptFailed
    <2>3. QED
      BY <2>1, <2>2
  <1>2. ASSUME NEW t, Abandon(Expired(t)) PROVE Outcome!Next
    <2>1. Expired(t) \in SUBSET Attempts /\ \A a \in Expired(t) : status[a] = "STARTED"
      BY DEF Expired
    <2>2. status' = [a \in Attempts |-> IF a \in Expired(t) THEN "ABANDONED" ELSE status[a]]
      BY <1>2 DEF Abandon
    <2>3. QED
      BY <2>1, <2>2, GiveUpSimulated
  <1>3. ASSUME NEW w \in Workers, WorkerStep(w)
        PROVE  Outcome!Next \/ UNCHANGED status
    <2>1. CASE RefuseJob(w) \/ ReclaimExpired(w) \/ ConfirmLost(w) \/ ExtractionThrows(w) \/ CallbackReturns(w)
      BY <2>1 DEF RefuseJob, ReclaimExpired, ConfirmLost, ExtractionThrows, CallbackReturns, dbVars
    <2>2. CASE ConfirmLease(w) \/ OpenSnapshot(w) \/ CompletionRefused(w) \/ ReturnResult(w)
      BY <2>2 DEF ConfirmLease, OpenSnapshot, CompletionRefused, ReturnResult, dbVars
    <2>3. CASE InsertAttempt(w) \/ CompleteAttempt(w) \/ MarkAttemptFailed(w)
      BY <2>3, <1>1, InsertSimulated, CompleteSimulated
    <2>4. CASE ReconcileAndThrow(w)
      BY <2>4, <1>2 DEF ReconcileAndThrow
    <2>5. QED
      BY <1>3, <2>1, <2>2, <2>3, <2>4 DEF WorkerStep
  <1>4. ASSUME NEW t \in 0..now, ReconcileStaleAttempts(t) PROVE Outcome!Next
    BY <1>2, <1>4 DEF ReconcileStaleAttempts
  <1>5. CASE \/ Tick \/ UNCHANGED vars
             \/ \E u \in Users : ChangePreference(u)
             \/ \E w \in Workers, j \in Jobs : Submit(w, j)
             \/ \E w \in Workers : TakeJobLock(w) \/ Heartbeat(w) \/ Crash(w)
    <2>1. UNCHANGED status
      BY <1>5 DEF Tick, ChangePreference, Submit, TakeJobLock, Heartbeat, Crash, dbVars, vars
    <2>2. QED
      BY <2>1, RowsUnchanged
  <1>6. QED
    BY <1>3, <1>4, <1>5, RowsUnchanged DEF Next

\* The attempt table is JobOutcome: leases that run out, late statements, crashes and reconciliations
\* at whatever time add nothing to one attempt at a time claiming, giving up or finishing its job.
THEOREM JobOutcomeImplemented == Spec => ImplementsJobOutcome
  <1>1. Init => Outcome!Init
    <2>1. \A j \in Jobs, n \in 1..MaxAttempts : <<j, n>> \in Attempts
      BY DEF Attempts
    <2>2. SUFFICES ASSUME Init PROVE Outcome!Init
      OBVIOUS
    <2>3. \A j \in Jobs, n \in 1..MaxAttempts : status[<<j, n>>] = "ABSENT"
      BY <2>1, <2>2 DEF Init
    <2>4. QED
      BY <2>3 DEF Outcome!Init
  <1>2. QED
    BY <1>1, InvariantHolds, StepSimulated, PTL DEF Spec, ImplementsJobOutcome, Outcome!Spec

=============================================================================
