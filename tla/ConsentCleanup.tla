--------------------------- MODULE ConsentCleanup ---------------------------
(***************************************************************************)
(* Deletion of registrations that were never completed, in competition     *)
(* with the requests that complete them:                                   *)
(* app/services/pending_consent_cleanup_service.ts with the worker that    *)
(* runs it every day, and the mailbox authorization of                     *)
(* app/services/email_authorization_completion_service.ts as far as it     *)
(* touches the same rows.                                                  *)
(*                                                                         *)
(* The cleanup selects its candidates without a lock.  For each it then    *)
(* locks the user, locks the preference, checks both again, stops the mail *)
(* watch and revokes the provider's grant (calls that a rollback does not  *)
(* undo), and deletes the user and everything that belongs to it.          *)
(* completeOnboarding locks the same two rows in the opposite order.       *)
(***************************************************************************)
EXTENDS UserConsent

CONSTANTS
  Cleaners,   \* processes that run the cleanup worker
  MaxGrants,  \* bound: mailbox authorizations per user
  MaxFailures \* bound: candidates that fail, cleanups that crash or lose their lock

ASSUME IdentityAssumption ==
  /\ Cleaners \cap Requests = {}
  /\ NoOne \notin Cleaners \cup Requests \cup Users
  /\ NoPreference \notin Preferences
ASSUME CleanupBoundsAssumption == MaxGrants \in Nat \ {0} /\ MaxFailures \in Nat

VARIABLES
  aged,        \* aged[u]: u registered more than the retention time ago
  grant,       \* grant[u]: which authorization u's stored tokens are from, 0 without a connection
  grantLock,   \* grantLock[u]: the cleaner whose open transaction has updated the connection row
  lockHolder,  \* the cleaner whose transaction has the cleanup's advisory lock
  cpc,         \* cpc[c]: where cleaner c is
  candidates,  \* candidates[c]: the users c has selected and not yet dealt with
  target,      \* target[c]: the candidate c deals with
  failures     \* how many cleanups and candidates have failed

mailVars    == <<grant, grantLock>>
cleanerVars == <<lockHolder, cpc, candidates, target, failures>>
vars        == <<consentVars, aged, mailVars, cleanerVars>>

\* Mutant of NeverCompleted: the start of consent enforcement is not looked at.
NeverAccepted(u) == pref[u] # NoPreference => ~pref[u].terms

\* isNeverCompletedRegistration, with the checks around it, on rows the caller has locked.
NeverCompleted(u) ==
  /\ ~legacy[u]
  /\ pref[u] # NoPreference => ~pref[u].terms /\ pref[u].owned

\* The first candidate query: registrations that have a preference row.
PendingUsers == {u \in users : aged[u] /\ pref[u] # NoPreference /\ NeverCompleted(u)}

\* Mutant of MissingUsers: accounts without a preference row are not looked for.
NoMissingUsers == {}

\* The second: registrations whose preference row was never written.
MissingUsers == {u \in users : aged[u] /\ pref[u] = NoPreference /\ ~legacy[u]}

CGoto(c, l) == cpc' = [cpc EXCEPT ![c] = l]

\* The candidate's transaction of c ends: its row locks are free again.
CRelease(c) ==
  /\ userLock' = [u \in Users |-> IF userLock[u] = c THEN NoOne ELSE userLock[u]]
  /\ prefLock' = [u \in Users |-> IF prefLock[u] = c THEN NoOne ELSE prefLock[u]]
  /\ grantLock' = [u \in Users |-> IF grantLock[u] = c THEN NoOne ELSE grantLock[u]]
  /\ UNCHANGED userShare

\* Cleaner c is done with its candidate and takes the next.
NextCandidate(c) ==
  /\ CGoto(c, "picking")
  /\ candidates' = [candidates EXCEPT ![c] = @ \ {target[c]}]
  /\ target' = [target EXCEPT ![c] = NoOne]
  /\ CRelease(c)
  /\ UNCHANGED lockHolder
-----------------------------------------------------------------------------
Init ==
  /\ ConsentInit
  /\ aged \in [Users -> BOOLEAN]
  /\ grant \in [Users -> {0, 1}]
  /\ grantLock = [u \in Users |-> NoOne]
  /\ lockHolder = NoOne
  /\ cpc = [c \in Cleaners |-> "idle"]
  /\ candidates = [c \in Cleaners |-> {}]
  /\ target = [c \in Cleaners |-> NoOne]
  /\ failures = 0

Age(u) ==
  /\ ~aged[u]
  /\ aged' = [aged EXCEPT ![u] = TRUE]
  /\ UNCHANGED <<consentVars, mailVars, cleanerVars>>

\* completeEmailAuthorization of a user who signs in again: a new connection row refers to
\* the user, an existing one is updated in place.
AuthorizeMailbox(u) ==
  /\ u \in users
  /\ grant[u] < MaxGrants
  /\ IF grant[u] = 0 THEN CanRefer(u) ELSE grantLock[u] = NoOne
  /\ grant' = [grant EXCEPT ![u] = @ + 1]
  /\ UNCHANGED <<consentVars, aged, grantLock, cleanerVars>>
-----------------------------------------------------------------------------
(***************************************************************************)
(* cleanupWithLock and cleanup.                                            *)
(***************************************************************************)

\* pg_try_advisory_xact_lock: a cleanup returns at once while another one has the lock.
CleanupLockFree == lockHolder = NoOne

\* The transaction of c that took the lock ends.
ReleaseCleanupLock(c) == lockHolder' = IF lockHolder = c THEN NoOne ELSE lockHolder

StartCleanup(c) ==
  /\ cpc[c] = "idle"
  /\ CleanupLockFree
  /\ lockHolder' = c
  /\ candidates' = [candidates EXCEPT ![c] = PendingUsers]
  /\ CGoto(c, "selecting")
  /\ UNCHANGED <<consentVars, aged, mailVars, target, failures>>

SelectMissing(c) ==
  /\ cpc[c] = "selecting"
  /\ candidates' = [candidates EXCEPT ![c] = @ \cup MissingUsers]
  /\ CGoto(c, "picking")
  /\ UNCHANGED <<consentVars, aged, mailVars, lockHolder, target, failures>>

PickCandidate(c) ==
  /\ cpc[c] = "picking"
  /\ \E u \in candidates[c] : target' = [target EXCEPT ![c] = u]
  /\ CGoto(c, "locking")
  /\ UNCHANGED <<consentVars, aged, mailVars, lockHolder, candidates, failures>>

EndCleanup(c) ==
  /\ cpc[c] = "picking"
  /\ candidates[c] = {}
  /\ CGoto(c, "idle")
  /\ ReleaseCleanupLock(c)
  /\ UNCHANGED <<consentVars, aged, mailVars, candidates, target, failures>>
-----------------------------------------------------------------------------
(***************************************************************************)
(* cleanupCandidate.                                                       *)
(***************************************************************************)

LockUser(c) ==
  LET u == target[c] IN
  /\ cpc[c] = "locking"
  /\ u \in users
  /\ userLock[u] = NoOne
  /\ userShare[u] = {}
  /\ userLock' = [userLock EXCEPT ![u] = c]
  /\ CGoto(c, "checking")
  /\ UNCHANGED <<tableVars, userShare, prefLock, requestVars, aged, mailVars, lockHolder, candidates, target, failures>>

FindNoUser(c) ==
  /\ cpc[c] = "locking"
  /\ target[c] \notin users
  /\ NextCandidate(c)
  /\ UNCHANGED <<tableVars, requestVars, aged, grant, failures>>

\* The preference can be read FOR UPDATE: there is no committed row, or nobody has it locked.
CanLockPreference(u) == pref[u] = NoPreference \/ prefLock[u] = NoOne

\* Mutant of ConfirmCandidate: what the candidate query saw is not checked again.
TrustCandidate(c) ==
  LET u == target[c] IN
  /\ cpc[c] = "checking"
  /\ CanLockPreference(u)
  /\ prefLock' = [prefLock EXCEPT ![u] = IF pref[u] = NoPreference THEN @ ELSE c]
  /\ CGoto(c, IF grant[u] = 0 THEN "deleting" ELSE "stopping")
  /\ UNCHANGED <<tableVars, userLock, userShare, requestVars, aged, mailVars, lockHolder, candidates, target, failures>>

\* Lock the preference, check again, read the connections.
ConfirmCandidate(c) ==
  LET u == target[c] IN
  /\ cpc[c] = "checking"
  /\ CanLockPreference(u)
  /\ NeverCompleted(u)
  /\ prefLock' = [prefLock EXCEPT ![u] = IF pref[u] = NoPreference THEN @ ELSE c]
  /\ CGoto(c, IF grant[u] = 0 THEN "deleting" ELSE "stopping")
  /\ UNCHANGED <<tableVars, userLock, userShare, requestVars, aged, mailVars, lockHolder, candidates, target, failures>>

SkipCandidate(c) ==
  LET u == target[c] IN
  /\ cpc[c] = "checking"
  /\ CanLockPreference(u)
  /\ ~NeverCompleted(u)
  /\ NextCandidate(c)
  /\ UNCHANGED <<tableVars, requestVars, aged, grant, failures>>

\* stopWatch saves the connection, which locks its row only when a column changes: the failure
\* of an unreachable mail service is often recorded already.
StopWatch(c) ==
  LET u == target[c] IN
  /\ cpc[c] = "stopping"
  /\ grantLock' \in {grantLock, [grantLock EXCEPT ![u] = c]}
  /\ CGoto(c, "revoking")
  /\ UNCHANGED <<consentVars, aged, grant, lockHolder, candidates, target, failures>>

\* revokeAuthorization asks the provider, whose state is not in the database; its failure is
\* only logged.
RevokeAuthorization(c) ==
  /\ cpc[c] = "revoking"
  /\ CGoto(c, "deleting")
  /\ UNCHANGED <<consentVars, aged, mailVars, lockHolder, candidates, target, failures>>

\* Delete the user's dependents and the user, and commit; preference, events and connections
\* go with the user.
DeleteUser(c) ==
  LET u == target[c] IN
  /\ cpc[c] = "deleting"
  /\ users' = users \ {u}
  /\ pref' = [pref EXCEPT ![u] = NoPreference]
  /\ events' = [events EXCEPT ![u] = <<>>]
  /\ grant' = [grant EXCEPT ![u] = 0]
  /\ NextCandidate(c)
  /\ UNCHANGED <<legacy, requestVars, aged, failures>>

\* The candidate's transaction is rolled back, which is logged, and the loop goes on.
AbortCandidate(c) ==
  /\ cpc[c] \in {"locking", "checking", "stopping", "revoking", "deleting"}
  /\ NextCandidate(c)
  /\ UNCHANGED <<tableVars, requestVars, aged, grant>>

\* A statement fails.
FailCandidate(c) ==
  /\ failures < MaxFailures
  /\ failures' = failures + 1
  /\ AbortCandidate(c)

\* The process dies, whatever it was doing.
CrashCleaner(c) ==
  /\ cpc[c] # "idle"
  /\ failures < MaxFailures
  /\ failures' = failures + 1
  /\ CGoto(c, "idle")
  /\ candidates' = [candidates EXCEPT ![c] = {}]
  /\ target' = [target EXCEPT ![c] = NoOne]
  /\ CRelease(c)
  /\ ReleaseCleanupLock(c)
  /\ UNCHANGED <<tableVars, requestVars, aged, grant>>

\* The idle session that holds the advisory lock is closed; the loop, which works in sessions
\* of its own, goes on and another process can start.
LoseCleanupLock(c) ==
  /\ lockHolder = c
  /\ failures < MaxFailures
  /\ failures' = failures + 1
  /\ lockHolder' = NoOne
  /\ UNCHANGED <<consentVars, aged, mailVars, cpc, candidates, target>>
-----------------------------------------------------------------------------
(***************************************************************************)
(* completeOnboarding holds the preference and waits for the user, the     *)
(* cleanup holds the user and waits for the preference: the database       *)
(* cancels one of them.                                                    *)
(***************************************************************************)

Deadlocked(r, c) ==
  /\ pc[r] = "recording" /\ userLock[UserOf(r)] = c
  /\ cpc[c] = "checking" /\ prefLock[target[c]] = r

CancelRequest(r) ==
  /\ \E c \in Cleaners : Deadlocked(r, c)
  /\ FailRequest(r)

CancelCleaner(c) ==
  /\ \E r \in Requests : Deadlocked(r, c)
  /\ AbortCandidate(c)
  /\ UNCHANGED failures

BreakDeadlock ==
  \/ \E r \in Requests : CancelRequest(r) /\ UNCHANGED <<aged, mailVars, cleanerVars>>
  \/ \E c \in Cleaners : CancelCleaner(c)

CleanerStep(c) ==
  \/ SelectMissing(c)
  \/ PickCandidate(c)
  \/ EndCleanup(c)
  \/ LockUser(c)
  \/ FindNoUser(c)
  \/ ConfirmCandidate(c)
  \/ SkipCandidate(c)
  \/ StopWatch(c)
  \/ RevokeAuthorization(c)
  \/ DeleteUser(c)

Next ==
  \/ ConsentNext /\ UNCHANGED <<aged, mailVars, cleanerVars>>
  \/ \E u \in Users : Age(u)
  \/ \E u \in Users : AuthorizeMailbox(u)
  \/ \E c \in Cleaners : StartCleanup(c)
  \/ \E c \in Cleaners : CleanerStep(c)
  \/ \E c \in Cleaners : FailCandidate(c)
  \/ \E c \in Cleaners : CrashCleaner(c)
  \/ \E c \in Cleaners : LoseCleanupLock(c)
  \/ BreakDeadlock

Spec == Init /\ [][Next]_vars

\* Requests and cleanups that have begun go on (a row lock that is let go passes to who waits for
\* it, so a request is not overtaken for ever by one cleanup after another), the worker's loop
\* starts a cleanup again and again, and the database notices deadlocks.
Fairness ==
  /\ \A r \in Requests : SF_vars(RequestStep(r) /\ UNCHANGED <<aged, mailVars, cleanerVars>>)
  /\ \A c \in Cleaners : WF_vars(CleanerStep(c))
  /\ WF_vars(\E c \in Cleaners : StartCleanup(c))
  /\ WF_vars(BreakDeadlock)

FairSpec == Spec /\ Fairness
-----------------------------------------------------------------------------
(***************************************************************************)
(* Correctness.                                                            *)
(***************************************************************************)

\* Who changes a preference has its row; a cleaner has the user's row from its first check on,
\* and from the second on the row of the preference there is.
WorkIsLocked ==
  /\ \A r \in Requests : pc[r] \in {"deciding", "recording"} => prefLock[UserOf(r)] = r
  /\ \A c \in Cleaners : cpc[c] \in {"checking", "stopping", "revoking", "deleting"} =>
       /\ target[c] \in users /\ userLock[target[c]] = c
       /\ cpc[c] # "checking" /\ pref[target[c]] # NoPreference => prefLock[target[c]] = c

\* The state has its types; the rows obey the CHECKs of their tables and the foreign key to
\* users, and nobody works on a user it has not locked.
TypeOK ==
  /\ users \subseteq Users
  /\ legacy \in [Users -> BOOLEAN]
  /\ pref \in [Users -> Preferences \cup {NoPreference}]
  /\ \A u \in Users : pref[u] # NoPreference =>
       /\ u \in users
       /\ IF pref[u].terms THEN pref[u].privacy # "none"
                            ELSE pref[u].privacy = "none" /\ ~pref[u].optIn
  /\ \A u \in Users \ users : events[u] = <<>> /\ grant[u] = 0
  /\ userLock \in [Users -> Cleaners \cup {NoOne}]
  /\ userShare \in [Users -> SUBSET Requests]
  /\ prefLock \in [Users -> Requests \cup Cleaners \cup {NoOne}]
  /\ pc \in [Requests -> {"idle", "arriving", "ensuring", "locking", "deciding", "recording", "done"}]
  /\ call \in [Requests -> [user : Users \cup {NoOne}, form : Forms \cup {"none"},
                            op : Operations \cup {"none"}, optIn : BOOLEAN]]
  /\ draft \in [Requests -> Preferences]
  /\ answer \in [Requests -> {"none", "saved", "consent required", "failed"}]
  /\ aged \in [Users -> BOOLEAN]
  /\ grant \in [Users -> 0..MaxGrants]
  /\ grantLock \in [Users -> Cleaners \cup {NoOne}]
  /\ lockHolder \in Cleaners \cup {NoOne}
  /\ cpc \in [Cleaners -> {"idle", "selecting", "picking", "locking", "checking", "stopping",
                           "revoking", "deleting"}]
  /\ candidates \in [Cleaners -> SUBSET Users]
  /\ target \in [Cleaners -> Users \cup {NoOne}]
  /\ failures \in 0..MaxFailures
  /\ WorkIsLocked

\* From the second check to the commit the candidate stays one whose registration was never
\* completed: "prevents a concurrent consent completion from racing the cleanup operation"
\* (pending_consent_cleanup_service.ts:160-161), so neither the provider's grant nor the
\* account of a user who has accepted, or who registered before enforcement, is touched.
PurgeOnlyNeverCompleted ==
  \A c \in Cleaners : cpc[c] \in {"stopping", "revoking", "deleting"} =>
    LET u == target[c] IN
      /\ u \in users /\ aged[u] /\ ~legacy[u]
      /\ pref[u] # NoPreference => ~pref[u].terms /\ pref[u].owned
      /\ \A r \in Requests : UserOf(r) = u => answer[r] # "saved"

\* What a user has chosen outlives every cleanup: the second check under both row locks keeps
\* the deletion, which a slow provider delays, away from accounts that have been completed.
ChoicesAreKept == SavedIsKept /\ PurgeOnlyNeverCompleted

\* An old registration that never completes does not stay: it is deleted, or completed, after
\* finitely many failures, also when its preference row was never written.
PendingIsResolved ==
  \A u \in Users : (u \in users /\ aged[u] /\ ~legacy[u]) ~>
    \/ u \notin users
    \/ pref[u] # NoPreference /\ pref[u].terms

\* The accounts as a caller sees them.
Accounts == INSTANCE Registration WITH
  stage <- [u \in Users |-> IF u \notin users THEN "gone"
                            ELSE IF pref[u] # NoPreference /\ pref[u].terms THEN "accepted"
                            ELSE "pending"],
  promised <- {UserOf(r) : r \in {x \in Requests : answer[x] = "saved"}}

\* The tables implement Registration: with its locks and its second check the cleanup only
\* deletes pending accounts, and acceptance and the answer that promises it are one step.
ImplementsRegistration == Accounts!Spec
=============================================================================
