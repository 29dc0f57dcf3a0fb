----------------------------- MODULE UserConsent -----------------------------
(***************************************************************************)
(* Consent preferences and their audit events:                             *)
(* app/services/user_consent_service.ts, with the controllers and the      *)
(* middleware that call it and the row locks its transactions take.        *)
(*                                                                         *)
(* A transaction's changes stay in its draft until it commits.  Inserting  *)
(* a row that refers to a user takes a key-share lock on the user's row,   *)
(* which a FOR UPDATE lock of that row excludes.                           *)
(***************************************************************************)
EXTENDS Integers, Sequences, FiniteSets

CONSTANTS
  Users,          \* registered users
  Requests,       \* calls of the two consent forms, each made once
  NoOne,          \* no user, and the holder of a lock nobody holds
  NoPreference,   \* there is no preference row
  PolicyRevised   \* some users accepted under an earlier Privacy Policy

ASSUME PolicyRevisedAssumption == PolicyRevised \in BOOLEAN

VARIABLES
  users,       \* users that have a row
  legacy,      \* legacy[u]: u registered before consent enforcement started
  pref,        \* pref[u]: the committed preference row
  events,      \* events[u]: the consent events, oldest first
  userLock,    \* userLock[u]: who has u's row locked FOR UPDATE
  userShare,   \* userShare[u]: the requests with a key-share lock on u's row
  prefLock,    \* prefLock[u]: who has u's preference row locked
  pc,          \* pc[r]: where request r is
  call,        \* call[r]: what request r asks for
  draft,       \* draft[r]: the preference row inside r's transaction
  answer       \* answer[r]: what r's caller was told

tableVars   == <<users, legacy, pref, events>>
lockVars    == <<userLock, userShare, prefLock>>
requestVars == <<pc, call, draft, answer>>
consentVars == <<tableVars, lockVars, requestVars>>

\* owned is created_by_user_uuid IS NOT NULL; privacy the acknowledged policy version.
Preferences == [owned : BOOLEAN, terms : BOOLEAN,
                privacy : {"none", "old", "current"}, optIn : BOOLEAN]

Operations == {"completeOnboarding", "acknowledgePrivacyPolicy", "updateModelTrainingPreference"}
Forms == {"consent", "account"}
NoCall == [user |-> NoOne, form |-> "none", op |-> "none", optIn |-> FALSE]

UserOf(r) == call[r].user

\* insertInitialPreference for a user who acts for himself.
InitialPreference == [owned |-> TRUE, terms |-> FALSE, privacy |-> "none", optIn |-> FALSE]

\* Mutant of Accepted: the terms flag is forgotten.
AcceptedWithoutTerms(p, optIn) == [p EXCEPT !.privacy = "current", !.optIn = optIn]

\* The row completeOnboarding first writes for a user who chose optIn.
Accepted(p, optIn) == [p EXCEPT !.terms = TRUE, !.privacy = "current", !.optIn = optIn]

RequiresPrivacyAcknowledgment(p) == p.terms /\ p.privacy # "current"

TrainingEvent(optIn) ==
  <<IF optIn THEN "MODEL_TRAINING_OPTED_IN" ELSE "MODEL_TRAINING_OPTED_OUT", "current">>

\* The events of a completed onboarding under a version of the policy, in the order written.
OnboardingEvents(privacy, optIn) ==
  << <<"TERMS_ACCEPTED", "current">>,
     <<"PRIVACY_POLICY_ACKNOWLEDGED", privacy>>,
     TrainingEvent(optIn) >>

\* The events a transaction that changes the row adds.
EventsOf(c) ==
  CASE c.op = "completeOnboarding" -> OnboardingEvents("current", c.optIn)
    [] c.op = "acknowledgePrivacyPolicy" -> << <<"PRIVACY_POLICY_ACKNOWLEDGED", "current">> >>
    [] c.op = "updateModelTrainingPreference" -> << TrainingEvent(c.optIn) >>

-----------------------------------------------------------------------------
\* Rows and events that registrations, the backfill and earlier requests can have left.
ConsentInit ==
  /\ users = Users
  /\ legacy \in [Users -> BOOLEAN]
  /\ pref \in [Users -> Preferences \cup {NoPreference}]
  /\ \A u \in Users : pref[u] # NoPreference =>
       /\ ~pref[u].terms => pref[u].privacy = "none" /\ ~pref[u].optIn
       /\ pref[u].terms => pref[u].privacy \in {"current"} \cup (IF PolicyRevised THEN {"old"} ELSE {})
       /\ ~pref[u].owned => legacy[u]
  /\ events = [u \in Users |-> IF pref[u] # NoPreference /\ pref[u].terms
                                 THEN OnboardingEvents(pref[u].privacy, pref[u].optIn)
                                 ELSE <<>>]
  /\ userLock = [u \in Users |-> NoOne]
  /\ userShare = [u \in Users |-> {}]
  /\ prefLock = [u \in Users |-> NoOne]
  /\ pc = [r \in Requests |-> "idle"]
  /\ call = [r \in Requests |-> NoCall]
  /\ draft = [r \in Requests |-> InitialPreference]
  /\ answer = [r \in Requests |-> "none"]

Goto(r, l) == pc' = [pc EXCEPT ![r] = l]

\* The transaction of request r, committed or rolled back, lets go of its locks.
Unlock(r) ==
  /\ userShare' = [u \in Users |-> userShare[u] \ {r}]
  /\ prefLock' = [u \in Users |-> IF prefLock[u] = r THEN NoOne ELSE prefLock[u]]
  /\ UNCHANGED userLock

Answer(r, a) ==
  /\ Goto(r, "done")
  /\ answer' = [answer EXCEPT ![r] = a]
  /\ UNCHANGED <<call, draft>>

\* A row with a reference to u can be inserted now: nobody has u's row locked.
CanRefer(u) == u \in users /\ userLock[u] = NoOne
-----------------------------------------------------------------------------
(***************************************************************************)
(* Before the service's transaction.                                       *)
(***************************************************************************)

\* POST /onboarding/consent or PATCH /account/data-preferences.
Submit(r, u, form, optIn) ==
  /\ pc[r] = "idle"
  /\ Goto(r, "arriving")
  /\ call' = [call EXCEPT ![r] = [user |-> u, form |-> form, op |-> "none", optIn |-> optIn]]
  /\ UNCHANGED <<tableVars, lockVars, draft, answer>>

\* What the form does with the preference it reads: the consent form chooses its operation,
\* the account form is behind the consent middleware.
Choose(r, p) ==
  \/ /\ call[r].form = "consent"
     /\ call' = [call EXCEPT ![r].op = IF p.terms THEN "acknowledgePrivacyPolicy"
                                                  ELSE "completeOnboarding"]
     /\ Goto(r, "ensuring")
     /\ UNCHANGED <<draft, answer>>
  \/ /\ call[r].form = "account"
     /\ p.terms /\ ~RequiresPrivacyAcknowledgment(p)
     /\ call' = [call EXCEPT ![r].op = "updateModelTrainingPreference"]
     /\ Goto(r, "ensuring")
     /\ UNCHANGED <<draft, answer>>
  \/ /\ call[r].form = "account"
     /\ ~p.terms \/ RequiresPrivacyAcknowledgment(p)
     /\ Answer(r, "consent required")

\* ensurePreference finds the row.
ReadPreference(r) ==
  LET u == UserOf(r) IN
  /\ pc[r] = "arriving"
  /\ pref[u] # NoPreference
  /\ Choose(r, pref[u])
  /\ UNCHANGED <<tableVars, lockVars>>

\* ensurePreference inserts the row and commits it at once.
EnsurePreference(r) ==
  LET u == UserOf(r) IN
  /\ pc[r] = "arriving"
  /\ pref[u] = NoPreference
  /\ CanRefer(u)
  /\ prefLock[u] = NoOne
  /\ pref' = [pref EXCEPT ![u] = InitialPreference]
  /\ Choose(r, InitialPreference)
  /\ UNCHANGED <<users, legacy, events, lockVars>>
-----------------------------------------------------------------------------
(***************************************************************************)
(* The transaction.                                                        *)
(***************************************************************************)

\* INSERT ... ON CONFLICT DO NOTHING: an existing row is left alone and not locked.
KeepRow(r) ==
  /\ pc[r] = "ensuring"
  /\ pref[UserOf(r)] # NoPreference
  /\ Goto(r, "locking")
  /\ UNCHANGED <<tableVars, lockVars, call, draft, answer>>

\* The insertion takes effect; other transactions wait for it and do not see it.
InsertRow(r) ==
  LET u == UserOf(r) IN
  /\ pc[r] = "ensuring"
  /\ pref[u] = NoPreference
  /\ CanRefer(u)
  /\ prefLock[u] = NoOne
  /\ prefLock' = [prefLock EXCEPT ![u] = r]
  /\ userShare' = [userShare EXCEPT ![u] = @ \cup {r}]
  /\ draft' = [draft EXCEPT ![r] = InitialPreference]
  /\ Goto(r, "deciding")
  /\ UNCHANGED <<tableVars, userLock, call, answer>>

\* Mutant of LockPreference: the row is read without FOR UPDATE.
ReadRowUnlocked(r) ==
  LET u == UserOf(r) IN
  /\ pc[r] = "locking"
  /\ pref[u] # NoPreference
  /\ draft' = [draft EXCEPT ![r] = pref[u]]
  /\ Goto(r, "deciding")
  /\ UNCHANGED <<tableVars, lockVars, call, answer>>

\* lockedPreference waits for the row's lock and reads the row.
LockPreference(r) ==
  LET u == UserOf(r) IN
  /\ pc[r] = "locking"
  /\ pref[u] # NoPreference
  /\ prefLock[u] = NoOne
  /\ prefLock' = [prefLock EXCEPT ![u] = r]
  /\ draft' = [draft EXCEPT ![r] = pref[u]]
  /\ Goto(r, "deciding")
  /\ UNCHANGED <<tableVars, userLock, userShare, call, answer>>

\* The row the request needs is gone with its user: firstOrFail or a foreign key fails.
FindNoRow(r) ==
  LET u == UserOf(r) IN
  /\ \/ pc[r] \in {"arriving", "ensuring"} /\ pref[u] = NoPreference /\ u \notin users
     \/ pc[r] = "locking" /\ pref[u] = NoPreference
  /\ Answer(r, "failed")
  /\ UNCHANGED <<tableVars, lockVars>>

\* The locked row already is what the request asks for.
Unchanged(r) ==
  CASE call[r].op = "completeOnboarding" -> draft[r].terms
    [] call[r].op = "acknowledgePrivacyPolicy" ->
         draft[r].terms /\ ~RequiresPrivacyAcknowledgment(draft[r])
    [] call[r].op = "updateModelTrainingPreference" ->
         draft[r].terms /\ draft[r].optIn = call[r].optIn

ReturnUnchanged(r) ==
  /\ pc[r] = "deciding"
  /\ Unchanged(r)
  /\ Answer(r, "saved")
  /\ Unlock(r)
  /\ UNCHANGED tableVars

\* The two operations on an accepted row throw without one (FailRequest); GateStaysOpen says
\* that they never come to it.
SaveRow(r) ==
  /\ pc[r] = "deciding"
  /\ ~Unchanged(r)
  /\ call[r].op # "completeOnboarding" => draft[r].terms
  /\ draft' = [draft EXCEPT ![r] =
       CASE call[r].op = "completeOnboarding" -> Accepted(@, call[r].optIn)
         [] call[r].op = "acknowledgePrivacyPolicy" -> [@ EXCEPT !.privacy = "current"]
         [] call[r].op = "updateModelTrainingPreference" -> [@ EXCEPT !.optIn = call[r].optIn]]
  /\ Goto(r, "recording")
  /\ UNCHANGED <<tableVars, lockVars, call, answer>>

\* Insert the events, which refer to the user, and commit.
RecordAndCommit(r) ==
  LET u == UserOf(r) IN
  /\ pc[r] = "recording"
  /\ CanRefer(u)
  /\ pref' = [pref EXCEPT ![u] = draft[r]]
  /\ events' = [events EXCEPT ![u] = @ \o EventsOf(call[r])]
  /\ Answer(r, "saved")
  /\ Unlock(r)
  /\ UNCHANGED <<users, legacy>>

\* A statement fails, the connection drops or the process dies: roll back.
FailRequest(r) ==
  /\ pc[r] \notin {"idle", "done"}
  /\ Answer(r, "failed")
  /\ Unlock(r)
  /\ UNCHANGED tableVars

RequestStep(r) ==
  \/ ReadPreference(r)
  \/ EnsurePreference(r)
  \/ KeepRow(r)
  \/ InsertRow(r)
  \/ LockPreference(r)
  \/ FindNoRow(r)
  \/ ReturnUnchanged(r)
  \/ SaveRow(r)
  \/ RecordAndCommit(r)

ConsentNext ==
  \/ \E r \in Requests, u \in Users, form \in Forms, optIn \in BOOLEAN : Submit(r, u, form, optIn)
  \/ \E r \in Requests : RequestStep(r)
  \/ \E r \in Requests : FailRequest(r)
-----------------------------------------------------------------------------
(***************************************************************************)
(* What the tables promise.                                                *)
(***************************************************************************)

\* The last event of u that is of one of the types in T.
LastEvent(u, T) ==
  LET I == {i \in 1..Len(events[u]) : events[u][i][1] \in T}
  IN  events[u][CHOOSE i \in I : \A k \in I : k <= i]

TrainingTypes == {"MODEL_TRAINING_OPTED_IN", "MODEL_TRAINING_OPTED_OUT"}

\* The events of a user, replayed, give the current row, though the two are written by
\* different statements of racing transactions: terms are accepted exactly by the one
\* TERMS_ACCEPTED event, and the privacy version and the opt-in are those of the last event.
EventsExplainPreference ==
  \A u \in Users :
    IF pref[u] = NoPreference \/ ~pref[u].terms
      THEN events[u] = <<>>
      ELSE /\ Cardinality({i \in 1..Len(events[u]) : events[u][i][1] = "TERMS_ACCEPTED"}) = 1
           /\ LastEvent(u, {"PRIVACY_POLICY_ACKNOWLEDGED"})[2] = pref[u].privacy
           /\ LastEvent(u, TrainingTypes) = TrainingEvent(pref[u].optIn)

\* Events are written only when a value changes: no opt-in follows an opt-in, no opt-out an
\* opt-out, and no version of the policy is acknowledged twice in a row, even when the same
\* form is sent twice at once.
EventsRecordChanges ==
  \A u \in Users : \A T \in {TrainingTypes, {"PRIVACY_POLICY_ACKNOWLEDGED"}} :
    LET I == {i \in 1..Len(events[u]) : events[u][i][1] \in T}
    IN  \A i, j \in I : i < j /\ (\A k \in I : k <= i \/ j <= k) => events[u][i] # events[u][j]

\* The forms read the preference without a lock before the service locks it.  What they saw
\* holds when the service looks again: acceptance is never taken back, so an update or an
\* acknowledgment that a form let through is never refused with CONSENT_REQUIRED.
GateStaysOpen ==
  \A r \in Requests :
    pc[r] = "deciding" /\ call[r].op # "completeOnboarding" => draft[r].terms

\* The append-only events and the rows they explain agree, and what a form saw when it chose
\* its operation still permits it: the three statements above together.
EventsMatchRows ==
  /\ EventsExplainPreference
  /\ EventsRecordChanges
  /\ GateStaysOpen

\* A request that was told its choices are saved speaks for an account that still exists and
\* has accepted: no cleanup deletes it, whenever it started.
SavedIsKept ==
  \A r \in Requests : answer[r] = "saved" =>
    /\ UserOf(r) \in users
    /\ pref[UserOf(r)] # NoPreference
    /\ pref[UserOf(r)].terms
=============================================================================
