-------------------------- MODULE OnboardingDrafts --------------------------
(***************************************************************************)
(* Anonymous onboarding drafts and the one project each may become:        *)
(* app/services/onboarding_draft_service.ts with the requests of           *)
(* onboarding_controller.ts, the association after a login and the         *)
(* command that expires drafts, and                                        *)
(* app/services/onboarding_project_completion_service.ts.                  *)
(*                                                                         *)
(* A completion locks the draft it uses (FOR UPDATE) and makes the project *)
(* and marks the draft CONSUMED in one transaction.  Everything else reads *)
(* a draft without a lock, decides, and updates the row by its id: the     *)
(* update waits for the row lock and then does not look at the status      *)
(* again.                                                                  *)
(***************************************************************************)
EXTENDS Naturals, FiniteSets

CONSTANTS
  Drafts,    \* rows of anonymous_onboarding_drafts, each with its token (bound)
  Users,     \* registered consumers
  Sessions,  \* anonymous browser sessions
  Requests,  \* web requests and runs of the command (bound)
  NoOne      \* null: no user, no request, no project

ASSUME IdentityAssumption == NoOne \notin Users \cup Sessions \cup Requests \cup Drafts

VARIABLES
  status,    \* status[d]: the status column, "none" while d does not exist
  session,   \* session[d]: anonymous_session_uuid
  owner,     \* owner[d]: registered_user_uuid
  selected,  \* selected[d]: vendors are selected
  project,   \* project[d]: consumed_project_uuid, a project being named by the request that made it
  past,      \* past[d]: expires_at has passed
  lock,      \* lock[d]: the request whose open transaction has locked d
  pc,        \* pc[r]: where request r is
  call,      \* call[r]: what it does, for whom, and what it has read
  answer     \* answer[r]: what the caller of a completion is told, and the project it is sent to

rowVars     == <<status, session, owner, selected, project>>
requestVars == <<pc, call, answer>>
vars        == <<rowVars, past, lock, requestVars>>

Existing == {d \in Drafts : status[d] # "none"}

\* What a request knows.  op: the operation; actor: the session or user it acts for; draft: the
\* draft in hand; found: the ids its select of several drafts returned; seen: the owner of the
\* draft it read.
NoCall == [op |-> "none", actor |-> NoOne, draft |-> NoOne, found |-> {}, seen |-> NoOne]

NoAnswer == [told |-> "none", project |-> NoOne]

Goto(r, l) == pc' = [pc EXCEPT ![r] = l]

Begin(r, o, a, d, ids, l) ==
  /\ pc[r] = "idle"
  /\ call' = [call EXCEPT ![r] = [op |-> o, actor |-> a, draft |-> d, found |-> ids, seen |-> NoOne]]
  /\ Goto(r, l)
  /\ UNCHANGED <<rowVars, past, lock, answer>>

\* r ends, and with it what it knows.
Finish(r) ==
  /\ Goto(r, "done")
  /\ call' = [call EXCEPT ![r] = NoCall]

\* A completion ends with an answer.
Answer(r, told, p) ==
  /\ Finish(r)
  /\ answer' = [answer EXCEPT ![r] = [told |-> told, project |-> p]]

\* The transaction of r ends.
Release(r) == lock' = [d \in Drafts |-> IF lock[d] = r THEN NoOne ELSE lock[d]]
-----------------------------------------------------------------------------
\* Drafts made before: active ones, associated or not.
Init ==
  /\ status \in [Drafts -> {"none", "ACTIVE"}]
  /\ session \in [Drafts -> Sessions]
  /\ owner \in [Drafts -> Users \cup {NoOne}]
  /\ selected \in [Drafts -> BOOLEAN]
  /\ \A d \in Drafts : status[d] = "none" => owner[d] = NoOne /\ ~selected[d]
  /\ project = [d \in Drafts |-> NoOne]
  /\ past = [d \in Drafts |-> FALSE]
  /\ lock = [d \in Drafts |-> NoOne]
  /\ pc = [r \in Requests |-> "idle"]
  /\ call = [r \in Requests |-> NoCall]
  /\ answer = [r \in Requests |-> NoAnswer]

\* The 24 hours of d are over.
PassDeadline(d) ==
  /\ d \in Existing
  /\ ~past[d]
  /\ past' = [past EXCEPT ![d] = TRUE]
  /\ UNCHANGED <<rowVars, lock, requestVars>>
-----------------------------------------------------------------------------
(***************************************************************************)
(* Requests with a token: restoreDraft and registrationHandoff ("lookup",  *)
(* and show after a login), updateSelection ("select"),                    *)
(* associateDraftToUser ("associate").                                     *)
(***************************************************************************)

BeginWithToken(r) ==
  \E d \in Existing :
    \/ \E o \in {"lookup", "select"} : Begin(r, o, NoOne, d, {}, "reading")
    \/ \E u \in Users : Begin(r, "associate", u, d, {}, "reading")

\* Mutant of Read: the status is not looked at.
ReadAnyStatus(r) ==
  /\ pc[r] = "reading"
  /\ Goto(r, "checking")
  /\ call' = [call EXCEPT ![r].seen = owner[call[r].draft]]
  /\ UNCHANGED <<rowVars, past, lock, answer>>

\* getActiveDraftByToken reads the row; it must be ACTIVE.
Read(r) ==
  LET d == call[r].draft IN
  /\ pc[r] = "reading"
  /\ IF status[d] = "ACTIVE"
     THEN Goto(r, "checking") /\ call' = [call EXCEPT ![r].seen = owner[d]]
     ELSE Finish(r)
  /\ UNCHANGED <<rowVars, past, lock, answer>>

\* ensureDraftIsActiveAndFresh of a stale draft: on to its save.
FindStale(r) ==
  /\ pc[r] = "checking"
  /\ past[call[r].draft]
  /\ Goto(r, "expiring")
  /\ UNCHANGED <<rowVars, past, lock, call, answer>>

\* A draft that belongs to one user is not given to another.
OwnerConflict(r) == call[r].op = "associate" /\ call[r].seen \notin {NoOne, call[r].actor}

\* ... and of a fresh one: on to what the request is for.
FindFresh(r) ==
  /\ pc[r] = "checking"
  /\ ~past[call[r].draft]
  /\ IF call[r].op = "lookup" \/ OwnerConflict(r)
     THEN Finish(r)
     ELSE Goto(r, "saving") /\ UNCHANGED call
  /\ UNCHANGED <<rowVars, past, lock, answer>>

\* A save updates the row by its id: it waits for the row lock and overwrites.
CanSave(r, l) == pc[r] = l /\ lock[call[r].draft] = NoOne

\* The save of a draft read as ACTIVE and stale: the status, whatever it is by now.
SaveExpired(r) ==
  /\ CanSave(r, "expiring")
  /\ status' = [status EXCEPT ![call[r].draft] = "EXPIRED"]
  /\ Finish(r)
  /\ UNCHANGED <<session, owner, selected, project, past, lock, answer>>

\* associateDraftToUser: the owner, if it is not the one that was read.
SaveOwner(r) ==
  /\ CanSave(r, "saving")
  /\ call[r].op = "associate"
  /\ owner' = IF call[r].seen = call[r].actor THEN owner
              ELSE [owner EXCEPT ![call[r].draft] = call[r].actor]
  /\ Finish(r)
  /\ UNCHANGED <<status, session, selected, project, past, lock, answer>>

\* updateSelection: none or some of the listings the draft recommends.
SaveSelection(r) ==
  /\ CanSave(r, "saving")
  /\ call[r].op = "select"
  /\ \E chosen \in BOOLEAN : selected' = [selected EXCEPT ![call[r].draft] = chosen]
  /\ Finish(r)
  /\ UNCHANGED <<status, session, owner, project, past, lock, answer>>
-----------------------------------------------------------------------------
(***************************************************************************)
(* Statements that update the drafts an earlier statement has selected,    *)
(* without a second look at their status: markExpiredDrafts, and           *)
(* abandonActiveDraftsForAnonymousSession in createDraft of searchVendors. *)
(***************************************************************************)

BeginExpiry(r) ==
  Begin(r, "expire", NoOne, NoOne, {d \in Drafts : status[d] = "ACTIVE" /\ past[d]}, "marking")

BeginSearch(r) ==
  \E s \in Sessions :
    Begin(r, "search", s, NoOne, {d \in Drafts : status[d] = "ACTIVE" /\ session[d] = s}, "superseding")

\* All the rows are free, and get status s.
UpdateFound(r, s) ==
  /\ \A d \in call[r].found : lock[d] = NoOne
  /\ status' = [d \in Drafts |-> IF d \in call[r].found THEN s ELSE status[d]]
  /\ UNCHANGED <<session, owner, selected, project, past, lock, answer>>

MarkExpired(r) ==
  /\ pc[r] = "marking"
  /\ UpdateFound(r, "EXPIRED")
  /\ Finish(r)

Supersede(r) ==
  /\ pc[r] = "superseding"
  /\ UpdateFound(r, "ABANDONED")
  /\ call' = [call EXCEPT ![r].found = {}]
  /\ Goto(r, "inserting")

InsertDraft(r) ==
  /\ pc[r] = "inserting"
  /\ \E d \in Drafts \ Existing :
       /\ status' = [status EXCEPT ![d] = "ACTIVE"]
       /\ session' = [session EXCEPT ![d] = call[r].actor]
       /\ call' = [call EXCEPT ![r].draft = d]
  /\ Goto(r, "reading")
  /\ UNCHANGED <<owner, selected, project, past, lock, answer>>

\* updateRecommendations, after the search: the columns it writes are not modelled.
SaveRecommendations(r) ==
  /\ CanSave(r, "saving")
  /\ call[r].op = "search"
  /\ Finish(r)
  /\ UNCHANGED <<rowVars, past, lock, answer>>
-----------------------------------------------------------------------------
(***************************************************************************)
(* completeProject.                                                        *)
(***************************************************************************)

OwnedWith(u, s) == {d \in Drafts : owner[d] = u /\ status[d] = s}

\* The locking select sees the user's active drafts of one moment ...
BeginCompletion(r) ==
  \E u \in Users : Begin(r, "complete", u, NoOne, OwnedWith(u, "ACTIVE"), "locking")

\* Mutant of LockDraft: FOR UPDATE is missing.
TakeDraftUnlocked(r) ==
  /\ pc[r] = "locking"
  /\ \E d \in call[r].found : call' = [call EXCEPT ![r].draft = d, ![r].found = {}]
  /\ Goto(r, "completing")
  /\ UNCHANGED <<rowVars, past, lock, answer>>

\* Mutant of LockDraft: what was selected is not checked again after the wait.
LockDraftAsSelected(r) ==
  /\ pc[r] = "locking"
  /\ \E d \in call[r].found :
       /\ lock[d] = NoOne
       /\ lock' = [lock EXCEPT ![d] = r]
       /\ call' = [call EXCEPT ![r].draft = d, ![r].found = {}]
  /\ Goto(r, "completing")
  /\ UNCHANGED <<rowVars, past, answer>>

\* ... waits for the row, and checks it again; the order by updated_timestamp is left open.
LockDraft(r) ==
  /\ pc[r] = "locking"
  /\ \E d \in call[r].found \cap OwnedWith(call[r].actor, "ACTIVE") :
       /\ lock[d] = NoOne
       /\ lock' = [lock EXCEPT ![d] = r]
       /\ call' = [call EXCEPT ![r].draft = d, ![r].found = {}]
  /\ Goto(r, "completing")
  /\ UNCHANGED <<rowVars, past, answer>>

\* A row that has changed meanwhile is passed over.
PassOver(r) ==
  /\ pc[r] = "locking"
  /\ \E d \in call[r].found \ OwnedWith(call[r].actor, "ACTIVE") :
       /\ lock[d] = NoOne
       /\ call' = [call EXCEPT ![r].found = @ \ {d}]
  /\ UNCHANGED <<rowVars, past, lock, pc, answer>>

FindNoActive(r) ==
  /\ pc[r] = "locking"
  /\ call[r].found = {}
  /\ Goto(r, "recovering")
  /\ UNCHANGED <<rowVars, past, lock, call, answer>>

\* The locked draft is stale: it is saved as such and the transaction committed.
ExpireHeld(r) ==
  /\ pc[r] = "completing"
  /\ past[call[r].draft]
  /\ status' = [status EXCEPT ![call[r].draft] = "EXPIRED"]
  /\ Release(r)
  /\ Answer(r, "refused", NoOne)
  /\ UNCHANGED <<session, owner, selected, project, past>>

\* The selection, or a vendor's contact, does not do: the transaction is rolled back.
Reject(r) ==
  /\ pc[r] = "completing"
  /\ ~past[call[r].draft]
  /\ Release(r)
  /\ Answer(r, "refused", NoOne)
  /\ UNCHANGED <<rowVars, past>>

\* The draft is fresh and its selection valid: the project is being created.
StartProject(r) ==
  /\ pc[r] = "completing"
  /\ ~past[call[r].draft]
  /\ selected[call[r].draft]
  /\ Goto(r, "creating")
  /\ UNCHANGED <<rowVars, past, lock, call, answer>>

\* Mutant of CommitProject: consumed_project_uuid is not set.
CommitWithoutProject(r) ==
  /\ pc[r] = "creating"
  /\ status' = [status EXCEPT ![call[r].draft] = "CONSUMED"]
  /\ Release(r)
  /\ Answer(r, "created", r)
  /\ UNCHANGED <<session, owner, selected, project, past>>

\* Project, vendors and draft are committed together.
CommitProject(r) ==
  /\ pc[r] = "creating"
  /\ status' = [status EXCEPT ![call[r].draft] = "CONSUMED"]
  /\ project' = [project EXCEPT ![call[r].draft] = r]
  /\ Release(r)
  /\ Answer(r, "created", r)
  /\ UNCHANGED <<session, owner, selected, past>>

\* No active draft: a retry is sent to the project of a consumed one.
Recover(r) ==
  /\ pc[r] = "recovering"
  /\ \E d \in OwnedWith(call[r].actor, "CONSUMED") : Answer(r, "recovered", project[d])
  /\ UNCHANGED <<rowVars, past, lock>>

\* ... or told that a draft has expired, or that there is none.
FindNoConsumed(r) ==
  /\ pc[r] = "recovering"
  /\ OwnedWith(call[r].actor, "CONSUMED") = {}
  /\ Answer(r, "refused", NoOne)
  /\ UNCHANGED <<rowVars, past, lock>>

\* The end of a request by an error: a completion is answered, others just end.
Stop(r) == IF call[r].op = "complete" THEN Answer(r, "refused", NoOne)
           ELSE Finish(r) /\ UNCHANGED answer

\* Mutant of Fail: the transaction stays open.
FailWithLock(r) ==
  /\ pc[r] \notin {"idle", "done"}
  /\ Stop(r)
  /\ UNCHANGED <<rowVars, past, lock>>

\* A statement or the search's remote call fails, or the process dies: an open transaction is
\* rolled back, and what was committed before stays.
Fail(r) ==
  /\ pc[r] \notin {"idle", "done"}
  /\ Release(r)
  /\ Stop(r)
  /\ UNCHANGED <<rowVars, past>>
-----------------------------------------------------------------------------
Step(r) ==
  \/ Read(r)
  \/ FindStale(r)
  \/ FindFresh(r)
  \/ SaveExpired(r)
  \/ SaveOwner(r)
  \/ SaveSelection(r)
  \/ MarkExpired(r)
  \/ Supersede(r)
  \/ InsertDraft(r)
  \/ SaveRecommendations(r)
  \/ LockDraft(r)
  \/ PassOver(r)
  \/ FindNoActive(r)
  \/ ExpireHeld(r)
  \/ Reject(r)
  \/ StartProject(r)
  \/ CommitProject(r)
  \/ Recover(r)
  \/ FindNoConsumed(r)

Next ==
  \/ \E d \in Drafts : PassDeadline(d)
  \/ \E r \in Requests : BeginWithToken(r)
  \/ \E r \in Requests : BeginExpiry(r)
  \/ \E r \in Requests : BeginSearch(r)
  \/ \E r \in Requests : BeginCompletion(r)
  \/ \E r \in Requests : Step(r)
  \/ \E r \in Requests : Fail(r)

Spec == Init /\ [][Next]_vars

\* A request that has begun goes on; failures, the clock and new requests are not fair.
Fairness == \A r \in Requests : WF_vars(Step(r))

FairSpec == Spec /\ Fairness
-----------------------------------------------------------------------------
(***************************************************************************)
(* Correctness.                                                            *)
(***************************************************************************)

Statuses == {"none", "ACTIVE", "CONSUMED", "EXPIRED", "ABANDONED"}

Places == {"idle", "reading", "checking", "expiring", "saving", "marking", "superseding", "inserting",
           "locking", "completing", "creating", "recovering", "done"}

Calls == [op : {"none", "lookup", "select", "associate", "expire", "search", "complete"},
          actor : Users \cup Sessions \cup {NoOne},
          draft : Drafts \cup {NoOne},
          found : SUBSET Drafts,
          seen : Users \cup {NoOne}]

Answers == [told : {"none", "created", "recovered", "refused"}, project : Requests \cup {NoOne}]

\* The state has its types; a draft that is ACTIVE has no project, one that is CONSUMED has one
\* (the 409 of a consumed draft without a project is never needed), and EXPIRED is the truth.
TypeOK ==
  /\ status \in [Drafts -> Statuses]
  /\ session \in [Drafts -> Sessions]
  /\ owner \in [Drafts -> Users \cup {NoOne}]
  /\ selected \in [Drafts -> BOOLEAN]
  /\ project \in [Drafts -> Requests \cup {NoOne}]
  /\ past \in [Drafts -> BOOLEAN]
  /\ \A d \in Drafts :
       /\ status[d] \in {"none", "ACTIVE"} => project[d] = NoOne
       /\ status[d] = "CONSUMED" => project[d] # NoOne
       /\ status[d] = "EXPIRED" => past[d]
  /\ lock \in [Drafts -> Requests \cup {NoOne}]
  /\ pc \in [Requests -> Places]
  /\ call \in [Requests -> Calls]
  /\ answer \in [Requests -> Answers]

\* "A double-submit against the same draft ... must not create a second project" (Discovery
\* Spec:455): every created project stays the recorded project of a draft of its own, and
\* every project a caller is sent to is one of them.
AnswersNameProjects ==
  /\ \A r \in Requests : answer[r].told = "created" => \E d \in Drafts : project[d] = r
  /\ \A d, e \in Drafts : project[d] # NoOne /\ project[d] = project[e] => d = e
  /\ \A r \in Requests : answer[r].told = "recovered" =>
       \E q \in Requests : answer[r].project = q /\ answer[q].told = "created"

\* Some request works on what it read of d, or of an id list with d, before.
Held(d) ==
  \/ \E r \in Requests : pc[r] \in {"checking", "expiring"} /\ call[r].draft = d
  \/ \E r \in Requests : pc[r] \in {"marking", "superseding"} /\ d \in call[r].found

Settled(d) == status[d] = "CONSUMED" /\ ~Held(d)

\* The status is not checked when it is overwritten, so a request that read a draft as ACTIVE
\* may end its being CONSUMED.  Only such a request can: once none is left a consumed draft
\* stays consumed, and the recovery path of completeProject finds it.
SettledStays == [][\A d \in Drafts : Settled(d) => Settled(d)']_vars

\* A completion that has started is answered: nobody waits for a row lock for ever, also when
\* the transaction that has it fails.
CompletionIsAnswered ==
  \A r \in Requests : pc[r] = "locking" ~> pc[r] = "done"

\* The drafts as a caller sees them.
Outcome == INSTANCE DraftOutcome WITH
  Projects <- Requests,
  stage <- [d \in Drafts |-> IF project[d] # NoOne THEN "made"
                             ELSE IF status[d] = "none" THEN "absent"
                             ELSE IF status[d] = "ACTIVE" THEN "open"
                             ELSE "closed"],
  madeInto <- [d \in Drafts |-> {project[d]} \ {NoOne}],
  promised <- {answer[r].project : r \in Requests} \ {NoOne}

\* The table implements DraftOutcome: whatever becomes of the status column, a draft makes at
\* most one project, and none after it has expired or given way.
ImplementsDraftOutcome == Outcome!Spec
=============================================================================
