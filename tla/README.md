# Formal models of Envoy Project Management

TLA+ specifications, TLC configurations and TLAPS proofs for the server of this repository: an AdonisJS application
on PostgreSQL that lets consumers describe a project, finds vendors for it, writes to them from the user's own mailbox
and keeps the answers, with a consent regime around the data. Paths below are relative to the repository's root
(`app/...` is `src/app/...` in `PROJECT.json`).

```
tlc -workers 2 -config ConsentCleanup_safety.cfg MCConsentCleanup     # one run
tlapm ExtractionAttempts_proofs.tla                                   # one proof module
```

## 1. Inventory

| Component | State | Operations | Modelled in |
|---|---|---|---|
| Consent preferences (`user_consent_service`) | `user_consent_preferences`, `user_consent_events` | ensure, complete onboarding, change the training preference, acknowledge a policy | `UserConsent` |
| Pending-registration cleanup (`pending_consent_cleanup_service`, `_worker`) | users and everything that belongs to them; an advisory lock | select candidates, re-check under locks, stop watches, revoke grants, delete | `ConsentCleanup` |
| Model-training extraction (`model_training_eligibility_service`) | `model_training_extraction_audits`, `..._user_snapshots` | start, heartbeat, extract, complete, fail, reconcile | `ExtractionAttempts` |
| Email sync queue (`email_sync_event_service`, `_queue_worker`) | SQS queue, `user_inbox_connections`, `messages` | receive, list, record, move the cursor, delete the event | `EmailSync` |
| Email watches (`email_watch_service`) | watch columns of the connection, the provider's watch | set up, renew, stop | `EmailSync` (set-up, renewal) |
| Mailbox authorization (`email_authorization_completion_service`, `inbox_connection_service`, `inbox_controller`) | `user_inbox_connections`, tokens | connect, replace the primary connection, refresh, disconnect | `EmailSync`, `ConsentCleanup` (in part) |
| Outreach (`project_outreach_service`, `project_outreach_api_controller`) | `outreach_drafts`, `vendor_conversations`, `messages` | draft, revise, send, retry, cancel, reply, record and reconcile mail, answer automatically | `OutreachThread`; the queue's side of recording in `EmailSync` |
| Outreach tab (`project.svelte`, `project_outreach_panel.svelte`) | the page's cards, composer and busy flags | select, type, eight kinds of request, a silent poll | `OutreachPage` |
| Anonymous onboarding (`onboarding_draft_service`, `onboarding_project_completion_service`) | `anonymous_onboarding_drafts`, projects | create, update, select, associate, expire, abandon, complete the project | `OnboardingDrafts`, its last part in `ProjectVendors` |
| Vendors of a project (`project_vendor_attachment_service`, `vendor_service`, `project_service`) | `vendors`, `project_vendors`, ownership and addresses of listings | attach, complete, update, add, edit and remove contacts, supersede listings | `ProjectVendors` |
| Vendor search (`vendor_discovery_service`, `vendor_service`) | `vendor_listings` | plan, ask Foursquare, merge, look up, insert, rank | `VendorSearch` |
| Rate limiting (`rate_limit_service`, `rate_limit_utils`) | `rate_limit_buckets` | enforce rules in fixed windows | `RateLimit`, within `VendorSearch` |
| Chat of a project (`convo_controller`, `project_reasoning_workflow_service`, `reasoning_engine_service`, `project_prompt_service`, chat of `project.svelte`) | `conversations`, their turns, `projects_prompts`; the page's bubbles | greet, send, retry, intake, record a turn, prepare outreach | `ProjectChat` |
| Legacy inbox sync and replies | `messages` | record, reply | no (section 5) |
| Auth, password reset, accounts, avatars, roles, entitlements | users, tokens | forms | only as callers |
| Other pages, Foursquare SDK, mails, configuration | none | none | no |

How they interact. All state that matters is in PostgreSQL rows. Some transactions lock rows or take advisory locks
(consent, cleanup, extraction, completion, vendor attachment). The rest of the code reads a row into a model object, calls a
remote service, and saves later the columns that have changed. Requests, the SQS worker, the daily cleanup worker and
scheduled commands run in several processes and share nothing else. The provider (Gmail or Microsoft), the email service and
the reasoning engine are called over HTTP; SQS delivers at least once and in any order. The project page keeps a copy of
what the server last answered and shows it whatever order the answers come in.

What is hard, and which property answers it, is the list `hazards` of `PROJECT.json`, each at its line. The main groups:

* a lease that runs out under a worker that is still at work (extraction);
* a cleanup that deletes accounts, in a race with the request that completes them (consent);
* unlocked read, remote call, save of the changed columns, by several processes on one row (email sync, outreach);
* a draft overwritten by a request that read it before it was consumed, and a completion sent twice (onboarding);
* duplicates, reordering and redelivery of queue events against a cursor, and of mails against messages recorded by the sender;
* answers to a page that arrive in another order than the server gave them (outreach tab, chat);
* locks taken in different orders, and rows that were superseded while a transaction waited (vendors of a project);
* look-up and insert without a key, and merging by keys that are not transitive (search); a counter whose windows turn (limits);
* things that must eventually happen: an attempt ends, an old registration is resolved, a message is recorded, a completion is answered.

## 2. Modules

### ExtractionAttempts, JobOutcome

`ExtractionAttempts` follows one call of `runExtraction` per worker (`pc`): wait for the job's advisory lock
(`TakeJobLock`), abandon all expired attempts and refuse or number the attempt (`RefuseJob`, `ReclaimExpired`), insert
and commit (`InsertAttempt`), renew the lease once (`ConfirmLease`, `ConfirmLost`), open the repeatable-read transaction
(`OpenSnapshot`), run the callback with heartbeats (`Heartbeat`), and complete, fail or find the lease lost.

* *Time.* `now` moves at any point. A statement compares the lease with a time the process read before the statement
  ran: `stamp[w]` is the earliest time that can be, and every such statement picks `t \in stamp[w]..now`.
* *Transactions.* Rows abandoned by a starting transaction are visible to nobody until it commits
  (`reclaimed`), and other updates of those rows wait (`RowsFree`). A refusal rolls the abandonment back.
* *Preferences.* A preference is its opt-in and a version number. The audit records `<<user, version>>`; the
  callback's reads see the users eligible in its own snapshot that the audit names.
* *Failures.* `Crash` ends a call at any point; it also stands for a statement that fails and for an error of the first
  renewal, which the code does not catch.

`JobOutcome` is what the table promises with leases, clocks and processes left out: attempts without gaps, one at a
time, a finished job is closed. `ImplementsJobOutcome` is the refinement.

### UserConsent, ConsentCleanup, Registration

`UserConsent` has one request per form submission: it reads or creates the preference (`ReadPreference`,
`EnsurePreference`), decides what to do (`Choose`: the consent form and the middleware of the account form), and runs
the service's transaction: insert or keep the row, lock it, return unchanged or change it, insert the events and
commit. A transaction's row is in `draft` until it commits. Inserting a row that refers to a user needs a key-share lock
of the user's row (`CanRefer`, `userShare`), which is what makes the cleanup and the forms wait for each other.
Rows that earlier requests, registrations without a preference and the migration's backfill can have left are
the initial states.

`ConsentCleanup` extends it with the cleaner: the advisory lock, the two candidate queries in sequence and without a lock, and per
candidate one transaction: user FOR UPDATE, preference FOR UPDATE, second check, `stopWatch`, revocation, deletion.
The external calls are not undone by a rollback. The advisory lock belongs to a transaction that stays idle while the
candidates are dealt with in others (`lockHolder`); `LoseCleanupLock` closes its session, and a second cleanup can then
work on the same users. `completeOnboarding` takes the two row locks in the opposite order: `Deadlocked` describes the cycle and `BreakDeadlock` lets the database cancel either transaction.
`AuthorizeMailbox` is the user who signs in again and stores a new grant meanwhile.

`Registration` is the account as a caller sees it: pending, accepted or gone, and promises that hold.
`ImplementsRegistration` is the refinement.

### EmailSync

One mailbox, one connection row. Messages are numbered in the order of their arrival, so a number is also a
history position. The queue is a set: an event stays in it until it is deleted and any worker may receive it at any
time, also while another handles it; that is at-least-once delivery in any order, and redelivery after a failure.

Every process has the `copy` of the row it has read. `Saved(old, new)` is the ORM's save: a column is written only if
it differs from what was read. So two processes that write different columns do not disturb each other, and a
process that *restores* a value another process has changed meanwhile does not write it.
`List`, `SkipDuplicate`, `FetchMissing`, `InsertMessage`, `InsertConflicts`, `FinishEvent` and `DeleteEvent` are the
worker's steps; `Unauthorized`, `RefreshFails` (any other error of a token refresh) and `DeliveryFails`
(everything else, and crashes) its failures. What is `Refused` is what the code takes for a withdrawn access: every 401 or 403 and every
message with such a number in it, whether the tokens are good or not. A backfill lists the newest messages of the mailbox, `BackfillLimit` of
them (200 in the code); since only vendor messages are numbered, the early return for a user without vendor addresses is the empty
list. `backfilled` is the authorization whose set-up has sent its backfill: the code only logs a backfill that cannot be sent, and
`CallerStops` is that failure too, so `InOrder`, of which `VendorMailRecorded` speaks, asks for it. `ReadConnection` and `StoreTokens` are the OAuth callback,
`StartRenewal` the scheduled command, `CallWatch`, `SaveWatch`, `EnqueueBackfill` what both call.

### OnboardingDrafts, DraftOutcome

Several requests on the rows of `anonymous_onboarding_drafts`, which come in two kinds. A completion
(`BeginCompletion` to `CommitProject`) selects the user's active drafts, waits for the row lock of one, looks at the row
again after the wait, and commits project, vendors and the status CONSUMED together; with no active draft left it sends its
caller to the project of a consumed one (`Recover`). Everything else is a read without a lock, a decision, and an update of
the row by its id that waits for the lock and does not look again: a lookup with a token (`Read`, `FindStale`,
`FindFresh`, the saves), the command that expires drafts (`BeginExpiry`, `MarkExpired`), and a new search, which abandons
the older drafts of the session and inserts one (`BeginSearch`, `Supersede`, `InsertDraft`).

A completion's select is a snapshot; the row that the code orders first by `updated_timestamp` can be any of it.
`past` is the 24 hours of a draft being over. A draft's listings are reduced to whether some are selected. A project is named
by the request that made it. `Fail` is any error or crash: an open transaction is rolled back.

A stale save can take the status CONSUMED away again; `consumed_project_uuid` stays. So `DraftOutcome`, the drafts as a
caller sees them, takes a draft with a project as "made" whatever its status (`ImplementsDraftOutcome`), and
`SettledStays` says who alone can overwrite a consumed draft: a request that read it before. While no such request is
left, the recovery path finds the project.

### OutreachThread

The conversations of a project with one vendor (`thread`), their drafts (`draft`), the messages recorded (`row`, one per
process at most) and the provider's mailbox (`mail`). There is no transaction and no lock in this code, and the model has none:
each request or delivery is a sequence of steps between which all others move. What is enforced is what the tables enforce: one
draft per conversation (`CreateDraft`), one message per provider id (`CanRecord`), conversations that exist.

* *Requests.* `BeginCreate`, `CreateThread`, `CreateDraft` are `createOutreachDraft`; `BeginSend`, `Transmit`, `Record`,
  `MarkSent` are `sendOutreachDraft`, with `LoseAnswer`, `Refuse`, `FailToMark`, `MarkError` for its failures (the answer is not awaited in
  its `try`, so a failure of that is no more than a `Stop`); `BeginReply` shares them.
  `BeginRevise`, `BeginRetry`, `BeginGenerate`, `FindEditable` and `SaveWritten` rewrite a draft after the engine's answer;
  `BeginCancel`, `Count`, `DeleteDraft`, `DeleteThread` are the cancellation, which counts messages in one statement and
  deletes in others.
* *Deliveries.* `BeginDelivery` to `Insert` are `syncProviderMessageForConnection`: duplicate by provider id, conversation by the provider's
  thread, reconciliation of an outbound mail with a row the sender recorded without an id (`Match`, `Merge`), or insertion. If the
  conversation is gone by then, the insertion fails and the event stays in the queue. `ReadDraft`, `AskReply` and `SaveWritten` draft the automatic reply.
* *Texts.* Mails and drafts are named by the process that wrote them. `Likely` is `bodiesLikelyMatch`: the code takes texts for the same where
  one is empty or the first 160 characters of one are in the other, and `Alike` is the set of pairs for which that is so.
  A reconciled row takes the mail's id and keeps its own words.
* *Saves.* `Saved` is the ORM's save of the columns that differ from what was read, onto the row whose creator is still the same.

Observed beside the properties: a merge may overwrite the provider id that another delivery has just given the same row; the mail
of that delivery is then shown by no row, which `MessagesAreTrue` allows for the user's own mails only.

### OutreachPage

The Outreach tab: `srv` is the list of cards the service would answer with, `cards` the list shown, `ui` the selected thread,
pane, composer and reply, `reqs` the requests under way, one of each kind (the busy flags); a cancellation has no flag, and `Cancels` are two
that may be under way at once. A request is asked (`Click...`,
`Poll`), answered with the whole list as it is then (`AnswerLoad`, `Create`, `Send`, `Revise`, ...) and taken by the page
some time later (`Take`) or lost (`Fail`). `Settled` and `Reselected` are the page's reactive statements that move the selection when the
list changes. The service's inner steps belong to `OutreachThread`; here each answer is one step, and a
send may also leave its mail unmarked (`SendUnmarked`).

`MailedTwiceUnknowingly` keeps the history `unsure` of the threads whose first mail the reader could not know of.
The model also has these behaviours, which no statement of the documents forbids: a reply draft in a thread with messages opens in the
reader, not in the composer; the first load that fails is not tried again until the tab is left; the poll replaces unsaved edits
of a draft (not of a reply); an answer to one reply closes whichever reply is open; a suggestion is shown in the thread
open when it arrives; an answer read before a send and shown after it presents the draft as unsent.

### ProjectVendors

Its specification is `VendorsSpec`, its type invariant `VendorsTypeOK`: one module proves about it and about `VendorSearch`, which keep
the names of their definitions apart. Listings numbered in the order of their uuids, with the listing that superseded each (`super`), owner and address; the
contacts of users and the vendors of projects; the row locks (`holder`). `BeginAttach`, `LockProject`, `FollowChain`,
`AttachListing` and `Commit` are `attachListingsInTransaction`, which locks the project, then its listings in sorted order, and follows a
listing that turns out to be superseded to its canonical one, out of order. `BeginComplete`, `UpdateEmail` and
`CreateProject` are the end of `completeProject`, which locks in the order of the form before it attaches.
`BeginUpdate` to `CreateLinks` are `handleVendorUpdates`: rows read once, then three groups of writes. `SaveContact` and `SaveListing` are the
contact forms; whoever may edit a listing (`Editor`, `canEditListing`) is its owner, or of a claimed one the user who
claimed it. `Supersede` is the administrator's merge of two listings. The history `since` remembers which rows others wrote after a
request read them, for the properties' exceptions.

### ProjectChat

Two tabs, `page[p]`, and the requests they send. A request enters (`Enter`: the conversation it finds and its first or last turns),
creates a conversation if it found none (`CreateConversation`), asks the intake and planning engines, records its turn
(`Record`), and does the post-processing that may still fail (`Prepare`, `Fail`). `Receive` is the page's handling of an answer or an
error (`Bubbles`: the answer in the words of the turn or in others), `Retry` sends a message again, `Open` loads the page, `Greet` the greeting with its copy in `sessionStorage`.

Observed: two first requests each create a conversation, and which of them later ones read is open; a retry removes the error marks of all
messages; a turn is recorded before the post-processing, so a retry after its failure records the message twice; prompt data is
checked for and then created without a lock. The answer to a message is what `handlePostPlanningResponse` makes of it, while pages opened
later show the recorded `turn.modelResponse`: `reworded` holds the answers a tab shows in other words than are recorded.

### RateLimit, VendorSearch

`RateLimit` is the counter: `Arrive` takes the time once, `Count` is one rule's atomic upsert and comparison, `Elsewhere` what
other processes count in the same buckets. There is no common clock: each request, and each count elsewhere, takes any time. `VendorSearch` extends it with `discover`: `Plan` (the engine's searches),
`Search` (known listings, Foursquare, `Dedupe`), `Look` (one key after the other), `Insert`, `Finish` (`Ranked`), on the signed-in route, which passes the
counter first, and on the anonymous one, which does not. Places, plans and results are given by the instance. Merging, ranking and
the choice of listings to keep are operators on sequences, with the source's comparisons in its order. Users enter listings (`CreateVendor`) and
change the name or the address of those they may edit, or adopt for that (`EditListing`), without a look at the others; so a
recommendation keeps its row as it was `read`, and the history `apart` of a row, the rows its lookup has excluded, loses those that are changed.

Observed: no key of `vendor_listings` but the place id is unique, so overlapping searches insert an address or a number twice; a listing that is found
is used as it is, never updated; a candidate without any key is always inserted; a chain of shared keys is
merged or not depending on the order of the places.

The MC modules name the model values and the symmetry sets, and the places and plans of `VendorSearch`; those of `ConsentCleanup`
and `OnboardingDrafts` also narrow the initial states.

## 3. Runs

Bounds are in the guards and named in each module's CONSTANTS. Times are for two TLC workers.

| Run | Bounds | States, time | Shows |
|---|---|---|---|
| `ExtractionAttempts_audit` | 1 job, 2 workers, 2 attempts, lease 1, time 4, 1 user with 2 changes | 0.53 M, 80 s | `JobsAreExclusive`, `ReadsWithinSnapshot`, `AuditIsFinal`; refinement of `JobOutcome`; `AttemptsEnd` |
| `ConsentCleanup_safety` | 1 user, 3 requests, 2 cleaners, 1 grant, 1 failure (failed candidate, crash or lost lock), an earlier policy version | 4.6 M, 145 s | `EventsMatchRows`, `ChoicesAreKept` |
| `ConsentCleanup_live` | 2 users, 1 request, 1 cleaner, 1 grant, 1 failure, plain starts | 0.46 M, 50 s | refinement of `Registration`; `PendingIsResolved` |
| `OnboardingDrafts_completion` | 2 drafts, 1 user, 1 session, 3 requests | 0.63 M, 95 s | `AnswersNameProjects`, `SettledStays`, `CompletionIsAnswered`; refinement of `DraftOutcome` |
| `EmailSync_safety` | Gmail, 2 workers, 2 messages, 1 authorization, 1 failed set-up or renewal, backfills of 1 message | @ES | `MailIsNotLost` |
| `EmailSync_live` | Microsoft, 1 worker, 1 message, 2 authorizations, 1 failed delivery, 1 failed set-up or renewal (the backfill that is not sent included), 1 refusal of good tokens | @EL | `VendorMailRecorded`, `OnlyStaleProcessesMisjudge` |
| `EmailSync_gap` | Gmail, 1 worker, 1 message, 1 authorization | violated | the finding below |
| `OutreachThread_safety` | 2 conversations, 3 of 3 requests and 2 deliveries, 1 vendor mail, two requests with texts that are alike | @OT | `MessagesAreTrue`, `OnlyStaleSavesDamage`, `OnlyStaleCancelHides` |
| `OutreachPage_safety` | 2 threads, 3 clicks, 2 open requests of all kinds, 1 vendor mail | @OP | `RepliesStayHome`, `MailedTwiceUnknowingly`, `PollKeepsReply` |
| `ProjectVendors_safety` | 2 calls, 2 users, 3 listings (one claimed by one of the users, one a consumer's), 3 projects | @PV | `OrderedLocksDoNotDeadlock`, `AttachedIsTrue`, `UpdateIsExact`, `FirstComeFirstServed` |
| `ProjectChat_safety` | 3 requests, 2 tabs, 2 loads, 2 failures, loads and failures 3 together, one recent turn | 3.7 M, 110 s | `PageIsTrue`, `ContextIsNotOlderThanSeen` |
| `VendorSearch_safety` | 2 signed-in and 1 anonymous search, 2 rules of limit 1 with windows 1 and 2, two times that clocks can show, 1 count elsewhere, 4 places in 1 or 2 searches, 1 created listing, 1 change of a listing | @VS | `PaidWithinLimits`, `DuplicatesOverlap`, `PlacesAreRepresented` |

Every passing run but the live ones of `ConsentCleanup` and `EmailSync` also checks its module's `TypeOK`. Some properties are
conjunctions of statements that belong to one hazard; the modules name and explain each part.

Why the bounds are enough. Two workers and two attempts let a worker lose its lease to a second and come back with late
statements of its own; more attempts, jobs and longer leases are covered by the theorems, except for
`AttemptsEnd`, whose steps concern one job at a time. A preference that changes twice can come back to its first value. Three requests of one user are
an onboarding sent twice and a change of it; users are independent of each other except in the cleanup's list of
candidates, which the run with two users covers. Two messages and two workers give duplicate, reordered and
overtaken history events; failed deliveries add nothing to the safety run that crashing between steps in
`EmailSync_live` and the conflicts of two workers do not already cause, and the theorems hold for every number of
failures. Three requests and two drafts are a completion sent twice beside a third request that holds a stale read, with a
second draft for the completion to go on to. In `OutreachThread` every violation that was met while the properties were found needed at most three
processes and two conversations; its properties are theorems too. Three clicks on the page are a send, its
retry and one click in between, on two threads; the poll and the vendor's mail come on top. Three listings have a chain of two superseded
ones or a cycle of locks; two calls are what a cycle needs. Three chat requests are a message, its retry and one of the other tab;
two tabs (or a load anew) come with one failure and one load with two, for the time it takes; the theorems cover the rest.
Four places hold the shortest chain of shared keys that is merged in one order and not in the other, and one place
with nothing but a name and a postcode; two windows of different lengths turn at different times. One change of a listing is enough for each way
in which a row can come to share, or cease to share, a key with another. What the theorems cover does not depend on any bound.

CHECK_DEADLOCK is off where the bounds stop the system in the end (time, requests, drafts, messages and failures run out);
it is
on for `OutreachPage_safety`, where the reader can always turn to another tab.

### Fairness

* `ExtractionAttempts`: time passes, the cleanup worker's loop runs the reconciler again (`setTimeout` in a
  `finally`), and a process that has not crashed goes on with its call. Submitting a job, crashing and heartbeats are not fair.
* `ConsentCleanup`: strong fairness for a request's step, because a row lock that is let go passes to the transaction that waits for
  it; weak fairness for the cleaner's steps, for starting a cleanup again (the same loop) and for deadlock detection.
  Failures are not fair and are bounded: PostgreSQL does not fail for ever.
* `EmailSync`: strong fairness for the delivery of each event, because SQS makes an event visible again after the visibility timeout
  and the worker's loop polls for ever; weak fairness for a worker's and a caller's steps and for the renewal command, which is
  scheduled. The user need not reconnect. Nothing is assumed of `Arrive`, `Revoke` or the expiry of a watch.
* `OnboardingDrafts`: weak fairness for the steps of a request that has begun. A row lock is held by a completion only, and
  completions hold one at a time. New requests, the clock and failures are not fair.
* The other modules state safety only: a request of theirs waits for nobody but a remote service, except in `ProjectVendors`,
  where the circles a wait can form are the subject of `OrderedLocksDoNotDeadlock`.

### Finding

`EmailSync_gap` ends in a violation on purpose: a Gmail renewal overwrites the cursor, and messages whose events are still
queued are never listed, although the sync specification says that the cursor advances after successful processing and that a
vendor's messages appear. `PROJECT.json` quotes both sides.

### Other disagreements between documents and code

Met while modelling; the models contain each behaviour, the properties are stated so that they hold beside it, and no run is spent on it.

* The extraction audit records the preferences in one transaction and reads the records in a later one
  (`app/services/model_training_eligibility_service.ts:355`, `:387`), so a record can be read under another preference than
  the recorded one; the consent specification, line 255, asks for the "preference snapshot used". What holds is `ReadsWithinSnapshot`.
* A grant stored while the cleanup talks to the provider is deleted without being revoked
  (`app/services/pending_consent_cleanup_service.ts:168`; consent specification, line 511).
* A token refresh that fails for good leaves the connection active and asks nobody for a new authorization
  (`app/services/email_sync_event_service.ts:164`; sync specification, lines 404-407).
* An authorization that races with a worker's failure keeps the status `reauth_required` with good tokens
  (`app/services/email_authorization_completion_service.ts:163`; sync specification, lines 411-412). `OnlyStaleProcessesMisjudge` says who alone can cause it.
* The anonymous vendor search is not limited: `anonymousVendorSearchRateLimitRules` (`app/utils/rate_limit_utils.ts:61`) has no
  caller and `app/controllers/web/onboarding_controller.ts:111` asks no limiter, though the Production Rate Limiting Guide,
  lines 14 and 35, lists that route. `PaidWithinLimits` is therefore about signed-in requests.
* The backfill of a set-up that cannot be sent is only logged (`app/services/email_watch_service.ts:184-189`), or lost with the process
  before it: the connection is in order and earlier mail is asked for by nobody, against the sync specification, lines 909 and 931.
  `VendorMailRecorded` is therefore about connections whose backfill was sent.
* Any 401 or 403, a rate limit of the provider too, and any message with such a number in it asks the user for a new authorization though
  his tokens are good (`app/services/email_sync_event_service.ts:164`, `app/services/email_watch_service.ts:61`).
  `OnlyStaleProcessesMisjudge` names this beside the stale processes.
* The answer a page shows is worded by the post-processing after the turn was recorded (`app/services/reasoning_engine_service.ts:76-77`,
  `:114-148`; `tests/unit/reasoning_engine_service.spec.ts:328-388` pins it), so the notice that no vendors were found is gone when the
  page is loaded again. `PageIsTrue` speaks of the turn that was recorded, in its words or others.
* A mail whose text is empty, or begins with the same 160 characters, can be reconciled with the row of another, which then carries the id of a
  mail it does not show (`app/services/project_outreach_service.ts:379`, `:447`). `MessagesAreTrue` asks for likeness there, and for the
  very words elsewhere.
* A user with two active drafts who sends the form of one of them twice gets two projects
  (`app/services/onboarding_project_completion_service.ts:57`); the discovery specification, line 455, forbids that for one draft only.

## 4. Proofs

Proved for every value of the constants that satisfies the modules' ASSUMEs (bounds are naturals, null values are not
members of the types).

`ExtractionAttempts_proofs`: `TypeCorrect`, `JobsStayExclusive` with its parts `LiveAttemptIsUnique`, `CompletionClosesJob`,
`AttemptNumbersContiguous`, `InsertsDoNotConflict`, `DeliveryIsRecorded`; `ReadsStayWithinSnapshot`; `OutcomesAreFinal`. None of
these is inductive by itself. The invariant has to say what the
locks give: workers in the starting transaction of a job are alone with it, the row an inserting worker is about to
write is still absent and its number still next, the rows it has reclaimed are still expired and STARTED, the
attempts of running workers are distinct, and an attempt whose worker is about to return is COMPLETED. `AuditParts` adds what
the two last theorems need: a process's stamp is in the past (so a lease it judges to be over is over), recorded
snapshots do not run ahead of the preferences, who reads is running an attempt of its own, and what it has read so far is within its snapshot. Each
action has one lemma, or one step, per conjunct it can disturb.

`EmailSync_proofs`: `TypeCorrect`, `MailStaysSafe` (`CursorSkipsNothing` and `AcknowledgedIsRecorded`), `OnlyStaleMisjudge`. `NothingSkipped` speaks of the row
only. A worker lists from the cursor of a row it read some time ago and writes the position of its event, which may
be behind or ahead of the row's, so the invariant carries the claim to every copy (`CopiesSettled`) and to what is
still to do (`ListedSettled`): for an event being handled, every message up to its position is settled or in `todo`.
`Saved` never writes a cursor that is neither the row's nor the process's own (`SavedType`), which is all that is needed of the ORM.
`OnlyStaleMisjudge` is about the writers of the status: who asks for a new authorization was refused with the tokens of its copy, so if
the row's are good the copy is of an earlier one, or the refusal has been counted as one of good tokens (`RefusalIsStale`), and the saves of other columns leave the status alone (`OtherColumnsSaved`).

`OnboardingDrafts_proofs`: `TypeCorrect`, `AnswersAreKept`, `SettledIsKept`. `RowInv` says what a request knows of the rows it is
about to write: a completion in its transaction has its draft locked and ACTIVE, who saves EXPIRED has seen the time
pass, ids come from existing drafts. That makes the relation of status, project and deadline inductive.
`AnswersNameProjects` also needs that a project has an answer (`ProjectsAreAnswered`) and that a request that has
not ended made none (`AnswersAtEnd`); all steps but `CommitProject` and `Recover` are `Quiet`, and one lemma deals with those.

`OutreachThread_proofs`: `TypeCorrect`, `MessagesStayTrue`, `OnlyStaleDamages`, `OnlyStaleHides`. `TypeInv` splits into the facts of one process
(`LocalOK`, by process) and those of the tables (`DataOK`). `MessagesAreTrue` is carried by `MessageInv`: a mail is in
the box once, with the words of the request that sent it; a row that carries a request's id is that request's, with its very words, or was merged
with it and has words like them; a delivery merges only into rows of requests; a
process that is about to merge or insert has read a row or a mail that still says so; an answering delivery has been acknowledged
as recorded. The draft properties need `DraftInv` besides: the words a request is sending are those of the copy it
read, and a draft's `message` names a row of a request that has sent.

`ConsentCleanup_proofs`: `TypeCorrect`, `EventsStayTrue`, `ChoicesStay`. The invariant says what the row locks give each process. A request at
work in its transaction has the preference's row lock, its draft is the committed row and, from then on, that row with the change it
was asked for, and the user's gate is still open (`RequestOK`). A cleaner has the user's row from its first check and the preference's
from its second, and then the registration is still one that was never completed (`CleanerOK`); that nobody works on a user or a preference
without its lock is part of `TypeOK` (`WorkIsLocked`). The events agree with the row
(`Agree`): one acceptance, each kind ending with what the row says and never twice the same in a row, facts of sequences
that one appended event keeps. Each action has its lemma; what it does to the processes that do not move is one lemma for requests, one for
cleaners and one for `SavedIsKept`, resting on that no step takes terms back (`TermsStay`).

`Listings_proofs`, of `VendorSearch`: `LimitsAreKept`, `PaidSearchesWithinLimits`, `TypeCorrect`, `DuplicatesNeedOverlap`, `PlacesStayRepresented`. For the counters the invariant relates counters and requests: a bucket counts at
least the requests that passed its rule in its window (`BucketsCount`), which are finitely many, each one added by the step that raised the
counter; a rejected request found its bucket full and buckets never sink; a search that has begun was admitted by every rule.
For the listings it is `ListInv`. What a search knows of the candidate it looks up is `LookedOK`: each of its keys is still to be asked
for or was asked for since the lookup began and is in none of the rows there were at that time and that nobody has changed since (`apart`); so an
insertion adds no duplicate of those, rows that others append change nothing (`SearchStays`), and a row that is changed leaves
`apart` and, as it was read, stays in what was found (`RowsEdited`, `SearchEdited`). That no business is lost is inductive only for all sets closed under shared keys,
not for single places: every such set with a place of the search contains a record whose keys a recommended row, or a candidate still to be persisted,
has or had when it was read (`RepresentedIn`). Merging keeps that, since of two candidates that share a key one stays (`MergeKeeps`), a found row is in the set
of the candidate it takes over, and an inserted one has its keys; `Connected` is the set to apply it to (`ConnectedIsClosed`). The
answer is complete because the ranking is a strict order, total on distinct rows, so positions are the numbers from 0 on (`Positions`,
`RankedInOrder`). `Dedupe` and `Connected` are recursive functions on an interval: that they exist, round by round, is proved in
`DedupeRounds` and `ConnectedRounds`; induction is by the least counterexample (`LeastNumber`, `SetInduction`). Assumed are the fields of places (`ResultsAssumption`),
that plans name categories Foursquare answers for, and that the rows at the start have distinct place ids (`KnownAssumption`).
A place with no key, not even a name, is in the proof only: the run has none, for its time.

`Listings_proofs`, of `ProjectVendors`: `VendorsTypeCorrect`, `LocksAreOrdered`, `AttachmentsAreTrue`,
`UpdatesAreExact`, `OwnersAndAddressesLast`. `VendorsInv` says of each call, by its place, what it may rely on. What a transaction is to
write it has locked, and what it has locked is as it was read: an attached listing is not superseded, one to be adopted has no owner, one to
be given an address has none (`PromisesOK`). Rows are not locked by being read, so what is known of them holds only where nobody has been
heard of writing since (`ReadOK`; `UpdateOK`, by the step an update has reached). And a call that was never led astray by a superseded
listing, or by the addresses of a form, holds listings below all that are left to it (`LocksOK`). `Undisturbed` is what a step may do to
calls that do not move: leave their locks and what these cover, tell them of rows, never take an owner or a contact away; one lemma shows that
this keeps all of the invariant (`UndisturbedKeeps`), one that steps that write nothing shared do no more (`PrivateStep`), one
that those that write rows do not either (`SharedStep`). For the order of locks: in a circle, whoever is waited for holds what is asked
of it, so it is past its project's lock, it asks for a listing itself, and that one is greater (`WaitsUpwards`); a finite set of listings has a
greatest (`GreatestListing`). That listings are finitely many and are no projects is assumed for this, as rows of two tables are.
`Canonical` is again a recursive function on an interval (`CanonicalRounds`); all that is needed of it is that it finds a listing.

`ProjectChat_proofs`: `TypeCorrect`, `PageStaysTrue`, `ContextStaysFresh`. `TablesOK` says what a request's place says of the tables: its
turn is recorded from one point of its way on (`RequestOK`), so that an answer, reworded or not, has its turn, a conversation lists recorded turns and none twice (`HistoryOK`), and
the last turn a request has read from the only conversation comes no earlier than anything its tab showed (`ReadFar`), which appending
to the conversation keeps. `PagesOK` says what a tab knows of its requests: whom it waits for, that of the requests of one message at most
one is waited for or answered (`OneSettled`), and that two tabs wait for and retry messages of their own (`Apart`).

`OutreachPage_proofs`: `TypeCorrect`, `RepliesGoHome`, `OneMailKnowingly`, `ReplyOutlivesPoll`. `PageOK` holds that the panel's effect has
nothing left to do (`Following`): the composer of replies is on the selected thread whenever that thread has messages, so a text on the page is
either for it or has been moved there by a suggestion that came late. `SentOnce` carries `MailedTwiceUnknowingly`: of a draft that was mailed once, and
whose reader can know, the service shows it as sent, no request is about to send it, and it is out of the page's reach, neither in
the composer nor on a card that would open it there (`OutOfReach`), or the request that sent it still has its answer to give. The
proof found that the composer can be put back over a sent draft by the answer of any request but a send, the poll's included,
where the history `Reopened` had named three of them; it now says when the composer shows a sent draft that nothing under way will close.
The rest are facts of lists of cards with distinct threads (`PutCard`, `WithoutCard`, `RaiseCard`) and of the page's functions, stated once each.

The refinements (`JobOutcomeImplemented`, `DraftOutcomeImplemented`, `RegistrationImplemented`): the initial states map to initial ones, and under the
inductive invariants above each step maps to a step of the abstract module or to none. An extraction's insert is a `Claim` whose `G` is the
job if a reclaimed attempt is taken from it, its completion a `Finish`, a failure or an expiry a `GiveUp`; a draft is closed
by expiry and abandonment, made by the commit of a completion, promised by its answer; an account is accepted or confirmed by the commit of a form
and deleted by a cleaner, and all other steps leave the mapped state alone.

Only model-checked: liveness (`AttemptsEnd`, `PendingIsResolved`, `VendorMailRecorded`, `CompletionIsAnswered`), since fairness and ENABLED are out of
the prover's reach. Every invariant and action property the runs check is proved.

## 5. Not modelled

* Extraction: paging, pseudonyms and de-identification of records (regular expressions on text).
* Consent: texts and versions beyond old and current; the administrator as actor.
* Email sync: the dead-letter queue (an event that always fails leaves the main queue after some deliveries), events
  the validator rejects (they are deleted), Microsoft subscription identifiers, several connections for one event,
  replaced and disconnected connections, two OAuth callbacks at once, and a `save` that fails after the provider's watch was set
  while the second `save` of the error handler succeeds (the reverse, a lost answer, is modelled). Mail that belongs to no vendor.
* Outreach: `syncProjectOutreach` and the older outreach calls, which nothing calls any more; the wording and headers of mails.
* Onboarding: which listings are recommended and selected, and `consumeDraft` and `consumeDraftByUserUuid`, which nothing calls.
* Vendor search: the wording of queries, scraping of contacts from web pages, scores; `supersede` and
  `createVendorOwnedListing`, which nothing calls (superseded and claimed rows are modelled as found).
* Chat: the shape of engine requests, project insights.
* Provider clients and the email service: HTTP only; `EmailSync` and `OutreachThread` model what their answers can be.
* Legacy inbox synchronisation and replies: an older recorder of messages behind a page that now redirects.
* Authentication, sessions, password reset, roles and avatars: forms that read and write one row; sessions are the framework's.
* Validators, page controllers, the other Svelte pages: parsing, forms and presentation.
* The Foursquare SDK: generated. Mails, configuration, boot: templates and settings. Migrations: mapped where a module relies on a key.

## 6. Plan

Done, in this order: `ExtractionAttempts`, `UserConsent` and `ConsentCleanup`, `EmailSync`, `OnboardingDrafts`, `OutreachThread`, `OutreachPage`,
`ProjectVendors`, `ProjectChat`, `RateLimit` and `VendorSearch`; the proofs of section 4.

What would come next: the several mailboxes of one user (replaced primary connections, disconnecting, two callbacks at once) with the
watches of each; an abstract mailbox that
`EmailSync` and `OutreachThread` both implement.
