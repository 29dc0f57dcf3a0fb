------------------------------ MODULE EmailSync ------------------------------
(***************************************************************************)
(* Synchronisation of one connected mailbox:                               *)
(* app/services/email_sync_event_service.ts with its worker, and           *)
(* app/services/email_watch_service.ts with the callers of its set-up and  *)
(* renewal.                                                                *)
(*                                                                         *)
(* The provider pushes an event for each vendor message into a queue that  *)
(* delivers at least once and in any order.  A worker reads the connection *)
(* row, asks the provider what changed, records the messages one at a      *)
(* time, writes the row back and deletes the event; an event that fails    *)
(* stays in the queue.  Meanwhile the user reconnects the mailbox and a    *)
(* scheduled command renews the watch, and both write the same row.        *)
(* Nothing is locked: every process works on the copy it has read and      *)
(* saves the columns it has changed.                                       *)
(*                                                                         *)
(* Messages are numbered in the order they arrive in the mailbox, so that  *)
(* a number is also the history position (cursor) after the message.       *)
(***************************************************************************)
EXTENDS Integers, FiniteSets

CONSTANTS
  Workers,           \* processes that poll the queue
  Provider,          \* "gmail" or "microsoft"
  NoEvent,           \* the event of a worker that handles none
  NoConnection,      \* what a process has read when it has no active connection
  MaxArrivals,       \* bound: vendor messages that arrive
  MaxFailures,       \* bound: event deliveries that fail for want of a service or by a crash
  MaxWatchFailures,  \* bound: set-ups and renewals that fail so
  MaxRefusals,       \* bound: calls refused although the tokens are good
  MaxConnects,       \* bound: mailbox authorizations
  BackfillLimit      \* how many messages a backfill lists at most

ASSUME ProviderAssumption == Provider \in {"gmail", "microsoft"}
ASSUME BoundsAssumption ==
  /\ MaxArrivals \in Nat
  /\ MaxFailures \in Nat
  /\ MaxWatchFailures \in Nat
  /\ MaxRefusals \in Nat
  /\ MaxConnects \in Nat
  /\ BackfillLimit \in Nat
ASSUME ProcessesAssumption == Workers \cap {"connect", "renew"} = {}

Callers   == {"connect", "renew"}   \* the OAuth callback and the renewal command
Processes == Workers \cup Callers

\* cursor 0 is NULL too: without a cursor the provider lists all it has.
\* gen numbers the authorization whose tokens the row stores; 0 before the first.
Connections == [status : {"none", "active", "reauth_required"}, cursor : 0..MaxArrivals,
                watch : {"not_configured", "active", "error"}, gen : 0..MaxConnects]

PushType == IF Provider = "gmail" THEN "gmail_history" ELSE "microsoft_message"

\* at is the message a push event is about, and the number of a manual backfill.
Events == [type : {PushType}, at : 1..MaxArrivals]
            \cup [type : {"manual_backfill"}, at : 1..MaxConnects]

ASSUME NullAssumption == NoEvent \notin Events /\ NoConnection \notin Connections

VARIABLES
  mailbox,    \* how many vendor messages the provider holds
  pushing,    \* the provider pushes events for new messages
  revoked,    \* authorizations up to this one are no longer accepted by the provider
  queue,      \* the events sent and not deleted
  row,        \* the user_inbox_connections row
  expiring,   \* the row's watch expires within the renewal buffer, or carries no expiry
  messages,   \* the provider messages that have a row in the messages table
  pc,         \* pc[p]: where process p is
  copy,       \* copy[p]: the connection as p read it
  event,      \* event[w]: the event worker w handles
  todo,       \* todo[w]: the listed messages w has not dealt with yet
  current,    \* current[w]: the message w looked up and found missing, 0 for none
  result,     \* result[k]: the cursor the provider returned to caller k
  backfills,  \* how many manual backfills have been sent
  failures,   \* how many deliveries have failed
  watchFailures, \* how many set-ups and renewals have failed
  refusals,   \* how many calls have been refused although the tokens were good
  jumped,     \* the highest cursor a set-up or renewal has stored
  backfilled  \* the authorization whose set-up has sent the last backfill

providerVars == <<mailbox, pushing, revoked>>
rowVars      == <<row, expiring, jumped>>
workerVars   == <<event, todo, current>>
countVars    == <<backfills, backfilled, failures, watchFailures, refusals>>
vars == <<providerVars, queue, rowVars, messages, pc, copy, workerVars, result, countVars>>

Goto(p, l) == pc' = [pc EXCEPT ![p] = l]

\* Lucid's save: only columns that differ from what was read are written.
Column(stored, old, new) == IF new = old THEN stored ELSE new
Saved(old, new) == [status |-> Column(row.status, old.status, new.status),
                    cursor |-> Column(row.cursor, old.cursor, new.cursor),
                    watch  |-> Column(row.watch, old.watch, new.watch),
                    gen    |-> Column(row.gen, old.gen, new.gen)]

\* The provider accepts the tokens of connection c.
Accepts(c) == c.gen > revoked

-----------------------------------------------------------------------------
Init ==
  /\ mailbox = 0
  /\ pushing = FALSE
  /\ revoked = 0
  /\ queue = {}
  /\ row = [status |-> "none", cursor |-> 0, watch |-> "not_configured", gen |-> 0]
  /\ expiring = TRUE
  /\ messages = {}
  /\ pc = [p \in Processes |-> "idle"]
  /\ copy = [p \in Processes |-> NoConnection]
  /\ event = [w \in Workers |-> NoEvent]
  /\ todo = [w \in Workers |-> {}]
  /\ current = [w \in Workers |-> 0]
  /\ result = [k \in Callers |-> 0]
  /\ backfills = 0
  /\ failures = 0
  /\ watchFailures = 0
  /\ refusals = 0
  /\ jumped = 0
  /\ backfilled = 0

-----------------------------------------------------------------------------
(***************************************************************************)
(* The provider and the user.                                              *)
(***************************************************************************)

\* A vendor's message arrives; a watched mailbox announces it.
Arrive ==
  /\ mailbox < MaxArrivals
  /\ mailbox' = mailbox + 1
  /\ queue' = IF ~pushing THEN queue
              ELSE queue \cup {[type |-> PushType, at |-> mailbox + 1]}
  /\ UNCHANGED <<pushing, revoked, rowVars, messages, pc, copy, workerVars, result, countVars>>

\* The user withdraws the access he has given.
Revoke ==
  /\ row.gen > revoked
  /\ revoked' = row.gen
  /\ UNCHANGED <<mailbox, pushing, queue, rowVars, messages, pc, copy, workerVars, result, countVars>>

WatchComesDue ==
  /\ row.watch = "active" /\ ~expiring
  /\ expiring' = TRUE
  /\ UNCHANGED <<providerVars, queue, row, jumped, messages, pc, copy, workerVars, result, countVars>>

\* The renewal command runs more often than watches expire, so that a watch expires only when
\* the command passes the connection over, and not at the moment it is set up.
WatchExpires ==
  /\ pushing /\ expiring
  /\ row.status # "active" \/ row.watch = "error"
  /\ \A k \in Callers : pc[k] # "saving"
  /\ pushing' = FALSE
  /\ UNCHANGED <<mailbox, revoked, queue, rowVars, messages, pc, copy, workerVars, result, countVars>>

-----------------------------------------------------------------------------
(***************************************************************************)
(* A worker handles an event.                                              *)
(***************************************************************************)

\* Receive an event, which others may also be handling, and find its connection; an event
\* without an active connection has nothing to do.
Receive(w, e) ==
  /\ pc[w] = "idle"
  /\ e \in queue
  /\ event' = [event EXCEPT ![w] = e]
  /\ IF row.status = "active"
       THEN copy' = [copy EXCEPT ![w] = row] /\ Goto(w, "listing")
       ELSE copy' = [copy EXCEPT ![w] = NoConnection] /\ Goto(w, "deleting")
  /\ UNCHANGED <<providerVars, queue, rowVars, messages, todo, current, result, countVars>>

\* Mutant of Listing: the history is listed from the cursor on, not after it.
ListingInclusive(c, e) ==
  CASE e.type = "gmail_history"     -> c.cursor..mailbox
    [] e.type = "microsoft_message" -> {e.at}
    [] e.type = "manual_backfill"   -> {m \in 1..mailbox : m + BackfillLimit > mailbox}

\* What the provider lists for event e and the connection c as it was read: of the whole
\* mailbox only the newest messages.
Listing(c, e) ==
  CASE e.type = "gmail_history"     -> (c.cursor + 1)..mailbox
    [] e.type = "microsoft_message" -> {e.at}
    [] e.type = "manual_backfill"   -> {m \in 1..mailbox : m + BackfillLimit > mailbox}

\* listInboxChanges or searchVendorMessages answers.
List(w) ==
  /\ pc[w] = "listing"
  /\ Accepts(copy[w])
  /\ todo' = [todo EXCEPT ![w] = Listing(copy[w], event[w])]
  /\ Goto(w, "syncing")
  /\ UNCHANGED <<providerVars, queue, rowVars, messages, copy, event, current, result, countVars>>

\* syncProviderMessageForConnection looks the message up first.
SkipDuplicate(w, m) ==
  /\ pc[w] = "syncing"
  /\ m \in todo[w] \cap messages
  /\ todo' = [todo EXCEPT ![w] = @ \ {m}]
  /\ UNCHANGED <<providerVars, queue, rowVars, messages, pc, copy, event, current, result, countVars>>

\* It is missing: fetch it and resolve its conversation, which needs valid tokens.
FetchMissing(w, m) ==
  /\ pc[w] = "syncing"
  /\ m \in todo[w] \ messages
  /\ Accepts(copy[w])
  /\ current' = [current EXCEPT ![w] = m]
  /\ Goto(w, "inserting")
  /\ UNCHANGED <<providerVars, queue, rowVars, messages, copy, event, todo, result, countVars>>

InsertMessage(w) ==
  /\ pc[w] = "inserting"
  /\ current[w] \notin messages
  /\ messages' = messages \cup {current[w]}
  /\ todo' = [todo EXCEPT ![w] = @ \ {current[w]}]
  /\ current' = [current EXCEPT ![w] = 0]
  /\ Goto(w, "syncing")
  /\ UNCHANGED <<providerVars, queue, rowVars, copy, event, result, countVars>>

\* All listed messages are dealt with: a history event moves the cursor to its own position.
FinishEvent(w) ==
  /\ pc[w] = "syncing"
  /\ todo[w] = {}
  /\ row' = IF event[w].type = "gmail_history"
              THEN Saved(copy[w], [copy[w] EXCEPT !.cursor = event[w].at])
              ELSE row
  /\ Goto(w, "deleting")
  /\ UNCHANGED <<providerVars, queue, expiring, jumped, messages, copy, workerVars, result, countVars>>

DeleteEvent(w) ==
  /\ pc[w] = "deleting"
  /\ queue' = queue \ {event[w]}
  /\ event' = [event EXCEPT ![w] = NoEvent]
  /\ copy' = [copy EXCEPT ![w] = NoConnection]
  /\ Goto(w, "idle")
  /\ UNCHANGED <<providerVars, rowVars, messages, todo, current, result, countVars>>

\* Mutant of GiveUp: the event is deleted whether or not it has been processed.
GiveUpAndDelete(w) ==
  /\ Goto(w, "deleting")
  /\ todo' = [todo EXCEPT ![w] = {}]
  /\ current' = [current EXCEPT ![w] = 0]
  /\ UNCHANGED <<providerVars, queue, expiring, jumped, messages, copy, event, result>>
  /\ UNCHANGED <<backfills, backfilled, watchFailures>>

\* The delivery has failed: the worker turns to other events, this one stays in the queue.
GiveUp(w) ==
  /\ Goto(w, "idle")
  /\ event' = [event EXCEPT ![w] = NoEvent]
  /\ copy' = [copy EXCEPT ![w] = NoConnection]
  /\ todo' = [todo EXCEPT ![w] = {}]
  /\ current' = [current EXCEPT ![w] = 0]
  /\ UNCHANGED <<providerVars, queue, expiring, jumped, messages, result>>
  /\ UNCHANGED <<backfills, backfilled, watchFailures>>

\* A call with connection c is answered with 401 or 403, or fails with a message that holds
\* such a number: because the tokens are not good, or for another reason, as a rate limit.
Refused(c) ==
  \/ ~Accepts(c) /\ UNCHANGED refusals
  \/ Accepts(c) /\ refusals < MaxRefusals /\ refusals' = refusals + 1

\* markConnectionFailure takes either for a withdrawn access and asks for a new authorization.
Unauthorized(w) ==
  /\ pc[w] \in {"listing", "syncing"}
  /\ pc[w] = "syncing" => todo[w] \ messages # {}
  /\ Refused(copy[w])
  /\ row' = Saved(copy[w], [copy[w] EXCEPT !.status = "reauth_required"])
  /\ GiveUp(w)
  /\ UNCHANGED failures

\* The access token has run out first and refreshing it fails, with neither 401 nor 403.
RefreshFails(w) ==
  /\ pc[w] \in {"listing", "syncing"}
  /\ pc[w] = "syncing" => todo[w] \ messages # {}
  /\ ~Accepts(copy[w])
  /\ GiveUp(w)
  /\ UNCHANGED <<row, failures, refusals>>

\* Another process has inserted the message since: provider_message_id is unique.
InsertConflicts(w) ==
  /\ pc[w] = "inserting"
  /\ current[w] \in messages
  /\ GiveUp(w)
  /\ UNCHANGED <<row, failures, refusals>>

\* Mutant of DeliveryFails: any error counts as a failed authorization.
DeliveryFailsForAuth(w) ==
  /\ pc[w] \in {"listing", "syncing", "inserting"}
  /\ failures < MaxFailures
  /\ failures' = failures + 1
  /\ row' = Saved(copy[w], [copy[w] EXCEPT !.status = "reauth_required"])
  /\ GiveUp(w)
  /\ UNCHANGED refusals

\* A service fails, the event cannot be deleted, or the worker's process dies.
DeliveryFails(w) ==
  /\ pc[w] # "idle"
  /\ failures < MaxFailures
  /\ failures' = failures + 1
  /\ GiveUp(w)
  /\ UNCHANGED <<row, refusals>>

WorkerProgress(w) ==
  \/ List(w)
  \/ \E m \in todo[w] : SkipDuplicate(w, m) \/ FetchMissing(w, m)
  \/ InsertMessage(w)
  \/ FinishEvent(w)
  \/ DeleteEvent(w)
  \/ Unauthorized(w)
  \/ RefreshFails(w)
  \/ InsertConflicts(w)
-----------------------------------------------------------------------------
(***************************************************************************)
(* Setting up and renewing the watch.                                      *)
(***************************************************************************)

\* The OAuth callback looks for the connection of the mailbox, ...
ReadConnection ==
  /\ pc["connect"] = "idle"
  /\ row.gen < MaxConnects
  /\ copy' = [copy EXCEPT !["connect"] = row]
  /\ Goto("connect", "storing")
  /\ UNCHANGED <<providerVars, queue, rowVars, messages, workerVars, result, countVars>>

\* ... and stores the new tokens in it, or in a new one.
StoreTokens ==
  /\ pc["connect"] = "storing"
  /\ LET new == [copy["connect"] EXCEPT !.status = "active", !.gen = @ + 1]
     IN  /\ row' = Saved(copy["connect"], new)
         /\ copy' = [copy EXCEPT !["connect"] = new]
  /\ Goto("connect", "calling")
  /\ UNCHANGED <<providerVars, queue, expiring, jumped, messages, workerVars, result, countVars>>

WatchIsDue(c) ==
  \/ c.watch = "not_configured"
  \/ c.watch = "active" /\ expiring

\* renewDueEmailWatches finds the watch due.
StartRenewal ==
  /\ pc["renew"] = "idle"
  /\ row.status = "active"
  /\ WatchIsDue(row)
  /\ copy' = [copy EXCEPT !["renew"] = row]
  /\ Goto("renew", "calling")
  /\ UNCHANGED <<providerVars, queue, rowVars, messages, workerVars, result, countVars>>

\* The provider watches the mailbox from its present position on, which Gmail returns.
CallWatch(k) ==
  /\ pc[k] = "calling"
  /\ Accepts(copy[k])
  /\ pushing' = TRUE
  /\ result' = [result EXCEPT ![k] = mailbox]
  /\ Goto(k, "saving")
  /\ UNCHANGED <<mailbox, revoked, queue, rowVars, messages, copy, workerVars, countVars>>

\* applyWatchResult and save.
SaveWatch(k) ==
  /\ pc[k] = "saving"
  /\ row' = Saved(copy[k], [copy[k] EXCEPT
                              !.watch = "active",
                              !.cursor = IF Provider = "gmail" THEN result[k] ELSE @])
  /\ jumped' = IF Provider = "gmail" /\ result[k] > jumped THEN result[k] ELSE jumped
  /\ expiring' = FALSE
  /\ result' = [result EXCEPT ![k] = 0]
  /\ copy' = [copy EXCEPT ![k] = NoConnection]
  /\ Goto(k, IF k = "connect" THEN "enqueuing" ELSE "idle")
  /\ UNCHANGED <<providerVars, queue, messages, workerVars, countVars>>

\* Mutant of EnqueueBackfill: a set-up sends no backfill.
NoBackfill ==
  /\ pc["connect"] = "enqueuing"
  /\ backfilled' = row.gen
  /\ Goto("connect", "idle")
  /\ UNCHANGED <<providerVars, queue, rowVars, messages, copy, workerVars, result>>
  /\ UNCHANGED <<backfills, failures, watchFailures, refusals>>

\* setupEmailWatch sends a backfill of the whole mailbox.
EnqueueBackfill ==
  /\ pc["connect"] = "enqueuing"
  /\ backfills' = backfills + 1
  /\ backfilled' = row.gen
  /\ queue' = queue \cup {[type |-> "manual_backfill", at |-> backfills + 1]}
  /\ Goto("connect", "idle")
  /\ UNCHANGED <<providerVars, rowVars, messages, copy, workerVars, result>>
  /\ UNCHANGED <<failures, watchFailures, refusals>>

LeaveCaller(k) ==
  /\ Goto(k, "idle")
  /\ copy' = [copy EXCEPT ![k] = NoConnection]
  /\ result' = [result EXCEPT ![k] = 0]
  /\ UNCHANGED <<providerVars, queue, expiring, jumped, messages, workerVars>>
  /\ UNCHANGED <<backfills, backfilled, failures>>

\* handleWatchFailure after 401 or 403.
WatchUnauthorized(k) ==
  /\ pc[k] = "calling"
  /\ Refused(copy[k])
  /\ row' = Saved(copy[k], [copy[k] EXCEPT !.status = "reauth_required", !.watch = "error"])
  /\ LeaveCaller(k)
  /\ UNCHANGED watchFailures

\* handleWatchFailure after a failed token refresh, an error of the service or a lost answer.
WatchFails(k) ==
  /\ pc[k] \in {"calling", "saving"}
  /\ \/ pc[k] = "calling" /\ ~Accepts(copy[k]) /\ UNCHANGED watchFailures
     \/ watchFailures < MaxWatchFailures /\ watchFailures' = watchFailures + 1
  /\ row' = Saved(copy[k], [copy[k] EXCEPT !.watch = "error"])
  /\ LeaveCaller(k)
  /\ UNCHANGED refusals

\* The backfill cannot be sent, which is only logged, or the caller's process dies.
CallerStops(k) ==
  /\ pc[k] # "idle"
  /\ watchFailures < MaxWatchFailures
  /\ watchFailures' = watchFailures + 1
  /\ LeaveCaller(k)
  /\ UNCHANGED <<row, refusals>>

CallerProgress(k) ==
  \/ k = "connect" /\ StoreTokens
  \/ CallWatch(k)
  \/ SaveWatch(k)
  \/ k = "connect" /\ EnqueueBackfill
  \/ WatchUnauthorized(k)
  \/ WatchFails(k)
-----------------------------------------------------------------------------
Next ==
  \/ Arrive
  \/ Revoke
  \/ WatchComesDue
  \/ WatchExpires
  \/ \E w \in Workers : \E e \in queue : Receive(w, e)
  \/ \E w \in Workers : WorkerProgress(w)
  \/ \E w \in Workers : DeliveryFails(w)
  \/ ReadConnection
  \/ StartRenewal
  \/ \E k \in Callers : CallerProgress(k)
  \/ \E k \in Callers : CallerStops(k)

Spec == Init /\ [][Next]_vars

\* Every event that stays in the queue is delivered, a worker finishes what it has received,
\* and the renewal command is run on schedule.  The user need not reconnect.
Fairness ==
  /\ \A e \in Events : SF_vars(\E w \in Workers : Receive(w, e))
  /\ \A w \in Workers : WF_vars(WorkerProgress(w))
  /\ WF_vars(StartRenewal)
  /\ \A k \in Callers : WF_vars(CallerProgress(k))

FairSpec == Spec /\ Fairness
-----------------------------------------------------------------------------
FlagTypes == pushing \in BOOLEAN /\ expiring \in BOOLEAN

TableTypes ==
  /\ mailbox \in 0..MaxArrivals
  /\ revoked \in 0..MaxConnects
  /\ queue \subseteq Events
  /\ row \in Connections
  /\ messages \subseteq 1..mailbox
  /\ backfills \in 0..MaxConnects
  /\ backfilled \in 0..MaxConnects
  /\ failures \in 0..MaxFailures
  /\ watchFailures \in 0..MaxWatchFailures
  /\ refusals \in 0..MaxRefusals
  /\ jumped \in 0..mailbox

ProcessTypes ==
  /\ pc \in [Processes -> {"idle", "listing", "syncing", "inserting", "deleting",
                           "storing", "calling", "saving", "enqueuing"}]
  /\ copy \in [Processes -> Connections \cup {NoConnection}]
  /\ event \in [Workers -> Events \cup {NoEvent}]
  /\ todo \in [Workers -> SUBSET (1..mailbox)]
  /\ current \in [Workers -> 0..mailbox]
  /\ result \in [Callers -> 0..mailbox]

TypeOK == FlagTypes /\ TableTypes /\ ProcessTypes

\* Message m is recorded, or a set-up or renewal has moved the cursor over it.
Settled(m) == m \in messages \/ m <= jumped

\* Whatever order history events are handled in, by however many workers and however often,
\* the cursor they leave in the row has passed no message that is not recorded; only the
\* cursor a watch returns can do that.
NothingSkipped == \A m \in 1..row.cursor : Settled(m)

\* What event e announced has been dealt with; a backfill announces nothing in particular.
Recorded(e) ==
  CASE e.type = "gmail_history"     -> \A m \in 1..e.at : Settled(m)
    [] e.type = "microsoft_message" -> e.at \in messages
    [] e.type = "manual_backfill"   -> TRUE

\* An event is deleted only when what it announced is recorded, or while the connection is not
\* active.
AckedIsRecorded ==
  \A w \in Workers : pc[w] = "deleting" /\ copy[w] # NoConnection => Recorded(event[w])

\* No mail is lost on its way from the queue to the tables: the two statements above together.
MailIsNotLost == NothingSkipped /\ AckedIsRecorded

\* Process p takes the step and works with a row it has read before the last authorization.
ActsOnOldTokens(p) == pc'[p] # pc[p] /\ copy[p] # NoConnection /\ copy[p].gen < row.gen

\* An active connection whose tokens are good is sent to a new authorization only by a process
\* that still works with the tokens of an earlier one, or by a call the provider has refused
\* although it takes the tokens; no other failure of a delivery or of a watch does that.  And a
\* new authorization leaves the connection in another status than active only when a process
\* has written the status since the callback read the row.
OnlyStaleProcessesMisjudge ==
  [][/\ row.status = "active" /\ row'.status = "reauth_required" /\ Accepts(row) =>
          \/ \E p \in Processes : ActsOnOldTokens(p)
          \/ refusals' > refusals
     /\ row'.gen > row.gen =>
          row'.status = "active" \/ row.status # copy["connect"].status]_vars

\* The connection is as a successful set-up leaves it; the backfill, which may fail to be sent
\* without anyone taking notice, has been sent.
InOrder ==
  /\ row.status = "active" /\ Accepts(row)
  /\ row.watch = "active"
  /\ backfilled = row.gen

\* Vendor messages appear in the conversations, also those that arrived while the connection
\* was broken or a worker had failed, once the connection stays in order; of those only a
\* backfill can find, as many as it lists.
VendorMailRecorded ==
  <>[]InOrder =>
    \A m \in 1..MaxArrivals : m + BackfillLimit > MaxArrivals => [](m <= mailbox => <>(m \in messages))
=============================================================================
