--------------------------- MODULE OutreachThread ---------------------------
(***************************************************************************)
(* The conversations with one vendor of a project, their drafts and their  *)
(* messages: app/services/project_outreach_service.ts with the requests of *)
(* project_outreach_api_controller.ts, the initial drafts a chat asks for, *)
(* and the worker that records mail found at the provider.                 *)
(*                                                                         *)
(* There is no transaction and no lock.  A process reads a draft, calls    *)
(* the provider or the reasoning engine, and saves the columns that        *)
(* differ from what it read.  What holds is what the keys of the tables    *)
(* enforce: one draft per conversation, one message per provider id,       *)
(* conversations that exist.                                               *)
(***************************************************************************)
EXTENDS Naturals, FiniteSets

CONSTANTS
  Requests,    \* requests of the user's pages (bound); an outgoing mail is named by its request
  Deliveries,  \* messages of the mailbox the worker takes up (bound)
  Replies,     \* mails the vendor may write (bound)
  Threads,     \* rows of vendor_conversations (bound)
  MaxCalls,    \* how many of the requests and deliveries happen (bound)
  Alike,       \* pairs of different texts of which bodiesLikelyMatch takes one for the other
  NoOne        \* null

Processes == Requests \cup Deliveries
Mails     == Requests \cup Replies

ASSUME BoundAssumption == MaxCalls \in Nat

ASSUME NamesAssumption ==
  /\ NoOne \notin Processes \cup Mails \cup Threads
  /\ Requests \cap (Deliveries \cup Replies) = {}

VARIABLES
  thread,  \* thread[t]: "none", "open", or "deleted"
  draft,   \* draft[t]: the row of outreach_drafts with this conversation
  row,     \* row[p]: the message p has recorded
  mail,    \* mail[m]: what the provider keeps of m
  acked,   \* the mails of which an event has been handled
  pc,      \* pc[p]: where process p is
  call     \* call[p]: what it does and what it has read

tables == <<thread, draft, row>>
vars   == <<tables, mail, acked, pc, call>>

Open == {t \in Threads : thread[t] = "open"}

\* A draft is one row as long as its creator is the same.  Its text is named by who wrote it, NoOne
\* being a blank one; message is sent_message_uuid.
NoDraft == [by |-> NoOne, status |-> "none", text |-> NoOne, message |-> NoOne]

\* id: provider_message_id; strand: the provider's conversation, named by its first mail.
NoRow  == [thread |-> NoOne, way |-> "none", id |-> NoOne, text |-> NoOne, strand |-> NoOne]
NoMail == [text |-> NoOne, strand |-> NoOne]

NoCall == [op |-> "none", thread |-> NoOne, copy |-> NoDraft, text |-> NoOne, mail |-> NoOne,
           known |-> FALSE, match |-> NoOne, counted |-> {}]

Drafted(t)  == draft[t] # NoDraft
RowsIn(t)   == {p \in Processes : row[p].thread = t}
Recorded(m) == \E p \in Processes : row[p].id = m
Editable    == {t \in Threads : draft[t].status \in {"draft", "error"}}

Goto(p, l) == pc' = [pc EXCEPT ![p] = l]

Starts(p) == pc[p] = "idle" /\ Cardinality({q \in Processes : pc[q] # "idle"}) < MaxCalls

Begin(p, c, l) ==
  /\ Starts(p)
  /\ call' = [call EXCEPT ![p] = c]
  /\ Goto(p, l)
  /\ UNCHANGED <<tables, mail, acked>>

\* p ends, and with it what it knows.
Finish(p) ==
  /\ Goto(p, "done")
  /\ call' = [call EXCEPT ![p] = NoCall]

\* The end of a delivery: its event can be deleted from the queue.
Acknowledge(p) ==
  /\ acked' = IF call[p].op = "event" THEN acked \cup {call[p].mail} ELSE acked
  /\ Finish(p)

\* The row of draft old after a save that wants new: columns that are as they were read are not
\* written, and a row that is gone is not missed.
Saved(t, old, new) ==
  IF draft[t] = NoDraft \/ draft[t].by # old.by THEN draft
  ELSE [draft EXCEPT ![t] = [by |-> draft[t].by,
          status  |-> IF new.status = old.status THEN draft[t].status ELSE new.status,
          text    |-> IF new.text = old.text THEN draft[t].text ELSE new.text,
          message |-> IF new.message = old.message THEN draft[t].message ELSE new.message]]
-----------------------------------------------------------------------------
\* Some conversations have a draft, blank or the trace of a failed generation.
Init ==
  /\ thread \in [Threads -> {"none", "open"}]
  /\ draft \in [Threads -> {NoDraft} \cup
                           {[NoDraft EXCEPT !.status = s] : s \in {"draft", "error"}}]
  /\ \A t \in Threads : Drafted(t) <=> thread[t] = "open"
  /\ row = [p \in Processes |-> NoRow]
  /\ mail = [m \in Mails |-> NoMail]
  /\ acked = {}
  /\ pc = [p \in Processes |-> "idle"]
  /\ call = [p \in Processes |-> NoCall]

\* The vendor answers a mail, or writes first.
Arrive(m) ==
  /\ mail[m] = NoMail
  /\ \E s \in {m} \cup {mail[r].strand : r \in {q \in Requests : mail[q] # NoMail}} :
       mail' = [mail EXCEPT ![m] = [text |-> m, strand |-> s]]
  /\ UNCHANGED <<tables, acked, pc, call>>
-----------------------------------------------------------------------------
(***************************************************************************)
(* New conversations and drafts.                                           *)
(***************************************************************************)

\* createOutreachDraft.
BeginCreate(r) == Begin(r, [NoCall EXCEPT !.op = "create"], "threading")

\* createProjectConversation, before a draft or for a mail that fits none.
CreateThread(p) ==
  /\ pc[p] = "threading"
  /\ \E t \in Threads :
       /\ thread[t] = "none"
       /\ thread' = [thread EXCEPT ![t] = "open"]
       /\ call' = [call EXCEPT ![p].thread = t]
  /\ Goto(p, IF p \in Deliveries THEN "matching" ELSE "drafting")
  /\ UNCHANGED <<draft, row, mail, acked>>

NewDraft(p) ==
  [by |-> p, text |-> call[p].text, message |-> NoOne,
   status |-> IF call[p].op = "excuse" THEN "error" ELSE "draft"]

\* An initial generation that fails looks for a draft to write its error into.
Excuse(r) ==
  /\ call' = [call EXCEPT ![r] = [NoCall EXCEPT !.op = "excuse"]]
  /\ Goto(r, "finding")

\* The insert keeps to the unique key of the conversation and to its foreign key.
CreateDraft(p) ==
  LET t == call[p].thread IN
  /\ pc[p] = "drafting"
  /\ IF t \in Open /\ ~Drafted(t)
     THEN draft' = [draft EXCEPT ![t] = NewDraft(p)] /\ Acknowledge(p)
     ELSE /\ UNCHANGED draft
          /\ IF call[p].op = "generate" THEN Excuse(p) /\ UNCHANGED acked ELSE Acknowledge(p)
  /\ UNCHANGED <<thread, row, mail>>
-----------------------------------------------------------------------------
(***************************************************************************)
(* sendOutreachDraft and sendThreadReply.                                  *)
(***************************************************************************)

\* The draft is read, whatever its status; its text may be overridden, and is not blank.
BeginSend(r) ==
  \E t \in Threads :
    /\ Drafted(t)
    /\ \E x \in {draft[t].text, r} \ {NoOne} :
         Begin(r, [NoCall EXCEPT !.op = "send", !.thread = t, !.copy = draft[t], !.text = x], "sending")

BeginReply(r) ==
  \E t \in Open : Begin(r, [NoCall EXCEPT !.op = "reply", !.thread = t, !.text = r], "sending")

\* What follows a failed send.
Failure(r) == IF call[r].op = "send" THEN Goto(r, "failing") /\ UNCHANGED call ELSE Finish(r)

\* The provider's conversations r may continue: a draft opens one.
Strands(r) ==
  LET known == {row[p].strand : p \in RowsIn(call[r].thread)} \ {NoOne} IN
  IF call[r].op = "send" \/ known = {} THEN {r} ELSE known

Leaves(r) == \E s \in Strands(r) : mail' = [mail EXCEPT ![r] = [text |-> call[r].text, strand |-> s]]

\* sendOnBehalf: the mail leaves, and the answer may lack its id.
Transmit(r) ==
  /\ pc[r] = "sending"
  /\ Leaves(r)
  /\ \E known \in BOOLEAN : call' = [call EXCEPT ![r].known = known]
  /\ Goto(r, "recording")
  /\ UNCHANGED <<tables, acked>>

\* The mail leaves and the answer is lost.
LoseAnswer(r) ==
  /\ pc[r] = "sending"
  /\ Leaves(r)
  /\ Failure(r)
  /\ UNCHANGED <<tables, acked>>

\* No mail leaves: no active connection, no token, or a refusal.
Refuse(r) ==
  /\ pc[r] = "sending"
  /\ Failure(r)
  /\ UNCHANGED <<tables, mail, acked>>

SentRow(r) ==
  [thread |-> call[r].thread, way |-> "out", text |-> call[r].text,
   id |-> IF call[r].known THEN r ELSE NoOne,
   strand |-> IF call[r].known \/ mail[r].strand # r THEN mail[r].strand ELSE NoOne]

\* Message.create keeps to the unique key of provider ids and to the foreign key of the conversation.
CanRecord(t, id) == t \in Open /\ (id # NoOne => ~Recorded(id))

\* recordOutboundMessage.
Record(r) ==
  /\ pc[r] = "recording"
  /\ IF CanRecord(call[r].thread, SentRow(r).id)
     THEN /\ row' = [row EXCEPT ![r] = SentRow(r)]
          /\ IF call[r].op = "send" THEN Goto(r, "marking") /\ UNCHANGED call ELSE Finish(r)
     ELSE Failure(r) /\ UNCHANGED row
  /\ UNCHANGED <<thread, draft, mail, acked>>

SentDraft(r) == [call[r].copy EXCEPT !.status = "sent", !.text = call[r].text, !.message = r]

\* The save after the record.  An answer that cannot be given then is no matter of the catch
\* block, which the code has left.
MarkSent(r) ==
  /\ pc[r] = "marking"
  /\ draft' = Saved(call[r].thread, call[r].copy, SentDraft(r))
  /\ Finish(r)
  /\ UNCHANGED <<thread, row, mail, acked>>

\* The save fails.
FailToMark(r) ==
  /\ pc[r] = "marking"
  /\ Failure(r)
  /\ UNCHANGED <<tables, mail, acked>>

\* The catch block.  After a failed save its own one writes also what that should have written.
MarkError(r) ==
  /\ pc[r] = "failing"
  /\ LET assigned == IF row[r] = NoRow THEN call[r].copy ELSE SentDraft(r)
     IN  draft' = Saved(call[r].thread, call[r].copy, [assigned EXCEPT !.status = "error"])
  /\ Finish(r)
  /\ UNCHANGED <<thread, row, mail, acked>>
-----------------------------------------------------------------------------
(***************************************************************************)
(* Drafts written by the reasoning engine.                                 *)
(***************************************************************************)

\* reviseOutreachDraft reads the draft, whatever its status, and calls the engine.
BeginRevise(r) ==
  \E t \in Threads :
    /\ Drafted(t)
    /\ Begin(r, [NoCall EXCEPT !.op = "revise", !.thread = t, !.copy = draft[t], !.text = r], "saving")

\* retryInitialOutreachDraft: the draft in error is only looked at.
BeginRetry(r) ==
  /\ \E t \in Threads : draft[t].status = "error"
  /\ Begin(r, [NoCall EXCEPT !.op = "retry", !.text = r], "finding")

\* generateInitialOutreachDrafts, for this vendor.
BeginGenerate(r) == Begin(r, [NoCall EXCEPT !.op = "generate", !.text = r], "finding")

\* The engine fails twice, or the save fails.
GenerationFails(r) ==
  /\ call[r].op = "generate"
  /\ pc[r] \in {"finding", "saving"}
  /\ Excuse(r)
  /\ UNCHANGED <<tables, mail, acked>>

\* findEditableInitialDraft: any of the vendor, in whatever conversation; which was modified last is
\* left open.
FindEditable(r) ==
  /\ pc[r] = "finding"
  /\ IF Editable = {} THEN Goto(r, "threading") /\ UNCHANGED call
     ELSE /\ \E t \in Editable : call' = [call EXCEPT ![r].thread = t, ![r].copy = draft[t]]
          /\ Goto(r, "saving")
  /\ UNCHANGED <<tables, mail, acked>>

\* What p makes of the draft it has read.
Written(p) ==
  CASE call[p].op = "revise" -> [call[p].copy EXCEPT !.status = "draft", !.text = call[p].text]
    [] call[p].op = "excuse" -> [call[p].copy EXCEPT !.status = "error"]
    [] OTHER -> [call[p].copy EXCEPT !.status = "draft", !.text = call[p].text, !.message = NoOne]

SaveWritten(p) ==
  /\ pc[p] = "saving"
  /\ draft' = Saved(call[p].thread, call[p].copy, Written(p))
  /\ Acknowledge(p)
  /\ UNCHANGED <<thread, row, mail>>
-----------------------------------------------------------------------------
(***************************************************************************)
(* cancelOutreachDraft.                                                    *)
(***************************************************************************)

BeginCancel(r) ==
  \E t \in Threads :
    /\ Drafted(t)
    /\ Begin(r, [NoCall EXCEPT !.op = "cancel", !.thread = t, !.copy = draft[t]], "counting")

\* Only the number of the messages is used.
Count(r) ==
  /\ pc[r] = "counting"
  /\ call' = [call EXCEPT ![r].counted = RowsIn(call[r].thread)]
  /\ Goto(r, "deleting")
  /\ UNCHANGED <<tables, mail, acked>>

\* Mutant of DeleteDraft: the conversation goes whatever it holds.
DeleteDraftAnyway(r) ==
  LET t == call[r].thread IN
  /\ pc[r] = "deleting"
  /\ draft' = IF draft[t].by = call[r].copy.by THEN [draft EXCEPT ![t] = NoDraft] ELSE draft
  /\ Goto(r, "clearing")
  /\ UNCHANGED <<thread, row, mail, acked, call>>

DeleteDraft(r) ==
  LET t == call[r].thread IN
  /\ pc[r] = "deleting"
  /\ draft' = IF draft[t].by = call[r].copy.by THEN [draft EXCEPT ![t] = NoDraft] ELSE draft
  /\ IF call[r].counted = {} THEN Goto(r, "clearing") /\ UNCHANGED call ELSE Finish(r)
  /\ UNCHANGED <<thread, row, mail, acked>>

\* Mutant of DeleteThread: the conversation's draft stays.
DeleteThreadOnly(r) ==
  LET t == call[r].thread IN
  /\ pc[r] = "clearing"
  /\ thread' = [thread EXCEPT ![t] = "deleted"]
  /\ row' = [p \in Processes |-> IF p \in RowsIn(t) THEN [row[p] EXCEPT !.thread = NoOne] ELSE row[p]]
  /\ Finish(r)
  /\ UNCHANGED <<draft, mail, acked>>

\* The foreign keys take the drafts of the conversation along and set its messages' to null.
DeleteThread(r) ==
  LET t == call[r].thread IN
  /\ pc[r] = "clearing"
  /\ thread' = [thread EXCEPT ![t] = "deleted"]
  /\ draft' = [draft EXCEPT ![t] = NoDraft]
  /\ row' = [p \in Processes |-> IF p \in RowsIn(t) THEN [row[p] EXCEPT !.thread = NoOne] ELSE row[p]]
  /\ Finish(r)
  /\ UNCHANGED <<mail, acked>>
-----------------------------------------------------------------------------
(***************************************************************************)
(* syncProviderMessageForConnection, for a message of an event's backlog.   *)
(***************************************************************************)

BeginDelivery(s) ==
  \E m \in Mails :
    /\ mail[m] # NoMail
    /\ ~Recorded(m)
    /\ Begin(s, [NoCall EXCEPT !.op = "event", !.mail = m, !.text = mail[m].text], "resolving")

\* A message that is recorded already: its event is done with, nothing is drafted.
Duplicate(s) ==
  /\ Starts(s)
  /\ \E m \in Mails : Recorded(m) /\ acked' = acked \cup {m}
  /\ Goto(s, "done")
  /\ UNCHANGED <<tables, mail, call>>

\* resolveConversationForEmail: a conversation that holds a message of the provider's conversation, or
\* else one with the vendor (which of them, is left open), or else a new one.
Resolve(s) ==
  LET strand == mail[call[s].mail].strand
      known  == {t \in Open : \E p \in RowsIn(t) : row[p].strand = strand}
      fits   == IF known # {} THEN known ELSE Open
  IN /\ pc[s] = "resolving"
     /\ IF fits = {} THEN Goto(s, "threading") /\ UNCHANGED call
        ELSE (\E t \in fits : call' = [call EXCEPT ![s].thread = t]) /\ Goto(s, "matching")
     /\ UNCHANGED <<tables, mail, acked>>

\* bodiesLikelyMatch: the texts are the same, one is empty, or one contains the other's beginning.
Likely(x, y) == x = y \/ <<x, y>> \in Alike \/ <<y, x>> \in Alike

\* Mutant of Matches: texts are not compared.
MatchesAnyText(s) == {p \in RowsIn(call[s].thread) : row[p].way = "out" /\ row[p].id = NoOne}

\* The rows of sent mail whose provider id is missing and whose text is like the mail's.
Matches(s) ==
  {p \in RowsIn(call[s].thread) : row[p].way = "out" /\ row[p].id = NoOne /\ Likely(row[p].text, call[s].text)}

\* reconcileProviderOutboundMessage reads its candidates; those within the window are any.
Match(s) ==
  /\ pc[s] = "matching"
  /\ \/ /\ call[s].mail \in Requests
        /\ \E p \in Matches(s) : call' = [call EXCEPT ![s].match = p]
        /\ Goto(s, "merging")
     \/ /\ call[s].mail \in Replies \/ Matches(s) = {}
        /\ Goto(s, "inserting")
        /\ UNCHANGED call
  /\ UNCHANGED <<tables, mail, acked>>

\* The save of the candidate, which keeps its text; the unique key of provider ids may refuse it, and the event stays.
Merge(s) ==
  LET m == call[s].mail IN
  /\ pc[s] = "merging"
  /\ IF Recorded(m) THEN UNCHANGED <<row, acked>> /\ Finish(s)
     ELSE /\ row' = [row EXCEPT ![call[s].match].id = m, ![call[s].match].strand = mail[m].strand]
          /\ Acknowledge(s)
  /\ UNCHANGED <<thread, draft, mail>>

FoundRow(s) ==
  LET m == call[s].mail IN
  [thread |-> call[s].thread, way |-> IF m \in Requests THEN "out" ELSE "in", id |-> m,
   text |-> mail[m].text, strand |-> mail[m].strand]

\* Message.create; a vendor's mail is then answered by a draft.
Insert(s) ==
  /\ pc[s] = "inserting"
  /\ IF ~CanRecord(call[s].thread, call[s].mail) THEN UNCHANGED <<row, acked>> /\ Finish(s)
     ELSE /\ row' = [row EXCEPT ![s] = FoundRow(s)]
          /\ IF call[s].mail \in Requests THEN Acknowledge(s)
             ELSE Goto(s, "reading") /\ UNCHANGED <<call, acked>>
  /\ UNCHANGED <<thread, draft, mail>>

\* Mutant of ReadDraft: a pending draft is rewritten.
ReadAnyDraft(s) ==
  /\ pc[s] = "reading"
  /\ call' = [call EXCEPT ![s].copy = draft[call[s].thread]]
  /\ Goto(s, "asking")
  /\ UNCHANGED <<tables, mail, acked>>

\* draftReplyForInboundMessage: not over a pending draft,
ReadDraft(s) ==
  /\ pc[s] = "reading"
  /\ IF draft[call[s].thread].status = "draft" THEN Acknowledge(s)
     ELSE /\ call' = [call EXCEPT ![s].copy = draft[call[s].thread]]
          /\ Goto(s, "asking")
          /\ UNCHANGED acked
  /\ UNCHANGED <<tables, mail>>

\* nor where nothing was sent.  The engine answers, or its failure is swallowed.
AskReply(s) ==
  /\ pc[s] = "asking"
  /\ \/ /\ \E p \in RowsIn(call[s].thread) : row[p].way = "out"
        /\ call' = [call EXCEPT ![s].text = s]
        /\ Goto(s, IF call[s].copy = NoDraft THEN "drafting" ELSE "saving")
        /\ UNCHANGED acked
     \/ Acknowledge(s)
  /\ UNCHANGED <<tables, mail>>
-----------------------------------------------------------------------------
\* A process dies, or a query or a call outside the catch blocks fails.
Stop(p) ==
  /\ pc[p] \notin {"idle", "done"}
  /\ Finish(p)
  /\ UNCHANGED <<tables, mail, acked>>

Request(r) ==
  \/ BeginCreate(r) \/ BeginSend(r) \/ BeginReply(r) \/ BeginRevise(r) \/ BeginRetry(r)
  \/ BeginGenerate(r) \/ BeginCancel(r)
  \/ Transmit(r) \/ LoseAnswer(r) \/ Refuse(r) \/ Record(r) \/ MarkSent(r) \/ FailToMark(r) \/ MarkError(r)
  \/ GenerationFails(r) \/ FindEditable(r)
  \/ Count(r) \/ DeleteDraft(r) \/ DeleteThread(r)

Delivery(s) ==
  \/ BeginDelivery(s) \/ Duplicate(s) \/ Resolve(s) \/ Match(s) \/ Merge(s) \/ Insert(s)
  \/ ReadDraft(s) \/ AskReply(s)

Step(p) == CreateThread(p) \/ CreateDraft(p) \/ SaveWritten(p) \/ Stop(p)

Next ==
  \/ \E r \in Requests : Request(r)
  \/ \E s \in Deliveries : Delivery(s)
  \/ \E p \in Processes : Step(p)
  \/ \E m \in Replies : Arrive(m)

Spec == Init /\ [][Next]_vars
-----------------------------------------------------------------------------
(***************************************************************************)
(* Properties.                                                             *)
(***************************************************************************)

Names  == Processes \cup {NoOne}
Texts  == Requests \cup Deliveries \cup Replies \cup {NoOne}
Places == {"idle", "threading", "drafting", "sending", "recording", "marking", "failing",
           "finding", "saving", "counting", "deleting", "clearing", "resolving", "matching", "merging",
           "inserting", "reading", "asking", "done"}
Ops    == {"none", "create", "send", "reply", "revise", "retry", "generate", "excuse", "cancel",
           "event"}
Drafts == [by : Names, status : {"none", "draft", "error", "sent"}, text : Texts,
           message : Requests \cup {NoOne}]
Rows   == [thread : Threads \cup {NoOne}, way : {"none", "out", "in"}, id : Mails \cup {NoOne},
           text : Texts, strand : Mails \cup {NoOne}]
Calls  == [op : Ops, thread : Threads \cup {NoOne}, copy : Drafts, text : Texts,
           mail : Mails \cup {NoOne}, known : BOOLEAN, match : Processes \cup {NoOne},
           counted : SUBSET Processes]

\* Every variable keeps its type, and the foreign keys hold: drafts and messages are of conversations
\* that exist.
TypeOK ==
  /\ thread \in [Threads -> {"none", "open", "deleted"}]
  /\ draft \in [Threads -> Drafts]
  /\ row \in [Processes -> Rows]
  /\ mail \in [Mails -> [text : Texts, strand : Mails \cup {NoOne}]]
  /\ acked \subseteq Mails
  /\ pc \in [Processes -> Places]
  /\ call \in [Processes -> Calls]
  /\ \A t \in Threads : Drafted(t) => thread[t] = "open"
  /\ \A p \in Processes : row[p].thread # NoOne => thread[row[p].thread] = "open"

\* What reconciliation, recording and conflicts on the unique key leave: a message that carries the id
\* of a mail has its direction and its text; only a message that one request recorded and that was taken
\* for the mail of another may have a text that is merely like that mail's.
MessagesShowTheirMail ==
  \A p \in Processes : row[p].id # NoOne =>
    /\ Likely(row[p].text, mail[row[p].id].text)
    /\ p \in Deliveries \/ row[p].id = p => row[p].text = mail[row[p].id].text
    /\ row[p].way = IF row[p].id \in Requests THEN "out" ELSE "in"

\* A vendor's mail whose event was handled has its message, although the conversation found for it may
\* be deleted before the message is recorded, and another worker may be recording the same mail.
HandledIsRecorded == \A m \in acked \cap Replies : Recorded(m)

\* However recording, reconciliation and deletion race, the conversations tell of the mails that
\* went out and came in what these said, or what was taken for it: the two statements above together.
MessagesAreTrue == MessagesShowTheirMail /\ HandledIsRecorded

\* p saves what it read of t's draft before another process changed it.
Stale(t) == \E p \in Processes :
  /\ pc[p] \in {"saving", "marking", "failing"}
  /\ call[p].thread = t
  /\ call[p].copy # draft[t]

Agrees(t) == draft[t].status = "sent" /\ draft[t].message # NoOne => draft[t].text = row[draft[t].message].text

\* sendOutreachDraft, the rewriting of drafts and their column-wise saves: a sent draft shows the text
\* of the message it names, and only a save of a draft that changed since it was read breaks that.
SentDraftShowsMail == [][\A t \in Threads : Agrees(t) => Agrees(t)' \/ Stale(t)]_vars

\* draftReplyForInboundMessage: a draft the user has yet to send is replaced by an automatic reply only
\* if it became one while the reply was written.
ReplyKeepsPending ==
  [][\A t \in Threads :
       draft[t].status = "draft" /\ draft[t].text \notin Deliveries /\ draft'[t].text \in Deliveries
         => Stale(t)]_vars

\* A draft is read, a mail is sent or an engine is asked, and columns are saved: only a save of a
\* draft that changed in between does damage, as the two statements above say.
OnlyStaleSavesDamage == SentDraftShowsMail /\ ReplyKeepsPending

\* cancelOutreachDraft: a message leaves its conversation, and the user's sight, only when it was
\* recorded after the cancellation had counted the messages.
OnlyStaleCancelHides ==
  [][\A p \in Processes : row[p].thread # NoOne /\ row'[p].thread = NoOne =>
       \E r \in Requests : pc[r] = "clearing" /\ call[r].thread = row[p].thread
                           /\ p \notin call[r].counted]_vars
=============================================================================
