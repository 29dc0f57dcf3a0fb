----------------------- MODULE OutreachThread_proofs -----------------------
(***************************************************************************)
(* Proofs about OutreachThread, for any number of requests, workers, mails *)
(* and conversations.                                                      *)
(*                                                                         *)
(* The types are proved first, for what the processes keep and for what    *)
(* the tables keep.  MessageInv says what a process knows of the mail it   *)
(* is about to record; MessagesAreTrue follows.  DraftInv adds what it     *)
(* knows of the words it is about to save, and bounds what a step may do   *)
(* to drafts and messages.                                                 *)
(***************************************************************************)
EXTENDS OutreachThread, TLAPS

\* What a process does: a call of its type, and the one of a delivery has its mail.
CallsInUse == {c \in Calls : c.op = "event" => c.mail # NoOne}

\* What the processes keep.
LocalOK == pc \in [Processes -> Places] /\ call \in [Processes -> CallsInUse]

\* What the database, the provider and the queue keep.
DataOK ==
  /\ thread \in [Threads -> {"none", "open", "deleted"}]
  /\ draft \in [Threads -> Drafts]
  /\ row \in [Processes -> Rows]
  /\ mail \in [Mails -> [text : Texts, strand : Mails \cup {NoOne}]]
  /\ acked \subseteq Mails
  /\ \A t \in Threads : Drafted(t) => thread[t] = "open"
  /\ \A p \in Processes : row[p].thread # NoOne => thread[row[p].thread] = "open"

TypeInv == LocalOK /\ DataOK

\* A mail leaves once, by the request it is named after, which keeps to its words.
MailOnce ==
  \A r \in Requests :
    /\ mail[r] # NoMail => pc[r] \notin {"idle", "sending"}
    /\ pc[r] = "recording" => mail[r] # NoMail /\ mail[r].text = call[r].text

\* A request records sent mail only, once, and in the words that left.
RequestRows ==
  \A r \in Requests :
    /\ row[r].way # "in"
    /\ row[r].way = "out" => mail[r] # NoMail /\ row[r].text = mail[r].text
    /\ pc[r] \in {"idle", "sending", "recording"} => row[r].way = "none"
    /\ call[r].op # "event"

\* A delivery knows the mail it has taken up, has recorded nothing before it inserts, and what it then
\* records has an id.
TakenUp ==
  \A s \in Deliveries :
    /\ pc[s] \in {"resolving", "threading", "matching", "merging", "inserting"} =>
         /\ call[s].mail \in Mails
         /\ mail[call[s].mail] # NoMail
         /\ call[s].text = mail[call[s].mail].text
    /\ pc[s] \in {"idle", "resolving", "threading", "matching", "merging", "inserting"} =>
         row[s].way = "none"
    /\ row[s].way = "out" => row[s].id # NoOne

\* A delivery merges into a message that a request recorded, with a text like its mail's.
Matched ==
  \A s \in Deliveries : pc[s] = "merging" =>
    /\ call[s].mail \in Requests
    /\ call[s].match \in Requests
    /\ row[call[s].match].way = "out"
    /\ Likely(row[call[s].match].text, call[s].text)

\* A vendor's mail is answered when it is recorded, and not over a pending draft.
Answering ==
  \A s \in Deliveries :
    /\ pc[s] \in {"reading", "asking", "drafting", "saving"} /\ call[s].mail \in Replies =>
         Recorded(call[s].mail)
    /\ pc[s] = "reading" => call[s].thread \in Threads
    /\ pc[s] \in {"asking", "saving"} => call[s].copy.status # "draft"

\* A message with an id is of a mail there is.
RowsHaveMail == \A p \in Processes : row[p].id # NoOne => mail[row[p].id] # NoMail

\* A request sends the words it was given or the draft's, marks a draft as sent when its message is
\* recorded, writes its own words, and deletes a conversation it has counted as empty.
RequestWords ==
  \A r \in Requests :
    /\ pc[r] \in {"sending", "recording", "marking", "failing"} /\ call[r].op = "send" =>
         call[r].text \in {call[r].copy.text, r}
    /\ pc[r] = "failing" => call[r].op = "send"
    /\ pc[r] = "marking" => call[r].op = "send" /\ row[r].text = call[r].text
    /\ pc[r] \in {"finding", "saving"} => call[r].text = r \/ call[r].op = "excuse"
    /\ pc[r] = "clearing" => call[r].counted = {}

\* A draft names the message of a request that has recorded it.
DraftsNameSent ==
  \A t \in Threads : draft[t].message # NoOne =>
    draft[t].message \in Requests /\ pc[draft[t].message] = "done"

MessageParts ==
  MailOnce /\ RequestRows /\ TakenUp /\ Matched /\ Answering /\ RowsHaveMail /\ MessagesAreTrue

MessageInv == TypeInv /\ MessageParts

DraftInv == MessageInv /\ RequestWords /\ DraftsNameSent

-----------------------------------------------------------------------------
(***************************************************************************)
(* Types                                                                   *)
(***************************************************************************)

\* The null records have their types.
LEMMA NullTypes == NoDraft \in Drafts /\ NoRow \in Rows /\ NoCall \in CallsInUse
  BY DEF NoDraft, NoRow, NoCall, CallsInUse, Drafts, Rows, Calls, Names, Texts, Ops

\* A call that begins with its operation, or changes in one field, keeps its type.
LEMMA CallTypes ==
  ASSUME NEW c \in CallsInUse
  PROVE  /\ \A t \in Threads : [c EXCEPT !.thread = t] \in CallsInUse
         /\ \A x \in Texts : [c EXCEPT !.text = x] \in CallsInUse
         /\ \A b \in BOOLEAN : [c EXCEPT !.known = b] \in CallsInUse
         /\ \A p \in Processes : [c EXCEPT !.match = p] \in CallsInUse
         /\ \A d \in Drafts : [c EXCEPT !.copy = d] \in CallsInUse
         /\ \A n \in SUBSET Processes : [c EXCEPT !.counted = n] \in CallsInUse
  BY DEF CallsInUse, Calls

\* The fields of a call have their types.
LEMMA CallFields ==
  ASSUME NEW c \in CallsInUse
  PROVE  /\ c.thread \in Threads \cup {NoOne}
         /\ c.copy \in Drafts
         /\ c.text \in Texts
         /\ c.mail \in Mails \cup {NoOne}
         /\ c.match \in Processes \cup {NoOne}
         /\ c.counted \in SUBSET Processes
         /\ c.op = "event" => c.mail \in Mails
  BY DEF CallsInUse, Calls

\* A draft that changes in its columns keeps its type.
LEMMA DraftTypes ==
  ASSUME NEW d \in Drafts
  PROVE  /\ d.text \in Texts
         /\ \A s \in {"draft", "error", "sent"}, x \in Texts, m \in Requests \cup {NoOne} :
              /\ [d EXCEPT !.status = s] \in Drafts
              /\ [d EXCEPT !.status = s, !.text = x] \in Drafts
              /\ [d EXCEPT !.status = s, !.text = x, !.message = m] \in Drafts
  BY DEF Drafts

\* A save keeps drafts of their type, and makes none.
LEMMA SavedTypes ==
  ASSUME DataOK, NEW t \in Threads \cup {NoOne}, NEW old \in Drafts, NEW new \in Drafts
  PROVE  /\ Saved(t, old, new) \in [Threads -> Drafts]
         /\ \A u \in Threads : Saved(t, old, new)[u] # NoDraft => draft[u] # NoDraft
<1>1. CASE Saved(t, old, new) = draft
  BY <1>1 DEF DataOK
<1>2. CASE t \in Threads /\ Saved(t, old, new) # draft
  <2> DEFINE d == [by |-> draft[t].by,
          status  |-> IF new.status = old.status THEN draft[t].status ELSE new.status,
          text    |-> IF new.text = old.text THEN draft[t].text ELSE new.text,
          message |-> IF new.message = old.message THEN draft[t].message ELSE new.message]
  <2>1. draft[t] # NoDraft /\ Saved(t, old, new) = [draft EXCEPT ![t] = d]
    BY <1>2 DEF Saved
  <2>2. d \in Drafts
    <3>1. draft[t] \in Drafts
      BY <1>2 DEF DataOK
    <3>2. QED
      BY <3>1 DEF Drafts
  <2> HIDE DEF d
  <2>3. QED
    BY <1>2, <2>1, <2>2 DEF DataOK
<1>3. CASE t = NoOne /\ Saved(t, old, new) # draft
  <2> DEFINE d == [by |-> draft[t].by,
          status  |-> IF new.status = old.status THEN draft[t].status ELSE new.status,
          text    |-> IF new.text = old.text THEN draft[t].text ELSE new.text,
          message |-> IF new.message = old.message THEN draft[t].message ELSE new.message]
  <2>1. Saved(t, old, new) = [draft EXCEPT ![t] = d]
    BY <1>3 DEF Saved
  <2> HIDE DEF d
  <2>2. QED
    BY <1>3, <2>1, NamesAssumption DEF DataOK
<1>4. QED
  BY <1>1, <1>2, <1>3

\* One process moves on.
LEMMA LocalStep ==
  ASSUME LocalOK, NEW p \in Processes, NEW l \in Places, NEW c \in CallsInUse,
         pc' = [pc EXCEPT ![p] = l], call' = [call EXCEPT ![p] = c]
  PROVE  LocalOK'
  BY DEF LocalOK

\* One process moves on with the call it has.
LEMMA PlaceStep ==
  ASSUME LocalOK, NEW p \in Processes, NEW l \in Places,
         pc' = [pc EXCEPT ![p] = l], call' = call
  PROVE  LocalOK'
  BY DEF LocalOK

LEMMA FinishStep ==
  ASSUME LocalOK, NEW p \in Processes, Finish(p)
  PROVE  LocalOK'
<1>1. "done" \in Places
  BY DEF Places
<1>2. QED
  BY <1>1, NullTypes, LocalStep DEF Finish, Goto

LEMMA AcknowledgeStep ==
  ASSUME TypeInv, NEW p \in Processes, Acknowledge(p)
  PROVE  LocalOK' /\ acked' \subseteq Mails
<1>1. call[p] \in CallsInUse /\ acked \subseteq Mails
  BY DEF TypeInv, LocalOK, DataOK
<1>2. call[p].op = "event" => call[p].mail \in Mails
  BY <1>1, CallFields
<1>3. QED
  BY <1>1, <1>2, FinishStep DEF Acknowledge, TypeInv

\* What a request or a delivery begins is of its type.
LEMMA BeginStep ==
  ASSUME TypeInv, NEW p \in Processes, NEW c \in CallsInUse, NEW l \in Places, Begin(p, c, l)
  PROVE  TypeInv'
<1>1. LocalOK'
  BY LocalStep DEF Begin, Goto, TypeInv
<1>2. DataOK'
  BY DEF Begin, TypeInv, DataOK, tables, Drafted
<1>3. QED
  BY <1>1, <1>2 DEF TypeInv

LEMMA FailureStep ==
  ASSUME LocalOK, NEW p \in Processes, Failure(p)
  PROVE  LocalOK'
<1>1. "failing" \in Places
  BY DEF Places
<1>2. QED
  BY <1>1, FinishStep, PlaceStep DEF Failure, Goto

LEMMA ExcuseStep ==
  ASSUME LocalOK, NEW p \in Processes, Excuse(p)
  PROVE  LocalOK'
<1>1. "finding" \in Places /\ [NoCall EXCEPT !.op = "excuse"] \in CallsInUse
  BY NullTypes DEF Places, CallsInUse, Calls, Ops
<1>2. QED
  BY <1>1, LocalStep DEF Excuse, Goto

\* Nothing of the data changes.
LEMMA SameData ==
  ASSUME DataOK, UNCHANGED <<tables, mail, acked>>
  PROVE  DataOK'
  BY DEF DataOK, tables, Drafted
-----------------------------------------------------------------------------
\* The requests begin.
LEMMA BeginsType ==
  ASSUME TypeInv, NEW r \in Requests,
         \/ BeginCreate(r) \/ BeginSend(r) \/ BeginReply(r) \/ BeginRevise(r) \/ BeginRetry(r)
         \/ BeginGenerate(r) \/ BeginCancel(r)
  PROVE  TypeInv'
<1> DEFINE asks(op) == [NoCall EXCEPT !.op = op]
<1>1. r \in Processes /\ r \in Texts
  BY DEF Processes, Texts
<1>2. {"threading", "sending", "saving", "finding", "counting"} \subseteq Places
  BY DEF Places
<1>3. \A op \in Ops \ {"event"} : asks(op) \in CallsInUse
  BY NullTypes DEF CallsInUse, Calls
<1>4. /\ \A t \in Threads : draft[t] \in Drafts /\ draft[t].text \in Texts
      /\ Open \subseteq Threads
  BY DraftTypes DEF TypeInv, DataOK, Open
<1>5. {"create", "send", "reply", "revise", "retry", "generate", "cancel"} \subseteq Ops \ {"event"}
  BY DEF Ops
<1>6. \A op \in Ops \ {"event"}, t \in Threads :
        /\ [asks(op) EXCEPT !.thread = t] \in CallsInUse
        /\ \A x \in Texts : [[asks(op) EXCEPT !.thread = t] EXCEPT !.text = x] \in CallsInUse
        /\ \A d \in Drafts : [[asks(op) EXCEPT !.thread = t] EXCEPT !.copy = d] \in CallsInUse
        /\ \A d \in Drafts, x \in Texts :
             [[[asks(op) EXCEPT !.thread = t] EXCEPT !.copy = d] EXCEPT !.text = x] \in CallsInUse
  BY <1>3, CallTypes
<1>7. \A op \in Ops \ {"event"}, x \in Texts : [asks(op) EXCEPT !.text = x] \in CallsInUse
  BY <1>3, CallTypes
<1>8. CASE BeginCreate(r)
  BY <1>1, <1>2, <1>3, <1>5, <1>8, BeginStep DEF BeginCreate
<1>9. CASE BeginSend(r)
  <2>1. PICK t \in Threads : \E x \in {draft[t].text, r} \ {NoOne} :
          Begin(r, [NoCall EXCEPT !.op = "send", !.thread = t, !.copy = draft[t], !.text = x], "sending")
    BY <1>9 DEF BeginSend
  <2> PICK x \in {draft[t].text, r} \ {NoOne} :
          Begin(r, [NoCall EXCEPT !.op = "send", !.thread = t, !.copy = draft[t], !.text = x], "sending")
    BY <2>1
  <2>2. [[[asks("send") EXCEPT !.thread = t] EXCEPT !.copy = draft[t]] EXCEPT !.text = x] \in CallsInUse
    BY <1>1, <1>4, <1>5, <1>6
  <2>3. QED
    BY <1>1, <1>2, <2>2, BeginStep
<1>10. CASE BeginReply(r)
  <2>1. PICK t \in Open :
          Begin(r, [NoCall EXCEPT !.op = "reply", !.thread = t, !.text = r], "sending")
    BY <1>10 DEF BeginReply
  <2>2. [[asks("reply") EXCEPT !.thread = t] EXCEPT !.text = r] \in CallsInUse
    BY <1>1, <1>4, <1>5, <1>6
  <2>3. QED
    BY <1>1, <1>2, <2>1, <2>2, BeginStep
<1>11. CASE BeginRevise(r)
  <2>1. PICK t \in Threads :
          Begin(r, [NoCall EXCEPT !.op = "revise", !.thread = t, !.copy = draft[t], !.text = r], "saving")
    BY <1>11 DEF BeginRevise
  <2>2. [[[asks("revise") EXCEPT !.thread = t] EXCEPT !.copy = draft[t]] EXCEPT !.text = r] \in CallsInUse
    BY <1>1, <1>4, <1>5, <1>6
  <2>3. QED
    BY <1>1, <1>2, <2>1, <2>2, BeginStep
<1>12. CASE BeginRetry(r)
  <2>1. [asks("retry") EXCEPT !.text = r] \in CallsInUse
    BY <1>1, <1>5, <1>7
  <2>2. QED
    BY <1>1, <1>2, <1>12, <2>1, BeginStep DEF BeginRetry
<1>13. CASE BeginGenerate(r)
  <2>1. [asks("generate") EXCEPT !.text = r] \in CallsInUse
    BY <1>1, <1>5, <1>7
  <2>2. QED
    BY <1>1, <1>2, <1>13, <2>1, BeginStep DEF BeginGenerate
<1>14. CASE BeginCancel(r)
  <2>1. PICK t \in Threads :
          Begin(r, [NoCall EXCEPT !.op = "cancel", !.thread = t, !.copy = draft[t]], "counting")
    BY <1>14 DEF BeginCancel
  <2>2. [[asks("cancel") EXCEPT !.thread = t] EXCEPT !.copy = draft[t]] \in CallsInUse
    BY <1>4, <1>5, <1>6
  <2>3. QED
    BY <1>1, <1>2, <2>1, <2>2, BeginStep
<1>15. QED
  BY <1>8, <1>9, <1>10, <1>11, <1>12, <1>13, <1>14

\* A mail leaves.
LEMMA LeavesType ==
  ASSUME TypeInv, NEW r \in Requests, Leaves(r)
  PROVE  mail' \in [Mails -> [text : Texts, strand : Mails \cup {NoOne}]]
<1>1. r \in Processes /\ r \in Mails
  BY DEF Processes, Mails
<1>2. call[r].text \in Texts
  BY <1>1, CallFields DEF TypeInv, LocalOK
<1>3. Strands(r) \subseteq Mails \cup {NoOne}
  BY <1>1 DEF TypeInv, DataOK, Rows, Strands, RowsIn
<1>4. QED
  BY <1>1, <1>2, <1>3 DEF Leaves, TypeInv, DataOK

\* New data of the right type, with conversations and drafts as they are.
LEMMA MailStep ==
  ASSUME DataOK, UNCHANGED <<tables, acked>>,
         mail' \in [Mails -> [text : Texts, strand : Mails \cup {NoOne}]]
  PROVE  DataOK'
  BY DEF DataOK, tables, Drafted

LEMMA DraftStep ==
  ASSUME DataOK, UNCHANGED <<thread, row, mail>>, acked' \subseteq Mails,
         draft' \in [Threads -> Drafts],
         \A t \in Threads : draft'[t] # NoDraft => draft[t] # NoDraft \/ thread[t] = "open"
  PROVE  DataOK'
  BY DEF DataOK, Drafted

LEMMA SaveStep ==
  ASSUME DataOK, UNCHANGED <<thread, row, mail>>, acked' \subseteq Mails,
         NEW t \in Threads \cup {NoOne}, NEW old \in Drafts, NEW new \in Drafts,
         draft' = Saved(t, old, new)
  PROVE  DataOK'
<1>1. /\ draft' \in [Threads -> Drafts]
      /\ \A u \in Threads : draft'[u] # NoDraft => draft[u] # NoDraft
  BY SavedTypes
<1>2. QED
  BY <1>1, DraftStep

LEMMA RowStep ==
  ASSUME DataOK, UNCHANGED <<thread, draft, mail>>, acked' \subseteq Mails,
         NEW p \in Processes, NEW new \in Rows, row' = [row EXCEPT ![p] = new],
         new.thread # NoOne => thread[new.thread] = "open"
  PROVE  DataOK'
  BY DEF DataOK, Drafted

LEMMA SendingType ==
  ASSUME TypeInv, NEW r \in Requests,
         Transmit(r) \/ LoseAnswer(r) \/ Refuse(r) \/ FailToMark(r)
  PROVE  TypeInv'
<1>1. r \in Processes /\ call[r] \in CallsInUse
  BY DEF Processes, TypeInv, LocalOK
<1>2. {"recording", "failing"} \subseteq Places
  BY DEF Places
<1>3. CASE Transmit(r)
  <2>1. PICK known \in BOOLEAN : call' = [call EXCEPT ![r].known = known]
    BY <1>3 DEF Transmit
  <2>2. [call[r] EXCEPT !.known = known] \in CallsInUse
    BY <1>1, CallTypes
  <2>3. call' = [call EXCEPT ![r] = [call[r] EXCEPT !.known = known]] /\ pc' = [pc EXCEPT ![r] = "recording"]
    BY <1>3, <2>1 DEF Transmit, Goto
  <2>4. LocalOK'
    BY <1>1, <1>2, <2>2, <2>3, LocalStep DEF TypeInv
  <2>5. DataOK'
    BY <1>3, LeavesType, MailStep DEF Transmit, TypeInv
  <2>6. QED
    BY <2>4, <2>5 DEF TypeInv
<1>4. CASE LoseAnswer(r)
  BY <1>1, <1>4, LeavesType, MailStep, FailureStep DEF LoseAnswer, TypeInv
<1>5. CASE Refuse(r)
  BY <1>1, <1>5, SameData, FailureStep DEF Refuse, TypeInv
<1>6. CASE FailToMark(r)
  BY <1>1, <1>6, SameData, FailureStep DEF FailToMark, TypeInv
<1>7. QED
  BY <1>3, <1>4, <1>5, <1>6

LEMMA RecordType ==
  ASSUME TypeInv, NEW r \in Requests, Record(r)
  PROVE  TypeInv'
<1>1. r \in Processes /\ r \in Mails /\ call[r] \in CallsInUse
  BY DEF Processes, Mails, TypeInv, LocalOK
<1>2. CASE CanRecord(call[r].thread, SentRow(r).id)
  <2>1. SentRow(r) \in Rows
    <3>1. mail[r].strand \in Mails \cup {NoOne}
      BY <1>1 DEF TypeInv, DataOK
    <3>2. QED
      BY <1>1, <3>1, CallFields DEF SentRow, Rows
  <2>2. SentRow(r).thread = call[r].thread
    BY DEF SentRow
  <2>3. DataOK'
    <3>1. row' = [row EXCEPT ![r] = SentRow(r)] /\ UNCHANGED <<thread, draft, mail>> /\ acked' \subseteq Mails
      BY <1>2 DEF Record, TypeInv, DataOK
    <3>2. thread[SentRow(r).thread] = "open"
      BY <1>2, <2>2 DEF CanRecord, Open
    <3>3. QED
      BY <1>1, <2>1, <3>1, <3>2, RowStep DEF TypeInv
  <2>4. LocalOK'
    <3>1. "marking" \in Places
      BY DEF Places
    <3>2. QED
      BY <1>1, <1>2, <3>1, PlaceStep, FinishStep DEF Record, Goto, TypeInv
  <2>5. QED
    BY <2>3, <2>4 DEF TypeInv
<1>3. CASE ~CanRecord(call[r].thread, SentRow(r).id)
  BY <1>1, <1>3, SameData, FailureStep DEF Record, TypeInv, tables
<1>4. QED
  BY <1>2, <1>3

LEMMA MarkType ==
  ASSUME TypeInv, NEW r \in Requests, MarkSent(r) \/ MarkError(r)
  PROVE  TypeInv'
<1>1. r \in Processes /\ call[r] \in CallsInUse
  BY DEF Processes, TypeInv, LocalOK
<1>2. call[r].thread \in Threads \cup {NoOne} /\ call[r].copy \in Drafts /\ call[r].text \in Texts
  BY <1>1, CallFields
<1>3. CASE MarkSent(r)
  <2>1. SentDraft(r) \in Drafts
    BY <1>2, DraftTypes DEF SentDraft
  <2>2. draft' = Saved(call[r].thread, call[r].copy, SentDraft(r))
    BY <1>3 DEF MarkSent
  <2>3. DataOK'
    BY <1>2, <1>3, <2>1, <2>2, SaveStep DEF MarkSent, TypeInv, DataOK
  <2>4. QED
    BY <1>1, <1>3, <2>3, FinishStep DEF MarkSent, TypeInv
<1>4. CASE MarkError(r)
  <2>1. SentDraft(r) \in Drafts
    BY <1>2, DraftTypes DEF SentDraft
  <2>2. DataOK'
    <3>1. PICK d \in Drafts : draft' = Saved(call[r].thread, call[r].copy, d)
      BY <1>2, <1>4, <2>1, DraftTypes DEF MarkError
    <3>2. QED
      BY <1>2, <1>4, <3>1, SaveStep DEF MarkError, TypeInv, DataOK
  <2>3. QED
    BY <1>1, <1>4, <2>2, FinishStep DEF MarkError, TypeInv
<1>5. QED
  BY <1>3, <1>4

LEMMA WritingType ==
  ASSUME TypeInv, NEW p \in Processes, CreateThread(p) \/ CreateDraft(p) \/ SaveWritten(p) \/ Stop(p)
  PROVE  TypeInv'
<1>1. call[p] \in CallsInUse
  BY DEF TypeInv, LocalOK
<1>2. /\ call[p].thread \in Threads \cup {NoOne} /\ call[p].copy \in Drafts /\ call[p].text \in Texts
      /\ call[p].op = "event" => call[p].mail \in Mails
  BY <1>1, CallFields
<1>3. CASE CreateThread(p)
  <2>1. PICK t \in Threads : /\ thread[t] = "none"
                             /\ thread' = [thread EXCEPT ![t] = "open"]
                             /\ call' = [call EXCEPT ![p].thread = t]
    BY <1>3 DEF CreateThread
  <2>2. [call[p] EXCEPT !.thread = t] \in CallsInUse /\ {"matching", "drafting"} \subseteq Places
    BY <1>1, CallTypes DEF Places
  <2>3. LocalOK'
    <3>1. call' = [call EXCEPT ![p] = [call[p] EXCEPT !.thread = t]]
      BY <2>1
    <3>2. PICK l \in {"matching", "drafting"} : pc' = [pc EXCEPT ![p] = l]
      BY <1>3 DEF CreateThread, Goto
    <3>3. QED
      BY <2>2, <3>1, <3>2, LocalStep DEF TypeInv
  <2>4. DataOK'
    <3>1. UNCHANGED <<draft, row, mail, acked>>
      BY <1>3 DEF CreateThread
    <3>2. QED
      BY <2>1, <3>1 DEF TypeInv, DataOK, Drafted
  <2>5. QED
    BY <2>3, <2>4 DEF TypeInv
<1>4. CASE CreateDraft(p) /\ call[p].thread \in Open /\ ~Drafted(call[p].thread)
  <2>1. NewDraft(p) \in Drafts
    BY <1>2 DEF NewDraft, Drafts, Names
  <2>2. LocalOK' /\ acked' \subseteq Mails /\ draft' = [draft EXCEPT ![call[p].thread] = NewDraft(p)]
    BY <1>4, AcknowledgeStep DEF CreateDraft
  <2>3. DataOK'
    <3>1. UNCHANGED <<thread, row, mail>>
      BY <1>4 DEF CreateDraft
    <3>2. draft' \in [Threads -> Drafts]
      BY <2>1, <2>2 DEF TypeInv, DataOK
    <3>3. \A t \in Threads : draft'[t] # NoDraft => draft[t] # NoDraft \/ thread[t] = "open"
      BY <1>4, <2>2 DEF Open, TypeInv, DataOK
    <3>4. QED
      BY <2>2, <3>1, <3>2, <3>3, DraftStep DEF TypeInv
  <2>4. QED
    BY <2>2, <2>3 DEF TypeInv
<1>5. CASE CreateDraft(p) /\ ~(call[p].thread \in Open /\ ~Drafted(call[p].thread))
  <2>1. LocalOK' /\ acked' \subseteq Mails
    <3>1. (Excuse(p) /\ UNCHANGED acked) \/ Acknowledge(p)
      BY <1>5 DEF CreateDraft
    <3>2. QED
      BY <3>1, AcknowledgeStep, ExcuseStep DEF TypeInv, DataOK
  <2>2. UNCHANGED <<thread, draft, row, mail>>
    BY <1>5 DEF CreateDraft
  <2>3. QED
    BY <2>1, <2>2, DraftStep DEF TypeInv, DataOK
<1>6. CASE SaveWritten(p)
  <2>1. Written(p) \in Drafts
    <3>1. [call[p].copy EXCEPT !.status = "draft", !.text = call[p].text, !.message = NoOne] \in Drafts
      BY <1>2, DraftTypes
    <3>2. [call[p].copy EXCEPT !.status = "draft", !.text = call[p].text] \in Drafts
      BY <1>2, DraftTypes
    <3>3. [call[p].copy EXCEPT !.status = "error"] \in Drafts
      BY <1>2, DraftTypes
    <3>4. QED
      BY <3>1, <3>2, <3>3 DEF Written
  <2>2. LocalOK' /\ acked' \subseteq Mails
    BY <1>6, AcknowledgeStep DEF SaveWritten
  <2>3. DataOK'
    BY <1>2, <1>6, <2>1, <2>2, SaveStep DEF SaveWritten, TypeInv
  <2>4. QED
    BY <2>2, <2>3 DEF TypeInv
<1>7. CASE Stop(p)
  BY <1>7, FinishStep, SameData DEF Stop, TypeInv
<1>8. QED
  BY <1>3, <1>4, <1>5, <1>6, <1>7

LEMMA FindingType ==
  ASSUME TypeInv, NEW r \in Requests, GenerationFails(r) \/ FindEditable(r) \/ Count(r)
  PROVE  TypeInv'
<1>1. r \in Processes /\ call[r] \in CallsInUse
  BY DEF Processes, TypeInv, LocalOK
<1>2. {"threading", "saving", "deleting"} \subseteq Places
  BY DEF Places
<1>3. CASE GenerationFails(r)
  BY <1>1, <1>3, ExcuseStep, SameData DEF GenerationFails, TypeInv
<1>4. CASE FindEditable(r)
  <2>1. LocalOK'
    <3>1. CASE Editable = {}
      BY <1>1, <1>2, <1>4, <3>1, PlaceStep DEF FindEditable, Goto, TypeInv
    <3>2. CASE Editable # {}
      <4>1. PICK t \in Editable : call' = [call EXCEPT ![r].thread = t, ![r].copy = draft[t]]
        BY <1>4, <3>2 DEF FindEditable
      <4>2. t \in Threads /\ draft[t] \in Drafts
        BY DEF Editable, TypeInv, DataOK
      <4>3. [[call[r] EXCEPT !.thread = t] EXCEPT !.copy = draft[t]] \in CallsInUse
        BY <1>1, <4>2, CallTypes
      <4>4. call' = [call EXCEPT ![r] = [[call[r] EXCEPT !.thread = t] EXCEPT !.copy = draft[t]]]
        BY <1>1, <4>1 DEF TypeInv, LocalOK
      <4>5. pc' = [pc EXCEPT ![r] = "saving"]
        BY <1>4, <3>2 DEF FindEditable, Goto
      <4>6. QED
        BY <1>1, <1>2, <4>3, <4>4, <4>5, LocalStep DEF TypeInv
    <3>3. QED
      BY <3>1, <3>2
  <2>2. QED
    BY <1>4, <2>1, SameData DEF FindEditable, TypeInv
<1>5. CASE Count(r)
  <2>1. RowsIn(call[r].thread) \in SUBSET Processes
    BY DEF RowsIn
  <2>2. [call[r] EXCEPT !.counted = RowsIn(call[r].thread)] \in CallsInUse
    BY <1>1, <2>1, CallTypes
  <2>3. call' = [call EXCEPT ![r] = [call[r] EXCEPT !.counted = RowsIn(call[r].thread)]]
        /\ pc' = [pc EXCEPT ![r] = "deleting"]
    BY <1>5 DEF Count, Goto
  <2>4. LocalOK'
    BY <1>1, <1>2, <2>2, <2>3, LocalStep DEF TypeInv
  <2>5. QED
    BY <1>5, <2>4, SameData DEF Count, TypeInv
<1>6. QED
  BY <1>3, <1>4, <1>5

LEMMA DeletingType ==
  ASSUME TypeInv, NEW r \in Requests, DeleteDraft(r) \/ DeleteThread(r)
  PROVE  TypeInv'
<1>1. r \in Processes /\ call[r] \in CallsInUse /\ "clearing" \in Places
  BY DEF Processes, TypeInv, LocalOK, Places
<1>2. CASE DeleteDraft(r)
  <2>1. draft' \in [Threads -> Drafts] /\ \A t \in Threads : draft'[t] # NoDraft => draft[t] # NoDraft
    BY <1>2, NullTypes DEF DeleteDraft, TypeInv, DataOK
  <2>2. DataOK'
    BY <1>2, <2>1, DraftStep DEF DeleteDraft, TypeInv, DataOK
  <2>3. LocalOK'
    BY <1>1, <1>2, PlaceStep, FinishStep DEF DeleteDraft, Goto, TypeInv
  <2>4. QED
    BY <2>2, <2>3 DEF TypeInv
<1>3. CASE DeleteThread(r)
  <2> DEFINE t == call[r].thread
  <2>1. /\ thread' = [thread EXCEPT ![t] = "deleted"]
        /\ draft' = [draft EXCEPT ![t] = NoDraft]
        /\ row' = [p \in Processes |-> IF row[p].thread = t THEN [row[p] EXCEPT !.thread = NoOne] ELSE row[p]]
        /\ UNCHANGED <<mail, acked>>
    BY <1>3 DEF DeleteThread, RowsIn
  <2> HIDE DEF t
  <2>2. row' \in [Processes -> Rows]
    <3>1. \A p \in Processes : row[p] \in Rows /\ [row[p] EXCEPT !.thread = NoOne] \in Rows
      BY DEF TypeInv, DataOK, Rows
    <3>2. QED
      BY <2>1, <3>1
  <2>3. \A p \in Processes : row'[p].thread # NoOne => row[p].thread = row'[p].thread /\ row[p].thread # t
    BY <2>1 DEF TypeInv, DataOK, Rows
  <2>4. /\ thread' \in [Threads -> {"none", "open", "deleted"}]
        /\ draft' \in [Threads -> Drafts]
        /\ \A u \in Threads : draft'[u] # NoDraft => draft[u] # NoDraft /\ u # t
        /\ \A u \in Threads : u # t => thread'[u] = thread[u]
    BY <2>1, NullTypes DEF TypeInv, DataOK
  <2>5. \A p \in Processes : row'[p].thread # NoOne => row'[p].thread \in Threads
    BY <2>2 DEF Rows
  <2>6. DataOK'
    BY <2>1, <2>2, <2>3, <2>4, <2>5 DEF TypeInv, DataOK, Drafted
  <2>7. QED
    BY <1>1, <1>3, <2>6, FinishStep DEF DeleteThread, TypeInv
<1>4. QED
  BY <1>2, <1>3

LEMMA DeliveryType ==
  ASSUME TypeInv, TakenUp, Matched, Answering, NEW s \in Deliveries, Delivery(s)
  PROVE  TypeInv'
<1>1. s \in Processes /\ call[s] \in CallsInUse /\ s \in Texts
  BY DEF Processes, Texts, TypeInv, LocalOK
<1>2. /\ call[s].thread \in Threads \cup {NoOne} /\ call[s].copy \in Drafts /\ call[s].text \in Texts
      /\ call[s].mail \in Mails \cup {NoOne} /\ call[s].match \in Processes \cup {NoOne}
      /\ call[s].op = "event" => call[s].mail \in Mails
  BY <1>1, CallFields
<1>3. {"resolving", "threading", "matching", "merging", "inserting", "reading", "asking", "drafting",
       "saving", "done"} \subseteq Places
  BY DEF Places
<1>4. CASE BeginDelivery(s)
  <2>1. PICK m \in Mails :
          Begin(s, [NoCall EXCEPT !.op = "event", !.mail = m, !.text = mail[m].text], "resolving")
    BY <1>4 DEF BeginDelivery
  <2>2. mail[m].text \in Texts /\ m # NoOne
    BY NamesAssumption DEF TypeInv, DataOK
  <2>3. [[NoCall EXCEPT !.op = "event", !.mail = m] EXCEPT !.text = mail[m].text] \in CallsInUse
    <3>1. [NoCall EXCEPT !.op = "event", !.mail = m] \in CallsInUse
      BY <2>2, NullTypes DEF CallsInUse, Calls, Ops
    <3>2. QED
      BY <2>2, <3>1, CallTypes
  <2>4. QED
    BY <1>1, <1>3, <2>1, <2>3, BeginStep
<1>5. CASE Duplicate(s)
  <2>1. LocalOK'
    BY <1>1, <1>3, <1>5, PlaceStep DEF Duplicate, Goto, TypeInv
  <2>2. acked' \subseteq Mails /\ UNCHANGED <<tables, mail>>
    BY <1>5 DEF Duplicate, TypeInv, DataOK
  <2>3. QED
    BY <2>1, <2>2, DraftStep DEF TypeInv, DataOK, tables
<1>6. CASE Resolve(s)
  <2>1. LocalOK'
    <3>1. CASE pc' = [pc EXCEPT ![s] = "threading"] /\ UNCHANGED call
      BY <1>1, <1>3, <3>1, PlaceStep DEF TypeInv
    <3>2. CASE pc' = [pc EXCEPT ![s] = "matching"] /\ \E t \in Open : call' = [call EXCEPT ![s].thread = t]
      <4>1. PICK t \in Threads : call' = [call EXCEPT ![s] = [call[s] EXCEPT !.thread = t]]
        BY <3>2 DEF Open
      <4>2. [call[s] EXCEPT !.thread = t] \in CallsInUse
        BY <1>1, CallTypes
      <4>3. QED
        BY <1>1, <1>3, <3>2, <4>1, <4>2, LocalStep DEF TypeInv
    <3>3. QED
      BY <1>6, <3>1, <3>2 DEF Resolve, Goto
  <2>2. QED
    BY <1>6, <2>1, SameData DEF Resolve, TypeInv
<1>7. CASE Match(s)
  <2>1. LocalOK'
    <3>1. CASE pc' = [pc EXCEPT ![s] = "inserting"] /\ UNCHANGED call
      BY <1>1, <1>3, <3>1, PlaceStep DEF TypeInv
    <3>2. CASE pc' = [pc EXCEPT ![s] = "merging"] /\ \E p \in Matches(s) : call' = [call EXCEPT ![s].match = p]
      <4>1. PICK p \in Processes : call' = [call EXCEPT ![s] = [call[s] EXCEPT !.match = p]]
        BY <3>2 DEF Matches, RowsIn
      <4>2. [call[s] EXCEPT !.match = p] \in CallsInUse
        BY <1>1, CallTypes
      <4>3. QED
        BY <1>1, <1>3, <3>2, <4>1, <4>2, LocalStep DEF TypeInv
    <3>3. QED
      BY <1>7, <3>1, <3>2 DEF Match, Goto
  <2>2. QED
    BY <1>7, <2>1, SameData DEF Match, TypeInv
<1>8. CASE Merge(s) /\ Recorded(call[s].mail)
  BY <1>1, <1>8, FinishStep, SameData DEF Merge, TypeInv, tables
<1>9. CASE Merge(s) /\ ~Recorded(call[s].mail)
  <2> DEFINE q == call[s].match
             m == call[s].mail
  <2>1. row' = [row EXCEPT ![q].id = m, ![q].strand = mail[m].strand] /\ Acknowledge(s)
        /\ UNCHANGED <<thread, draft, mail>>
    BY <1>9 DEF Merge
  <2>2. LocalOK' /\ acked' \subseteq Mails
    BY <1>1, <2>1, AcknowledgeStep
  <2>3. q \in Processes /\ m \in Mails
    BY <1>9 DEF Merge, Matched, TakenUp, Processes
  <2> HIDE DEF q, m
  <2>4. DataOK'
    <3>1. row[q] \in Rows /\ mail[m].strand \in Mails \cup {NoOne}
      BY <2>3 DEF TypeInv, DataOK
    <3>2. [row[q] EXCEPT !.id = m, !.strand = mail[m].strand] \in Rows
      BY <2>3, <3>1 DEF Rows
    <3>3. row' = [row EXCEPT ![q] = [row[q] EXCEPT !.id = m, !.strand = mail[m].strand]]
      BY <2>1, <2>3 DEF TypeInv, DataOK
    <3>4. row[q].thread # NoOne => thread[row[q].thread] = "open"
      BY <2>3 DEF TypeInv, DataOK
    <3>5. [row[q] EXCEPT !.id = m, !.strand = mail[m].strand].thread = row[q].thread
      BY <3>1 DEF Rows
    <3>6. QED
      BY <2>1, <2>2, <2>3, <3>2, <3>3, <3>4, <3>5, RowStep DEF TypeInv
  <2>5. QED
    BY <2>2, <2>4 DEF TypeInv
<1>10. CASE Insert(s) /\ ~CanRecord(call[s].thread, call[s].mail)
  BY <1>1, <1>10, FinishStep, SameData DEF Insert, TypeInv, tables
<1>11. CASE Insert(s) /\ CanRecord(call[s].thread, call[s].mail)
  <2>1. row' = [row EXCEPT ![s] = FoundRow(s)] /\ UNCHANGED <<thread, draft, mail>>
    BY <1>11 DEF Insert
  <2>2. LocalOK' /\ acked' \subseteq Mails
    <3>1. Acknowledge(s) \/ (pc' = [pc EXCEPT ![s] = "reading"] /\ UNCHANGED <<call, acked>>)
      BY <1>11 DEF Insert, Goto
    <3>2. QED
      BY <1>1, <1>3, <3>1, AcknowledgeStep, PlaceStep DEF TypeInv, DataOK
  <2>3. FoundRow(s) \in Rows
    <3>1. call[s].mail \in Mails
      BY <1>11 DEF Insert, TakenUp
    <3>2. mail[call[s].mail].text \in Texts /\ mail[call[s].mail].strand \in Mails \cup {NoOne}
      BY <3>1 DEF TypeInv, DataOK
    <3>3. QED
      BY <1>2, <3>1, <3>2 DEF FoundRow, Rows
  <2>4. FoundRow(s).thread = call[s].thread /\ thread[call[s].thread] = "open"
    BY <1>11 DEF FoundRow, CanRecord, Open
  <2>5. DataOK'
    BY <1>1, <2>1, <2>2, <2>3, <2>4, RowStep DEF TypeInv
  <2>6. QED
    BY <2>2, <2>5 DEF TypeInv
<1>12. CASE ReadDraft(s)
  <2> DEFINE d == draft[call[s].thread]
  <2>1. CASE d.status = "draft"
    <3>1. Acknowledge(s) /\ UNCHANGED <<tables, mail>>
      BY <1>12, <2>1 DEF ReadDraft
    <3>2. QED
      BY <1>1, <3>1, AcknowledgeStep, DraftStep DEF TypeInv, DataOK, tables
  <2>2. CASE d.status # "draft"
    <3>1. call' = [call EXCEPT ![s].copy = d] /\ pc' = [pc EXCEPT ![s] = "asking"]
          /\ UNCHANGED <<tables, mail, acked>>
      BY <1>12, <2>2 DEF ReadDraft, Goto
    <3>2. d \in Drafts
      BY <1>12 DEF TypeInv, DataOK, ReadDraft, Answering
    <3>3. QED
      BY <1>1, <1>3, <3>1, <3>2, CallTypes, LocalStep, SameData DEF TypeInv
  <2>3. QED
    BY <2>1, <2>2
<1>13. CASE AskReply(s)
  <2>1. CASE Acknowledge(s) /\ UNCHANGED <<tables, mail>>
    BY <1>1, <2>1, AcknowledgeStep, DraftStep DEF TypeInv, DataOK, tables
  <2>2. CASE /\ call' = [call EXCEPT ![s].text = s]
             /\ \E l \in {"drafting", "saving"} : pc' = [pc EXCEPT ![s] = l]
             /\ UNCHANGED <<tables, mail, acked>>
    <3>1. [call[s] EXCEPT !.text = s] \in CallsInUse
      BY <1>1, CallTypes
    <3>2. LocalOK'
      BY <1>1, <1>3, <2>2, <3>1, LocalStep DEF TypeInv
    <3>3. QED
      BY <2>2, <3>2, SameData DEF TypeInv
  <2>3. QED
    BY <1>13, <2>1, <2>2 DEF AskReply, Goto
<1>14. QED
  BY <1>4, <1>5, <1>6, <1>7, <1>8, <1>9, <1>10, <1>11, <1>12, <1>13 DEF Delivery

LEMMA ArriveType ==
  ASSUME TypeInv, NEW m \in Replies, Arrive(m)
  PROVE  TypeInv'
<1>1. mail' \in [Mails -> [text : Texts, strand : Mails \cup {NoOne}]]
  <2>1. m \in Mails /\ m \in Texts /\ Requests \subseteq Mails
    BY DEF Mails, Texts
  <2>2. {m} \cup {mail[r].strand : r \in {q \in Requests : mail[q] # NoMail}} \subseteq Mails \cup {NoOne}
    BY <2>1 DEF TypeInv, DataOK
  <2>3. PICK s \in Mails \cup {NoOne} : mail' = [mail EXCEPT ![m] = [text |-> m, strand |-> s]]
    BY <2>2 DEF Arrive
  <2>4. QED
    BY <2>1, <2>3 DEF TypeInv, DataOK
<1>2. QED
  BY <1>1, MailStep DEF Arrive, TypeInv, LocalOK, tables
-----------------------------------------------------------------------------
(***************************************************************************)
(* Messages and their mail                                                 *)
(***************************************************************************)

\* What a process begins touches no mail and no message.
LEMMA BeginKeepsMessages ==
  ASSUME MessageInv, NEW p \in Processes, NEW c, NEW l, Begin(p, c, l),
         \/ p \in Requests /\ c.op # "event" /\ l \in {"threading", "sending", "saving", "finding", "counting"}
         \/ /\ p \in Deliveries /\ l = "resolving"
            /\ c.mail \in Mails /\ mail[c.mail] # NoMail /\ c.text = mail[c.mail].text
  PROVE  MessageParts'
  BY NamesAssumption DEF Begin, Starts, Goto, MailOnce, RequestRows, TakenUp, Matched, Answering,
         RowsHaveMail, MessagesShowTheirMail, HandledIsRecorded, TypeInv, LocalOK, DataOK,
         Processes, Mails, tables, NoMail, NoRow, MessageInv, MessageParts, MessagesAreTrue,
         Recorded

LEMMA BeginsKeepMessages ==
  ASSUME MessageInv, NEW r \in Requests,
         \/ BeginCreate(r) \/ BeginSend(r) \/ BeginReply(r) \/ BeginRevise(r) \/ BeginRetry(r)
         \/ BeginGenerate(r) \/ BeginCancel(r)
  PROVE  MessageParts'
<1>1. PICK c, l : /\ Begin(r, c, l) /\ c.op # "event"
                  /\ l \in {"threading", "sending", "saving", "finding", "counting"}
  BY DEF BeginCreate, BeginSend, BeginReply, BeginRevise, BeginRetry, BeginGenerate, BeginCancel, NoCall
<1>2. QED
  BY <1>1, BeginKeepsMessages DEF Processes

LEMMA TakingKeepsMessages ==
  ASSUME MessageInv, NEW s \in Deliveries, BeginDelivery(s)
  PROVE  MessageParts'
<1>1. PICK m \in Mails :
        /\ mail[m] # NoMail
        /\ Begin(s, [NoCall EXCEPT !.op = "event", !.mail = m, !.text = mail[m].text], "resolving")
  BY DEF BeginDelivery
<1>2. PICK c : c = [NoCall EXCEPT !.op = "event", !.mail = m, !.text = mail[m].text]
  OBVIOUS
<1>3. c.mail = m /\ c.text = mail[m].text
  BY <1>2 DEF NoCall
<1>4. Begin(s, c, "resolving")
  BY <1>1, <1>2
<1>5. QED
  BY <1>1, <1>3, <1>4, BeginKeepsMessages DEF Processes

\* A mail that leaves is recorded with its words.
LEMMA SendingKeepsMessages ==
  ASSUME MessageInv, NEW r \in Requests, Transmit(r) \/ LoseAnswer(r) \/ Refuse(r) \/ Record(r) \/
         MarkSent(r) \/ FailToMark(r) \/ MarkError(r)
  PROVE  MessageParts'
<1> USE NamesAssumption DEF MailOnce, RequestRows, TakenUp, Matched, Answering, RowsHaveMail,
       MessagesShowTheirMail, HandledIsRecorded, TypeInv, LocalOK, DataOK, Processes, Mails,
       tables, NoMail, NoRow, MessageInv, MessageParts, MessagesAreTrue, Recorded, NoCall, NoDraft
<1>1. CASE Transmit(r)
  <2>1. /\ call'[r].text = call[r].text /\ call'[r].op = call[r].op
        /\ \A q \in Processes \ {r} : call'[q] = call[q]
    BY <1>1 DEF Transmit, CallsInUse, Calls
  <2>2. /\ mail'[r] # NoMail /\ mail'[r].text = call[r].text
        /\ \A m \in Mails \ {r} : mail'[m] = mail[m]
    <3>1. PICK x \in Strands(r) : mail' = [mail EXCEPT ![r] = [text |-> call[r].text, strand |-> x]]
      BY <1>1 DEF Transmit, Leaves
    <3>2. x # NoOne
      BY DEF Strands
    <3>3. QED
      BY <3>1, <3>2
  <2>3. pc' = [pc EXCEPT ![r] = "recording"] /\ pc[r] = "sending" /\ UNCHANGED <<row, acked>>
    BY <1>1 DEF Transmit, Goto
  <2>4. mail[r] = NoMail
    BY <2>3
  <2>5. MailOnce'
    BY <2>1, <2>2, <2>3
  <2>6. RequestRows' /\ TakenUp' /\ Matched' /\ Answering'
    BY <2>1, <2>2, <2>3, <2>4
  <2>7. RowsHaveMail' /\ MessagesAreTrue'
    <3>1. \A p \in Processes : row[p].id # NoOne => row[p].id \in Mails \ {r}
      BY <2>4 DEF Rows
    <3>2. QED
      BY <2>2, <2>3, <3>1
  <2>8. QED
    BY <2>5, <2>6, <2>7
<1>2. CASE LoseAnswer(r)
  BY <1>2, SMT DEF LoseAnswer, Goto, Leaves, Strands, RowsIn, Failure, Finish
<1>3. CASE Refuse(r)
  BY <1>3, SMT DEF Refuse, Goto, Failure, Finish
<1>4. CASE Record(r)
  <2>1. CASE ~CanRecord(call[r].thread, SentRow(r).id)
    BY <1>4, <2>1, SMT DEF Record, Goto, Failure, Finish
  <2>2. CASE CanRecord(call[r].thread, SentRow(r).id)
    <3>1. PICK n : n = SentRow(r)
      OBVIOUS
    <3>2. /\ n.way = "out" /\ n.text = call[r].text /\ n.id \in {r, NoOne}
          /\ Likely(n.text, n.text)
      BY <3>1 DEF SentRow, Likely
    <3>3. /\ row'[r] = n /\ row[r].way = "none" /\ \A p \in Processes \ {r} : row'[p] = row[p]
          /\ UNCHANGED <<mail, acked>>
      BY <1>4, <2>2, <3>1 DEF Record
    <3>4. /\ pc[r] = "recording" /\ pc' \in {[pc EXCEPT ![r] = "marking"], [pc EXCEPT ![r] = "done"]}
          /\ call' \in {call, [call EXCEPT ![r] = NoCall]}
      BY <1>4, <2>2 DEF Record, Finish, Goto, Failure
    <3>5. mail[r] # NoMail /\ mail[r].text = n.text
      BY <3>2, <3>4
    <3>6. row[r].id = NoOne
      BY <3>3
    <3>7. \A v \in Mails : Recorded(v) => Recorded(v)'
      BY <3>3, <3>6
    <3>8. MailOnce' /\ RequestRows' /\ TakenUp'
      BY <3>2, <3>3, <3>4, <3>5
    <3>9. Matched' /\ Answering' /\ RowsHaveMail'
      BY <3>2, <3>3, <3>4, <3>5, <3>7
    <3>10. MessagesAreTrue'
      BY <3>2, <3>3, <3>4, <3>5, <3>7
    <3>11. QED
      BY <3>8, <3>9, <3>10
  <2>3. QED
    BY <1>4, <2>1, <2>2 DEF Record
<1>5. CASE MarkSent(r)
  BY <1>5, SMT DEF MarkSent, Goto, SentDraft, Saved, Finish
<1>6. CASE FailToMark(r)
  BY <1>6, SMT DEF FailToMark, Goto, Failure, Finish
<1>7. CASE MarkError(r)
  BY <1>7, SMT DEF MarkError, SentDraft, Goto, Saved, Finish
<1>8. QED
  BY <1>1, <1>2, <1>3, <1>4, <1>5, <1>6, <1>7

\* The other steps of a request touch messages only in their conversation.
LEMMA DraftsKeepMessages ==
  ASSUME MessageInv, NEW r \in Requests, GenerationFails(r) \/ FindEditable(r) \/ Count(r) \/
         DeleteDraft(r) \/ DeleteThread(r)
  PROVE  MessageParts'
<1> USE NamesAssumption DEF MailOnce, RequestRows, TakenUp, Matched, Answering, RowsHaveMail,
       MessagesShowTheirMail, HandledIsRecorded, TypeInv, LocalOK, DataOK, Processes, Mails,
       tables, NoMail, NoRow, MessageInv, MessageParts, MessagesAreTrue, Recorded, NoCall, NoDraft
<1>1. CASE GenerationFails(r)
  BY <1>1, SMT DEF GenerationFails, Goto, Excuse
<1>2. CASE FindEditable(r)
  <2>1. /\ call'[r].op = call[r].op
        /\ \A q \in Processes \ {r} : call'[q] = call[q]
    <3>1. CASE Editable = {}
      BY <1>2, <3>1 DEF FindEditable
    <3>2. CASE \E t \in Editable : call' = [call EXCEPT ![r].thread = t, ![r].copy = draft[t]]
      <4>1. PICK t \in Editable : call' = [call EXCEPT ![r].thread = t, ![r].copy = draft[t]]
        BY <3>2
      <4>2. call[r] \in Calls
        BY DEF CallsInUse
      <4>3. QED
        BY <4>1, <4>2 DEF Calls
    <3>3. QED
      BY <1>2, <3>1, <3>2 DEF FindEditable
  <2>2. pc' \in {[pc EXCEPT ![r] = "threading"], [pc EXCEPT ![r] = "saving"]} /\ pc[r] = "finding"
        /\ UNCHANGED <<row, mail, acked>>
    BY <1>2 DEF FindEditable, Goto
  <2>3. QED
    BY <2>1, <2>2
<1>3. CASE Count(r)
  BY <1>3, SMT DEF Count, Goto, RowsIn
<1>4. CASE DeleteDraft(r)
  BY <1>4, SMT DEF DeleteDraft, Goto, Finish
<1>5. CASE DeleteThread(r)
  BY <1>5, SMT DEF DeleteThread, Goto, Finish, RowsIn
<1>6. QED
  BY <1>1, <1>2, <1>3, <1>4, <1>5

\* A delivery merges into a sent message with the text of its mail, or records its mail, and is
\* handled after that.
LEMMA DeliveriesKeepMessages ==
  ASSUME MessageInv, NEW s \in Deliveries, Duplicate(s) \/ Resolve(s) \/ Match(s) \/ Merge(s) \/
         Insert(s) \/ ReadDraft(s) \/ AskReply(s)
  PROVE  MessageParts'
<1> USE NamesAssumption DEF MailOnce, RequestRows, TakenUp, Matched, Answering, RowsHaveMail,
       MessagesShowTheirMail, HandledIsRecorded, TypeInv, LocalOK, DataOK, Processes, Mails,
       tables, NoMail, NoRow, MessageInv, MessageParts, MessagesAreTrue, Recorded, NoCall, NoDraft
<1>1. CASE Duplicate(s)
  BY <1>1, SMT DEF Duplicate, Starts, Goto
<1>2. CASE Resolve(s)
  <2>1. /\ call'[s].text = call[s].text /\ call'[s].mail = call[s].mail
        /\ \A q \in Processes \ {s} : call'[q] = call[q]
    BY <1>2 DEF Resolve, CallsInUse, Calls
  <2>2. pc' \in {[pc EXCEPT ![s] = "threading"], [pc EXCEPT ![s] = "matching"]} /\ pc[s] = "resolving"
        /\ UNCHANGED <<row, mail, acked>>
    BY <1>2 DEF Resolve, Goto
  <2>3. QED
    BY <2>1, <2>2
<1>3. CASE Match(s)
  <2>1. CASE pc' = [pc EXCEPT ![s] = "inserting"] /\ UNCHANGED call
    BY <1>3, <2>1 DEF Match
  <2>2. CASE /\ pc' = [pc EXCEPT ![s] = "merging"] /\ call[s].mail \in Requests
             /\ \E p \in Matches(s) : call' = [call EXCEPT ![s].match = p]
    <3>1. PICK p \in Matches(s) : call' = [call EXCEPT ![s].match = p]
      BY <2>2
    <3>2. p \in Requests /\ row[p].way = "out" /\ Likely(row[p].text, call[s].text)
      BY DEF Matches, RowsIn
    <3>3. /\ call'[s].text = call[s].text /\ call'[s].mail = call[s].mail /\ call'[s].match = p
          /\ \A q \in Processes \ {s} : call'[q] = call[q]
      BY <3>1 DEF CallsInUse, Calls
    <3>4. pc[s] = "matching" /\ UNCHANGED <<row, mail, acked>>
      BY <1>3 DEF Match
    <3>5. QED
      BY <2>2, <3>2, <3>3, <3>4
  <2>3. QED
    BY <1>3, <2>1, <2>2 DEF Match, Goto
<1>4. CASE Merge(s)
  <2> DEFINE q == call[s].match
             m == call[s].mail
  <2>1. CASE Recorded(m)
    BY <1>4, <2>1 DEF Merge, Finish, Goto
  <2>2. CASE ~Recorded(m)
    <3>1. /\ q \in Requests /\ m \in Requests /\ row[q].way = "out" /\ Likely(row[q].text, mail[m].text)
          /\ mail[m] # NoMail /\ (q = m => row[q].text = mail[m].text)
      BY <1>4 DEF Merge
    <3>2. /\ row'[q].id = m /\ row'[q].way = "out" /\ row'[q].text = row[q].text
          /\ \A p \in Processes \ {q} : row'[p] = row[p]
      BY <1>4, <2>2, <3>1 DEF Merge, Rows
    <3>3. /\ pc' = [pc EXCEPT ![s] = "done"] /\ call' = [call EXCEPT ![s] = NoCall]
          /\ acked' \in {acked, acked \cup {m}} /\ UNCHANGED mail
      BY <1>4, <2>2 DEF Merge, Acknowledge, Finish, Goto
    <3>4. row[q].id \notin Replies
      BY <3>1
    <3>5. \A v \in Replies : Recorded(v) => Recorded(v)'
      BY <3>2, <3>4
    <3>6. MailOnce' /\ RequestRows' /\ TakenUp'
      BY <3>1, <3>2, <3>3
    <3>7. Matched' /\ RowsHaveMail'
      BY <3>1, <3>2, <3>3
    <3>8. Answering'
      BY <3>3, <3>5
    <3>9. MessagesShowTheirMail'
      BY <3>1, <3>2, <3>3
    <3>10. HandledIsRecorded'
      BY <3>1, <3>3, <3>5
    <3>11. QED
      BY <3>6, <3>7, <3>8, <3>9, <3>10
  <2>3. QED
    BY <2>1, <2>2
<1>5. CASE Insert(s)
  <2>1. CASE ~CanRecord(call[s].thread, call[s].mail)
    BY <1>5, <2>1, SMT DEF Insert, Goto, Finish
  <2>2. CASE CanRecord(call[s].thread, call[s].mail)
    <3>1. PICK m : m = call[s].mail
      OBVIOUS
    <3>2. PICK n : n = FoundRow(s)
      OBVIOUS
    <3>3. m \in Mails /\ mail[m] # NoMail
      BY <1>5, <3>1 DEF Insert
    <3>4. /\ n.id = m /\ n.text = mail[m].text /\ n.way = IF m \in Requests THEN "out" ELSE "in"
          /\ Likely(n.text, n.text)
      BY <3>1, <3>2 DEF FoundRow, Likely
    <3>5. /\ row'[s] = n /\ row[s].way = "none" /\ \A p \in Processes \ {s} : row'[p] = row[p]
          /\ UNCHANGED mail
      BY <1>5, <2>2, <3>2 DEF Insert
    <3>6. /\ pc[s] = "inserting"
          /\ \/ m \in Requests /\ pc' = [pc EXCEPT ![s] = "done"] /\ call' = [call EXCEPT ![s] = NoCall]
             \/ pc' = [pc EXCEPT ![s] = "reading"] /\ call' = call
          /\ acked' \in {acked, acked \cup {m}} /\ call[s].thread \in Threads
      BY <1>5, <2>2, <3>1 DEF Insert, Acknowledge, Finish, Goto, CanRecord, Open
    <3>7. row[s].id = NoOne
      BY <3>5
    <3>8. (\A v \in Mails : Recorded(v) => Recorded(v)') /\ Recorded(m)'
      BY <3>4, <3>5, <3>7
    <3>9. MailOnce' /\ RequestRows' /\ TakenUp'
      BY <3>3, <3>4, <3>5, <3>6
    <3>10. Matched' /\ RowsHaveMail'
      BY <3>3, <3>4, <3>5, <3>6
    <3>11. Answering'
      BY <3>1, <3>6, <3>8
    <3>12. MessagesAreTrue'
      BY <3>3, <3>4, <3>5, <3>6, <3>8
    <3>13. QED
      BY <3>9, <3>10, <3>11, <3>12
  <2>3. QED
    BY <1>5, <2>1, <2>2 DEF Insert
<1>6. CASE ReadDraft(s)
  <2>1. CASE Acknowledge(s) /\ UNCHANGED <<tables, mail>>
    BY <1>6, <2>1 DEF ReadDraft, Acknowledge, Finish, Goto
  <2>2. CASE /\ draft[call[s].thread].status # "draft"
             /\ call' = [call EXCEPT ![s].copy = draft[call[s].thread]]
             /\ pc' = [pc EXCEPT ![s] = "asking"]
             /\ UNCHANGED <<tables, mail, acked>>
    <3>1. /\ call'[s].mail = call[s].mail /\ call'[s].copy.status # "draft"
          /\ \A q \in Processes \ {s} : call'[q] = call[q]
      BY <2>2 DEF CallsInUse, Calls
    <3>2. QED
      BY <1>6, <2>2, <3>1 DEF ReadDraft
  <2>3. QED
    BY <1>6, <2>1, <2>2 DEF ReadDraft, Goto
<1>7. CASE AskReply(s)
  <2>1. CASE Acknowledge(s) /\ UNCHANGED <<tables, mail>>
    BY <1>7, <2>1 DEF AskReply, Acknowledge, Finish, Goto
  <2>2. CASE /\ call' = [call EXCEPT ![s].text = s]
             /\ pc' = [pc EXCEPT ![s] = IF call[s].copy = NoDraft THEN "drafting" ELSE "saving"]
             /\ UNCHANGED <<tables, mail, acked>>
    <3>1. /\ call'[s].mail = call[s].mail /\ call'[s].copy = call[s].copy
          /\ \A q \in Processes \ {s} : call'[q] = call[q]
      BY <2>2 DEF CallsInUse, Calls
    <3>2. QED
      BY <1>7, <2>2, <3>1 DEF AskReply
  <2>3. QED
    BY <1>7, <2>1, <2>2 DEF AskReply, Goto
<1>8. QED
  BY <1>1, <1>2, <1>3, <1>4, <1>5, <1>6, <1>7

\* Drafts and conversations are written, and processes end.
LEMMA WritesKeepMessages ==
  ASSUME MessageInv, NEW p \in Processes, CreateThread(p) \/ CreateDraft(p) \/ SaveWritten(p) \/
         Stop(p)
  PROVE  MessageParts'
<1> USE NamesAssumption DEF MailOnce, RequestRows, TakenUp, Matched, Answering, RowsHaveMail,
       MessagesShowTheirMail, HandledIsRecorded, TypeInv, LocalOK, DataOK, Processes, Mails,
       tables, NoMail, NoRow, MessageInv, MessageParts, MessagesAreTrue, Recorded, NoCall, NoDraft
<1>1. CASE CreateThread(p)
  BY <1>1, SMT DEF CreateThread, Goto
<1>2. CASE CreateDraft(p)
  BY <1>2, SMT DEF CreateDraft, Acknowledge, Finish, Goto, Excuse, Open, NewDraft
<1>3. CASE SaveWritten(p)
  BY <1>3, SMT DEF SaveWritten, Acknowledge, Finish, Goto, Saved, Written
<1>4. CASE Stop(p)
  BY <1>4, SMT DEF Stop, Finish, Goto
<1>5. QED
  BY <1>1, <1>2, <1>3, <1>4

\* A mail that arrives is new.
LEMMA ArrivalsKeepMessages ==
  ASSUME MessageInv, NEW m \in Replies, Arrive(m)
  PROVE  MessageParts'
  BY NamesAssumption DEF Arrive, MailOnce, RequestRows, TakenUp, Matched, Answering, RowsHaveMail,
         MessagesShowTheirMail, HandledIsRecorded, TypeInv, LocalOK, DataOK, Processes, Mails,
         tables, NoMail, MessageInv, MessageParts, MessagesAreTrue, Recorded

LEMMA MessageInitially == Init => MessageInv
<1> SUFFICES ASSUME Init PROVE MessageInv
  OBVIOUS
<1>1. LocalOK
  BY NullTypes DEF Init, LocalOK, Places
<1>2. DataOK
  <2>1. \A d \in {NoDraft} \cup {[NoDraft EXCEPT !.status = s] : s \in {"draft", "error"}} : d \in Drafts
    BY NullTypes, DraftTypes
  <2>2. draft \in [Threads -> Drafts]
    BY <2>1 DEF Init
  <2>3. NoMail \in [text : Texts, strand : Mails \cup {NoOne}]
    BY DEF NoMail, Texts
  <2>4. \A p \in Processes : row[p].thread = NoOne
    BY DEF Init, NoRow
  <2>5. QED
    BY <2>2, <2>3, <2>4, NullTypes DEF Init, DataOK
<1>3. MailOnce /\ RowsHaveMail
  BY DEF Init, MailOnce, RowsHaveMail, NoRow, Processes, Mails
<1>4. RequestRows /\ TakenUp
  BY DEF Init, RequestRows, TakenUp, NoRow, NoCall, Processes
<1>5. Matched /\ Answering
  BY DEF Init, Matched, Answering, Processes
<1>6. MessagesAreTrue
  BY DEF Init, MessagesAreTrue, MessagesShowTheirMail, HandledIsRecorded, NoRow
<1>7. QED
  BY <1>1, <1>2, <1>3, <1>4, <1>5, <1>6 DEF MessageInv, TypeInv, MessageParts

LEMMA MessageStep == MessageInv /\ [Next]_vars => MessageInv'
<1> SUFFICES ASSUME MessageInv, [Next]_vars PROVE MessageInv'
  OBVIOUS
<1>1. ASSUME NEW r \in Requests, Request(r) PROVE MessageInv'
  <2>1. TypeInv'
    BY <1>1, BeginsType, SendingType, RecordType, MarkType, FindingType, DeletingType
    DEF Request, MessageInv
  <2>2. MessageParts'
    BY <1>1, BeginsKeepMessages, SendingKeepsMessages, DraftsKeepMessages DEF Request
  <2>3. QED
    BY <2>1, <2>2 DEF MessageInv
<1>2. ASSUME NEW s \in Deliveries, Delivery(s) PROVE MessageInv'
  <2>1. TypeInv'
    BY <1>2, DeliveryType DEF MessageInv, MessageParts
  <2>2. MessageParts'
    BY <1>2, TakingKeepsMessages, DeliveriesKeepMessages DEF Delivery
  <2>3. QED
    BY <2>1, <2>2 DEF MessageInv
<1>3. ASSUME NEW p \in Processes, Step(p) PROVE MessageInv'
  BY <1>3, WritingType, WritesKeepMessages DEF Step, MessageInv
<1>4. ASSUME NEW m \in Replies, Arrive(m) PROVE MessageInv'
  BY <1>4, ArriveType, ArrivalsKeepMessages DEF MessageInv
<1>5. CASE UNCHANGED vars
  <2>1. TypeInv'
    BY <1>5, SameData DEF vars, MessageInv, TypeInv, LocalOK
  <2>2. MessageParts'
    BY <1>5 DEF vars, tables, MessageInv, MessageParts, MailOnce, RequestRows, TakenUp, Matched, Answering,
                RowsHaveMail, MessagesAreTrue, MessagesShowTheirMail, HandledIsRecorded, Recorded
  <2>3. QED
    BY <2>1, <2>2 DEF MessageInv
<1>6. QED
  BY <1>1, <1>2, <1>3, <1>4, <1>5 DEF Next

LEMMA MessageInvariant == Spec => []MessageInv
<1>1. QED
  BY MessageInitially, MessageStep, PTL DEF Spec

\* Every variable keeps its type, and drafts and messages are of conversations that exist, for any
\* number of requests, workers, mails and conversations.
THEOREM TypeCorrect == Spec => []TypeOK
<1>1. MessageInv => TypeOK
  BY DEF MessageInv, TypeInv, LocalOK, DataOK, CallsInUse, TypeOK
<1>2. QED
  BY <1>1, MessageInvariant, PTL

\* recordOutboundMessage, reconcileProviderOutboundMessage and syncProviderMessageForConnection: the
\* conversations tell of the mails what these said, or what bodiesLikelyMatch takes for it, and a
\* handled mail of the vendor is recorded.
THEOREM MessagesStayTrue == Spec => []MessagesAreTrue
<1>1. MessageInv => MessagesAreTrue
  BY DEF MessageInv, MessageParts
<1>2. QED
  BY <1>1, MessageInvariant, PTL
-----------------------------------------------------------------------------
(***************************************************************************)
(* The words of requests, and the messages drafts name                     *)
(***************************************************************************)

\* Requests begin with the words they are to write.
LEMMA BeginKeepsWords ==
  ASSUME DraftInv, NEW r \in Requests, NEW c, NEW l, Begin(r, c, l),
         l \in {"threading", "sending", "saving", "finding", "counting"},
         l = "sending" => c.op # "send" \/ c.text \in {c.copy.text, r},
         l \in {"finding", "saving"} => c.text = r
  PROVE  RequestWords' /\ DraftsNameSent'
<1>1. /\ pc' = [pc EXCEPT ![r] = l] /\ call' = [call EXCEPT ![r] = c] /\ pc[r] = "idle"
      /\ UNCHANGED <<draft, row>>
  BY DEF Begin, Starts, Goto, tables
<1>2. /\ pc \in [Processes -> Places] /\ call \in [Processes -> CallsInUse] /\ Requests \subseteq Processes
  BY DEF DraftInv, MessageInv, TypeInv, LocalOK, Processes
<1>3. RequestWords'
  BY <1>1, <1>2 DEF DraftInv, RequestWords
<1>4. DraftsNameSent'
  BY <1>1, <1>2 DEF DraftInv, DraftsNameSent
<1>5. QED
  BY <1>3, <1>4

LEMMA BeginsKeepWords ==
  ASSUME DraftInv, NEW r \in Requests,
         \/ BeginCreate(r) \/ BeginSend(r) \/ BeginReply(r) \/ BeginRevise(r) \/ BeginRetry(r)
         \/ BeginGenerate(r) \/ BeginCancel(r)
  PROVE  RequestWords' /\ DraftsNameSent'
<1>1. CASE BeginSend(r)
  <2>1. PICK t \in Threads : \E x \in {draft[t].text, r} \ {NoOne} :
          Begin(r, [NoCall EXCEPT !.op = "send", !.thread = t, !.copy = draft[t], !.text = x], "sending")
    BY <1>1 DEF BeginSend
  <2>2. PICK x \in {draft[t].text, r} \ {NoOne} :
          Begin(r, [NoCall EXCEPT !.op = "send", !.thread = t, !.copy = draft[t], !.text = x], "sending")
    BY <2>1
  <2>3. PICK c : c = [NoCall EXCEPT !.op = "send", !.thread = t, !.copy = draft[t], !.text = x]
    OBVIOUS
  <2>4. c.text \in {c.copy.text, r} /\ Begin(r, c, "sending")
    BY <2>2, <2>3 DEF NoCall
  <2>5. QED
    BY <2>4, BeginKeepsWords
<1>2. CASE BeginCreate(r)
  BY <1>2, BeginKeepsWords DEF BeginCreate
<1>3. CASE BeginReply(r)
  <2>1. PICK t \in Open : Begin(r, [NoCall EXCEPT !.op = "reply", !.thread = t, !.text = r], "sending")
    BY <1>3 DEF BeginReply
  <2>2. [NoCall EXCEPT !.op = "reply", !.thread = t, !.text = r].op # "send"
    BY DEF NoCall
  <2>3. QED
    BY <2>1, <2>2, BeginKeepsWords
<1>4. CASE BeginRevise(r)
  <2>1. PICK t \in Threads :
          Begin(r, [NoCall EXCEPT !.op = "revise", !.thread = t, !.copy = draft[t], !.text = r], "saving")
    BY <1>4 DEF BeginRevise
  <2>2. [NoCall EXCEPT !.op = "revise", !.thread = t, !.copy = draft[t], !.text = r].text = r
    BY DEF NoCall
  <2>3. QED
    BY <2>1, <2>2, BeginKeepsWords
<1>5. CASE BeginRetry(r) \/ BeginGenerate(r)
  <2>1. PICK op \in {"retry", "generate"} : Begin(r, [NoCall EXCEPT !.op = op, !.text = r], "finding")
    BY <1>5 DEF BeginRetry, BeginGenerate
  <2>2. [NoCall EXCEPT !.op = op, !.text = r].text = r
    BY DEF NoCall
  <2>3. QED
    BY <2>1, <2>2, BeginKeepsWords
<1>6. CASE BeginCancel(r)
  BY <1>6, BeginKeepsWords DEF BeginCancel
<1>7. QED
  BY <1>1, <1>2, <1>3, <1>4, <1>5, <1>6

\* A request sends, records and marks the same words.
LEMMA SendingKeepsWords ==
  ASSUME DraftInv, NEW r \in Requests, Transmit(r) \/ LoseAnswer(r) \/ Refuse(r) \/ Record(r) \/
         MarkSent(r) \/ FailToMark(r) \/ MarkError(r)
  PROVE  RequestWords' /\ DraftsNameSent'
<1> USE NamesAssumption DEF DraftInv, MessageInv, MessageParts, RequestWords, DraftsNameSent,
       RequestRows, TypeInv, LocalOK, DataOK, Processes, tables, NoCall, NoDraft, CallsInUse,
       Calls, Drafts
<1>1. CASE Transmit(r)
  BY <1>1, SMT DEF Transmit, Goto, Leaves, Strands, RowsIn
<1>2. CASE LoseAnswer(r)
  <2>1. /\ pc' \in {[pc EXCEPT ![r] = "failing"], [pc EXCEPT ![r] = "done"]} /\ pc[r] = "sending"
        /\ \A q \in Processes \ {r} : call'[q] = call[q]
        /\ pc'[r] = "failing" => call'[r] = call[r] /\ call[r].op = "send"
        /\ UNCHANGED <<row, draft>>
    BY <1>2 DEF LoseAnswer, Goto, Failure, Finish, tables
  <2>2. RequestWords'
    BY <2>1
  <2>3. DraftsNameSent'
    BY <2>1
  <2>4. QED
    BY <2>2, <2>3
<1>3. CASE Refuse(r)
  BY <1>3, SMT DEF Refuse, Goto, Failure, Finish
<1>4. CASE Record(r)
  <2>1. /\ pc[r] = "recording" /\ \A q \in Processes \ {r} : call'[q] = call[q] /\ row'[q] = row[q]
        /\ UNCHANGED draft
    BY <1>4 DEF Record, Goto, Failure, Finish
  <2>2. \/ /\ call[r].op = "send" /\ row'[r] = SentRow(r) /\ call' = call
           /\ pc' = [pc EXCEPT ![r] = "marking"]
        \/ call[r].op = "send" /\ pc' = [pc EXCEPT ![r] = "failing"] /\ call' = call
        \/ pc' = [pc EXCEPT ![r] = "done"]
    BY <1>4 DEF Record, Goto, Failure, Finish
  <2>3. SentRow(r).text = call[r].text
    BY DEF SentRow
  <2>4. RequestWords'
    BY <2>1, <2>2, <2>3
  <2>5. DraftsNameSent'
    BY <2>1, <2>2
  <2>6. QED
    BY <2>4, <2>5
<1>5. CASE MarkSent(r)
  BY <1>5, SMT DEF MarkSent, Goto, SentDraft, Saved, Finish
<1>6. CASE FailToMark(r)
  BY <1>6, SMT DEF FailToMark, Goto, Failure, Finish
<1>7. CASE MarkError(r)
  BY <1>7, SMT DEF MarkError, SentDraft, Goto, Saved, Finish
<1>8. QED
  BY <1>1, <1>2, <1>3, <1>4, <1>5, <1>6, <1>7

\* The other steps of a request keep its words, and a conversation is deleted when it was counted
\* as empty.
LEMMA DraftsKeepWords ==
  ASSUME DraftInv, NEW r \in Requests, GenerationFails(r) \/ FindEditable(r) \/ Count(r) \/
         DeleteDraft(r) \/ DeleteThread(r)
  PROVE  RequestWords' /\ DraftsNameSent'
<1> USE NamesAssumption DEF DraftInv, MessageInv, MessageParts, RequestWords, DraftsNameSent,
       RequestRows, TypeInv, LocalOK, DataOK, Processes, tables, NoCall, NoDraft, CallsInUse,
       Calls, Drafts
<1>1. CASE GenerationFails(r)
  BY <1>1, SMT DEF GenerationFails, Goto, Excuse
<1>2. CASE FindEditable(r)
  <2>1. /\ call'[r].op = call[r].op /\ call'[r].text = call[r].text
        /\ \A q \in Processes \ {r} : call'[q] = call[q]
    <3>1. CASE Editable = {}
      BY <1>2, <3>1 DEF FindEditable
    <3>2. CASE \E t \in Editable : call' = [call EXCEPT ![r].thread = t, ![r].copy = draft[t]]
      <4>1. PICK t \in Editable : call' = [call EXCEPT ![r].thread = t, ![r].copy = draft[t]]
        BY <3>2
      <4>2. call[r] \in Calls
        OBVIOUS
      <4>3. QED
        BY <4>1, <4>2
    <3>3. QED
      BY <1>2, <3>1, <3>2 DEF FindEditable
  <2>2. pc' \in {[pc EXCEPT ![r] = "threading"], [pc EXCEPT ![r] = "saving"]} /\ pc[r] = "finding"
        /\ UNCHANGED <<row, draft>>
    BY <1>2 DEF FindEditable, Goto, tables
  <2>3. RequestWords'
    BY <2>1, <2>2
  <2>4. DraftsNameSent'
    BY <2>2
  <2>5. QED
    BY <2>3, <2>4
<1>3. CASE Count(r)
  BY <1>3, SMT DEF Count, Goto, RowsIn
<1>4. CASE DeleteDraft(r)
  BY <1>4, SMT DEF DeleteDraft, Goto, Finish
<1>5. CASE DeleteThread(r)
  BY <1>5, SMT DEF DeleteThread, Goto, Finish, RowsIn
<1>6. QED
  BY <1>1, <1>2, <1>3, <1>4, <1>5

\* A delivery writes no text of a request's message and no message into a draft.
LEMMA OthersKeepWords ==
  ASSUME DraftInv, NEW s \in Deliveries,
         \A q \in Processes \ {s} : pc'[q] = pc[q] /\ call'[q] = call[q],
         \A r \in Requests : row'[r].text = row[r].text,
         \A t \in Threads : draft'[t].message \in {draft[t].message, NoOne}
  PROVE  RequestWords' /\ DraftsNameSent'
  BY NamesAssumption DEF DraftInv, RequestWords, DraftsNameSent, Processes

LEMMA DeliveriesKeepWords ==
  ASSUME DraftInv, NEW s \in Deliveries, Delivery(s)
  PROVE  RequestWords' /\ DraftsNameSent'
<1>1. /\ pc \in [Processes -> Places] /\ call \in [Processes -> CallsInUse] /\ row \in [Processes -> Rows]
      /\ s \in Processes \ Requests /\ Requests \subseteq Processes
  BY NamesAssumption DEF DraftInv, MessageInv, TypeInv, LocalOK, DataOK, Processes
<1>2. \A q \in Processes \ {s} : pc'[q] = pc[q] /\ call'[q] = call[q]
  <2>1. CASE BeginDelivery(s) \/ Duplicate(s)
    BY <1>1, <2>1 DEF BeginDelivery, Duplicate, Begin, Goto
  <2>2. CASE Resolve(s)
    BY <1>1, <2>2 DEF Resolve, Goto
  <2>3. CASE Match(s) \/ Merge(s)
    BY <1>1, <2>3 DEF Match, Merge, Acknowledge, Finish, Goto
  <2>4. CASE Insert(s) \/ ReadDraft(s) \/ AskReply(s)
    BY <1>1, <2>4 DEF Insert, ReadDraft, AskReply, Acknowledge, Finish, Goto
  <2>5. QED
    BY <2>1, <2>2, <2>3, <2>4 DEF Delivery
<1>3. UNCHANGED draft
  BY DEF Delivery, BeginDelivery, Begin, Duplicate, Resolve, Match, Merge, Insert, ReadDraft, AskReply, tables
<1>4. \A r \in Requests : row'[r].text = row[r].text
  <2>1. CASE Merge(s)
    BY <1>1, <2>1 DEF Merge, Rows
  <2>2. CASE Insert(s)
    BY <1>1, <2>2 DEF Insert
  <2>3. CASE UNCHANGED row
    BY <2>3
  <2>4. QED
    BY <2>1, <2>2, <2>3 DEF Delivery, BeginDelivery, Begin, Duplicate, Resolve, Match, ReadDraft, AskReply, tables
<1>5. QED
  BY <1>2, <1>3, <1>4, OthersKeepWords

\* A draft that is written names no message but the one it named.
LEMMA WritesKeepWords ==
  ASSUME DraftInv, NEW p \in Processes, CreateThread(p) \/ CreateDraft(p) \/ SaveWritten(p) \/
         Stop(p)
  PROVE  RequestWords' /\ DraftsNameSent'
<1> USE NamesAssumption DEF DraftInv, MessageInv, MessageParts, RequestWords, DraftsNameSent,
       RequestRows, TypeInv, LocalOK, DataOK, Processes, tables, NoCall, NoDraft, CallsInUse,
       Calls, Drafts
<1>1. CASE CreateThread(p)
  BY <1>1, SMT DEF CreateThread, Goto
<1>2. CASE CreateDraft(p)
  <2>1. CASE draft' = [draft EXCEPT ![call[p].thread] = NewDraft(p)] /\ Acknowledge(p)
    BY <1>2, <2>1 DEF CreateDraft, NewDraft, Acknowledge, Finish, Goto
  <2>2. CASE UNCHANGED draft /\ Acknowledge(p)
    BY <1>2, <2>2 DEF CreateDraft, Acknowledge, Finish, Goto
  <2>3. CASE UNCHANGED draft /\ Excuse(p)
    BY <1>2, <2>3 DEF CreateDraft, Excuse, Goto
  <2>4. QED
    BY <1>2, <2>1, <2>2, <2>3 DEF CreateDraft
<1>3. CASE SaveWritten(p)
  BY <1>3, SMT DEF SaveWritten, Acknowledge, Finish, Goto, Saved, Written
<1>4. CASE Stop(p)
  BY <1>4, SMT DEF Stop, Finish, Goto
<1>5. QED
  BY <1>1, <1>2, <1>3, <1>4

LEMMA DraftInvariant == Spec => []DraftInv
<1>1. Init => DraftInv
  <2> SUFFICES ASSUME Init PROVE DraftInv
    OBVIOUS
  <2>1. RequestWords
    BY DEF Init, RequestWords, Processes
  <2>2. DraftsNameSent
    <3>1. \A d \in {NoDraft} \cup {[NoDraft EXCEPT !.status = s] : s \in {"draft", "error"}} : d.message = NoOne
      BY DEF NoDraft
    <3>2. QED
      BY <3>1 DEF Init, DraftsNameSent
  <2>3. QED
    BY <2>1, <2>2, MessageInitially DEF DraftInv
<1>2. DraftInv /\ [Next]_vars => DraftInv'
  <2> SUFFICES ASSUME DraftInv, [Next]_vars PROVE RequestWords' /\ DraftsNameSent'
    BY MessageStep DEF DraftInv
  <2>1. ASSUME NEW r \in Requests, Request(r) PROVE RequestWords' /\ DraftsNameSent'
    BY <2>1, BeginsKeepWords, SendingKeepsWords, DraftsKeepWords DEF Request
  <2>2. ASSUME NEW s \in Deliveries, Delivery(s) PROVE RequestWords' /\ DraftsNameSent'
    BY <2>2, DeliveriesKeepWords DEF Delivery
  <2>3. ASSUME NEW p \in Processes, Step(p) PROVE RequestWords' /\ DraftsNameSent'
    BY <2>3, WritesKeepWords DEF Step
  <2>4. ASSUME NEW m \in Replies, Arrive(m) PROVE RequestWords' /\ DraftsNameSent'
    BY <2>4 DEF Arrive, tables, DraftInv, RequestWords, DraftsNameSent
  <2>5. CASE UNCHANGED vars
    BY <2>5 DEF vars, tables, DraftInv, RequestWords, DraftsNameSent
  <2>6. QED
    BY <2>1, <2>2, <2>3, <2>4, <2>5 DEF Next
<1>3. QED
  BY <1>1, <1>2, PTL DEF Spec
-----------------------------------------------------------------------------
(***************************************************************************)
(* What a step may do to drafts and messages                               *)
(***************************************************************************)

DraftsChangeWell == \A t \in Threads : Agrees(t) => Agrees(t)' \/ Stale(t)

PendingStays ==
  \A t \in Threads :
    draft[t].status = "draft" /\ draft[t].text \notin Deliveries /\ draft'[t].text \in Deliveries
      => Stale(t)

HidesWell ==
  \A p \in Processes : row[p].thread # NoOne /\ row'[p].thread = NoOne =>
    \E r \in Requests : pc[r] = "clearing" /\ call[r].thread = row[p].thread
                        /\ p \notin call[r].counted

Changes == DraftsChangeWell /\ PendingStays /\ HidesWell

\* A step that leaves drafts and messages alone.
LEMMA NothingChanges ==
  ASSUME DraftInv, UNCHANGED <<draft, row>>
  PROVE  Changes
  BY DEF Changes, DraftsChangeWell, PendingStays, HidesWell, Agrees

\* The steps of a request that write drafts and messages.
LEMMA RequestsChangeWell ==
  ASSUME DraftInv, NEW r \in Requests, Record(r) \/ MarkSent(r) \/ MarkError(r) \/ DeleteDraft(r)
         \/ DeleteThread(r)
  PROVE  Changes
<1> USE NamesAssumption DEF DraftInv, MessageInv, MessageParts, Changes, DraftsChangeWell,
       PendingStays, HidesWell, Agrees, Stale, RequestWords, DraftsNameSent, Answering,
       RequestRows, TypeInv, LocalOK, DataOK, Processes, tables, NoDraft, CallsInUse, Calls,
       Drafts, Rows
<1>1. CASE Record(r)
  <2>1. CASE UNCHANGED row
    BY <1>1, <2>1, NothingChanges DEF Record
  <2>2. CASE row' = [row EXCEPT ![r] = SentRow(r)] /\ call[r].thread \in Open
    <3>1. UNCHANGED draft /\ \A p \in Processes \ {r} : row'[p] = row[p]
      BY <1>1, <2>2 DEF Record
    <3>2. \A t \in Threads : draft[t].message # NoOne => draft[t].message \in Processes \ {r}
      BY <1>1 DEF Record
    <3>3. row'[r].thread # NoOne
      BY <2>2 DEF SentRow, Open
    <3>4. QED
      BY <3>1, <3>2, <3>3
  <2>3. QED
    BY <1>1, <2>1, <2>2 DEF Record, CanRecord
<1>2. CASE MarkSent(r)
  BY <1>2, SMT DEF MarkSent, Goto, SentDraft, Saved, Finish
<1>3. CASE MarkError(r)
  BY <1>3, SMT DEF MarkError, SentDraft, Goto, Saved, Finish
<1>4. CASE DeleteDraft(r)
  BY <1>4, SMT DEF DeleteDraft, Goto, Finish
<1>5. CASE DeleteThread(r)
  BY <1>5, SMT DEF DeleteThread, Goto, Finish, RowsIn
<1>6. QED
  BY <1>1, <1>2, <1>3, <1>4, <1>5

\* The steps of a delivery that write messages.
LEMMA DeliveriesChangeWell ==
  ASSUME DraftInv, NEW s \in Deliveries, Merge(s) \/ Insert(s)
  PROVE  Changes
<1> USE NamesAssumption DEF DraftInv, MessageInv, MessageParts, Changes, DraftsChangeWell,
       PendingStays, HidesWell, Agrees, Stale, RequestWords, DraftsNameSent, Answering,
       RequestRows, TypeInv, LocalOK, DataOK, Processes, tables, NoDraft, CallsInUse, Calls,
       Drafts, Rows
<1>1. CASE Merge(s)
  <2>1. UNCHANGED draft /\ \A p \in Processes : row'[p].text = row[p].text /\ row'[p].thread = row[p].thread
    BY <1>1 DEF Merge
  <2>2. QED
    BY <2>1
<1>2. CASE Insert(s)
  BY <1>2, SMT DEF Insert, Acknowledge, Finish, Goto, CanRecord, Open, FoundRow
<1>3. QED
  BY <1>1, <1>2

\* The steps that write drafts.
LEMMA WritesChangeWell ==
  ASSUME DraftInv, NEW p \in Processes, CreateDraft(p) \/ SaveWritten(p)
  PROVE  Changes
<1> USE NamesAssumption DEF DraftInv, MessageInv, MessageParts, Changes, DraftsChangeWell,
       PendingStays, HidesWell, Agrees, Stale, RequestWords, DraftsNameSent, Answering,
       RequestRows, TypeInv, LocalOK, DataOK, Processes, tables, NoDraft, CallsInUse, Calls,
       Drafts, Rows
<1>1. CASE CreateDraft(p)
  <2>1. CASE UNCHANGED draft
    BY <1>1, <2>1, NothingChanges DEF CreateDraft
  <2>2. CASE draft' = [draft EXCEPT ![call[p].thread] = NewDraft(p)] /\ draft[call[p].thread] = NoDraft
    BY <1>1, <2>2 DEF CreateDraft, NewDraft
  <2>3. QED
    BY <1>1, <2>1, <2>2 DEF CreateDraft, Drafted
<1>2. CASE SaveWritten(p)
  BY <1>2, SMT DEF SaveWritten, Acknowledge, Finish, Goto, Saved, Written
<1>3. QED
  BY <1>1, <1>2

LEMMA StepsChangeWell == DraftInv /\ [Next]_vars => Changes
<1> SUFFICES ASSUME DraftInv, [Next]_vars PROVE Changes
  OBVIOUS
<1>1. ASSUME NEW r \in Requests, Request(r) PROVE Changes
  <2>1. \/ UNCHANGED <<draft, row>>
        \/ Record(r) \/ MarkSent(r) \/ MarkError(r) \/ DeleteDraft(r) \/ DeleteThread(r)
    BY <1>1 DEF Request, BeginCreate, BeginSend, BeginReply, BeginRevise, BeginRetry, BeginGenerate, BeginCancel,
                Begin, Transmit, LoseAnswer, Refuse, FailToMark, GenerationFails, FindEditable, Count, tables
  <2>2. QED
    BY <2>1, NothingChanges, RequestsChangeWell
<1>2. ASSUME NEW s \in Deliveries, Delivery(s) PROVE Changes
  <2>1. UNCHANGED <<draft, row>> \/ Merge(s) \/ Insert(s)
    BY <1>2 DEF Delivery, BeginDelivery, Begin, Duplicate, Resolve, Match, ReadDraft, AskReply, tables
  <2>2. QED
    BY <2>1, NothingChanges, DeliveriesChangeWell
<1>3. ASSUME NEW p \in Processes, Step(p) PROVE Changes
  <2>1. UNCHANGED <<draft, row>> \/ CreateDraft(p) \/ SaveWritten(p)
    BY <1>3 DEF Step, CreateThread, Stop, tables
  <2>2. QED
    BY <2>1, NothingChanges, WritesChangeWell
<1>4. ASSUME NEW m \in Replies, Arrive(m) PROVE Changes
  BY <1>4, NothingChanges DEF Arrive, tables
<1>5. CASE UNCHANGED vars
  BY <1>5, NothingChanges DEF vars, tables
<1>6. QED
  BY <1>1, <1>2, <1>3, <1>4, <1>5 DEF Next

\* sendOutreachDraft, the rewriting of drafts and their column-wise saves: a sent draft stops to show
\* the message it names, and a pending draft becomes an automatic reply, only by the save of a draft
\* that changed since it was read.
THEOREM OnlyStaleDamages == Spec => OnlyStaleSavesDamage
<1>1. DraftInv /\ [Next]_vars => DraftsChangeWell /\ PendingStays
  BY StepsChangeWell DEF Changes
<1>2. Spec => [][DraftsChangeWell /\ PendingStays]_vars
  BY <1>1, DraftInvariant, PTL DEF Spec
<1>3. QED
  BY <1>2, PTL DEF OnlyStaleSavesDamage, SentDraftShowsMail, ReplyKeepsPending, DraftsChangeWell,
                   PendingStays

\* cancelOutreachDraft: only a message recorded after the count is hidden with its conversation.
THEOREM OnlyStaleHides == Spec => OnlyStaleCancelHides
<1>1. DraftInv /\ [Next]_vars => HidesWell
  BY StepsChangeWell DEF Changes
<1>2. Spec => [][HidesWell]_vars
  BY <1>1, DraftInvariant, PTL DEF Spec
<1>3. QED
  BY <1>2, PTL DEF OnlyStaleCancelHides, HidesWell
=============================================================================
