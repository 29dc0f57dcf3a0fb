--------------------------- MODULE OutreachPage ---------------------------
(***************************************************************************)
(* The Outreach tab of a project page (project.svelte, with                *)
(* project_outreach_panel.svelte) and the service behind it. Every request *)
(* of the page, the silent poll included, answers with the whole list of   *)
(* cards, and the page shows the answer that arrived last, whatever the    *)
(* order in which the service read its tables. Between a click and its     *)
(* answer the reader goes on selecting threads, typing and clicking.       *)
(*                                                                         *)
(* The service is its answers only: OutreachThread has its steps. Text is  *)
(* abstracted to the thread it was written for.                            *)
(***************************************************************************)
EXTENDS Naturals, SequencesExt

CONSTANTS Threads,      \* conversations of the project
          None,         \* no thread, no text, no answer
          MaxClicks,    \* requests the reader makes
          MaxOpen,      \* requests of the page under way at a time
          MaxMail       \* mails of vendors

ASSUME BoundAssumption == MaxClicks \in Nat /\ MaxOpen \in Nat /\ MaxMail \in Nat
ASSUME NamesAssumption == Threads # {} /\ None \notin Threads \union Nat

VARIABLES
  srv,      \* the threads the service would answer with, latest activity first
  cards,    \* outreachCards: the threads the page shows
  ui,       \* the page's other state
  reqs,     \* the page's requests: the busy flags, and up to two cancellations, which have none
  clicks,   \* requests made so far
  arrived,  \* mails of vendors so far
  mails,    \* history: mails that left with a thread's draft, None if no thread
  unsure    \* history: threads whose draft the reader could not know to be sent

vars == <<srv, cards, ui, reqs, clicks, arrived, mails, unsure>>

\* The requests of the page; "load" is the silent poll, or the first load.
Cancels == {"cancel", "another cancel"}
Ops == {"load", "create", "send", "revise", "retry", "reply", "suggest"} \union Cancels
DraftStates == {"none", "draft", "error", "sent"}
Texts == [for: Threads, moved: BOOLEAN]
Cards == [thread: Threads, draft: DraftStates, messages: BOOLEAN]

Maybe(S) == S \union {None}
Idle == [at |-> "idle"]
Busy(op) == reqs[op].at # "idle"

(* Cards ******************************************************************)

Has(cs, t) == \E i \in DOMAIN cs : cs[i].thread = t
Place(cs, t) == CHOOSE i \in DOMAIN cs : cs[i].thread = t
Card(cs, t) == cs[Place(cs, t)]
Newest(cs) == IF cs = <<>> THEN None ELSE cs[1].thread
Without(cs, t) == IF Has(cs, t) THEN RemoveAt(cs, Place(cs, t)) ELSE cs
Put(cs, c) == [i \in DOMAIN cs |-> IF cs[i].thread = c.thread THEN c ELSE cs[i]]
\* Mutant of Raise: the thread is listed again.
RaiseAgain(cs, c) == <<c>> \o cs

Raise(cs, c) == <<c>> \o Without(cs, c.thread)
Unsent(c) == c.draft \in {"draft", "error"}

\* getDefaultOutreachPane: a thread with a draft, or with nothing, opens in
\* the composer of drafts.
DefaultPane(cs, t) ==
  IF /\ t # None
     /\ Has(cs, t)
     /\ Unsent(Card(cs, t)) \/ (Card(cs, t).draft = "none" /\ ~Card(cs, t).messages)
  THEN "create" ELSE "read"

\* selectedOutreachCard: the thread chosen, or else the newest one.
Selected(u, cs) ==
  IF u.selected # None THEN IF Has(cs, u.selected) THEN u.selected ELSE None
  ELSE IF u.pane = "create" THEN None ELSE Newest(cs)

(* The page ***************************************************************)

CloseReply(u) == [u EXCEPT !.reply = None, !.body = None, !.hint = None]
OpenReply(u, t) == [CloseReply(u) EXCEPT !.reply = t, !.pane = "read"]

\* Mutant of Settled: the composer opens when there is none, and does not follow.
SettledOnce(u, cs) ==
  LET t == Selected(u, cs) IN
  IF u.tab = "outreach" /\ t # None /\ Card(cs, t).messages /\ u.reply = None
  THEN OpenReply(u, t) ELSE u

\* The panel's effect, which runs after every change of what it is given:
\* the composer of replies follows the selected thread.
Settled(u, cs) ==
  LET t == Selected(u, cs) IN
  IF u.tab = "outreach" /\ t # None /\ Card(cs, t).messages /\ u.reply # t
  THEN OpenReply(u, t) ELSE u

\* Mutant of Reselected: every answer selects the newest thread.
ReselectedNewest(u, cs) ==
  IF u.pane # "create"
  THEN LET t == Newest(cs) IN
       [u EXCEPT !.selected = t, !.pane = DefaultPane(cs, t),
                 !.compose = IF DefaultPane(cs, t) = "create" THEN t ELSE None]
  ELSE u

\* The selection an answer leaves.
Reselected(u, cs) ==
  IF u.pane # "create" /\ ~(u.selected # None /\ Has(cs, u.selected))
  THEN LET t == Newest(cs) IN
       [u EXCEPT !.selected = t, !.pane = DefaultPane(cs, t),
                 !.compose = IF DefaultPane(cs, t) = "create" THEN t ELSE None]
  ELSE u

\* applyOutreachState, and the effects that run before the request's own code
\* goes on.
Applied(u, cs) ==
  LET v == Reselected([u EXCEPT !.loaded = TRUE], cs)
      w == IF v.compose # None /\ ~Has(cs, v.compose) THEN [v EXCEPT !.compose = None] ELSE v
      x == IF w.reply # None /\ ~Has(cs, w.reply) THEN CloseReply(w) ELSE w
  IN  Settled(x, cs)

\* startNewThread
StartNew(u) ==
  CloseReply([u EXCEPT !.selected = None, !.compose = None, !.pane = "create"])

\* History: a suggestion is being written, and the composer has left the thread
\* it was asked for.
Wandered(u, rs) ==
  rs["suggest"].at # "idle" /\ (ui.wandered \/ u.reply # rs["suggest"].thread)

Show(u, cs, rs) ==
  LET v == Settled(u, cs) IN ui' = [v EXCEPT !.wandered = Wandered(v, rs)]

Open(op, r) ==
  /\ ~Busy(op)
  /\ Cardinality({o \in Ops : Busy(o)}) < MaxOpen
  /\ reqs' = [reqs EXCEPT ![op] = r]
Ask(op, t) == Open(op, [at |-> "asked", thread |-> t])
Clicked == clicks < MaxClicks /\ clicks' = clicks + 1
Click(op, t) == Clicked /\ Ask(op, t)

Onscreen == ui.tab = "outreach"

Init ==
  /\ srv \in {<<>>, <<[thread |-> CHOOSE t \in Threads : TRUE, draft |-> "draft", messages |-> FALSE]>>}
  /\ cards = <<>>
  /\ \E tab \in {"other", "outreach"} :
       /\ ui = [tab |-> tab, loaded |-> FALSE, tried |-> tab = "outreach",
                selected |-> None, compose |-> None, pane |-> "read",
                reply |-> None, body |-> None, hint |-> None, wandered |-> FALSE]
       /\ reqs = [op \in Ops |-> IF op = "load" /\ tab = "outreach"
                                 THEN [at |-> "asked", thread |-> None] ELSE Idle]
  /\ clicks = 0
  /\ arrived = 0
  /\ mails = [t \in Threads |-> IF Has(srv, t) THEN 0 ELSE None]
  /\ unsure = {}

(* What the reader does ***************************************************)

\* handleTabChange, and the effect that loads the cards the first time the tab
\* is open: once, whether it succeeds or not.
ChangeTab ==
  /\ Show([ui EXCEPT !.tab = IF Onscreen THEN "other" ELSE "outreach",
                      !.tried = @ \/ ~Onscreen], cards, reqs)
  /\ IF ~Onscreen /\ (ui.loaded \/ ~ui.tried) /\ ~Busy("load")
     THEN Ask("load", None) ELSE UNCHANGED reqs
  /\ UNCHANGED <<srv, cards, clicks, arrived, mails, unsure>>

\* selectOutreachCard
Select(t) ==
  /\ Onscreen
  /\ Has(cards, t)
  /\ Show(CloseReply([ui EXCEPT !.selected = t, !.compose = t, !.pane = DefaultPane(cards, t)]),
          cards, reqs)
  /\ UNCHANGED <<srv, cards, reqs, clicks, arrived, mails, unsure>>

New ==
  /\ Onscreen
  /\ Show(StartNew(ui), cards, reqs)
  /\ UNCHANGED <<srv, cards, reqs, clicks, arrived, mails, unsure>>

\* The composer of drafts shows the draft of t; its fields are edited in place.
Composing(t) ==
  Onscreen /\ ui.pane = "create" /\ ui.compose = t /\ Has(cards, t) /\ Card(cards, t).draft # "none"

Reading(t) == Onscreen /\ ui.pane = "read" /\ Selected(ui, cards) = t /\ Card(cards, t).messages

\* Typing a reply dismisses the suggestion shown beside it.
TypeReply(t) ==
  /\ Has(cards, t) /\ Reading(t)
  /\ ui' = [ui EXCEPT !.body = [for |-> t, moved |-> FALSE], !.hint = None]
  /\ UNCHANGED <<srv, cards, reqs, clicks, arrived, mails, unsure>>

\* applySuggestedReplyRevision
TakeHint ==
  /\ ui.hint # None
  /\ \E t \in Threads : Has(cards, t) /\ Reading(t)
  /\ ui' = [ui EXCEPT !.body = ui.hint, !.hint = None]
  /\ UNCHANGED <<srv, cards, reqs, clicks, arrived, mails, unsure>>

ClickCreate ==
  /\ Onscreen /\ ui.pane = "create"
  /\ ~\E t \in Threads : Composing(t)
  /\ Click("create", None)
  /\ UNCHANGED <<srv, cards, ui, arrived, mails, unsure>>

ClickSend(t) ==
  /\ Composing(t)
  /\ Click("send", t)
  /\ UNCHANGED <<srv, cards, ui, arrived, mails, unsure>>

\* The form that asks for a revision is filled in and sent.
ClickRevise(t) ==
  /\ Composing(t)
  /\ Click("revise", t)
  /\ UNCHANGED <<srv, cards, ui, arrived, mails, unsure>>

ClickRetry(t) ==
  /\ Composing(t) /\ Card(cards, t).draft = "error"
  /\ Click("retry", t)
  /\ UNCHANGED <<srv, cards, ui, arrived, mails, unsure>>

\* One cancellation does not wait for another.
ClickCancel(op, t) ==
  /\ op \in Cancels
  /\ Composing(t)
  /\ \A o \in {"send", "revise"} : Busy(o) => reqs[o].thread # t
  /\ Click(op, t)
  /\ UNCHANGED <<srv, cards, ui, arrived, mails, unsure>>

\* sendReply posts to the selected thread, with the references of the composer.
ClickReply(t) ==
  /\ Has(cards, t) /\ Reading(t)
  /\ ui.body # None
  /\ Clicked
  /\ Open("reply", [at |-> "asked", thread |-> t, quoted |-> ui.reply, body |-> ui.body])
  /\ UNCHANGED <<srv, cards, ui, arrived, mails, unsure>>

ClickSuggest(t) ==
  /\ Has(cards, t) /\ Reading(t)
  /\ Click("suggest", t)
  /\ ui' = [ui EXCEPT !.wandered = FALSE]
  /\ UNCHANGED <<srv, cards, arrived, mails, unsure>>

\* The poll of an open tab, every 15 seconds unless a load is under way.
Poll ==
  /\ Onscreen /\ ui.loaded
  /\ Ask("load", None)
  /\ UNCHANGED <<srv, cards, ui, clicks, arrived, mails, unsure>>

(* What the service does **************************************************)

Asked(op) == reqs[op].at = "asked"
Answered(op, list, new) ==
  reqs' = [reqs EXCEPT ![op] = [at |-> "answered", thread |-> @.thread, cards |-> list, new |-> new]]
Lost(op) == reqs' = [reqs EXCEPT ![op] = [at |-> "failed", thread |-> @.thread]]

\* The answer of a request that was carried out arrives, or is lost with it.
Reply(op) == Answered(op, srv', None) \/ Lost(op)

\* Nothing was done: the request or its answer is lost, or it is refused.
Refuse(op) ==
  /\ Asked(op) \/ reqs[op].at = "working"
  /\ Lost(op)
  /\ UNCHANGED <<srv, cards, ui, clicks, arrived, mails, unsure>>

Drafted(t) == Has(srv, t) /\ Card(srv, t).draft # "none"
Thread(t, draft, messages) == [thread |-> t, draft |-> draft, messages |-> messages]
\* The next thread: which name it takes does not matter.
Fresh(t) == t = CHOOSE u \in Threads : mails[u] = None
Full == \A t \in Threads : mails[t] # None

AnswerLoad ==
  /\ Asked("load")
  /\ Answered("load", srv, None)
  /\ UNCHANGED <<srv, cards, ui, clicks, arrived, mails, unsure>>

\* createOutreachDraft: a new thread, with a draft.
Create(t) ==
  /\ Asked("create") /\ ~Full /\ Fresh(t)
  /\ srv' = Raise(srv, Thread(t, "draft", FALSE))
  /\ mails' = [mails EXCEPT ![t] = 0]
  /\ Answered("create", srv', t) \/ Lost("create")
  /\ UNCHANGED <<cards, ui, clicks, arrived, unsure>>

\* sendOutreachDraft: no mailbox, nothing leaves.
SendNothing(t) ==
  /\ Asked("send") /\ t = reqs["send"].thread
  /\ Drafted(t)
  /\ srv' = Put(srv, [Card(srv, t) EXCEPT !.draft = "error"])
  /\ Lost("send")
  /\ UNCHANGED <<cards, ui, clicks, arrived, mails, unsure>>

Count(t) == mails' = [mails EXCEPT ![t] = IF @ < 2 THEN @ + 1 ELSE @]

\* The mail leaves and is recorded, and the draft is marked.
Send(t) ==
  /\ Asked("send") /\ t = reqs["send"].thread
  /\ Drafted(t)
  /\ srv' = Raise(srv, Thread(t, "sent", TRUE))
  /\ Count(t)
  /\ \/ Answered("send", srv', None) /\ UNCHANGED unsure
     \/ Lost("send") /\ unsure' = unsure \union {t}
  /\ UNCHANGED <<cards, ui, clicks, arrived>>

\* The mail leaves, and recording it or reading the answer fails.
SendUnmarked(t) ==
  /\ Asked("send") /\ t = reqs["send"].thread
  /\ Drafted(t)
  /\ \/ srv' = Put(srv, [Card(srv, t) EXCEPT !.draft = "error"])
     \/ srv' = Raise(srv, Thread(t, "error", TRUE))
  /\ Count(t)
  /\ Lost("send")
  /\ unsure' = unsure \union {t}
  /\ UNCHANGED <<cards, ui, clicks, arrived>>

\* reviseOutreachDraft and retryInitialOutreachDraft read the draft, and write
\* it when the engine has answered.
ReadDraft(op) ==
  /\ op \in {"revise", "retry"}
  /\ Asked(op)
  /\ LET t == reqs[op].thread IN
     /\ Drafted(t)
     /\ op = "retry" => Card(srv, t).draft = "error"
     /\ reqs' = [reqs EXCEPT ![op] = [at |-> "working", thread |-> t, saw |-> Card(srv, t).draft]]
  /\ UNCHANGED <<srv, cards, ui, clicks, arrived, mails, unsure>>

\* A draft is put back in the state of an unsent one.
Redraft(t) ==
  /\ srv' = LET c == [Card(srv, t) EXCEPT !.draft = "draft"] IN
             IF c.messages THEN Put(srv, c) ELSE Raise(srv, c)
  /\ unsure' = IF Card(srv, t).draft = "sent" THEN unsure \union {t} ELSE unsure

\* The save of a revision writes the state only if it is not the one read, and
\* misses a draft that is gone.
Revise ==
  /\ reqs["revise"].at = "working"
  /\ LET t == reqs["revise"].thread IN
     IF Drafted(t) /\ reqs["revise"].saw # "draft"
     THEN Redraft(t) ELSE UNCHANGED <<srv, unsure>>
  /\ Reply("revise")
  /\ UNCHANGED <<cards, ui, clicks, arrived, mails>>

\* A retry writes an unsent draft of the vendor, or starts a thread.
Retry ==
  /\ reqs["retry"].at = "working"
  /\ IF \E t \in Threads : Has(srv, t) /\ Unsent(Card(srv, t))
     THEN /\ \E t \in Threads : Has(srv, t) /\ Unsent(Card(srv, t)) /\ Redraft(t)
          /\ UNCHANGED mails
     ELSE \E t \in Threads :
            /\ ~Full /\ Fresh(t)
            /\ srv' = Raise(srv, Thread(t, "draft", FALSE))
            /\ mails' = [mails EXCEPT ![t] = 0]
            /\ UNCHANGED unsure
  /\ Reply("retry")
  /\ UNCHANGED <<cards, ui, clicks, arrived>>

\* cancelOutreachDraft: the draft goes, and with it a thread without messages.
Cancel(op, t) ==
  /\ op \in Cancels
  /\ Asked(op) /\ t = reqs[op].thread
  /\ Drafted(t)
  /\ srv' = IF Card(srv, t).messages
            THEN Put(srv, Thread(t, "none", TRUE)) ELSE Without(srv, t)
  /\ Reply(op)
  /\ UNCHANGED <<cards, ui, clicks, arrived, mails, unsure>>

\* sendThreadReply: the draft of the thread stays as it is.
SendReply(t) ==
  /\ Asked("reply") /\ t = reqs["reply"].thread
  /\ Has(srv, t)
  /\ srv' = Raise(srv, [Card(srv, t) EXCEPT !.messages = TRUE])
  /\ Reply("reply")
  /\ UNCHANGED <<cards, ui, clicks, arrived, mails, unsure>>

Suggest(t) ==
  /\ Asked("suggest") /\ t = reqs["suggest"].thread
  /\ Has(srv, t)
  /\ Answered("suggest", srv, None)
  /\ UNCHANGED <<srv, cards, ui, clicks, arrived, mails, unsure>>

\* A vendor writes, in a thread that has messages or in a new one; a reply may
\* be drafted in the place of the thread's draft.
Arrive(t) ==
  /\ arrived < MaxMail /\ arrived' = arrived + 1
  /\ (~Full /\ Fresh(t)) \/ (Has(srv, t) /\ Card(srv, t).messages)
  /\ \E drafted \in BOOLEAN :
       LET draft == IF drafted THEN "draft" ELSE IF Has(srv, t) THEN Card(srv, t).draft ELSE "none"
       IN  /\ srv' = Raise(srv, Thread(t, draft, TRUE))
           /\ mails' = [mails EXCEPT ![t] = IF drafted \/ @ = None THEN 0 ELSE @]
           /\ unsure' = IF drafted THEN unsure \ {t} ELSE unsure
  /\ UNCHANGED <<cards, ui, reqs, clicks>>

(* What the page does with an answer **************************************)

Done(op) == [reqs EXCEPT ![op] = Idle]

\* An answer read before a mail left and shown after: the draft looks unsent.
Overtaken(list) ==
  {t \in Threads : /\ Has(list, t) /\ Unsent(Card(list, t))
                   /\ Has(srv, t) /\ Card(srv, t).draft = "sent"}

\* cancelDraft, once answered.
Canceled(u, list, t) ==
  LET v == CloseReply([u EXCEPT !.compose = IF @ = t THEN None ELSE @,
                                !.selected = IF @ = t THEN Newest(list) ELSE @])
  IN  IF list = <<>> THEN StartNew(v)
      ELSE [v EXCEPT !.pane = IF v.selected = None THEN "read"
                              ELSE DefaultPane(list, Selected(v, list))]

\* Mutant of Continued: the composer of drafts stays after a mail.
ContinuedInComposer(op, u) ==
  LET r == reqs[op] IN
  CASE op = "create" -> [u EXCEPT !.selected = r.new, !.compose = r.new, !.pane = "create"]
    [] op \in {"send", "revise", "retry"} -> [u EXCEPT !.pane = "create"]
    [] op \in Cancels -> Canceled(u, r.cards, r.thread)
    [] op = "reply" -> [CloseReply(u) EXCEPT !.pane = "read"]
    [] op = "suggest" -> [u EXCEPT !.hint = [for |-> r.thread, moved |-> Wandered(u, reqs)]]
    [] op = "load" -> u

\* What each request's own code does after applyOutreachState.
Continued(op, u) ==
  LET r == reqs[op] IN
  CASE op = "create" -> [u EXCEPT !.selected = r.new, !.compose = r.new, !.pane = "create"]
    [] op = "send" -> [u EXCEPT !.pane = "read"]
    [] op \in {"revise", "retry"} -> [u EXCEPT !.pane = "create"]
    [] op \in Cancels -> Canceled(u, r.cards, r.thread)
    [] op = "reply" -> [CloseReply(u) EXCEPT !.pane = "read"]
    [] op = "suggest" -> [u EXCEPT !.hint = [for |-> r.thread, moved |-> Wandered(u, reqs)]]
    [] op = "load" -> u

\* The composer shows a draft that was sent, and nothing is under way that will
\* close it: another request's answer opened it over that draft.
Reopened(op) ==
  {t \in Threads : /\ op # "send"
                   /\ ui'.pane = "create" /\ ui'.compose = t
                   /\ Has(cards', t) /\ Card(cards', t).draft = "sent"
                   /\ ~(reqs'["send"].at # "idle" /\ reqs'["send"].thread = t)}

Take(op) ==
  /\ reqs[op].at = "answered"
  /\ cards' = reqs[op].cards
  /\ Show(Continued(op, Applied(ui, reqs[op].cards)), reqs[op].cards, Done(op))
  /\ reqs' = Done(op)
  /\ unsure' = unsure \union Overtaken(reqs[op].cards) \union Reopened(op)
  /\ UNCHANGED <<srv, clicks, arrived, mails>>

\* A draft whose sending or writing failed is shown as failed.
Fail(op) ==
  /\ reqs[op].at = "failed"
  /\ cards' = LET t == reqs[op].thread IN
               IF op \in {"send", "retry"} /\ Has(cards, t) /\ Card(cards, t).draft # "none"
               THEN Put(cards, [Card(cards, t) EXCEPT !.draft = "error"]) ELSE cards
  /\ Show(ui, cards', Done(op))
  /\ reqs' = Done(op)
  /\ UNCHANGED <<srv, clicks, arrived, mails, unsure>>

Reader ==
  \/ ChangeTab \/ New \/ TakeHint \/ ClickCreate
  \/ \E t \in Threads :
       \/ Select(t) \/ TypeReply(t)
       \/ ClickSend(t) \/ ClickRevise(t) \/ ClickRetry(t)
       \/ (\E op \in Ops : ClickCancel(op, t))
       \/ ClickReply(t) \/ ClickSuggest(t)

Service ==
  \/ AnswerLoad \/ Revise \/ Retry
  \/ \E op \in Ops : Refuse(op) \/ ReadDraft(op)
  \/ \E t \in Threads :
       \/ Create(t) \/ SendNothing(t) \/ Send(t) \/ SendUnmarked(t)
       \/ (\E op \in Ops : Cancel(op, t))
       \/ SendReply(t) \/ Suggest(t) \/ Arrive(t)

Page == Poll \/ (\E op \in Ops : Take(op) \/ Fail(op))

Next == Reader \/ Service \/ Page

Spec == Init /\ [][Next]_vars

(* Properties *************************************************************)

\* Types; and no thread is listed twice, on the page or in an answer.
TypeOK ==
  /\ \A cs \in {srv, cards} \union {reqs[op].cards : op \in {o \in Ops : reqs[o].at = "answered"}} :
       /\ cs \in Seq(Cards)
       /\ \A i, j \in DOMAIN cs : cs[i].thread = cs[j].thread => i = j
  /\ ui \in [tab: {"other", "outreach"}, loaded: BOOLEAN, tried: BOOLEAN,
             selected: Maybe(Threads), compose: Maybe(Threads), pane: {"read", "create"},
             reply: Maybe(Threads),
             body: Maybe(Texts), hint: Maybe(Texts), wandered: BOOLEAN]
  /\ DOMAIN reqs = Ops
  /\ \A op \in Ops : reqs[op].at \in {"idle", "asked", "working", "answered", "failed"}
  /\ clicks \in 0 .. MaxClicks /\ arrived \in 0 .. MaxMail
  /\ mails \in [Threads -> Maybe(0 .. 2)]
  /\ unsure \subseteq Threads

\* A reply is posted to the thread whose message it quotes, and its text was
\* written for that thread; only a suggestion asked for before the reader moved
\* to another thread is shown, and posted, in the wrong one (the page does not
\* look at revisedThreadUuid).
RepliesStayHome ==
  /\ \A text \in {ui.body, ui.hint} \ {None} : text.for # ui.reply => text.moved
  /\ Asked("reply") =>
       LET r == reqs["reply"] IN
       r.quoted = r.thread /\ (r.body.for # r.thread => r.body.moved)

\* A draft is mailed twice only when the reader could not know of the first
\* mail: its answer failed, an answer read before it was shown after it, the
\* save of a revision undid its mark, or another request's answer put the sent
\* draft back into the composer.
MailedTwiceUnknowingly ==
  \A t \in Threads : mails[t] = 2 => t \in unsure

\* A poll does not touch the reply being written in the thread the reader
\* selected, as long as that thread is listed.
PollKeepsReply ==
  [][\A t \in Threads :
       (/\ Take("load") /\ Has(cards', t)
        /\ ui.selected = t /\ ui.reply = t /\ ui.body # None)
         => ui'.body = ui.body /\ ui'.reply = t]_vars

=============================================================================
