---------------------------- MODULE ProjectChat ----------------------------
(***************************************************************************)
(* The planning chat of one project: the chat of projects/project.svelte   *)
(* in the tabs of its user, the chat and greeting requests of              *)
(* convo_controller.ts and projects_api_controller.ts, the intake of       *)
(* project_reasoning_workflow_service.ts, and what follows an answer of    *)
(* the reasoning engine in reasoning_engine_service.ts.                    *)
(*                                                                         *)
(* A request reads, asks the engine, and writes, with nothing to keep      *)
(* other requests out in between; its page may have lost it by then.       *)
(***************************************************************************)
EXTENDS Naturals, FiniteSets, Sequences, SequencesExt

CONSTANTS
  Requests,       \* requests to the server (bound)
  Pages,          \* tabs that show the project (bound)
  RecentTurns,    \* RECENT_TURN_LIMIT
  MaxFailures,    \* requests that fail or are lost (bound)
  MaxLoads,       \* how often the page is loaded, in all tabs (bound)
  MaxTogether,    \* loads, failures and losses taken together (bound)
  NoOne           \* null

ASSUME ChatAssumption == RecentTurns \in Nat \ {0} /\ NoOne \notin Requests

ASSUME BoundAssumption == MaxLoads \in Nat /\ MaxFailures \in Nat /\ MaxTogether \in Nat

VARIABLES
  history,   \* history[c]: the turns of the conversation request c has created, oldest first
  turn,      \* turn[r]: the turn that request r has recorded
  prompts,   \* the agent types that projects_prompts has data for
  pc,        \* pc[r]: where request r is
  call,      \* call[r]: what it was sent for and what it has read
  page       \* page[p]: what tab p shows and waits for

tables == <<history, turn, prompts>>
vars   == <<tables, pc, call, page>>

Kinds == {"PLANNING", "OUTREACH"}

\* A conversation is named by the request that has created it.
Conversations == DOMAIN history

\* A turn comes with prompt data for the outreach agent, or is only talk.
Turns  == {"talk", "data"}
NoTurn == "none"

\* prompt: the message, named by the request it was first sent with, NoOne for a greeting; seen: what
\* the tab showed when it was sent; recent: recentTurns.
NoCall == [op |-> "none", prompt |-> NoOne, seen |-> {}, conversation |-> NoOne, recent |-> <<>>,
           heard |-> "nothing"]

\* asked, answers, errors: the bubbles, messages by name and answers by request; reworded: the answers
\* not shown in the words of their turn; busy: the request of isLoading; greeting: that of
\* greetingLoading; cached: the greeting in sessionStorage.
Blank == [loads |-> 0, asked |-> {}, answers |-> {}, reworded |-> {}, errors |-> {}, busy |-> NoOne,
          greeting |-> NoOne, cached |-> NoOne]

Recorded == {r \in Requests : turn[r] # NoTurn}

\* A new page shows the turns of all conversations, in their own words (modelResponse).
Loaded(p) == [page[p] EXCEPT !.loads = @ + 1, !.errors = {}, !.busy = NoOne, !.greeting = NoOne,
                             !.asked = {call[r].prompt : r \in Recorded} \ {NoOne},
                             !.answers = Recorded, !.reworded = {}]

\* The bounds.
Loads   == SumFunction([p \in Pages |-> page[p].loads])
Failed  == {q \in Requests : pc[q] = "failed" \/ call[q].heard = "error"}
MayLoad == Loads < MaxLoads /\ Loads + Cardinality(Failed) < MaxTogether
MayFail(r) ==
  /\ Cardinality({r} \cup Failed) <= MaxFailures
  /\ Cardinality({r} \cup Failed) + Loads <= MaxTogether

Goto(r, l) == pc' = [pc EXCEPT ![r] = l]

\* r has recorded its turn, or ends: what it has read is not used again.
Forget(r) ==
  call' = [call EXCEPT ![r] = [NoCall EXCEPT !.op = call[r].op, !.prompt = call[r].prompt,
                                                !.heard = call[r].heard]]

End(r, l) == Goto(r, l) /\ Forget(r)

\* The intake of POST /projects has worked out, or not.
Init ==
  /\ history = <<>>
  /\ turn = [r \in Requests |-> NoTurn]
  /\ prompts \in {{}, {"PLANNING"}}
  /\ pc = [r \in Requests |-> "idle"]
  /\ call = [r \in Requests |-> NoCall]
  /\ page = [p \in Pages |-> Blank]
-----------------------------------------------------------------------------
(***************************************************************************)
(* The page                                                                *)
(***************************************************************************)

\* A request leaves tab p, with what p shows.
Request(p, r, o, m) ==
  /\ pc[r] = "idle"
  /\ Goto(r, "entering")
  /\ call' = [call EXCEPT ![r] = [NoCall EXCEPT !.op = o, !.prompt = m, !.seen = page[p].answers,
                                                !.heard = "waiting"]]
  /\ UNCHANGED tables

\* The requests a tab forgets when it is loaded anew; they run on.
Forgotten(p) ==
  [r \in Requests |-> IF r \in {page[p].busy, page[p].greeting}
                      THEN [call[r] EXCEPT !.heard = "nothing"] ELSE call[r]]

\* The project is opened, or the tab reloaded.  A project with turns, or a tab with a greeting in its
\* sessionStorage, asks for none.
Open(p) ==
  /\ MayLoad
  /\ Recorded # {} \/ page[p].cached # NoOne
  /\ page' = [page EXCEPT ![p] =
       IF Recorded # {} THEN Loaded(p)
       ELSE [Loaded(p) EXCEPT !.answers = {page[p].cached},
                              !.reworded = page[p].reworded \cap {page[p].cached}]]
  /\ call' = Forgotten(p)
  /\ UNCHANGED <<tables, pc>>

\* onMount of a project without turns.
Greet(p, r) ==
  /\ MayLoad
  /\ Recorded = {} /\ page[p].cached = NoOne
  /\ pc[r] = "idle"
  /\ Goto(r, "entering")
  /\ call' = [Forgotten(p) EXCEPT ![r] = [NoCall EXCEPT !.op = "greeting", !.heard = "waiting"]]
  /\ page' = [page EXCEPT ![p] = [Loaded(p) EXCEPT !.greeting = r]]
  /\ UNCHANGED tables

\* sendMessage.
Send(p, r) ==
  /\ page[p].loads > 0 /\ page[p].busy = NoOne
  /\ Request(p, r, "chat", r)
  /\ page' = [page EXCEPT ![p].asked = @ \cup {r}, ![p].busy = r]

\* retryMessage: every error goes, one message is sent again.
Retry(p, r) ==
  /\ page[p].loads > 0 /\ page[p].busy = NoOne
  /\ \E m \in page[p].errors : Request(p, r, "chat", m)
  /\ page' = [page EXCEPT ![p].errors = {}, ![p].busy = r]

\* The bubble of r's answer, in the words of its turn or in others (see Prepare).
Bubbles(p, r) ==
  {[page[p] EXCEPT !.answers = @ \cup {r}, !.reworded = @ \cup w] : w \in {{}, {r}}}

\* Mutant of Shown: one error at a time.
ShownLast(p, r, ok) ==
  IF ok THEN {[b EXCEPT !.busy = NoOne] : b \in Bubbles(p, r)}
  ELSE {[page[p] EXCEPT !.errors = {call[r].prompt}, !.busy = NoOne]}

\* sendChat, after the fetch: the answer, or an error that offers a retry.
Shown(p, r, ok) ==
  IF ok THEN {[b EXCEPT !.busy = NoOne] : b \in Bubbles(p, r)}
  ELSE {[page[p] EXCEPT !.errors = @ \cup {call[r].prompt}, !.busy = NoOne]}

\* onMount, after the fetch: a greeting is shown and kept, a failure goes unnoticed.
Greeted(p, r, ok) ==
  IF ok THEN {[b EXCEPT !.cached = r, !.greeting = NoOne] : b \in Bubbles(p, r)}
  ELSE {[page[p] EXCEPT !.greeting = NoOne]}

\* The answer to r reaches tab p, or the connection is lost, the request having ended or not.
Receive(p, r) ==
  /\ r \in {page[p].busy, page[p].greeting}
  /\ \E ok \in BOOLEAN :
       /\ IF ok THEN pc[r] = "answered" ELSE MayFail(r)
       /\ \E shows \in IF r = page[p].busy THEN Shown(p, r, ok) ELSE Greeted(p, r, ok) :
            page' = [page EXCEPT ![p] = shows]
       /\ call' = [call EXCEPT ![r].heard = IF ok THEN "answer" ELSE "error"]
  /\ UNCHANGED <<tables, pc>>
-----------------------------------------------------------------------------
(***************************************************************************)
(* A chat or greeting request                                              *)
(***************************************************************************)

\* Mutant of Recent: ascending.
First(c) == SubSeq(history[c], 1, IF Len(history[c]) > RecentTurns THEN RecentTurns ELSE Len(history[c]))

\* getRecentTurns: by time, descending, limited, and turned round.
Recent(c) == SubSeq(history[c], IF Len(history[c]) > RecentTurns
                                THEN Len(history[c]) - RecentTurns + 1 ELSE 1, Len(history[c]))

\* ensurePlanningPromptData: what is there, or what an intake brings.
EnsurePlanning(r) == Goto(r, IF "PLANNING" \in prompts THEN "asking" ELSE "intake")

\* getProjectWithConversations, whose conversations[0] is any of them, and buildContext.
Enter(r) ==
  /\ pc[r] = "entering"
  /\ IF Conversations = {} THEN Goto(r, "creating") /\ UNCHANGED call
     ELSE /\ \E c \in Conversations :
               call' = [call EXCEPT ![r].conversation = c, ![r].recent = Recent(c)]
          /\ EnsurePlanning(r)
  /\ UNCHANGED <<tables, page>>

\* Mutant of CreateConversation: the project keeps to one conversation, the new one.
ReplaceConversation(r) ==
  /\ pc[r] = "creating"
  /\ history' = [c \in {r} |-> <<>>]
  /\ Goto(r, "entering")
  /\ UNCHANGED <<turn, prompts, call, page>>

\* There was none: create one, and load them all again.
CreateConversation(r) ==
  /\ pc[r] = "creating"
  /\ history' = [c \in Conversations \cup {r} |-> IF c = r THEN <<>> ELSE history[c]]
  /\ Goto(r, "entering")
  /\ UNCHANGED <<turn, prompts, call, page>>

\* savePromptData: into the row last modified, or a new one.  Two requests may each create one, which
\* the next reader takes is open, and they are alike here.
SavePromptData(k) == prompts' = prompts \cup {k}

\* runIntakeForProject: the engine has answered, at the latest when asked again.
Intake(r) ==
  /\ pc[r] = "intake"
  /\ SavePromptData("PLANNING")
  /\ Goto(r, "asking")
  /\ UNCHANGED <<history, turn, call, page>>

\* POST /projects/:uuid/intake/retry.
RetryIntake ==
  /\ SavePromptData("PLANNING")
  /\ UNCHANGED <<history, turn, pc, call, page>>

\* requestAgent, which answers in its own time and as it likes, and saveConversationTurn, before
\* anything else is done about the answer.
Record(r) ==
  /\ pc[r] = "asking"
  /\ \E t \in Turns : turn' = [turn EXCEPT ![r] = t]
  /\ End(r, "preparing")
  /\ history' = [history EXCEPT ![call[r].conversation] = Append(@, r)]
  /\ UNCHANGED <<prompts, page>>

\* handlePostPlanningResponse: prompt data of a plan that is ready are kept.  Then initial drafts are
\* generated (OutreachThread) if the project has vendors (ProjectVendors), which needs outreach data
\* and may fail, with the turn and the data in place.  The answer is in the words of the turn, or not:
\* the engine may have sent a message beside it, a notice that vendors are missing takes its place, or
\* a notice of the drafts is added to it.
Prepare(r) ==
  /\ pc[r] = "preparing"
  /\ IF turn[r] = "data" THEN SavePromptData("OUTREACH") ELSE UNCHANGED prompts
  /\ Goto(r, "answered") \/ (MayFail(r) /\ Goto(r, "failed"))
  /\ UNCHANGED <<history, turn, call, page>>

\* The request is over a limit (RateLimit), a query or the engine fails, the project is gone, or the
\* process dies: status 429, 500, 404, or none.
Fail(r) ==
  /\ MayFail(r)
  /\ pc[r] \notin {"idle", "answered", "failed"}
  /\ End(r, "failed")
  /\ UNCHANGED <<tables, page>>

Serve(r) ==
  \/ Enter(r) \/ CreateConversation(r) \/ Intake(r)
  \/ Record(r) \/ Prepare(r)

Browse(p) ==
  \/ Open(p)
  \/ \E r \in Requests : Greet(p, r) \/ Send(p, r) \/ Retry(p, r) \/ Receive(p, r)

Next ==
  \/ \E p \in Pages : Browse(p)
  \/ \E r \in Requests : Serve(r) \/ Fail(r)
  \/ RetryIntake

Spec == Init /\ [][Next]_vars
-----------------------------------------------------------------------------
(***************************************************************************)
(* Properties                                                              *)
(***************************************************************************)

Steps == {"idle", "entering", "creating", "intake", "asking", "preparing", "answered", "failed"}

NoOnes == Requests \cup {NoOne}

\* Types, and: a recorded turn is in a conversation, once.
TypeOK ==
  /\ Conversations \subseteq Requests
  /\ \A c \in Conversations : history[c] \in Seq(Requests) /\ IsInjective(history[c])
  /\ \A r \in Requests : turn[r] \in Turns \cup {NoTurn} /\ pc[r] \in Steps
  /\ \A r \in Recorded : \E c \in Conversations : r \in Range(history[c])
  /\ prompts \subseteq Kinds
  /\ \A p \in Pages : /\ page[p].asked \cup page[p].answers \cup page[p].errors \subseteq Requests
                      /\ page[p].reworded \subseteq page[p].answers
                      /\ {page[p].busy, page[p].greeting, page[p].cached} \subseteq NoOnes

\* What a tab shows as an answer belongs to a recorded turn, which every page opened later shows in
\* its own words, and so does this tab unless its request was answered in others; and an answered turn
\* that lets the outreach begin with data of its own leaves the project with outreach data, though
\* other answers be at work on them.
AnswersAreKept ==
  /\ \A p \in Pages : /\ page[p].answers \cup ({page[p].cached} \ {NoOne}) \subseteq Recorded
                      /\ \A r \in page[p].reworded : call[r].heard = "answer"
  /\ \A r \in Recorded : pc[r] = "answered" /\ turn[r] = "data" =>
                           "OUTREACH" \in prompts

\* A message is sent again only when the tab was told of a failure, so that of the turns a message
\* has left behind at most one was answered to its tab.  And a message that is neither answered nor
\* under way offers a retry, unless the retry of another message has taken all errors away.
RetriesFollowFailures ==
  /\ \A r, s \in Requests :
       r # s /\ call[r].prompt = call[s].prompt /\ call[r].op = "chat" => 
         ~ (call[r].heard = "answer" /\ call[s].heard \in {"answer", "waiting"})
  /\ \A p \in Pages : \A m \in page[p].asked :
       \/ \E r \in page[p].answers \cup {page[p].busy} : r # NoOne /\ call[r].prompt = m
       \/ m \in page[p].errors
       \/ \E r \in Requests : call[r].op = "chat" /\ call[r].prompt \notin {r, m}

\* What a tab shows of the conversation is what the tables hold and what its requests were
\* answered: the two statements above together.
PageIsTrue == AnswersAreKept /\ RetriesFollowFailures

\* The engine is told of a state of the plan that is not older than what the tab showed when the
\* message was sent, as long as the project has one conversation: requests that found none at the
\* same time have each created one, and which of them a later request reads is open.
ContextIsNotOlderThanSeen ==
  \A r \in Requests : pc[r] \in {"intake", "asking"} /\ call[r].op = "chat" =>
    \/ Cardinality(Conversations) > 1
    \/ call[r].seen = {}
    \/ LET h == history[call[r].conversation] IN
       \E j \in DOMAIN h : /\ h[j] = Last(call[r].recent)
                          /\ call[r].seen \subseteq {h[i] : i \in 1..j}
=============================================================================
