------------------------- MODULE ProjectChat_proofs -------------------------
(***************************************************************************)
(* Proofs about ProjectChat, for any set of requests, any number of tabs   *)
(* and any limit of recent turns: a request reads, waits for the engine    *)
(* and writes with nothing to keep others out, and still every tab shows   *)
(* what the tables hold and what its own requests were answered.           *)
(***************************************************************************)
EXTENDS ProjectChat, FiniteSetTheorems, SequenceTheorems, TLAPS
-----------------------------------------------------------------------------
(***************************************************************************)
(* The inductive invariant.                                                *)
(***************************************************************************)

CallType ==
  [op : {"none", "chat", "greeting"}, prompt : NoOnes, seen : SUBSET Requests,
   conversation : NoOnes, recent : Seq(Requests), heard : {"nothing", "waiting", "answer", "error"}]

PageType ==
  [loads : Nat, asked : SUBSET Requests, answers : SUBSET Requests, reworded : SUBSET Requests,
   errors : SUBSET Requests, busy : NoOnes, greeting : NoOnes, cached : NoOnes]

Types ==
  /\ Conversations \subseteq Requests /\ IsFiniteSet(Conversations)
  /\ history \in [Conversations -> Seq(Requests)]
  /\ turn \in [Requests -> Turns \cup {NoTurn}]
  /\ pc \in [Requests -> Steps]
  /\ prompts \subseteq Kinds
  /\ call \in [Requests -> CallType]
  /\ page \in [Pages -> PageType]

\* A turn is recorded at one point of a request's way.
Before == {"idle", "entering", "creating", "intake", "asking"}
After  == {"preparing", "answered"}

\* What a request's place says of the tables.
RequestOK(r) ==
  /\ pc[r] \in Before => r \notin Recorded
  /\ pc[r] \in After => r \in Recorded
  /\ pc[r] \in {"idle", "creating"} => r \notin Conversations
  /\ pc[r] \in {"intake", "asking"} => call[r].conversation \in Conversations
  /\ pc[r] = "answered" /\ turn[r] = "data" => "OUTREACH" \in prompts
  /\ call[r].seen \subseteq Recorded

\* A conversation lists recorded turns, none of them twice.
HistoryOK(c) == IsInjective(history[c]) /\ Range(history[c]) \subseteq Recorded

TurnsAreListed == \A r \in Recorded : \E c \in Conversations : r \in Range(history[c])

\* The last of the turns r has read from h: what r's tab showed comes no later.
ReadFar(r, h) ==
  \E j \in DOMAIN h : h[j] = Last(call[r].recent) /\ call[r].seen \subseteq {h[i] : i \in 1..j}

ContextOK(r) ==
  pc[r] \in {"intake", "asking"} /\ Conversations = {call[r].conversation} =>
    call[r].seen = {} \/ ReadFar(r, history[call[r].conversation])

TablesOK ==
  /\ TurnsAreListed
  /\ \A c \in Conversations : HistoryOK(c)
  /\ \A r \in Requests : RequestOK(r) /\ ContextOK(r)

\* What was sent, and with which message.
CallOK(r) ==
  /\ call[r].op = "none" <=> pc[r] = "idle"
  /\ call[r].op = "chat" <=> call[r].prompt # NoOne
  /\ call[r].prompt # NoOne => pc[call[r].prompt] # "idle"

\* A tab waits for this request, or was answered.
Settled(r) == call[r].heard \in {"waiting", "answer"}

OneSettled == \A r, s \in Requests :
  r # s /\ call[r].prompt = call[s].prompt /\ call[r].prompt # NoOne => ~(Settled(r) /\ Settled(s))

PageOK(p) ==
  /\ page[p].busy # NoOne => call[page[p].busy].op = "chat" /\ call[page[p].busy].heard = "waiting"
  /\ page[p].greeting # NoOne =>
       call[page[p].greeting].op = "greeting" /\ call[page[p].greeting].heard = "waiting"
  /\ page[p].answers \subseteq Recorded
  /\ page[p].reworded \subseteq page[p].answers
  /\ \A r \in page[p].reworded : call[r].heard = "answer"
  /\ page[p].cached # NoOne => page[p].cached \in Recorded
  /\ \A m \in page[p].asked \cup page[p].errors : pc[m] # "idle"

\* A message that offers a retry is nowhere under way or answered.
ErrorsOK(p) == \A m \in page[p].errors : \A r \in Requests : call[r].prompt = m => ~Settled(r)

\* Two tabs wait for requests, and retry messages, of their own.
Apart(p, q) ==
  /\ page[p].busy # NoOne => page[p].busy # page[q].busy
  /\ page[p].greeting # NoOne => page[p].greeting # page[q].greeting
  /\ page[p].errors \cap page[q].errors = {}

\* Some message has been sent again, and it was not m.
Overwritten(m) == \E r \in Requests : call[r].op = "chat" /\ call[r].prompt \notin {r, m}

\* What has become of a message that a tab shows.
AskedOK(p) == \A m \in page[p].asked :
  \/ \E r \in page[p].answers \cup {page[p].busy} : r # NoOne /\ call[r].prompt = m
  \/ m \in page[p].errors
  \/ Overwritten(m)

PagesOK ==
  /\ \A r \in Requests : CallOK(r)
  /\ OneSettled
  /\ \A p \in Pages : PageOK(p) /\ ErrorsOK(p) /\ AskedOK(p)
  /\ \A p, q \in Pages : p # q => Apart(p, q)

IInv == Types /\ TablesOK /\ PagesOK
-----------------------------------------------------------------------------
(***************************************************************************)
(* Sequences and sets.                                                     *)
(***************************************************************************)

\* What Recent reads ends with the last turn of the conversation.
LEMMA RecentEndsWithLast ==
  ASSUME NEW c \in Conversations, history[c] \in Seq(Requests)
  PROVE  /\ Recent(c) \in Seq(Requests)
         /\ history[c] # <<>> => Last(Recent(c)) = history[c][Len(history[c])]
  <1> DEFINE h == history[c]
             m == IF Len(h) > RecentTurns THEN Len(h) - RecentTurns + 1 ELSE 1
  <1>1. Len(h) \in Nat /\ m \in Nat \ {0} /\ RecentTurns \in Nat \ {0}
    BY ChatAssumption, LenProperties
  <1>2. \A i \in m..Len(h) : h[i] \in Requests
    BY <1>1, LenProperties
  <1>3. Recent(c) = SubSeq(h, m, Len(h))
    BY DEF Recent
  <1>4. Recent(c) \in Seq(Requests)
    BY <1>1, <1>2, <1>3, SubSeqProperties
  <1>5. ASSUME h # <<>> PROVE Last(Recent(c)) = h[Len(h)]
    <2>1. Len(h) > 0 /\ m <= Len(h)
      BY <1>1, <1>5, EmptySeq
    <2>2. Len(Recent(c)) = Len(h) - m + 1
      BY <1>1, <1>2, <1>3, <2>1, SubSeqProperties
    <2>3. Recent(c)[Len(h) - m + 1] = h[m + (Len(h) - m + 1) - 1]
      BY <1>1, <1>2, <1>3, <2>1, SubSeqProperties
    <2>4. QED
      BY <1>1, <2>1, <2>2, <2>3 DEF Last
  <1>6. QED
    BY <1>4, <1>5

\* A turn that is not listed yet can be listed at the end.
LEMMA AppendListsOnce ==
  ASSUME NEW S, NEW h \in Seq(S), NEW r \in S, r \notin Range(h), IsInjective(h)
  PROVE  /\ Append(h, r) \in Seq(S)
         /\ IsInjective(Append(h, r))
         /\ Range(Append(h, r)) = Range(h) \cup {r}
         /\ \A i \in DOMAIN h : i \in DOMAIN Append(h, r) /\ Append(h, r)[i] = h[i]
  <1> DEFINE a == Append(h, r)
  <1>1. /\ a \in Seq(S)
        /\ Len(h) \in Nat /\ DOMAIN h = 1..Len(h) /\ DOMAIN a = 1..(Len(h) + 1)
        /\ \A i \in 1..Len(h) : a[i] = h[i]
        /\ a[Len(h) + 1] = r
    BY AppendProperties, LenProperties
  <1>2. \A i \in DOMAIN h : h[i] # r
    BY DEF Range
  <1>3. IsInjective(a)
    BY <1>1, <1>2 DEF IsInjective
  <1>4. Range(a) = Range(h) \cup {r}
    BY <1>1 DEF Range
  <1>5. QED
    BY <1>1, <1>3, <1>4

LEMMA OneMember ==
  ASSUME NEW S, IsFiniteSet(S), NEW x \in S, ~(Cardinality(S) > 1)
  PROVE  S = {x}
  <1>1. Cardinality(S) \in Nat
    BY FS_CardinalityType
  <1>2. Cardinality(S) # 0
    BY FS_EmptySet
  <1>3. Cardinality(S) = 1
    BY <1>1, <1>2
  <1>4. PICK y : S = {y}
    BY <1>3, FS_Singleton
  <1>5. QED
    BY <1>4
-----------------------------------------------------------------------------
(***************************************************************************)
(* Types.                                                                  *)
(***************************************************************************)

LEMMA RecordedAreRequests == Recorded \subseteq Requests
  BY DEF Recorded

LEMMA InitIsTyped == Init => Types
  <1> SUFFICES ASSUME Init PROVE Types
    OBVIOUS
  <1>1. NoCall \in CallType /\ Blank \in PageType
    BY EmptySeq DEF NoCall, Blank, CallType, PageType, NoOnes
  <1>2. Conversations = {} /\ IsFiniteSet({})
    BY FS_EmptySet DEF Init, Conversations
  <1>3. history \in [Conversations -> Seq(Requests)]
    BY <1>2 DEF Init, Conversations
  <1>4. QED
    BY <1>1, <1>2, <1>3 DEF Init, Types, Kinds, Steps

\* A page that is loaded shows requests.
LEMMA LoadedIsTyped ==
  ASSUME Types, NEW p \in Pages
  PROVE  Loaded(p) \in PageType
  <1>1. PICK A \in SUBSET Requests : A = {call[r].prompt : r \in Recorded} \ {NoOne}
    BY RecordedAreRequests DEF Types, CallType, NoOnes
  <1>2. page[p] \in PageType /\ NoOne \in NoOnes
    BY DEF Types, NoOnes
  <1>3. PICK n \in Nat : n = page[p].loads + 1
    BY <1>2 DEF PageType
  <1>4. \A B \in SUBSET Requests :
          [page[p] EXCEPT !.loads = n, !.errors = {}, !.busy = NoOne, !.greeting = NoOne,
                          !.asked = A, !.answers = B, !.reworded = {}] \in PageType
    BY <1>2 DEF PageType
  <1>5. QED
    BY <1>1, <1>3, <1>4, RecordedAreRequests DEF Loaded

LEMMA ForgottenIsTyped ==
  ASSUME Types, NEW p \in Pages
  PROVE  Forgotten(p) \in [Requests -> CallType]
BY DEF Types, Forgotten, CallType

\* A bubble adds an answer, in the words of its turn or not, and nothing else.
LEMMA BubbleShows ==
  ASSUME Types, NEW p \in Pages, NEW r \in Requests, NEW c \in Bubbles(p, r)
  PROVE  /\ c \in PageType
         /\ c.asked = page[p].asked /\ c.answers = page[p].answers \cup {r}
         /\ c.reworded \subseteq page[p].reworded \cup {r}
         /\ c.errors = page[p].errors /\ c.busy = page[p].busy
         /\ c.greeting = page[p].greeting /\ c.cached = page[p].cached
  <1>1. page[p] \in PageType
    BY DEF Types
  <1>2. PICK w \in {{}, {r}} : c = [page[p] EXCEPT !.answers = @ \cup {r}, !.reworded = @ \cup w]
    BY DEF Bubbles
  <1>3. PICK A \in SUBSET Requests : A = page[p].answers \cup {r}
    BY <1>1 DEF PageType
  <1>4. PICK W \in SUBSET Requests : W = page[p].reworded \cup w
    BY <1>1, <1>2 DEF PageType
  <1>5. c = [page[p] EXCEPT !.answers = A, !.reworded = W]
    BY <1>2, <1>3, <1>4
  <1>6. /\ c \in PageType /\ c.asked = page[p].asked /\ c.answers = A /\ c.reworded = W
        /\ c.errors = page[p].errors /\ c.busy = page[p].busy
        /\ c.greeting = page[p].greeting /\ c.cached = page[p].cached
    BY <1>1, <1>5 DEF PageType
  <1>7. QED
    BY <1>2, <1>3, <1>4, <1>6

\* What a tab shows of an answer, or of a failure.
LEMMA ReceivedIsTyped ==
  ASSUME Types, NEW p \in Pages, NEW r \in Requests, NEW ok \in BOOLEAN,
         r = page[p].busy => call[r].prompt \in Requests,
         NEW b \in IF r = page[p].busy THEN Shown(p, r, ok) ELSE Greeted(p, r, ok)
  PROVE  b \in PageType
  <1>1. page[p] \in PageType /\ r \in NoOnes /\ NoOne \in NoOnes
    BY DEF Types, NoOnes
  <1>2. Bubbles(p, r) \subseteq PageType
    BY BubbleShows
  <1>3. CASE r = page[p].busy /\ ok
    <2>1. PICK c \in Bubbles(p, r) : b = [c EXCEPT !.busy = NoOne]
      BY <1>3 DEF Shown
    <2>2. QED
      BY <1>1, <1>2, <2>1 DEF PageType
  <1>4. CASE r # page[p].busy /\ ok
    <2>1. PICK c \in Bubbles(p, r) : b = [c EXCEPT !.cached = r, !.greeting = NoOne]
      BY <1>4 DEF Greeted
    <2>2. QED
      BY <1>1, <1>2, <2>1 DEF PageType
  <1>5. CASE r = page[p].busy /\ ~ok
    <2>1. PICK E \in SUBSET Requests : E = page[p].errors \cup {call[r].prompt}
      BY <1>1, <1>5 DEF PageType
    <2>2. b = [page[p] EXCEPT !.errors = E, !.busy = NoOne]
      BY <1>5, <2>1 DEF Shown
    <2>3. QED
      BY <1>1, <2>2 DEF PageType
  <1>6. CASE r # page[p].busy /\ ~ok
    BY <1>1, <1>6 DEF Greeted, PageType
  <1>7. QED
    BY <1>3, <1>4, <1>5, <1>6

\* What a step of a page writes, and a step of the server, is of its type.
LEMMA BrowseIsTyped ==
  ASSUME Types, PagesOK, NEW p \in Pages, Browse(p)
  PROVE  Types'
  <1>1. ASSUME NEW r \in Requests, NEW o \in {"chat", "greeting"}, NEW m \in NoOnes
        PROVE  [NoCall EXCEPT !.op = o, !.prompt = m, !.seen = page[p].answers, !.heard = "waiting"]
                 \in CallType
    BY EmptySeq DEF Types, PageType, NoCall, CallType, NoOnes
  <1>2. CASE Open(p)
    <2>1. call' \in [Requests -> CallType] /\ UNCHANGED <<tables, pc>>
      BY <1>2, ForgottenIsTyped DEF Open
    <2>2. page' \in [Pages -> PageType]
      <3>1. Recorded # {} \/ page[p].cached \in Requests
        BY <1>2 DEF Open, Types, PageType, NoOnes
      <3>2. CASE Recorded # {}
        BY <1>2, <3>2, LoadedIsTyped DEF Open, Types
      <3>3. CASE Recorded = {}
        <4>1. [Loaded(p) EXCEPT !.answers = {page[p].cached},
                                !.reworded = page[p].reworded \cap {page[p].cached}] \in PageType
          BY <3>1, <3>3, LoadedIsTyped DEF PageType
        <4>2. QED
          BY <1>2, <3>3, <4>1 DEF Open, Types
      <3>4. QED
        BY <3>2, <3>3
    <2>3. QED
      BY <2>1, <2>2 DEF Types, tables, Conversations
  <1>3. CASE \E r \in Requests : Greet(p, r)
    <2>1. PICK r \in Requests : Greet(p, r)
      BY <1>3
    <2>2. [NoCall EXCEPT !.op = "greeting", !.heard = "waiting"] \in CallType
      BY EmptySeq DEF NoCall, CallType, NoOnes
    <2>3. call' \in [Requests -> CallType]
      BY <2>1, <2>2, ForgottenIsTyped DEF Greet
    <2>4. [Loaded(p) EXCEPT !.greeting = r] \in PageType
      BY LoadedIsTyped DEF PageType, NoOnes
    <2>5. page' \in [Pages -> PageType]
      BY <2>1, <2>4 DEF Greet, Types
    <2>6. pc' \in [Requests -> Steps] /\ UNCHANGED tables
      BY <2>1 DEF Greet, Goto, Types, Steps
    <2>7. QED
      BY <2>3, <2>5, <2>6 DEF Types, tables, Conversations
  <1>4. CASE \E r \in Requests : Send(p, r) \/ Retry(p, r)
    <2>1. PICK r \in Requests : Send(p, r) \/ Retry(p, r)
      BY <1>4
    <2>2. \E m \in NoOnes : Request(p, r, "chat", m)
      BY <2>1 DEF Send, Retry, Types, PageType, NoOnes
    <2>3. call' \in [Requests -> CallType] /\ pc' \in [Requests -> Steps] /\ UNCHANGED tables
      BY <1>1, <2>2 DEF Request, Goto, Types, Steps
    <2>4. page[p] \in PageType /\ page \in [Pages -> PageType] /\ r \in NoOnes
      BY DEF Types, NoOnes
    <2>5. [page[p] EXCEPT !.asked = @ \cup {r}, !.busy = r] \in PageType
      BY <2>4 DEF PageType
    <2>6. [page[p] EXCEPT !.errors = {}, !.busy = r] \in PageType
      BY <2>4 DEF PageType
    <2>7. page' \in [Pages -> PageType]
      BY <2>1, <2>4, <2>5, <2>6 DEF Send, Retry
    <2>8. QED
      BY <2>3, <2>7 DEF Types, tables, Conversations
  <1>5. CASE \E r \in Requests : Receive(p, r)
    <2>1. PICK r \in Requests : Receive(p, r)
      BY <1>5
    <2>2. PICK ok \in BOOLEAN :
            /\ \E b \in IF r = page[p].busy THEN Shown(p, r, ok) ELSE Greeted(p, r, ok) :
                 page' = [page EXCEPT ![p] = b]
            /\ call' = [call EXCEPT ![r].heard = IF ok THEN "answer" ELSE "error"]
            /\ UNCHANGED <<tables, pc>>
      BY <2>1 DEF Receive
    <2>3. PICK b \in IF r = page[p].busy THEN Shown(p, r, ok) ELSE Greeted(p, r, ok) :
            page' = [page EXCEPT ![p] = b]
      BY <2>2
    <2>4. r = page[p].busy => call[r].prompt \in Requests
      BY ChatAssumption DEF PagesOK, PageOK, CallOK, Types, CallType, NoOnes
    <2>5. b \in PageType
      BY <2>3, <2>4, ReceivedIsTyped
    <2>6. page' \in [Pages -> PageType]
      BY <2>3, <2>5 DEF Types
    <2>7. call' \in [Requests -> CallType]
      BY <2>2 DEF Types, CallType
    <2>8. QED
      BY <2>2, <2>6, <2>7 DEF Types, tables, Conversations
  <1>6. QED
    BY <1>2, <1>3, <1>4, <1>5 DEF Browse

LEMMA ServeIsTyped ==
  ASSUME Types, TablesOK, NEW r \in Requests, Serve(r) \/ Fail(r)
  PROVE  Types'
  <1>1. ASSUME NEW s \in Steps PROVE Goto(r, s) => pc' \in [Requests -> Steps]
    BY DEF Types, Goto
  <1>2. ASSUME NEW s \in Steps, End(r, s)
        PROVE  pc' \in [Requests -> Steps] /\ call' \in [Requests -> CallType]
    <2>1. [NoCall EXCEPT !.op = call[r].op, !.prompt = call[r].prompt, !.heard = call[r].heard]
            \in CallType
      BY EmptySeq DEF Types, NoCall, CallType, NoOnes
    <2>2. QED
      BY <1>1, <1>2, <2>1 DEF Types, End, Forget
  <1>3. CASE Enter(r)
    <2>1. pc' \in [Requests -> Steps] /\ UNCHANGED <<tables, page>>
      BY <1>1, <1>3 DEF Enter, EnsurePlanning, Steps
    <2>2. CASE Conversations = {}
      BY <1>3, <2>1, <2>2 DEF Enter, Types, tables, Conversations
    <2>3. CASE Conversations # {}
      <3>1. PICK c \in Conversations :
              call' = [call EXCEPT ![r].conversation = c, ![r].recent = Recent(c)]
        BY <1>3, <2>3 DEF Enter
      <3>2. Recent(c) \in Seq(Requests) /\ c \in NoOnes
        BY <3>1, RecentEndsWithLast DEF Types, NoOnes
      <3>3. call' \in [Requests -> CallType]
        BY <3>1, <3>2 DEF Types, CallType
      <3>4. QED
        BY <2>1, <3>3 DEF Types, tables, Conversations
    <2>4. QED
      BY <2>2, <2>3
  <1>4. CASE CreateConversation(r)
    <2>1. Conversations' = Conversations \cup {r} /\ IsFiniteSet(Conversations')
      <3>1. Conversations' = Conversations \cup {r}
        BY <1>4 DEF CreateConversation, Conversations
      <3>2. QED
        BY <3>1, FS_AddElement DEF Types
    <2>2. history' \in [Conversations' -> Seq(Requests)]
      BY <1>4, <2>1, EmptySeq DEF CreateConversation, Types
    <2>3. QED
      BY <1>1, <1>4, <2>1, <2>2 DEF CreateConversation, Types, Steps
  <1>5. CASE Record(r)
    <2>1. PICK c \in Conversations : c = call[r].conversation
      BY <1>5 DEF Record, TablesOK, RequestOK
    <2>2. history[c] \in Seq(Requests) /\ Append(history[c], r) \in Seq(Requests)
      BY AppendProperties DEF Types
    <2>3. history' \in [Conversations -> Seq(Requests)] /\ Conversations' = Conversations
      BY <1>5, <2>1, <2>2 DEF Record, Types, Conversations
    <2>4. turn' \in [Requests -> Turns \cup {NoTurn}]
      BY <1>5 DEF Record, Types
    <2>5. QED
      BY <1>2, <1>5, <2>3, <2>4 DEF Record, Types, Steps
  <1>6. CASE Intake(r) \/ Prepare(r)
    BY <1>1, <1>6 DEF Intake, Prepare, SavePromptData, Types, Steps, Kinds, Conversations
  <1>7. CASE Fail(r)
    BY <1>2, <1>7 DEF Fail, Types, Steps, tables, Conversations
  <1>8. QED
    BY <1>3, <1>4, <1>5, <1>6, <1>7 DEF Serve

LEMMA StepIsTyped ==
  ASSUME Types, TablesOK, PagesOK, [Next]_vars
  PROVE  Types'
  <1>1. CASE RetryIntake \/ UNCHANGED vars
    BY <1>1 DEF RetryIntake, SavePromptData, Types, Kinds, vars, tables, Conversations
  <1>2. QED
    BY <1>1, BrowseIsTyped, ServeIsTyped DEF Next
-----------------------------------------------------------------------------
(***************************************************************************)
(* What the page does to the requests, and the server to the pages.        *)
(***************************************************************************)

Sent(q) == pc[q] = "idle" /\ pc'[q] = "entering" /\ call'[q].seen \subseteq Recorded

OnlyHeard(q) ==
  /\ pc'[q] = pc[q]
  /\ call'[q].op = call[q].op
  /\ call'[q].prompt = call[q].prompt
  /\ call'[q].seen = call[q].seen
  /\ call'[q].conversation = call[q].conversation
  /\ call'[q].recent = call[q].recent

\* A tab sends requests, and forgets or hears of those it has sent.
LEMMA BrowseOnlySends ==
  ASSUME Types, PagesOK, NEW p \in Pages, Browse(p)
  PROVE  UNCHANGED tables /\ \A q \in Requests : Sent(q) \/ OnlyHeard(q)
  <1>1. ASSUME NEW r \in Requests, NEW o, NEW m, Request(p, r, o, m)
        PROVE  UNCHANGED tables /\ \A q \in Requests : Sent(q) \/ OnlyHeard(q)
    <2>1. pc' = [pc EXCEPT ![r] = "entering"] /\ pc[r] = "idle" /\ UNCHANGED tables
      BY <1>1 DEF Request, Goto
    <2>2. call'[r].seen \subseteq Recorded /\ \A q \in Requests \ {r} : call'[q] = call[q]
      BY <1>1 DEF Request, Types, NoCall, PagesOK, PageOK
    <2>3. QED
      BY <2>1, <2>2 DEF Types, Sent, OnlyHeard
  <1>2. \A q \in Requests : 
          /\ Forgotten(p)[q].op = call[q].op
          /\ Forgotten(p)[q].prompt = call[q].prompt
          /\ Forgotten(p)[q].seen = call[q].seen
          /\ Forgotten(p)[q].conversation = call[q].conversation
          /\ Forgotten(p)[q].recent = call[q].recent
    BY DEF Forgotten, Types, CallType
  <1>3. CASE Open(p)
    BY <1>2, <1>3 DEF Open, OnlyHeard
  <1>4. CASE \E r \in Requests : Greet(p, r)
    <2>1. PICK r \in Requests : Greet(p, r)
      BY <1>4
    <2>2. pc' = [pc EXCEPT ![r] = "entering"] /\ pc[r] = "idle" /\ UNCHANGED tables
      BY <2>1 DEF Greet, Goto
    <2>3. call'[r].seen = {} /\ \A q \in Requests \ {r} : call'[q] = Forgotten(p)[q]
      BY <2>1, ForgottenIsTyped DEF Greet, NoCall
    <2>4. QED
      BY <1>2, <2>2, <2>3 DEF Types, Sent, OnlyHeard
  <1>5. CASE \E r \in Requests : Receive(p, r)
    <2>1. PICK r \in Requests, a \in {"answer", "error"} :
            call' = [call EXCEPT ![r].heard = a] /\ UNCHANGED <<tables, pc>>
      BY <1>5 DEF Receive
    <2>2. QED
      BY <2>1 DEF Types, CallType, OnlyHeard
  <1>6. QED
    BY <1>1, <1>3, <1>4, <1>5 DEF Browse, Send, Retry

LEMMA BrowseKeepsTables ==
  ASSUME Types, TablesOK, UNCHANGED tables, \A q \in Requests : Sent(q) \/ OnlyHeard(q)
  PROVE  TablesOK'
  <1>1. Recorded' = Recorded /\ Conversations' = Conversations /\ history' = history /\ turn' = turn
    BY DEF Recorded, Conversations, tables
  <1>2. TurnsAreListed' /\ \A c \in Conversations' : HistoryOK(c)'
    BY <1>1 DEF TablesOK, TurnsAreListed, HistoryOK
  <1>3. ASSUME NEW q \in Requests PROVE RequestOK(q)' /\ ContextOK(q)'
    <2>1. CASE Sent(q)
      BY <1>1, <2>1 DEF Sent, TablesOK, RequestOK, ContextOK, Before, After
    <2>2. CASE OnlyHeard(q)
      <3>1. RequestOK(q)'
        BY <1>1, <2>2 DEF OnlyHeard, TablesOK, RequestOK, tables
      <3>2. ContextOK(q)'
        BY <1>1, <2>2 DEF OnlyHeard, TablesOK, ContextOK, ReadFar
      <3>3. QED
        BY <3>1, <3>2
    <2>3. QED
      BY <2>1, <2>2
  <1>4. QED
    BY <1>2, <1>3 DEF TablesOK

\* What the server does to a request leaves its message and what its tab has heard.
SameMessage(q) ==
  /\ call'[q].op = call[q].op
  /\ call'[q].prompt = call[q].prompt
  /\ call'[q].heard = call[q].heard
  /\ pc'[q] = "idle" <=> pc[q] = "idle"

LEMMA ServeKeepsMessages ==
  ASSUME Types, TablesOK, NEW r \in Requests, Serve(r) \/ Fail(r)
  PROVE  /\ UNCHANGED page
         /\ Recorded \subseteq Recorded'
         /\ \A q \in Requests : SameMessage(q)
  <1>1. UNCHANGED page /\ Recorded \subseteq Recorded'
    BY DEF Serve, Fail, Enter, CreateConversation, Intake, Record, Prepare, tables, Recorded, Types,
           Turns, NoTurn
  <1>2. ASSUME Forget(r), NEW q \in Requests
        PROVE  call'[q].op = call[q].op /\ call'[q].prompt = call[q].prompt /\ call'[q].heard = call[q].heard
    BY <1>2 DEF Forget, Types, CallType, NoCall
  <1>3. ASSUME NEW q \in Requests
        PROVE  call'[q].op = call[q].op /\ call'[q].prompt = call[q].prompt /\ call'[q].heard = call[q].heard
    <2>1. CASE Enter(r)
      <3>1. CASE UNCHANGED call
        BY <3>1
      <3>2. CASE \E c \in Conversations : call' = [call EXCEPT ![r].conversation = c, ![r].recent = Recent(c)]
        <4>1. PICK c \in Conversations : call' = [call EXCEPT ![r].conversation = c, ![r].recent = Recent(c)]
          BY <3>2
        <4>2. QED
          BY <4>1 DEF Types, CallType
      <3>3. QED
        BY <2>1, <3>1, <3>2 DEF Enter
    <2>2. CASE Record(r) \/ Fail(r)
      BY <1>2, <2>2 DEF Record, Fail, End
    <2>3. CASE CreateConversation(r) \/ Intake(r) \/ Prepare(r)
      BY <2>3 DEF CreateConversation, Intake, Prepare
    <2>4. QED
      BY <2>1, <2>2, <2>3 DEF Serve
  <1>4. ASSUME NEW q \in Requests PROVE pc'[q] = "idle" <=> pc[q] = "idle"
    <2>1. \E l \in Steps \ {"idle"} : Goto(r, l)
      BY DEF Serve, Fail, Enter, EnsurePlanning, CreateConversation, Intake, Record, Prepare, End, Steps
    <2>2. pc[r] # "idle"
      BY DEF Serve, Fail, Enter, CreateConversation, Intake, Record, Prepare
    <2>3. QED
      BY <2>1, <2>2 DEF Goto, Types
  <1>5. QED
    BY <1>1, <1>3, <1>4 DEF SameMessage

LEMMA ServeKeepsPages ==
  ASSUME Types, PagesOK, UNCHANGED page, Recorded \subseteq Recorded',
         \A q \in Requests : SameMessage(q)
  PROVE  PagesOK'
  <1>1. /\ \A q \in Requests : call[q].prompt \in NoOnes
        /\ \A p \in Pages : page[p] \in PageType
    BY DEF Types, CallType
  <1>2. \A q \in Requests : CallOK(q)'
    BY <1>1 DEF PagesOK, CallOK, SameMessage, NoOnes
  <1>3. OneSettled'
    BY DEF PagesOK, OneSettled, Settled, SameMessage
  <1>4. ASSUME NEW p \in Pages PROVE PageOK(p)'
    BY <1>1 DEF PagesOK, PageOK, SameMessage, PageType, NoOnes
  <1>5. ASSUME NEW p \in Pages PROVE ErrorsOK(p)'
    BY DEF PagesOK, ErrorsOK, Settled, SameMessage
  <1>6. ASSUME NEW p \in Pages PROVE AskedOK(p)'
    BY <1>1 DEF PagesOK, AskedOK, Overwritten, SameMessage, PageType, NoOnes
  <1>7. \A p, q \in Pages : p # q => Apart(p, q)'
    BY DEF PagesOK, Apart
  <1>8. QED
    BY <1>2, <1>3, <1>4, <1>5, <1>6, <1>7 DEF PagesOK
-----------------------------------------------------------------------------
(***************************************************************************)
(* The tables, step by step of the server.                                 *)
(***************************************************************************)

\* A step that records nothing and leaves the conversations alone.
LEMMA QuietKeepsTables ==
  ASSUME Types, TablesOK, NEW r \in Requests, UNCHANGED <<history, turn>>, prompts \subseteq prompts',
         RequestOK(r)', ContextOK(r)',
         \A q \in Requests \ {r} : pc'[q] = pc[q] /\ call'[q] = call[q]
  PROVE  TablesOK'
  <1>1. Recorded' = Recorded /\ Conversations' = Conversations
    BY DEF Recorded, Conversations
  <1>2. TurnsAreListed' /\ \A c \in Conversations' : HistoryOK(c)'
    BY <1>1 DEF TablesOK, TurnsAreListed, HistoryOK
  <1>3. ASSUME NEW q \in Requests \ {r} PROVE RequestOK(q)' /\ ContextOK(q)'
    <2>1. RequestOK(q) /\ ContextOK(q)
      BY DEF TablesOK
    <2>2. RequestOK(q)'
      BY <1>1, <2>1 DEF RequestOK
    <2>3. ContextOK(q)'
      BY <1>1, <2>1 DEF ContextOK, ReadFar
    <2>4. QED
      BY <2>2, <2>3
  <1>4. QED
    BY <1>2, <1>3 DEF TablesOK

\* Whoever enters a project with one conversation reads all that was recorded before.
LEMMA EnterKeepsTables ==
  ASSUME Types, TablesOK, NEW r \in Requests, Enter(r)
  PROVE  TablesOK'
  <1>1. UNCHANGED tables /\ Recorded' = Recorded /\ Conversations' = Conversations
    BY DEF Enter, tables, Recorded, Conversations
  <1>2. RequestOK(r) /\ pc[r] = "entering"
    BY DEF TablesOK, Enter
  <1>3. CASE Conversations = {}
    <2>1. pc'[r] = "creating" /\ call' = call /\ \A q \in Requests \ {r} : pc'[q] = pc[q]
      BY <1>3 DEF Enter, Goto, Types
    <2>2. RequestOK(r)' /\ ContextOK(r)'
      BY <1>1, <1>2, <1>3, <2>1 DEF RequestOK, ContextOK, Before, After
    <2>3. QED
      BY <1>1, <2>1, <2>2, QuietKeepsTables DEF tables
  <1>4. CASE Conversations # {}
    <2>1. PICK c \in Conversations :
            call' = [call EXCEPT ![r].conversation = c, ![r].recent = Recent(c)]
      BY <1>4 DEF Enter
    <2>2. pc'[r] \in {"intake", "asking"} /\ \A q \in Requests \ {r} : pc'[q] = pc[q]
      BY <1>4 DEF Enter, EnsurePlanning, Goto, Types
    <2>3. /\ call'[r].conversation = c /\ call'[r].recent = Recent(c) /\ call'[r].seen = call[r].seen
          /\ \A q \in Requests \ {r} : call'[q] = call[q]
      BY <2>1 DEF Types, CallType
    <2>4. RequestOK(r)'
      BY <1>1, <1>2, <2>2, <2>3 DEF RequestOK, Before, After
    <2>5. ASSUME Conversations = {c}, call[r].seen # {}
          PROVE  ReadFar(r, history[c])'
      <3>1. call[r].seen \subseteq Range(history[c])
        BY <1>2, <2>5 DEF TablesOK, TurnsAreListed, RequestOK
      <3>2. history[c] \in Seq(Requests)
        BY DEF Types
      <3>3. Len(history[c]) \in Nat /\ DOMAIN history[c] = 1..Len(history[c])
        BY <3>2, LenProperties
      <3>4. call[r].seen \subseteq {history[c][i] : i \in 1..Len(history[c])}
        BY <3>1, <3>3 DEF Range
      <3>5. history[c] # <<>> /\ Len(history[c]) \in 1..Len(history[c])
        BY <2>5, <3>2, <3>3, <3>4
      <3>6. Last(Recent(c)) = history[c][Len(history[c])]
        BY <3>2, <3>5, RecentEndsWithLast
      <3>7. QED
        BY <1>1, <2>3, <3>3, <3>4, <3>5, <3>6 DEF ReadFar, tables
    <2>6. ContextOK(r)'
      BY <1>1, <2>3, <2>5 DEF ContextOK, tables
    <2>7. QED
      BY <1>1, <2>2, <2>3, <2>4, <2>6, QuietKeepsTables DEF tables
  <1>5. QED
    BY <1>3, <1>4

\* A new conversation is listed nowhere, and leaves no project with one conversation but a new one.
LEMMA CreateKeepsTables ==
  ASSUME Types, TablesOK, NEW r \in Requests, CreateConversation(r)
  PROVE  TablesOK'
  <1>1. /\ UNCHANGED <<turn, prompts, call>> /\ Recorded' = Recorded
        /\ Conversations' = Conversations \cup {r} /\ r \notin Conversations
        /\ history'[r] = <<>> /\ \A c \in Conversations : history'[c] = history[c]
    BY DEF CreateConversation, TablesOK, RequestOK, Recorded, Conversations
  <1>2. pc[r] = "creating" /\ pc' = [pc EXCEPT ![r] = "entering"]
    BY DEF CreateConversation, Goto
  <1>3. TurnsAreListed'
    BY <1>1 DEF TablesOK, TurnsAreListed
  <1>4. ASSUME NEW c \in Conversations' PROVE HistoryOK(c)'
    BY <1>1 DEF TablesOK, HistoryOK, IsInjective, Range
  <1>5. ASSUME NEW q \in Requests PROVE RequestOK(q)'
    BY <1>1, <1>2 DEF Types, TablesOK, RequestOK, Before, After
  <1>6. ASSUME NEW q \in Requests PROVE ContextOK(q)'
    <2>1. pc[q] \in {"intake", "asking"} => call[q].conversation \in Conversations
      BY DEF TablesOK, RequestOK
    <2>2. pc'[q] \in {"intake", "asking"} => pc[q] \in {"intake", "asking"}
      BY <1>2 DEF Types
    <2>3. QED
      BY <1>1, <2>1, <2>2 DEF ContextOK
  <1>7. QED
    BY <1>3, <1>4, <1>5, <1>6 DEF TablesOK

\* A turn is recorded once, after whatever the requests under way have read.
LEMMA RecordKeepsTables ==
  ASSUME Types, TablesOK, NEW r \in Requests, Record(r)
  PROVE  TablesOK'
  <1>1. PICK c \in Conversations : c = call[r].conversation
    BY DEF Record, TablesOK, RequestOK
  <1>2. pc[r] = "asking" /\ pc' = [pc EXCEPT ![r] = "preparing"] /\ UNCHANGED prompts
    BY DEF Record, End, Goto
  <1>3. /\ r \notin Recorded /\ Recorded' = Recorded \cup {r}
        /\ \A q \in Requests \ {r} : turn'[q] = turn[q]
    BY <1>2 DEF Record, TablesOK, RequestOK, Before, Recorded, Types, Turns, NoTurn
  <1>4. /\ Conversations' = Conversations
        /\ history'[c] = Append(history[c], r)
        /\ \A d \in Conversations \ {c} : history'[d] = history[d]
    BY <1>1 DEF Record, Types, Conversations
  <1>5. /\ history'[c] \in Seq(Requests)
        /\ IsInjective(history'[c])
        /\ Range(history'[c]) = Range(history[c]) \cup {r}
        /\ \A i \in DOMAIN history[c] : i \in DOMAIN history'[c] /\ history'[c][i] = history[c][i]
    <2>1. history[c] \in Seq(Requests) /\ r \notin Range(history[c]) /\ IsInjective(history[c])
      BY <1>3 DEF Types, TablesOK, HistoryOK
    <2>2. QED
      BY <1>4, <2>1, AppendListsOnce
  <1>6. call'[r].seen = {} /\ \A q \in Requests \ {r} : call'[q] = call[q]
    BY DEF Record, End, Forget, Types, NoCall
  <1>7. TurnsAreListed'
    BY <1>3, <1>4, <1>5 DEF TablesOK, TurnsAreListed
  <1>8. ASSUME NEW d \in Conversations' PROVE HistoryOK(d)'
    BY <1>3, <1>4, <1>5 DEF TablesOK, HistoryOK
  <1>9. ASSUME NEW q \in Requests PROVE RequestOK(q)'
    BY <1>2, <1>3, <1>4, <1>6 DEF Types, TablesOK, RequestOK, Before, After
  <1>10. ASSUME NEW q \in Requests PROVE ContextOK(q)'
    <2>1. CASE q = r
      BY <1>2, <2>1 DEF Types, ContextOK
    <2>2. CASE q # r
      <3>1. SUFFICES ASSUME pc'[q] \in {"intake", "asking"}, Conversations = {call[q].conversation},
                            call[q].seen # {}
                     PROVE  ReadFar(q, history[call[q].conversation])'
        BY <1>4, <1>6, <2>2 DEF ContextOK
      <3>2. call[q].conversation = c /\ ReadFar(q, history[c])
        BY <1>2, <2>2, <3>1 DEF Types, TablesOK, ContextOK
      <3>3. PICK j \in DOMAIN history[c] :
              /\ history[c][j] = Last(call[q].recent)
              /\ call[q].seen \subseteq {history[c][i] : i \in 1..j}
        BY <3>2 DEF ReadFar
      <3>4. \A i \in 1..j : i \in DOMAIN history[c]
        BY LenProperties DEF Types
      <3>5. call[q].seen \subseteq {history'[c][i] : i \in 1..j}
        BY <1>5, <3>3, <3>4
      <3>6. QED
        BY <1>5, <1>6, <2>2, <3>2, <3>3, <3>5 DEF ReadFar
    <2>3. QED
      BY <2>1, <2>2
  <1>11. QED
    BY <1>7, <1>8, <1>9, <1>10 DEF TablesOK

LEMMA ServeKeepsTables ==
  ASSUME Types, TablesOK, NEW r \in Requests, Serve(r) \/ Fail(r)
  PROVE  TablesOK'
  <1>1. RequestOK(r) /\ ContextOK(r)
    BY DEF TablesOK
  <1>2. CASE Intake(r)
    <2>1. pc[r] = "intake" /\ pc' = [pc EXCEPT ![r] = "asking"] /\ UNCHANGED <<history, turn, call>>
      BY <1>2 DEF Intake, Goto
    <2>2. RequestOK(r)' /\ ContextOK(r)'
      BY <1>1, <2>1 DEF Types, RequestOK, ContextOK, ReadFar, Before, After, Recorded, Conversations
    <2>3. QED
      BY <1>2, <2>1, <2>2, QuietKeepsTables DEF Intake, SavePromptData, Types
  <1>3. CASE Prepare(r)
    <2>1. /\ pc[r] = "preparing" /\ pc'[r] \in {"answered", "failed"}
          /\ \A q \in Requests \ {r} : pc'[q] = pc[q]
          /\ UNCHANGED <<history, turn, call>> /\ prompts \subseteq prompts'
          /\ turn[r] = "data" => "OUTREACH" \in prompts'
      BY <1>3 DEF Prepare, SavePromptData, Goto, Types
    <2>2. RequestOK(r)' /\ ContextOK(r)'
      BY <1>1, <2>1 DEF Types, RequestOK, ContextOK, Before, After, Recorded
    <2>3. QED
      BY <2>1, <2>2, QuietKeepsTables
  <1>4. CASE Fail(r)
    <2>1. /\ pc' = [pc EXCEPT ![r] = "failed"] /\ UNCHANGED tables
          /\ call'[r].seen = {} /\ \A q \in Requests \ {r} : call'[q] = call[q]
      BY <1>4 DEF Fail, End, Goto, Forget, Types, NoCall
    <2>2. RequestOK(r)' /\ ContextOK(r)'
      BY <2>1 DEF Types, RequestOK, ContextOK, Before, After
    <2>3. QED
      BY <2>1, <2>2, QuietKeepsTables DEF Types, tables
  <1>5. QED
    BY <1>2, <1>3, <1>4, EnterKeepsTables, CreateKeepsTables, RecordKeepsTables DEF Serve
-----------------------------------------------------------------------------
(***************************************************************************)
(* The tabs, step by step of a page.                                       *)
(***************************************************************************)

\* What a page that is loaded shows.
LEMMA LoadedShows ==
  ASSUME Types, PagesOK, TablesOK, NEW p \in Pages
  PROVE  /\ Loaded(p).busy = NoOne /\ Loaded(p).greeting = NoOne /\ Loaded(p).errors = {}
         /\ Loaded(p).answers = Recorded /\ Loaded(p).cached = page[p].cached /\ Loaded(p).reworded = {}
         /\ \A m \in Loaded(p).asked :
              m \in Requests /\ pc[m] # "idle" /\ \E r \in Recorded : call[r].prompt = m
  <1>1. \A m \in Loaded(p).asked : m # NoOne /\ \E r \in Recorded : call[r].prompt = m
    BY DEF Types, PageType, Loaded
  <1>2. \A r \in Requests : call[r].prompt \in NoOnes
    BY DEF Types, CallType
  <1>3. QED
    BY <1>1, <1>2, RecordedAreRequests DEF NoOnes, Types, PageType, Loaded, PagesOK, CallOK

\* What the requests of a tab that is loaded have heard.
LEMMA ForgottenIsSettledLess ==
  ASSUME Types, NEW p \in Pages, NEW q \in Requests
  PROVE  /\ Forgotten(p)[q].op = call[q].op
         /\ Forgotten(p)[q].prompt = call[q].prompt
         /\ Forgotten(p)[q].heard = IF q \in {page[p].busy, page[p].greeting} THEN "nothing"
                                    ELSE call[q].heard
BY DEF Types, CallType, Forgotten

\* A page is loaded, greets or not: nothing it has shown before is under way any more.
LEMMA LoadKeepsPages ==
  ASSUME Types, TablesOK, PagesOK, NEW p \in Pages, UNCHANGED tables,
         NEW G \in SUBSET Requests, \A r \in G : pc[r] = "idle",
         \A q \in Requests : pc'[q] = IF q \in G THEN "entering" ELSE pc[q],
         \A q \in G : call'[q].op = "greeting" /\ call'[q].prompt = NoOne /\ call'[q].heard = "waiting",
         \A q \in Requests \ G : call'[q] = Forgotten(p)[q],
         \A q \in Pages \ {p} : page'[q] = page[q],
         page'[p].busy = NoOne, page'[p].errors = {},
         page'[p].greeting # NoOne => page'[p].greeting \in G,
         page'[p].cached = page[p].cached,
         page'[p].answers \subseteq Recorded,
         page'[p].reworded \subseteq page[p].reworded \cap page'[p].answers,
         \A m \in page'[p].asked :
           m \in Requests /\ pc[m] # "idle" /\ \E r \in page'[p].answers : call[r].prompt = m
  PROVE  PagesOK'
  <1>1. Recorded' = Recorded /\ Recorded \subseteq Requests
    BY DEF Recorded, tables
  <1>2. /\ \A q \in Requests : call[q].prompt \in NoOnes /\ CallOK(q)
        /\ \A q \in Pages : page[q] \in PageType
    BY DEF Types, CallType, PagesOK
  <1>3. ASSUME NEW q \in Requests
        PROVE  /\ q \notin G => call'[q].op = call[q].op /\ call'[q].prompt = call[q].prompt
               /\ q \notin G /\ call'[q].heard # call[q].heard =>
                    call'[q].heard = "nothing" /\ q \in {page[p].busy, page[p].greeting}
               /\ call'[q].prompt # NoOne => q \notin G
    BY ForgottenIsSettledLess
  <1>4. ASSUME NEW q \in Requests PROVE CallOK(q)'
    BY <1>2, <1>3 DEF CallOK, NoOnes
  <1>5. OneSettled'
    BY <1>3 DEF PagesOK, OneSettled, Settled
  <1>a. ASSUME NEW q \in Pages, NEW r \in page[q].reworded PROVE call'[r].heard = "answer"
    <2>1. r \in Requests /\ call[r].heard = "answer" /\ pc[r] # "idle"
      BY <1>1, <1>2 DEF PagesOK, PageOK, PageType, TablesOK, RequestOK, Before
    <2>2. r \notin G /\ r # page[p].busy /\ r # page[p].greeting
      BY <2>1, ChatAssumption DEF PagesOK, PageOK
    <2>3. QED
      BY <1>3, <2>1, <2>2
  <1>6. ASSUME NEW q \in Pages, q # p PROVE PageOK(q)'
    <2>1. page'[q] = page[q] /\ PageOK(q)
      BY <1>6 DEF PagesOK
    <2>2. ASSUME page[q].busy # NoOne
          PROVE  call'[page[q].busy].op = "chat" /\ call'[page[q].busy].heard = "waiting"
      <3>1. page[q].busy \in Requests /\ page[q].busy \notin G
        BY <1>2, <2>1, <2>2 DEF PageOK, PageType, NoOnes, CallOK
      <3>2. page[q].busy # page[p].busy /\ page[q].busy # page[p].greeting
        BY <1>2, <1>6, <2>1, <2>2 DEF PagesOK, PageOK, Apart
      <3>3. QED
        BY <1>3, <2>1, <2>2, <3>1, <3>2 DEF PageOK
    <2>3. ASSUME page[q].greeting # NoOne
          PROVE  call'[page[q].greeting].op = "greeting" /\ call'[page[q].greeting].heard = "waiting"
      <3>1. page[q].greeting \in Requests /\ page[q].greeting \notin G
        BY <1>2, <2>1, <2>3 DEF PageOK, PageType, NoOnes, CallOK
      <3>2. page[q].greeting # page[p].busy /\ page[q].greeting # page[p].greeting
        BY <1>2, <1>6, <2>1, <2>3 DEF PagesOK, PageOK, Apart
      <3>3. QED
        BY <1>3, <2>1, <2>3, <3>1, <3>2 DEF PageOK
    <2>4. \A m \in page[q].asked \cup page[q].errors : pc'[m] # "idle"
      BY <1>2, <2>1 DEF PageOK, PageType
    <2>5. \A r \in page[q].reworded : call'[r].heard = "answer"
      BY <1>a, <2>1 DEF PageOK
    <2>6. QED
      BY <1>1, <2>1, <2>2, <2>3, <2>4, <2>5 DEF PageOK
  <1>7. PageOK(p)'
    <2>1. PageOK(p)
      BY DEF PagesOK
    <2>2. \A r \in page'[p].reworded : call'[r].heard = "answer"
      BY <1>a, <2>1 DEF PageOK
    <2>3. page'[p].greeting # NoOne => call'[page'[p].greeting].heard = "waiting"
      OBVIOUS
    <2>4. QED
      BY <1>1, <1>2, <2>1, <2>2, <2>3 DEF PageOK, PageType, NoOnes
  <1>8. ASSUME NEW q \in Pages PROVE ErrorsOK(q)'
    <2>1. CASE q = p
      BY <2>1 DEF ErrorsOK
    <2>2. CASE q # p
      <3>1. page'[q] = page[q] /\ ErrorsOK(q) /\ page[q].errors \subseteq Requests
        BY <1>2, <2>2 DEF PagesOK, PageType
      <3>2. \A m \in page[q].errors : m # NoOne
        BY <3>1, ChatAssumption
      <3>3. QED
        BY <1>3, <3>1, <3>2 DEF ErrorsOK, Settled
    <2>3. QED
      BY <2>1, <2>2
  <1>9. ASSUME NEW q \in Pages PROVE AskedOK(q)'
    <2>1. CASE q = p
      BY <1>1, <1>2, <1>3, <2>1, ChatAssumption DEF AskedOK, CallOK
    <2>2. CASE q # p
      <3>1. page'[q] = page[q] /\ AskedOK(q)
        BY <2>2 DEF PagesOK
      <3>2. \A r \in Requests : call[r].op = "chat" => r \notin G
        BY <1>2 DEF CallOK
      <3>3. \A m : Overwritten(m) => Overwritten(m)'
        BY <1>3, <3>2 DEF Overwritten
      <3>4. \A m \in page[q].asked, r \in page[q].answers \cup {page[q].busy} :
              r # NoOne /\ call[r].prompt = m => call'[r].prompt = m
        <4>1. page[q].asked \subseteq Requests /\ page[q].answers \cup {page[q].busy} \subseteq NoOnes
          BY <1>2 DEF PageType, NoOnes
        <4>2. QED
          BY <1>2, <1>3, <4>1, ChatAssumption DEF NoOnes, CallOK
      <3>5. QED
        BY <3>1, <3>3, <3>4 DEF AskedOK
    <2>3. QED
      BY <2>1, <2>2
  <1>b. ASSUME NEW q \in Pages, q # p, page'[p].greeting # NoOne
        PROVE  page'[p].greeting # page[q].greeting
    <2>1. page[q].greeting # NoOne => page[q].greeting \in Requests /\ call[page[q].greeting].op = "greeting"
      BY <1>2 DEF PagesOK, PageOK, PageType, NoOnes
    <2>2. page[q].greeting # NoOne => page[q].greeting \notin G
      BY <1>2, <2>1 DEF CallOK
    <2>3. QED
      BY <1>b, <2>2
  <1>10. ASSUME NEW q \in Pages, NEW s \in Pages, q # s PROVE Apart(q, s)'
    <2>1. Apart(q, s)
      BY <1>10 DEF PagesOK
    <2>2. CASE q # p /\ s # p
      BY <2>1, <2>2 DEF Apart
    <2>3. CASE q = p
      BY <1>10, <1>b, <2>3 DEF Apart
    <2>4. CASE s = p
      BY <1>10, <1>b, <2>4 DEF Apart
    <2>5. QED
      BY <2>2, <2>3, <2>4
  <1>11. QED
    BY <1>4, <1>5, <1>6, <1>7, <1>8, <1>9, <1>10 DEF PagesOK

LEMMA OpenKeepsPages ==
  ASSUME Types, TablesOK, PagesOK, NEW p \in Pages, Open(p)
  PROVE  PagesOK'
  <1> DEFINE q == IF Recorded # {} THEN Loaded(p)
                  ELSE [Loaded(p) EXCEPT !.answers = {page[p].cached},
                                         !.reworded = page[p].reworded \cap {page[p].cached}]
  <1>1. /\ UNCHANGED <<tables, pc>> /\ call' = Forgotten(p)
        /\ page'[p] = q /\ \A o \in Pages \ {p} : page'[o] = page[o]
    BY DEF Open, Types
  <1>2. /\ q.busy = NoOne /\ q.greeting = NoOne /\ q.errors = {} /\ q.cached = page[p].cached
        /\ q.answers \subseteq Recorded /\ q.reworded \subseteq page[p].reworded \cap q.answers
        /\ \A m \in q.asked : m \in Requests /\ pc[m] # "idle" /\ \E r \in q.answers : call[r].prompt = m
    <2>1. CASE Recorded # {}
      BY <2>1, LoadedShows
    <2>2. CASE Recorded = {}
      <3>1. page[p].cached # NoOne /\ page[p].cached \in Recorded
        BY <2>2 DEF Open, PagesOK, PageOK
      <3>2. QED
        BY <2>2, <3>1
    <2>3. QED
      BY <2>1, <2>2
  <1>3. /\ page'[p].busy = NoOne /\ page'[p].greeting = NoOne /\ page'[p].errors = {}
        /\ page'[p].cached = page[p].cached /\ page'[p].answers \subseteq Recorded
        /\ page'[p].reworded \subseteq page[p].reworded \cap page'[p].answers
        /\ \A m \in page'[p].asked :
             m \in Requests /\ pc[m] # "idle" /\ \E r \in page'[p].answers : call[r].prompt = m
    BY <1>1, <1>2
  <1> HIDE DEF q
  <1>4. PICK G \in SUBSET Requests : G = {}
    OBVIOUS
  <1>5. QED
    BY <1>1, <1>3, <1>4, LoadKeepsPages

LEMMA GreetKeepsPages ==
  ASSUME Types, TablesOK, PagesOK, NEW p \in Pages, NEW r \in Requests, Greet(p, r)
  PROVE  PagesOK'
  <1>1. /\ UNCHANGED tables /\ pc[r] = "idle" /\ pc' = [pc EXCEPT ![r] = "entering"]
        /\ page' = [page EXCEPT ![p] = [Loaded(p) EXCEPT !.greeting = r]]
        /\ call' = [Forgotten(p) EXCEPT ![r] = [NoCall EXCEPT !.op = "greeting", !.heard = "waiting"]]
    BY DEF Greet, Goto
  <1>2. /\ call'[r].op = "greeting" /\ call'[r].prompt = NoOne /\ call'[r].heard = "waiting"
        /\ \A q \in Requests \ {r} : call'[q] = Forgotten(p)[q]
    BY <1>1, ForgottenIsTyped DEF NoCall
  <1>3. Loaded(p) \in PageType
    BY LoadedIsTyped
  <1>4. /\ page'[p].greeting = r /\ \A o \in Pages \ {p} : page'[o] = page[o]
        /\ page'[p].busy = NoOne /\ page'[p].errors = {} /\ page'[p].cached = page[p].cached
        /\ page'[p].answers = Loaded(p).answers /\ page'[p].asked = Loaded(p).asked
        /\ page'[p].reworded = {}
    BY <1>1, <1>3, LoadedShows DEF Types, PageType
  <1>5. PICK G \in SUBSET Requests : G = {r}
    OBVIOUS
  <1>6. /\ \A q \in Requests : pc'[q] = IF q \in G THEN "entering" ELSE pc[q]
        /\ \A q \in G : pc[q] = "idle" /\ call'[q].op = "greeting" /\ call'[q].prompt = NoOne
                         /\ call'[q].heard = "waiting"
        /\ \A q \in Requests \ G : call'[q] = Forgotten(p)[q]
    BY <1>1, <1>2, <1>5 DEF Types
  <1>7. /\ page'[p].answers = Recorded
        /\ \A m \in page'[p].asked :
             m \in Requests /\ pc[m] # "idle" /\ \E q \in page'[p].answers : call[q].prompt = m
    BY <1>4, LoadedShows
  <1>8. QED
    BY <1>1, <1>4, <1>5, <1>6, <1>7, LoadKeepsPages

\* A tab that waits for nothing sends message m with request r: its own, or one it offers to retry.
LEMMA RequestKeepsPages ==
  ASSUME Types, TablesOK, PagesOK, NEW p \in Pages, NEW r \in Requests, NEW m \in Requests,
         page[p].busy = NoOne, Request(p, r, "chat", m), m = r \/ m \in page[p].errors,
         \A o \in Pages \ {p} : page'[o] = page[o],
         page'[p].busy = r, page'[p].greeting = page[p].greeting,
         page'[p].cached = page[p].cached, page'[p].answers = page[p].answers,
         page'[p].reworded = page[p].reworded,
         page'[p].asked = page[p].asked \cup IF m = r THEN {m} ELSE {},
         page'[p].errors \subseteq page[p].errors, m \notin page'[p].errors,
         m = r => page'[p].errors = page[p].errors
  PROVE  PagesOK'
  <1>1. /\ UNCHANGED tables /\ Recorded' = Recorded
        /\ pc[r] = "idle" /\ pc' = [pc EXCEPT ![r] = "entering"]
    BY DEF Request, Goto, Recorded, tables
  <1>2. /\ call'[r].op = "chat" /\ call'[r].prompt = m /\ call'[r].heard = "waiting"
        /\ \A q \in Requests \ {r} : call'[q] = call[q]
    BY DEF Request, Types, NoCall
  <1>3. /\ \A q \in Requests : call[q].prompt \in NoOnes /\ CallOK(q)
        /\ \A q \in Pages : page[q] \in PageType /\ PageOK(q) /\ ErrorsOK(q) /\ AskedOK(q)
    BY DEF Types, CallType, PagesOK
  <1>4. \A q \in Requests \ {r} : call[q].prompt = m => ~Settled(q)
    <2>1. CASE m = r
      BY <1>1, <1>3, <2>1, ChatAssumption DEF CallOK
    <2>2. CASE m \in page[p].errors
      BY <1>3, <2>2 DEF ErrorsOK
    <2>3. QED
      BY <2>1, <2>2
  <1>5. \A q \in Requests : call[q].prompt # r /\ (call[q].prompt # NoOne => q # r)
    BY <1>1, <1>3, ChatAssumption DEF CallOK
  <1>6. \A q \in Pages : /\ page[q].busy # r /\ page[q].greeting # r
                         /\ r \notin page[q].asked /\ r \notin page[q].errors /\ r \notin page[q].reworded
    BY <1>1, <1>3, ChatAssumption DEF PageOK, CallOK, TablesOK, RequestOK, Before
  <1>7. ASSUME NEW q \in Requests PROVE CallOK(q)'
    <2>1. CASE q = r
      BY <1>1, <1>2, <1>3, <2>1, ChatAssumption DEF Types, CallOK, PageType, PageOK
    <2>2. CASE q # r
      BY <1>1, <1>2, <1>3, <1>5, <2>2 DEF Types, CallOK, NoOnes
    <2>3. QED
      BY <2>1, <2>2
  <1>8. OneSettled'
    BY <1>2, <1>4 DEF PagesOK, OneSettled, Settled
  <1>9. ASSUME NEW q \in Pages PROVE PageOK(q)'
    <2>1. /\ page'[q].reworded = page[q].reworded /\ page'[q].answers = page[q].answers
          /\ page'[q].greeting = page[q].greeting /\ page'[q].cached = page[q].cached
      <3>1. CASE q = p
        BY <3>1
      <3>2. CASE q # p
        BY <3>2
      <3>3. QED
        BY <3>1, <3>2
    <2>2. /\ \A x \in page[q].reworded : x \in Requests /\ x # r
          /\ page[q].greeting # NoOne => page[q].greeting \in Requests /\ page[q].greeting # r
      BY <1>3, <1>6 DEF PageType, NoOnes
    <2>3. /\ page'[q].greeting # NoOne =>
               call'[page'[q].greeting].op = "greeting" /\ call'[page'[q].greeting].heard = "waiting"
          /\ page'[q].answers \subseteq Recorded'
          /\ page'[q].reworded \subseteq page'[q].answers
          /\ \A x \in page'[q].reworded : call'[x].heard = "answer"
          /\ page'[q].cached # NoOne => page'[q].cached \in Recorded'
      BY <1>1, <1>2, <1>3, <2>1, <2>2 DEF PageOK
    <2>4. page'[q].busy # NoOne => call'[page'[q].busy].op = "chat" /\ call'[page'[q].busy].heard = "waiting"
      <3>1. CASE q = p
        BY <1>2, <3>1
      <3>2. CASE q # p
        BY <1>2, <1>3, <1>6, <3>2 DEF PageOK, PageType, NoOnes
      <3>3. QED
        BY <3>1, <3>2
    <2>5. \A x \in page'[q].asked \cup page'[q].errors : pc'[x] # "idle"
      <3>1. CASE q = p
        BY <1>1, <1>3, <3>1 DEF Types, PageOK, PageType
      <3>2. CASE q # p
        BY <1>1, <1>3, <3>2 DEF Types, PageOK, PageType
      <3>3. QED
        BY <3>1, <3>2
    <2>6. QED
      BY <2>3, <2>4, <2>5 DEF PageOK
  <1>10. ASSUME NEW q \in Pages PROVE ErrorsOK(q)'
    <2>1. page'[q].errors \subseteq page[q].errors /\ m \notin page'[q].errors
      <3>1. CASE q = p
        BY <3>1
      <3>2. CASE q # p
        BY <1>6, <3>2 DEF PagesOK, Apart
      <3>3. QED
        BY <3>1, <3>2
    <2>2. QED
      BY <1>2, <1>3, <2>1 DEF ErrorsOK, Settled
  <1>11. ASSUME NEW q \in Pages PROVE AskedOK(q)'
    <2>1. \A x : Overwritten(x) => Overwritten(x)'
      BY <1>1, <1>2, <1>3 DEF Overwritten, CallOK
    <2>2. \A x \in page[q].asked, s \in page[q].answers \cup {page[q].busy} :
            s # NoOne /\ call[s].prompt = x => call'[s].prompt = x
      <3>1. page[q].asked \subseteq Requests /\ page[q].answers \cup {page[q].busy} \subseteq NoOnes
        BY <1>3 DEF PageType, NoOnes
      <3>2. QED
        BY <1>2, <1>5, <3>1, ChatAssumption DEF NoOnes
    <2>3. CASE q # p
      <3>1. \A x \in page[q].asked :
              \/ \E s \in page[q].answers \cup {page[q].busy} : s # NoOne /\ call'[s].prompt = x
              \/ x \in page[q].errors
              \/ Overwritten(x)'
        BY <1>3, <2>1, <2>2 DEF AskedOK
      <3>2. QED
        BY <2>3, <3>1 DEF AskedOK
    <2>4. CASE q = p /\ m = r
      <3>1. \A x \in page[p].asked :
              \/ \E s \in page'[p].answers \cup {page'[p].busy} : s # NoOne /\ call'[s].prompt = x
              \/ x \in page'[p].errors
              \/ Overwritten(x)'
        BY <1>3, <2>1, <2>2, <2>4 DEF AskedOK
      <3>2. r # NoOne /\ call'[page'[p].busy].prompt = r
        BY <1>2, <2>4, ChatAssumption
      <3>3. QED
        BY <2>4, <3>1, <3>2 DEF AskedOK
    <2>5. CASE q = p /\ m # r
      <3>1. \A x : x # m => Overwritten(x)'
        BY <1>2, <2>5 DEF Overwritten
      <3>2. r # NoOne /\ call'[page'[p].busy].prompt = m
        BY <1>2, ChatAssumption
      <3>3. QED
        BY <2>5, <3>1, <3>2 DEF AskedOK
    <2>6. QED
      BY <2>3, <2>4, <2>5
  <1>12. \A o, q \in Pages : o # q => Apart(o, q)'
    <2>1. ASSUME NEW q \in Pages
          PROVE  /\ page'[q].errors \subseteq page[q].errors
                 /\ page'[q].busy = IF q = p THEN r ELSE page[q].busy
      <3>1. CASE q = p
        BY <3>1
      <3>2. CASE q # p
        BY <3>2
      <3>3. QED
        BY <3>1, <3>2
    <2>2. QED
      BY <1>6, <2>1 DEF PagesOK, Apart
  <1>13. QED
    BY <1>7, <1>8, <1>9, <1>10, <1>11, <1>12 DEF PagesOK

\* What becomes of a tab that is answered, or told of a failure.
LEMMA ReceivedShows ==
  ASSUME Types, NEW p \in Pages, NEW r \in Requests, NEW ok \in BOOLEAN,
         NEW b \in IF r = page[p].busy THEN Shown(p, r, ok) ELSE Greeted(p, r, ok)
  PROVE  /\ b.asked = page[p].asked
         /\ b.answers = page[p].answers \cup IF ok THEN {r} ELSE {}
         /\ b.reworded \subseteq page[p].reworded \cup IF ok THEN {r} ELSE {}
         /\ r = page[p].busy =>
              /\ b.busy = NoOne /\ b.greeting = page[p].greeting /\ b.cached = page[p].cached
              /\ b.errors = page[p].errors \cup IF ok THEN {} ELSE {call[r].prompt}
         /\ r # page[p].busy =>
              /\ b.busy = page[p].busy /\ b.greeting = NoOne /\ b.errors = page[p].errors
              /\ b.cached = IF ok THEN r ELSE page[p].cached
  <1>1. page[p] \in PageType
    BY DEF Types
  <1>2. \A c \in Bubbles(p, r) :
          /\ c \in PageType
          /\ c.asked = page[p].asked /\ c.answers = page[p].answers \cup {r}
          /\ c.reworded \subseteq page[p].reworded \cup {r}
          /\ c.errors = page[p].errors /\ c.busy = page[p].busy
          /\ c.greeting = page[p].greeting /\ c.cached = page[p].cached
    BY BubbleShows
  <1>3. CASE r = page[p].busy /\ ok
    <2>1. PICK c \in Bubbles(p, r) : b = [c EXCEPT !.busy = NoOne]
      BY <1>3 DEF Shown
    <2>2. QED
      BY <1>1, <1>2, <1>3, <2>1 DEF PageType
  <1>4. CASE r # page[p].busy /\ ok
    <2>1. PICK c \in Bubbles(p, r) : b = [c EXCEPT !.cached = r, !.greeting = NoOne]
      BY <1>4 DEF Greeted
    <2>2. QED
      BY <1>1, <1>2, <1>4, <2>1 DEF PageType
  <1>5. CASE ~ok
    BY <1>1, <1>5 DEF Shown, Greeted, PageType
  <1>6. QED
    BY <1>3, <1>4, <1>5

\* A failed message offers a retry; an answer is shown, and belongs to a recorded turn.
LEMMA ReceiveKeepsPages ==
  ASSUME Types, TablesOK, PagesOK, NEW p \in Pages, NEW r \in Requests, Receive(p, r)
  PROVE  PagesOK'
  <1>1. PICK ok \in BOOLEAN :
          /\ ok => pc[r] = "answered"
          /\ \E b \in IF r = page[p].busy THEN Shown(p, r, ok) ELSE Greeted(p, r, ok) :
               page' = [page EXCEPT ![p] = b]
          /\ call' = [call EXCEPT ![r].heard = IF ok THEN "answer" ELSE "error"]
          /\ UNCHANGED <<tables, pc>>
    BY DEF Receive
  <1>2. /\ \A q \in Requests : call'[q].op = call[q].op /\ call'[q].prompt = call[q].prompt
        /\ \A q \in Requests \ {r} : call'[q].heard = call[q].heard
        /\ call'[r].heard = IF ok THEN "answer" ELSE "error"
        /\ Recorded' = Recorded /\ Recorded \subseteq Requests
        /\ ok => r \in Recorded
    BY <1>1 DEF Types, CallType, tables, Recorded, TablesOK, RequestOK, After
  <1>3. /\ \A q \in Requests : call[q].prompt \in NoOnes /\ CallOK(q)
        /\ \A q \in Pages : page[q] \in PageType /\ PageOK(q) /\ ErrorsOK(q) /\ AskedOK(q)
    BY DEF Types, CallType, PagesOK
  <1>a. PICK b \in IF r = page[p].busy THEN Shown(p, r, ok) ELSE Greeted(p, r, ok) :
          page' = [page EXCEPT ![p] = b]
    BY <1>1
  <1>b. \A q \in Pages \ {p} : page'[q] = page[q]
    BY <1>a DEF Types
  <1>c. page'[p] = b
    BY <1>a DEF Types
  <1>d. /\ page'[p].asked = page[p].asked
        /\ page'[p].answers = page[p].answers \cup IF ok THEN {r} ELSE {}
        /\ page'[p].reworded \subseteq page[p].reworded \cup IF ok THEN {r} ELSE {}
        /\ r = page[p].busy =>
             /\ page'[p].busy = NoOne /\ page'[p].greeting = page[p].greeting
             /\ page'[p].cached = page[p].cached
             /\ page'[p].errors = page[p].errors \cup IF ok THEN {} ELSE {call[r].prompt}
        /\ r # page[p].busy =>
             /\ page'[p].busy = page[p].busy /\ page'[p].greeting = NoOne
             /\ page'[p].errors = page[p].errors
             /\ page'[p].cached = IF ok THEN r ELSE page[p].cached
    BY <1>a, <1>c, ReceivedShows
  <1>4. /\ \A q \in Pages \ {p} : page'[q] = page[q]
        /\ page'[p].asked = page[p].asked
        /\ page[p].answers \subseteq page'[p].answers /\ page'[p].answers \subseteq Recorded
        /\ page'[p].cached # NoOne => page'[p].cached \in Recorded
        /\ page'[p].greeting # NoOne => page'[p].greeting = page[p].greeting
        /\ page[p].errors \subseteq page'[p].errors
    BY <1>2, <1>3, <1>b, <1>d DEF PageOK
  <1>e. /\ call[r].heard = "waiting"
        /\ \A q \in Pages : page[q].greeting = r => q = p /\ page'[p].greeting = NoOne
    BY <1>3, <1>d, ChatAssumption DEF Receive, PagesOK, PageOK, Apart
  <1>f. ASSUME NEW q \in Pages
        PROVE  /\ page'[q].greeting # NoOne => call'[page'[q].greeting].heard = "waiting"
               /\ page'[q].reworded \subseteq page'[q].answers
               /\ \A x \in page'[q].reworded : call'[x].heard = "answer"
    <2>1. \A x \in page[q].reworded : x # r /\ call'[x].heard = "answer"
      BY <1>2, <1>3, <1>e DEF PageOK, PageType
    <2>2. page'[q].greeting # NoOne => page'[q].greeting = page[q].greeting /\ page[q].greeting # r
      BY <1>4, <1>e
    <2>3. page'[q].greeting # NoOne => call'[page'[q].greeting].heard = "waiting"
      BY <1>2, <1>3, <2>2 DEF PageOK, PageType, NoOnes
    <2>4. CASE q = p
      BY <1>2, <1>3, <1>d, <2>1, <2>3, <2>4 DEF PageOK
    <2>5. CASE q # p
      BY <1>3, <1>b, <2>1, <2>3, <2>5 DEF PageOK
    <2>6. QED
      BY <2>4, <2>5
  <1>5. \A q \in Requests : CallOK(q)'
    BY <1>1, <1>2, <1>3 DEF CallOK
  <1>6. CASE r = page[p].busy
    <2> DEFINE m == call[r].prompt
    <2>1. m \in Requests /\ Settled(r) /\ call[r].op = "chat" /\ pc[m] # "idle"
      BY <1>3, <1>6, ChatAssumption DEF PageOK, CallOK, Settled, NoOnes
    <2>2. /\ page'[p].busy = NoOne
          /\ ok => r \in page'[p].answers /\ page'[p].errors = page[p].errors
          /\ ~ok => page'[p].errors = page[p].errors \cup {m}
      BY <1>d, <1>6
    <2>3. \A q \in Requests \ {r} : call[q].prompt = m => ~Settled(q)
      BY <2>1, ChatAssumption DEF PagesOK, OneSettled
    <2>4. \A q \in Pages : m \notin page[q].errors
      BY <1>3, <2>1 DEF ErrorsOK
    <2>5. OneSettled'
      BY <1>2, <2>1, <2>3 DEF PagesOK, OneSettled, Settled
    <2>6. ASSUME NEW q \in Pages PROVE PageOK(q)'
      <3>1. CASE q = p
        BY <1>1, <1>2, <1>3, <1>4, <1>f, <2>1, <2>2, <3>1 DEF PageOK, PageType, NoOnes
      <3>2. CASE q # p
        <4>1. page[q].busy # NoOne => page[q].busy # r
          BY <1>6, <3>2, ChatAssumption DEF PagesOK, Apart
        <4>2. QED
          BY <1>1, <1>2, <1>3, <1>4, <1>f, <3>2, <4>1 DEF PageOK, PageType, NoOnes
      <3>3. QED
        BY <3>1, <3>2
    <2>7. ASSUME NEW q \in Pages PROVE ErrorsOK(q)'
      <3>1. \A x \in page[q].errors, s \in Requests : call[s].prompt = x => ~Settled(s)'
        BY <1>2, <1>3, <2>4 DEF ErrorsOK, Settled
      <3>2. ~ok => \A s \in Requests : call[s].prompt = m => ~Settled(s)'
        BY <1>2, <2>3 DEF Settled
      <3>3. page'[q].errors \subseteq page[q].errors \cup (IF ok THEN {} ELSE {m})
        BY <1>4, <2>2
      <3>4. QED
        BY <1>2, <3>1, <3>2, <3>3 DEF ErrorsOK
    <2>8. ASSUME NEW q \in Pages PROVE AskedOK(q)'
      <3>1. \A x : Overwritten(x) => Overwritten(x)'
        BY <1>2 DEF Overwritten
      <3>2. \A x \in page[q].asked :
              \/ \E s \in page[q].answers \cup {page[q].busy} : s # NoOne /\ call'[s].prompt = x
              \/ x \in page[q].errors
              \/ Overwritten(x)'
        BY <1>2, <1>3, <3>1 DEF AskedOK, PageType, NoOnes
      <3>3. CASE q # p
        BY <1>4, <3>2, <3>3 DEF AskedOK
      <3>4. CASE q = p
        <4>1. ASSUME NEW x \in page[p].asked,
                     NEW s \in page[p].answers \cup {page[p].busy}, s # NoOne, call'[s].prompt = x
              PROVE  \/ \E t \in page'[p].answers \cup {page'[p].busy} : t # NoOne /\ call'[t].prompt = x
                     \/ x \in page'[p].errors
          <5>1. CASE s \in page[p].answers
            BY <1>4, <4>1, <5>1
          <5>2. CASE s = r
            BY <1>2, <2>2, <4>1, <5>2
          <5>3. QED
            BY <1>6, <5>1, <5>2
        <4>2. QED
          BY <1>4, <3>2, <3>4, <4>1 DEF AskedOK
      <3>5. QED
        BY <3>3, <3>4
    <2>9. \A o, q \in Pages : o # q => Apart(o, q)'
      BY <1>4, <2>2, <2>4 DEF PagesOK, Apart
    <2>10. QED
      BY <1>5, <2>5, <2>6, <2>7, <2>8, <2>9 DEF PagesOK
  <1>7. CASE r # page[p].busy
    <2>1. /\ r = page[p].greeting /\ call[r].prompt = NoOne /\ call[r].op = "greeting"
          /\ \A q \in Pages : page[q].busy # r
      BY <1>3, <1>7, ChatAssumption DEF Receive, PageOK, CallOK
    <2>2. page'[p].busy = page[p].busy /\ page'[p].errors = page[p].errors
      BY <1>d, <1>7
    <2>3. OneSettled'
      BY <1>2, <2>1 DEF PagesOK, OneSettled, Settled
    <2>4. ASSUME NEW q \in Pages PROVE PageOK(q)'
      <3>1. CASE q = p
        BY <1>1, <1>2, <1>3, <1>4, <1>f, <2>1, <2>2, <3>1 DEF PageOK, PageType, NoOnes
      <3>2. CASE q # p
        BY <1>1, <1>2, <1>3, <1>4, <1>f, <2>1, <3>2 DEF PageOK, PageType, NoOnes
      <3>3. QED
        BY <3>1, <3>2
    <2>5. ASSUME NEW q \in Pages PROVE ErrorsOK(q)'
      <3>1. page'[q].errors = page[q].errors /\ page[q].errors \subseteq Requests
        BY <1>3, <1>4, <2>2 DEF PageType
      <3>2. QED
        BY <1>2, <1>3, <2>1, <3>1, ChatAssumption DEF ErrorsOK, Settled
    <2>6. ASSUME NEW q \in Pages PROVE AskedOK(q)'
      <3>1. \A x : Overwritten(x) => Overwritten(x)'
        BY <1>2 DEF Overwritten
      <3>2. \A x \in page[q].asked :
              \/ \E s \in page[q].answers \cup {page[q].busy} : s # NoOne /\ call'[s].prompt = x
              \/ x \in page[q].errors
              \/ Overwritten(x)'
        BY <1>2, <1>3, <3>1 DEF AskedOK, PageType, NoOnes
      <3>3. /\ page'[q].asked = page[q].asked /\ page[q].answers \subseteq page'[q].answers
            /\ page'[q].busy = page[q].busy /\ page'[q].errors = page[q].errors
        BY <1>4, <2>2
      <3>4. QED
        BY <3>2, <3>3 DEF AskedOK
    <2>7. \A o, q \in Pages : o # q => Apart(o, q)'
      BY <1>4, <2>2 DEF PagesOK, Apart
    <2>8. QED
      BY <1>5, <2>3, <2>4, <2>5, <2>6, <2>7 DEF PagesOK
  <1>8. QED
    BY <1>6, <1>7

LEMMA BrowseKeepsPages ==
  ASSUME Types, TablesOK, PagesOK, NEW p \in Pages, Browse(p)
  PROVE  PagesOK'
  <1>1. ASSUME NEW r \in Requests, Send(p, r) PROVE PagesOK'
    <2>1. page' = [page EXCEPT ![p].asked = @ \cup {r}, ![p].busy = r]
      BY <1>1 DEF Send
    <2>2. /\ \A o \in Pages \ {p} : page'[o] = page[o]
          /\ page'[p].busy = r /\ page'[p].greeting = page[p].greeting
          /\ page'[p].cached = page[p].cached /\ page'[p].answers = page[p].answers
          /\ page'[p].reworded = page[p].reworded
          /\ page'[p].asked = page[p].asked \cup {r} /\ page'[p].errors = page[p].errors
      BY <2>1 DEF Types, PageType
    <2>3. r \notin page[p].errors
      BY <1>1 DEF Send, Request, PagesOK, PageOK
    <2>4. QED
      BY <1>1, <2>2, <2>3, RequestKeepsPages DEF Send
  <1>2. ASSUME NEW r \in Requests, Retry(p, r) PROVE PagesOK'
    <2>1. PICK m \in page[p].errors : Request(p, r, "chat", m)
      BY <1>2 DEF Retry
    <2>2. m \in Requests /\ m # r
      BY <2>1 DEF Types, PageType, Request, PagesOK, PageOK
    <2>3. page' = [page EXCEPT ![p].errors = {}, ![p].busy = r]
      BY <1>2 DEF Retry
    <2>4. /\ \A o \in Pages \ {p} : page'[o] = page[o]
          /\ page'[p].busy = r /\ page'[p].greeting = page[p].greeting
          /\ page'[p].cached = page[p].cached /\ page'[p].answers = page[p].answers
          /\ page'[p].reworded = page[p].reworded
          /\ page'[p].asked = page[p].asked /\ page'[p].errors = {}
      BY <2>3 DEF Types, PageType
    <2>5. QED
      BY <1>2, <2>1, <2>2, <2>4, RequestKeepsPages DEF Retry
  <1>3. QED
    BY <1>1, <1>2, OpenKeepsPages, GreetKeepsPages, ReceiveKeepsPages DEF Browse
-----------------------------------------------------------------------------
(***************************************************************************)
(* The theorems.                                                           *)
(***************************************************************************)

LEMMA InitHolds == Init => IInv
  <1> SUFFICES ASSUME Init PROVE IInv
    OBVIOUS
  <1>1. Conversations = {} /\ Recorded = {}
    BY DEF Init, Conversations, Recorded
  <1>2. TablesOK
    BY <1>1 DEF Init, TablesOK, TurnsAreListed, RequestOK, ContextOK, NoCall, Before, After
  <1>3. PagesOK
    BY ChatAssumption DEF Init, PagesOK, CallOK, OneSettled, Settled, PageOK, ErrorsOK, AskedOK, Apart,
                          NoCall, Blank
  <1>4. QED
    BY <1>2, <1>3, InitIsTyped DEF IInv

LEMMA StepHolds == IInv /\ [Next]_vars => IInv'
  <1> SUFFICES ASSUME Types, TablesOK, PagesOK, [Next]_vars PROVE TablesOK' /\ PagesOK'
    BY StepIsTyped DEF IInv
  <1>1. CASE \E p \in Pages : Browse(p)
    BY <1>1, BrowseOnlySends, BrowseKeepsTables, BrowseKeepsPages
  <1>2. CASE \E r \in Requests : Serve(r) \/ Fail(r)
    BY <1>2, ServeKeepsTables, ServeKeepsMessages, ServeKeepsPages
  <1>3. CASE RetryIntake \/ UNCHANGED vars
    <2>1. UNCHANGED <<history, turn, pc, call, page>> /\ prompts \subseteq prompts'
      BY <1>3 DEF RetryIntake, SavePromptData, vars, tables
    <2>2. Recorded' = Recorded /\ Conversations' = Conversations
      BY <2>1 DEF Recorded, Conversations
    <2>3. TablesOK'
      BY <2>1, <2>2 DEF TablesOK, TurnsAreListed, HistoryOK, RequestOK, ContextOK, ReadFar
    <2>4. PagesOK'
      BY <2>1, <2>2, ServeKeepsPages DEF SameMessage
    <2>5. QED
      BY <2>3, <2>4
  <1>4. QED
    BY <1>1, <1>2, <1>3 DEF Next

THEOREM Invariance == Spec => []IInv
  BY InitHolds, StepHolds, PTL DEF Spec

\* Every recorded turn is in one conversation, once, for any number of requests and tabs.
THEOREM TypeCorrect == Spec => []TypeOK
  <1>1. IInv => TypeOK
    BY DEF IInv, Types, TypeOK, TablesOK, TurnsAreListed, HistoryOK, PageType, PagesOK, PageOK
  <1>2. QED
    BY <1>1, Invariance, PTL

\* What a tab shows as an answer belongs to a turn in the tables, in its words unless the tab was
\* answered in others: lost answers, reloads and retries of any number of tabs at once make up no
\* answer and send no message twice unasked.
THEOREM PageStaysTrue == Spec => []PageIsTrue
  <1>1. IInv => AnswersAreKept
    BY DEF IInv, PagesOK, PageOK, TablesOK, RequestOK, AnswersAreKept, Recorded
  <1>2. IInv => RetriesFollowFailures
    <2> SUFFICES ASSUME IInv PROVE RetriesFollowFailures
      OBVIOUS
    <2>1. ASSUME NEW r \in Requests, NEW s \in Requests,
                 r # s, call[r].prompt = call[s].prompt, call[r].op = "chat"
          PROVE  ~(call[r].heard = "answer" /\ call[s].heard \in {"answer", "waiting"})
      BY <2>1 DEF IInv, PagesOK, CallOK, OneSettled, Settled
    <2>2. QED
      BY <2>1 DEF IInv, PagesOK, AskedOK, Overwritten, RetriesFollowFailures
  <1>3. QED
    BY <1>1, <1>2, Invariance, PTL DEF PageIsTrue

\* The engine's context is not older than what the tab showed, in a project with one conversation,
\* whatever is recorded between the reading of the turns and the answer.
THEOREM ContextStaysFresh == Spec => []ContextIsNotOlderThanSeen
  <1>1. IInv => ContextIsNotOlderThanSeen
    <2> SUFFICES ASSUME IInv, NEW r \in Requests, pc[r] \in {"intake", "asking"},
                        ~(Cardinality(Conversations) > 1), call[r].seen # {}
                 PROVE  ReadFar(r, history[call[r].conversation])
      BY DEF ContextIsNotOlderThanSeen, ReadFar
    <2>1. call[r].conversation \in Conversations /\ IsFiniteSet(Conversations)
      BY DEF IInv, TablesOK, RequestOK, Types
    <2>2. Conversations = {call[r].conversation}
      BY <2>1, OneMember
    <2>3. QED
      BY <2>2 DEF IInv, TablesOK, ContextOK
  <1>2. QED
    BY <1>1, Invariance, PTL
=============================================================================
