------------------------ MODULE OutreachPage_proofs ------------------------
(***************************************************************************)
(* Proofs about OutreachPage, for any set of threads and any number of     *)
(* clicks, open requests and mails: whatever the order in which answers    *)
(* arrive, a reply goes to the thread it quotes, a draft is mailed twice   *)
(* only when its reader could not know of the first mail, and the poll     *)
(* leaves the reply being written alone.                                   *)
(***************************************************************************)
EXTENDS OutreachPage, SequenceTheorems, TLAPS
-----------------------------------------------------------------------------
(***************************************************************************)
(* The inductive invariant.                                                *)
(***************************************************************************)

\* What is said of a card whatever list it is in: a sent draft has its message.
CardOK(c) == c \in Cards /\ (c.draft = "sent" => c.messages)

\* A list of cards, of the service, of an answer or of the page.
ListOK(cs) ==
  /\ cs \in Seq(Cards)
  /\ \A i, j \in DOMAIN cs : cs[i].thread = cs[j].thread => i = j
  /\ \A i \in DOMAIN cs : CardOK(cs[i])

States == {"idle", "asked", "working", "answered", "failed"}

RequestOK(op, r) ==
  /\ r.at \in States
  /\ r.at = "working" => op \in {"revise", "retry"}
  /\ r.at # "idle" => r.thread \in IF op \in {"load", "create"} THEN {None} ELSE Threads
  /\ r.at = "answered" => ListOK(r.cards) /\ r.new \in Maybe(Threads)
  /\ op = "reply" /\ r.at = "asked" =>
       r.body \in Texts /\ r.quoted = r.thread /\ (r.body.for # r.thread => r.body.moved)

UIs == [tab: {"other", "outreach"}, loaded: BOOLEAN, tried: BOOLEAN,
        selected: Maybe(Threads), compose: Maybe(Threads), pane: {"read", "create"},
        reply: Maybe(Threads),
        body: Maybe(Texts), hint: Maybe(Texts), wandered: BOOLEAN]

\* The texts on the page are for the thread their composer is on.
TextsOK(u) == \A text \in {u.body, u.hint} \ {None} : text.for # u.reply => text.moved

\* The panel's effect has nothing left to do.
Following(u, cs) ==
  LET t == Selected(u, cs) IN
  u.tab = "outreach" /\ t # None /\ Card(cs, t).messages => u.reply = t

PageOK ==
  /\ ui \in UIs
  /\ ListOK(cards)
  /\ TextsOK(ui)
  /\ Following(ui, cards)

RequestsOK == DOMAIN reqs = Ops /\ \A op \in Ops : RequestOK(op, reqs[op])

ServiceOK ==
  /\ ListOK(srv)
  /\ mails \in [Threads -> Maybe(0 .. 2)]
  /\ \A t \in Threads : Has(srv, t) => mails[t] # None
  /\ unsure \subseteq Threads

CountsOK == clicks \in 0 .. MaxClicks /\ arrived \in 0 .. MaxMail

\* One mail left with the draft of t, and the reader can know.
Known(t) == mails[t] = 1 /\ t \notin unsure
Sending(t) == reqs["send"].at # "idle" /\ reqs["send"].thread = t

\* What the page has of a draft that was sent: not the composer, and no card on
\* which to open it.
OutOfReach(t) ==
  /\ ~(ui.pane = "create" /\ ui.compose = t /\ Has(cards, t) /\ Card(cards, t).draft # "none")
  /\ Has(cards, t) /\ Unsent(Card(cards, t)) => Card(cards, t).messages

SentOnce(t) ==
  /\ mails[t] = 2 => t \in unsure
  /\ Known(t) /\ Drafted(t) =>
       /\ Card(srv, t).draft = "sent"
       /\ ~(Sending(t) /\ reqs["send"].at \in {"asked", "failed"})
       /\ Sending(t) \/ OutOfReach(t)

IInv == CountsOK /\ RequestsOK /\ ServiceOK /\ PageOK /\ \A t \in Threads : SentOnce(t)
-----------------------------------------------------------------------------
(***************************************************************************)
(* Lists of cards.                                                         *)
(***************************************************************************)

\* A listed thread has its card.
LEMMA CardOfThread ==
  ASSUME NEW cs, ListOK(cs), NEW t, Has(cs, t)
  PROVE  /\ Place(cs, t) \in DOMAIN cs
         /\ Card(cs, t) = cs[Place(cs, t)]
         /\ Card(cs, t).thread = t
         /\ CardOK(Card(cs, t))
         /\ t \in Threads
<1>1. \E i \in DOMAIN cs : cs[i].thread = t
  BY DEF Has
<1>2. Place(cs, t) \in DOMAIN cs /\ cs[Place(cs, t)].thread = t
  BY <1>1 DEF Place
<1>3. CardOK(cs[Place(cs, t)])
  BY <1>2 DEF ListOK
<1> QED
  BY <1>2, <1>3 DEF Card, CardOK, Cards

\* A place of the list is that of its thread's card.
LEMMA CardAtPlace ==
  ASSUME NEW cs, ListOK(cs), NEW i \in DOMAIN cs
  PROVE  /\ Has(cs, cs[i].thread)
         /\ Place(cs, cs[i].thread) = i
         /\ Card(cs, cs[i].thread) = cs[i]
<1>1. Has(cs, cs[i].thread)
  BY DEF Has
<1>2. Place(cs, cs[i].thread) \in DOMAIN cs /\ cs[Place(cs, cs[i].thread)].thread = cs[i].thread
  BY <1>1, CardOfThread
<1>3. Place(cs, cs[i].thread) = i
  BY <1>2 DEF ListOK
<1> QED
  BY <1>1, <1>3 DEF Card

\* Put changes the card of one listed thread.
LEMMA PutCard ==
  ASSUME NEW cs, ListOK(cs), NEW c, CardOK(c)
  PROVE  /\ ListOK(Put(cs, c))
         /\ \A t : Has(Put(cs, c), t) <=> Has(cs, t)
         /\ \A t : Has(cs, t) =>
              Card(Put(cs, c), t) = IF t = c.thread THEN c ELSE Card(cs, t)
<1> DEFINE new == Put(cs, c)
<1>1. /\ DOMAIN new = DOMAIN cs
      /\ \A i \in DOMAIN cs : new[i] = IF cs[i].thread = c.thread THEN c ELSE cs[i]
  BY DEF Put
<1>2. cs \in Seq(Cards) /\ DOMAIN cs = 1 .. Len(cs)
  BY DEF ListOK
<1>3. \A i \in DOMAIN cs : CardOK(new[i]) /\ new[i].thread = cs[i].thread
  BY <1>1 DEF ListOK
<1>4. new \in Seq(Cards)
  BY <1>1, <1>2, <1>3 DEF Put, CardOK
<1>5. ListOK(new)
  BY <1>1, <1>3, <1>4 DEF ListOK
<1>6. ASSUME NEW t
      PROVE  Has(new, t) <=> Has(cs, t)
  BY <1>1, <1>3 DEF Has
<1>7. ASSUME NEW t, Has(cs, t)
      PROVE  Card(new, t) = IF t = c.thread THEN c ELSE Card(cs, t)
  <2>1. /\ Place(cs, t) \in DOMAIN cs
        /\ Card(cs, t) = cs[Place(cs, t)]
        /\ Card(cs, t).thread = t
    BY <1>7, CardOfThread
  <2>2. Card(new, new[Place(cs, t)].thread) = new[Place(cs, t)]
    BY <1>1, <1>5, <2>1, CardAtPlace
  <2> QED
    BY <1>1, <1>3, <2>1, <2>2
<1> QED
  BY <1>5, <1>6, <1>7

\* Without takes one thread off.
LEMMA WithoutCard ==
  ASSUME NEW cs, ListOK(cs), NEW t
  PROVE  /\ ListOK(Without(cs, t))
         /\ \A u : Has(Without(cs, t), u) <=> Has(cs, u) /\ u # t
         /\ \A u : Has(cs, u) /\ u # t => Card(Without(cs, t), u) = Card(cs, u)
<1> DEFINE new == Without(cs, t)
<1>1. CASE ~Has(cs, t)
  BY <1>1 DEF Without
<1>2. CASE Has(cs, t)
  <2> DEFINE p == Place(cs, t)
  <2>1. cs \in Seq(Cards) /\ DOMAIN cs = 1 .. Len(cs) /\ Len(cs) \in Nat
    BY DEF ListOK
  <2>2. p \in 1 .. Len(cs) /\ cs[p].thread = t
    BY <1>2, <2>1, CardOfThread
  <2>3. new = SubSeq(cs, 1, p - 1) \o SubSeq(cs, p + 1, Len(cs))
    BY <1>2 DEF Without, RemoveAt
  <2> HIDE DEF p, new
  <2>4. /\ new \in Seq(Cards)
        /\ Len(new) = Len(cs) - 1
        /\ DOMAIN new = 1 .. Len(cs) - 1
        /\ \A i \in 1 .. Len(cs) - 1 : new[i] = IF i < p THEN cs[i] ELSE cs[i + 1]
    <3> DEFINE a == SubSeq(cs, 1, p - 1)
               b == SubSeq(cs, p + 1, Len(cs))
    <3>1. \A i \in 1 .. Len(cs) : cs[i] \in Cards
      BY <2>1
    <3>2. p \in Int /\ p - 1 \in Int /\ p + 1 \in Int
      BY <2>1, <2>2
    <3>3. /\ a \in Seq(Cards)
          /\ Len(a) = p - 1
          /\ \A i \in 1 .. p - 1 : a[i] = cs[i]
      <4>1. \A i \in 1 .. p - 1 : cs[i] \in Cards
        BY <2>1, <2>2, <3>1
      <4>2. /\ a \in Seq(Cards)
            /\ Len(a) = IF 1 <= p - 1 THEN p - 1 - 1 + 1 ELSE 0
            /\ \A i \in 1 .. p - 1 - 1 + 1 : a[i] = cs[1 + i - 1]
        BY <3>2, <4>1, SubSeqProperties
      <4> HIDE DEF a
      <4> QED
        BY <2>1, <2>2, <4>2
    <3>4. /\ b \in Seq(Cards)
          /\ Len(b) = Len(cs) - p
          /\ \A i \in 1 .. Len(cs) - p : b[i] = cs[p + i]
      <4>1. \A i \in p + 1 .. Len(cs) : cs[i] \in Cards
        BY <2>1, <2>2, <3>1
      <4>2. /\ b \in Seq(Cards)
            /\ Len(b) = IF p + 1 <= Len(cs) THEN Len(cs) - (p + 1) + 1 ELSE 0
            /\ \A i \in 1 .. Len(cs) - (p + 1) + 1 : b[i] = cs[p + 1 + i - 1]
        BY <2>1, <3>2, <4>1, SubSeqProperties
      <4> HIDE DEF b
      <4>3. Len(b) = Len(cs) - p
        <5>1. PICK n \in Nat : n = Len(cs)
          BY <2>1
        <5>2. p \in 1 .. n /\ Len(b) = IF p + 1 <= n THEN n - (p + 1) + 1 ELSE 0
          BY <2>1, <2>2, <4>2, <5>1
        <5> QED
          BY <5>1, <5>2
      <4>4. ASSUME NEW i \in 1 .. Len(cs) - p
            PROVE  b[i] = cs[p + i]
        <5>1. i \in 1 .. Len(cs) - (p + 1) + 1 /\ p + 1 + i - 1 = p + i
          BY <2>1, <2>2
        <5> QED
          BY <4>2, <5>1
      <4> QED
        BY <4>2, <4>3, <4>4
    <3>5. /\ a \o b \in Seq(Cards)
          /\ Len(a \o b) = Len(a) + Len(b)
          /\ \A i \in 1 .. Len(a) + Len(b) :
               (a \o b)[i] = IF i <= Len(a) THEN a[i] ELSE b[i - Len(a)]
      BY <3>3, <3>4, ConcatProperties
    <3>6. new = a \o b
      BY <2>3
    <3> HIDE DEF a, b
    <3>7. new \in Seq(Cards) /\ Len(new) = Len(cs) - 1 /\ DOMAIN new = 1 .. Len(cs) - 1
      <4>1. new \in Seq(Cards) /\ Len(new) = Len(a) + Len(b)
        BY <3>5, <3>6
      <4>2. Len(a) + Len(b) = Len(cs) - 1
        BY <2>1, <2>2, <3>3, <3>4
      <4> QED
        BY <4>1, <4>2
    <3>8. ASSUME NEW i \in 1 .. Len(cs) - 1
          PROVE  new[i] = IF i < p THEN cs[i] ELSE cs[i + 1]
      <4>1. CASE i < p
        BY <2>1, <2>2, <3>3, <3>4, <3>5, <3>6, <4>1
      <4>2. CASE ~(i < p)
        <5>1. i - (p - 1) \in 1 .. Len(cs) - p /\ p + (i - (p - 1)) = i + 1
          BY <2>1, <2>2, <4>2
        <5>2. new[i] = b[i - (p - 1)]
          BY <2>1, <2>2, <3>3, <3>4, <3>5, <3>6, <4>2
        <5> QED
          BY <3>4, <4>2, <5>1, <5>2
      <4> QED
        BY <4>1, <4>2
    <3> QED
      BY <3>7, <3>8
  <2>5. ListOK(new)
    <3>1. \A i \in DOMAIN new :
            \E j \in DOMAIN cs : new[i] = cs[j] /\ j = IF i < p THEN i ELSE i + 1
      BY <2>1, <2>2, <2>4
    <3>2. \A i \in DOMAIN new : CardOK(new[i])
      BY <3>1 DEF ListOK
    <3>3. \A i, j \in DOMAIN new : new[i].thread = new[j].thread => i = j
      BY <2>1, <2>2, <2>4, <3>1 DEF ListOK
    <3> QED
      BY <2>4, <3>2, <3>3 DEF ListOK
  <2>6. ASSUME NEW i \in DOMAIN cs, i # p
        PROVE  \E j \in DOMAIN new : new[j] = cs[i]
    <3>1. CASE i < p
      BY <2>1, <2>2, <2>4, <3>1
    <3>2. CASE i > p
      <4>1. i - 1 \in DOMAIN new /\ new[i - 1] = cs[i]
        BY <2>1, <2>2, <2>4, <3>2
      <4> QED
        BY <4>1
    <3> QED
      BY <2>1, <2>2, <2>6, <3>1, <3>2
  <2>7. ASSUME NEW u, Has(cs, u), u # t
        PROVE  Has(new, u) /\ Card(new, u) = Card(cs, u)
    <3>1. /\ Place(cs, u) \in DOMAIN cs
          /\ Card(cs, u) = cs[Place(cs, u)]
          /\ Card(cs, u).thread = u
      BY <2>7, CardOfThread
    <3>2. PICK j \in DOMAIN new : new[j] = Card(cs, u)
      BY <2>2, <2>6, <2>7, <3>1
    <3> QED
      BY <2>5, <3>1, <3>2, CardAtPlace
  <2>8. ASSUME NEW u, Has(new, u)
        PROVE  Has(cs, u) /\ u # t
    <3>1. PICK j \in DOMAIN new : new[j].thread = u
      BY <2>8 DEF Has
    <3>2. PICK i \in DOMAIN cs : i # p /\ cs[i] = new[j]
      <4>1. CASE j < p
        BY <2>1, <2>2, <2>4, <4>1
      <4>2. CASE ~(j < p)
        BY <2>1, <2>2, <2>4, <4>2
      <4> QED
        BY <4>1, <4>2
    <3>3. Has(cs, u)
      BY <3>1, <3>2 DEF Has
    <3>4. u # t
      BY <2>1, <2>2, <3>1, <3>2 DEF ListOK
    <3> QED
      BY <3>3, <3>4
  <2> QED
    BY <2>5, <2>7, <2>8 DEF new
<1> QED
  BY <1>1, <1>2

\* Raise puts a card first, in the place of the one its thread had.
LEMMA RaiseCard ==
  ASSUME NEW cs, ListOK(cs), NEW c, CardOK(c)
  PROVE  /\ ListOK(Raise(cs, c))
         /\ \A t : Has(Raise(cs, c), t) <=> Has(cs, t) \/ t = c.thread
         /\ \A t : Has(cs, t) \/ t = c.thread =>
              Card(Raise(cs, c), t) = IF t = c.thread THEN c ELSE Card(cs, t)
<1> DEFINE old == Without(cs, c.thread)
           new == Raise(cs, c)
<1>1. /\ ListOK(old)
      /\ \A u : Has(old, u) <=> Has(cs, u) /\ u # c.thread
      /\ \A u : Has(cs, u) /\ u # c.thread => Card(old, u) = Card(cs, u)
  BY WithoutCard
<1>2. new = <<c>> \o old
  BY DEF Raise
<1> HIDE DEF old, new
<1>3. old \in Seq(Cards) /\ Len(old) \in Nat /\ DOMAIN old = 1 .. Len(old)
  BY <1>1 DEF ListOK
<1>4. c \in Cards
  BY DEF CardOK
<1>5. /\ new \in Seq(Cards)
      /\ DOMAIN new = 1 .. Len(old) + 1
      /\ new[1] = c
      /\ \A i \in 2 .. Len(old) + 1 : new[i] = old[i - 1]
      /\ \A i \in DOMAIN old : i + 1 \in DOMAIN new /\ new[i + 1] = old[i]
  BY <1>2, <1>3, <1>4
<1>6. \A i \in DOMAIN old : old[i].thread # c.thread
  BY <1>1 DEF Has
<1>7. ListOK(new)
  <2>1. \A i, j \in DOMAIN new : new[i].thread = new[j].thread => i = j
    <3> SUFFICES ASSUME NEW i \in DOMAIN new, NEW j \in DOMAIN new, new[i].thread = new[j].thread
                 PROVE  i = j
      OBVIOUS
    <3>1. CASE i = 1 \/ j = 1
      <4>1. \A k \in DOMAIN new : k = 1 \/ (k - 1 \in DOMAIN old /\ new[k] = old[k - 1])
        BY <1>3, <1>5
      <4>2. \A k \in DOMAIN new : new[k].thread = c.thread => k = 1
        BY <1>6, <4>1
      <4> QED
        BY <1>5, <3>1, <4>2
    <3>2. CASE i # 1 /\ j # 1
      <4>1. i - 1 \in DOMAIN old /\ j - 1 \in DOMAIN old /\ new[i] = old[i - 1] /\ new[j] = old[j - 1]
        BY <1>3, <1>5, <3>2
      <4>2. i - 1 = j - 1
        BY <1>1, <4>1 DEF ListOK
      <4> QED
        BY <1>3, <1>5, <4>2
    <3> QED
      BY <3>1, <3>2
  <2>2. ASSUME NEW i \in DOMAIN new
        PROVE  CardOK(new[i])
    <3>1. CASE i = 1
      BY <1>5, <3>1
    <3>2. CASE i # 1
      <4>1. i - 1 \in DOMAIN old /\ new[i] = old[i - 1]
        BY <1>3, <1>5, <3>2
      <4> QED
        BY <1>1, <4>1 DEF ListOK
    <3> QED
      BY <3>1, <3>2
  <2> QED
    BY <1>5, <2>1, <2>2 DEF ListOK
<1>8. ASSUME NEW t, Has(new, t)
      PROVE  Has(cs, t) \/ t = c.thread
  <2>1. PICK i \in DOMAIN new : new[i].thread = t
    BY <1>8 DEF Has
  <2>2. CASE i = 1
    BY <1>5, <2>1, <2>2
  <2>3. CASE i # 1
    <3>1. i - 1 \in DOMAIN old /\ old[i - 1].thread = t
      BY <1>3, <1>5, <2>1, <2>3
    <3> QED
      BY <1>1, <3>1 DEF Has
  <2> QED
    BY <2>2, <2>3
<1>9. Has(new, c.thread) /\ Card(new, c.thread) = c
  <2>1. 1 \in DOMAIN new
    BY <1>3, <1>5
  <2> QED
    BY <1>5, <1>7, <2>1, CardAtPlace
<1>10. ASSUME NEW t, Has(cs, t), t # c.thread
       PROVE  Has(new, t) /\ Card(new, t) = Card(cs, t)
  <2>1. /\ Place(old, t) \in DOMAIN old
        /\ Card(old, t) = old[Place(old, t)]
        /\ Card(old, t).thread = t
        /\ Card(old, t) = Card(cs, t)
    BY <1>1, <1>10, CardOfThread
  <2>2. Place(old, t) + 1 \in DOMAIN new /\ new[Place(old, t) + 1] = Card(cs, t)
    BY <1>5, <2>1
  <2> QED
    BY <1>7, <2>1, <2>2, CardAtPlace
<1> QED
  BY <1>7, <1>8, <1>9, <1>10 DEF new
-----------------------------------------------------------------------------
(***************************************************************************)
(* The page's own functions.                                               *)
(***************************************************************************)

\* The newest thread and the selected one are listed.
LEMMA NewestListed ==
  ASSUME NEW cs, ListOK(cs)
  PROVE  /\ Newest(cs) \in Maybe(Threads)
         /\ Newest(cs) # None => Has(cs, Newest(cs))
<1>1. CASE cs = <<>>
  BY <1>1 DEF Newest, Maybe
<1>2. CASE cs # <<>>
  <2>1. 1 \in DOMAIN cs
    BY <1>2 DEF ListOK
  <2> QED
    BY <1>2, <2>1, CardAtPlace, CardOfThread DEF Newest, Maybe
<1> QED
  BY <1>1, <1>2

LEMMA SelectedListed ==
  ASSUME NEW cs, ListOK(cs), NEW u \in UIs
  PROVE  /\ Selected(u, cs) \in Maybe(Threads)
         /\ Selected(u, cs) # None => Has(cs, Selected(u, cs))
BY NewestListed DEF Selected, UIs, Maybe

\* Closing the composer of replies takes its texts along.
LEMMA CloseReplyPage ==
  ASSUME NEW u \in UIs
  PROVE  /\ CloseReply(u) \in UIs
         /\ TextsOK(CloseReply(u))
         /\ CloseReply(u).reply = None
         /\ CloseReply(u).tab = u.tab
         /\ CloseReply(u).selected = u.selected
         /\ CloseReply(u).compose = u.compose
         /\ CloseReply(u).pane = u.pane
BY DEF CloseReply, UIs, Maybe, TextsOK

LEMMA OpenReplyPage ==
  ASSUME NEW u \in UIs, NEW t \in Threads
  PROVE  /\ OpenReply(u, t) \in UIs
         /\ TextsOK(OpenReply(u, t))
         /\ OpenReply(u, t).reply = t
         /\ OpenReply(u, t).tab = u.tab
         /\ OpenReply(u, t).selected = u.selected
         /\ OpenReply(u, t).compose = u.compose
         /\ OpenReply(u, t).pane = "read"
<1> DEFINE c == CloseReply(u)
<1>1. c \in UIs /\ c.tab = u.tab /\ c.selected = u.selected /\ c.compose = u.compose
  BY CloseReplyPage
<1>2. c.body = None /\ c.hint = None
  BY DEF CloseReply, UIs
<1> HIDE DEF c
<1>3. PICK v : v = [c EXCEPT !.reply = t, !.pane = "read"]
  OBVIOUS
<1>4. v = OpenReply(u, t)
  BY <1>3 DEF OpenReply, c
<1>5. v \in UIs
  BY <1>1, <1>3 DEF UIs, Maybe
<1>6. /\ v.reply = t /\ v.pane = "read" /\ v.body = None /\ v.hint = None
      /\ v.tab = u.tab /\ v.selected = u.selected /\ v.compose = u.compose
  BY <1>1, <1>2, <1>3 DEF UIs
<1>7. TextsOK(v)
  BY <1>6 DEF TextsOK
<1> QED
  BY <1>4, <1>5, <1>6, <1>7

\* What the panel's effect leaves.
LEMMA SettledPage ==
  ASSUME NEW u \in UIs, NEW cs, ListOK(cs)
  PROVE  /\ Settled(u, cs) \in UIs
         /\ TextsOK(u) => TextsOK(Settled(u, cs))
         /\ Following(Settled(u, cs), cs)
         /\ Settled(u, cs).tab = u.tab
         /\ Settled(u, cs).selected = u.selected
         /\ Settled(u, cs).compose = u.compose
         /\ Settled(u, cs).pane = "create" => Settled(u, cs) = u
<1> DEFINE t == Selected(u, cs)
<1>1. CASE u.tab = "outreach" /\ t # None /\ Card(cs, t).messages /\ u.reply # t
  <2>1. t \in Threads
    BY <1>1, SelectedListed DEF Maybe
  <2>2. Settled(u, cs) = OpenReply(u, t)
    BY <1>1 DEF Settled
  <2>3. PICK v : v = OpenReply(u, t)
    OBVIOUS
  <2>4. /\ v \in UIs
        /\ TextsOK(v)
        /\ v.reply = t
        /\ v.tab = u.tab
        /\ v.selected = u.selected
        /\ v.compose = u.compose
        /\ v.pane = "read"
    BY <2>1, <2>3, OpenReplyPage
  <2>5. Selected(v, cs) = t
    BY <1>1, <2>4 DEF Selected
  <2> QED
    BY <2>2, <2>3, <2>4, <2>5 DEF Following
<1>2. CASE ~(u.tab = "outreach" /\ t # None /\ Card(cs, t).messages /\ u.reply # t)
  <2>1. Settled(u, cs) = u
    BY <1>2 DEF Settled
  <2> QED
    BY <1>2, <2>1 DEF Following
<1> QED
  BY <1>1, <1>2

\* What every click and every answer shows.
LEMMA ShowPage ==
  ASSUME NEW u \in UIs, TextsOK(u), NEW cs, ListOK(cs), NEW rs, ui \in UIs, Show(u, cs, rs)
  PROVE  /\ ui' \in UIs
         /\ TextsOK(ui')
         /\ Following(ui', cs)
         /\ ui'.tab = u.tab
         /\ ui'.selected = u.selected
         /\ ui'.compose = u.compose
         /\ ui'.pane = "create" => u.pane = "create"
         /\ ui'.pane = Settled(u, cs).pane
         /\ ui'.reply = Settled(u, cs).reply
         /\ ui'.body = Settled(u, cs).body
<1>1. PICK v : v = Settled(u, cs)
  OBVIOUS
<1>2. /\ v \in UIs
      /\ TextsOK(v)
      /\ Following(v, cs)
      /\ v.tab = u.tab
      /\ v.selected = u.selected
      /\ v.compose = u.compose
      /\ v.pane = "create" => v = u
  BY <1>1, SettledPage
<1>3. PICK b \in BOOLEAN : ui' = [v EXCEPT !.wandered = b]
  <2>1. ui' = [v EXCEPT !.wandered = Wandered(v, rs)]
    BY <1>1 DEF Show
  <2>2. Wandered(v, rs) \in BOOLEAN
    BY DEF Wandered
  <2> QED
    BY <2>1, <2>2
<1>4. ui' \in UIs
  BY <1>2, <1>3 DEF UIs
<1>5. /\ ui'.tab = v.tab /\ ui'.selected = v.selected /\ ui'.compose = v.compose
      /\ ui'.pane = v.pane /\ ui'.reply = v.reply /\ ui'.body = v.body /\ ui'.hint = v.hint
  BY <1>2, <1>3 DEF UIs
<1>6. TextsOK(ui')
  BY <1>2, <1>5 DEF TextsOK
<1>7. Following(ui', cs)
  <2>1. Selected(ui', cs) = Selected(v, cs)
    BY <1>5 DEF Selected
  <2> QED
    BY <1>2, <1>5, <2>1 DEF Following
<1> QED
  BY <1>1, <1>2, <1>4, <1>5, <1>6, <1>7

\* What an answer leaves before its request's own code goes on.
LEMMA AppliedPage ==
  ASSUME NEW u \in UIs, TextsOK(u), NEW cs, ListOK(cs)
  PROVE  /\ Applied(u, cs) \in UIs
         /\ TextsOK(Applied(u, cs))
         /\ Applied(u, cs).tab = u.tab
<1>1. PICK a : a = [u EXCEPT !.loaded = TRUE]
  OBVIOUS
<1>2. a \in UIs /\ TextsOK(a) /\ a.tab = u.tab
  BY <1>1 DEF UIs, TextsOK
<1>3. PICK v : v = Reselected(a, cs)
  OBVIOUS
<1>4. v \in UIs /\ TextsOK(v) /\ v.tab = u.tab
  <2>1. PICK n \in Maybe(Threads), pane \in {"read", "create"}, c \in Maybe(Threads) :
          v = a \/ v = [a EXCEPT !.selected = n, !.pane = pane, !.compose = c]
    <3>1. DefaultPane(cs, Newest(cs)) \in {"read", "create"}
      BY DEF DefaultPane
    <3>2. Newest(cs) \in Maybe(Threads) /\ None \in Maybe(Threads)
      BY NewestListed DEF Maybe
    <3> QED
      BY <1>3, <3>1, <3>2 DEF Reselected
  <2> QED
    BY <1>2, <2>1 DEF UIs, TextsOK
<1>5. PICK w : w = IF v.compose # None /\ ~Has(cs, v.compose) THEN [v EXCEPT !.compose = None] ELSE v
  OBVIOUS
<1>6. w \in UIs /\ TextsOK(w) /\ w.tab = u.tab
  BY <1>4, <1>5 DEF UIs, TextsOK, Maybe
<1>7. PICK x : x = IF w.reply # None /\ ~Has(cs, w.reply) THEN CloseReply(w) ELSE w
  OBVIOUS
<1>8. x \in UIs /\ TextsOK(x) /\ x.tab = u.tab
  BY <1>6, <1>7, CloseReplyPage
<1>9. Applied(u, cs) = Settled(x, cs)
  BY <1>1, <1>3, <1>5, <1>7 DEF Applied
<1> QED
  BY <1>8, <1>9, SettledPage
\* A suggestion that comes back to a composer which has left its thread says so.
LEMMA SuggestionSays ==
  ASSUME NEW u \in UIs, reqs["suggest"].at = "answered",
         u.reply # reqs["suggest"].thread
  PROVE  Wandered(u, reqs) = TRUE
BY DEF Wandered

\* What the page shows of a canceled draft.
LEMMA CanceledPage ==
  ASSUME NEW u \in UIs, NEW cs, ListOK(cs), NEW t
  PROVE  /\ Canceled(u, cs, t) \in UIs
         /\ TextsOK(Canceled(u, cs, t))
<1>1. PICK a : a = [u EXCEPT !.compose = IF @ = t THEN None ELSE @,
                             !.selected = IF @ = t THEN Newest(cs) ELSE @]
  OBVIOUS
<1>2. a \in UIs
  <2>1. Newest(cs) \in Maybe(Threads)
    BY NewestListed
  <2> QED
    BY <1>1, <2>1 DEF UIs, Maybe
<1>3. PICK v : v = CloseReply(a)
  OBVIOUS
<1>4. v \in UIs /\ TextsOK(v)
  BY <1>2, <1>3, CloseReplyPage
<1>5. CASE cs = <<>>
  <2>1. PICK w : w = [v EXCEPT !.selected = None, !.compose = None, !.pane = "create"]
    OBVIOUS
  <2>2. w \in UIs
    BY <1>4, <2>1 DEF UIs, Maybe
  <2>3. Canceled(u, cs, t) = CloseReply(w)
    BY <1>1, <1>3, <1>5, <2>1 DEF Canceled, StartNew
  <2> QED
    BY <2>2, <2>3, CloseReplyPage
<1>6. CASE cs # <<>>
  <2>1. PICK pane \in {"read", "create"} : Canceled(u, cs, t) = [v EXCEPT !.pane = pane]
    <3>1. \A s : DefaultPane(cs, s) \in {"read", "create"}
      BY DEF DefaultPane
    <3>2. Canceled(u, cs, t) = [v EXCEPT !.pane = IF v.selected = None THEN "read"
                                                  ELSE DefaultPane(cs, Selected(v, cs))]
      BY <1>1, <1>3, <1>6 DEF Canceled
    <3> QED
      BY <3>1, <3>2
  <2> QED
    BY <1>4, <2>1 DEF UIs, TextsOK
<1> QED
  BY <1>5, <1>6

\* What each request's own code leaves.
LEMMA ContinuedPage ==
  ASSUME NEW op \in Ops, RequestOK(op, reqs[op]), reqs[op].at = "answered",
         ui \in UIs, NEW u \in UIs, TextsOK(u)
  PROVE  /\ Continued(op, u) \in UIs
         /\ TextsOK(Continued(op, u))
         /\ op = "send" => Continued(op, u).pane = "read"
         /\ op = "load" => Continued(op, u) = u
<1>1. CASE op = "create"
  <2>1. Continued(op, u) = [u EXCEPT !.selected = reqs[op].new, !.compose = reqs[op].new, !.pane = "create"]
    BY <1>1 DEF Continued, Cancels
  <2>2. PICK n \in Maybe(Threads) : n = reqs[op].new
    BY DEF RequestOK
  <2> QED
    BY <1>1, <2>1, <2>2 DEF UIs, TextsOK
<1>2. CASE op = "send"
  <2>1. Continued(op, u) = [u EXCEPT !.pane = "read"]
    BY <1>2 DEF Continued, Cancels
  <2> QED
    BY <1>2, <2>1 DEF UIs, TextsOK
<1>3. CASE op \in {"revise", "retry"}
  <2>1. Continued(op, u) = [u EXCEPT !.pane = "create"]
    BY <1>3 DEF Continued, Cancels
  <2> QED
    BY <1>3, <2>1 DEF UIs, TextsOK
<1>4. CASE op \in Cancels
  <2>1. Continued(op, u) = Canceled(u, reqs[op].cards, reqs[op].thread)
    BY <1>4 DEF Continued, Cancels
  <2>2. ListOK(reqs[op].cards)
    BY DEF RequestOK
  <2> QED
    BY <1>4, <2>1, <2>2, CanceledPage DEF Cancels
<1>5. CASE op = "reply"
  <2>1. Continued(op, u) = [CloseReply(u) EXCEPT !.pane = "read"]
    BY <1>5 DEF Continued, Cancels
  <2>2. PICK v : v = CloseReply(u)
    OBVIOUS
  <2>3. v \in UIs /\ TextsOK(v)
    BY <2>2, CloseReplyPage
  <2> QED
    BY <1>5, <2>1, <2>2, <2>3 DEF UIs, TextsOK
<1>6. CASE op = "suggest"
  <2>1. PICK b \in BOOLEAN : b = Wandered(u, reqs)
    BY DEF Wandered
  <2>2. PICK t \in Threads : t = reqs[op].thread
    BY <1>6 DEF RequestOK
  <2>3. Continued(op, u) = [u EXCEPT !.hint = [for |-> t, moved |-> b]]
    BY <1>6, <2>1, <2>2 DEF Continued, Cancels
  <2>4. t # u.reply => b = TRUE
    BY <1>6, <2>1, <2>2, SuggestionSays
  <2>5. PICK h \in Texts : h = [for |-> t, moved |-> b]
    BY DEF Texts
  <2>6. [u EXCEPT !.hint = h] \in UIs
    BY DEF UIs, Maybe
  <2>7. /\ [u EXCEPT !.hint = h].hint = h
        /\ [u EXCEPT !.hint = h].body = u.body
        /\ [u EXCEPT !.hint = h].reply = u.reply
    BY DEF UIs
  <2>8. TextsOK([u EXCEPT !.hint = h])
    BY <2>4, <2>5, <2>7 DEF TextsOK
  <2> QED
    BY <1>6, <2>3, <2>5, <2>6, <2>8
<1>7. CASE op = "load"
  BY <1>7 DEF Continued, Cancels
<1> QED
  BY <1>1, <1>2, <1>3, <1>4, <1>5, <1>6, <1>7 DEF Ops, Cancels
-----------------------------------------------------------------------------
(***************************************************************************)
(* Requests.                                                               *)
(***************************************************************************)

LEMMA RequestReplaced ==
  ASSUME RequestsOK, NEW op \in Ops, NEW r, RequestOK(op, r), reqs' = [reqs EXCEPT ![op] = r]
  PROVE  /\ RequestsOK'
         /\ reqs'[op] = r
         /\ \A o \in Ops : o # op => reqs'[o] = reqs[o]
<1>1. DOMAIN reqs' = Ops /\ \A o \in Ops : reqs'[o] = IF o = op THEN r ELSE reqs[o]
  BY DEF RequestsOK
<1>2. \A o \in Ops : RequestOK(o, reqs'[o])
  BY <1>1 DEF RequestsOK
<1>3. RequestsOK'
  BY <1>1, <1>2 DEF RequestsOK
<1> QED
  BY <1>1, <1>3

\* A request that nothing is known of any more is idle.
LEMMA RequestDone ==
  ASSUME RequestsOK, NEW op \in Ops, reqs' = Done(op)
  PROVE  /\ RequestsOK'
         /\ reqs'[op].at = "idle"
         /\ \A o \in Ops : o # op => reqs'[o] = reqs[o]
<1>1. RequestOK(op, Idle) /\ Idle.at = "idle"
  BY DEF RequestOK, Idle, States
<1>2. reqs' = [reqs EXCEPT ![op] = Idle]
  BY DEF Done
<1> QED
  BY <1>1, <1>2, RequestReplaced

LEMMA RequestAsked ==
  ASSUME RequestsOK, NEW op \in Ops \ {"reply"}, NEW t, Ask(op, t),
         t \in IF op \in {"load", "create"} THEN {None} ELSE Threads
  PROVE  /\ RequestsOK'
         /\ reqs[op].at = "idle"
         /\ reqs'[op].at = "asked" /\ reqs'[op].thread = t
         /\ \A o \in Ops : o # op => reqs'[o] = reqs[o]
<1>1. PICK r : r = [at |-> "asked", thread |-> t]
  OBVIOUS
<1>2. RequestOK(op, r) /\ r.at = "asked" /\ r.thread = t
  BY <1>1 DEF RequestOK, States
<1>3. reqs' = [reqs EXCEPT ![op] = r] /\ reqs[op].at = "idle"
  BY <1>1 DEF Ask, Open, Busy
<1> QED
  BY <1>2, <1>3, RequestReplaced

LEMMA RequestAnswered ==
  ASSUME RequestsOK, NEW op \in Ops, reqs[op].at # "idle",
         NEW list, ListOK(list), NEW new \in Maybe(Threads), Answered(op, list, new)
  PROVE  /\ RequestsOK'
         /\ reqs'[op].at = "answered" /\ reqs'[op].thread = reqs[op].thread
         /\ \A o \in Ops : o # op => reqs'[o] = reqs[o]
<1>1. PICK r : r = [at |-> "answered", thread |-> reqs[op].thread, cards |-> list, new |-> new]
  OBVIOUS
<1>2. RequestOK(op, r) /\ r.at = "answered" /\ r.thread = reqs[op].thread
  <2>1. /\ r.at = "answered" /\ r.thread = reqs[op].thread
        /\ r.cards = list /\ r.new = new
    BY <1>1
  <2>2. RequestOK(op, reqs[op])
    BY DEF RequestsOK
  <2> QED
    BY <2>1, <2>2 DEF RequestOK, States
<1>3. reqs' = [reqs EXCEPT ![op] = r]
  BY <1>1 DEF Answered, RequestsOK
<1> QED
  BY <1>2, <1>3, RequestReplaced

LEMMA RequestLost ==
  ASSUME RequestsOK, NEW op \in Ops, reqs[op].at # "idle", Lost(op)
  PROVE  /\ RequestsOK'
         /\ reqs'[op].at = "failed" /\ reqs'[op].thread = reqs[op].thread
         /\ \A o \in Ops : o # op => reqs'[o] = reqs[o]
<1>1. PICK r : r = [at |-> "failed", thread |-> reqs[op].thread]
  OBVIOUS
<1>2. RequestOK(op, r) /\ r.at = "failed" /\ r.thread = reqs[op].thread
  BY <1>1 DEF RequestOK, States, RequestsOK
<1>3. reqs' = [reqs EXCEPT ![op] = r]
  BY <1>1 DEF Lost, RequestsOK
<1> QED
  BY <1>2, <1>3, RequestReplaced

\* However a request that was carried out ends, the others are left alone.
LEMMA RequestReplied ==
  ASSUME RequestsOK, NEW op \in Ops, reqs[op].at # "idle",
         NEW list, ListOK(list), NEW new \in Maybe(Threads),
         Answered(op, list, new) \/ Lost(op)
  PROVE  /\ RequestsOK'
         /\ \A o \in Ops : o # op => reqs'[o] = reqs[o]
BY RequestAnswered, RequestLost
-----------------------------------------------------------------------------
(***************************************************************************)
(* What leaves the parts of the invariant alone.                           *)
(***************************************************************************)

LEMMA PageUnchanged ==
  ASSUME PageOK, UNCHANGED <<ui, cards>>
  PROVE  PageOK'
BY DEF PageOK

LEMMA PageShown ==
  ASSUME PageOK, NEW u \in UIs, TextsOK(u), NEW rs, ListOK(cards'), Show(u, cards', rs)
  PROVE  /\ PageOK'
         /\ ui'.tab = u.tab
         /\ ui'.selected = u.selected
         /\ ui'.compose = u.compose
         /\ ui'.pane = "create" => u.pane = "create"
<1>1. PICK cs : cs = cards'
  OBVIOUS
<1>2. ui \in UIs /\ ListOK(cs) /\ Show(u, cs, rs)
  BY <1>1 DEF PageOK
<1>3. /\ ui' \in UIs
      /\ TextsOK(ui')
      /\ Following(ui', cs)
      /\ ui'.tab = u.tab
      /\ ui'.selected = u.selected
      /\ ui'.compose = u.compose
      /\ ui'.pane = "create" => u.pane = "create"
  BY <1>2, ShowPage
<1> QED
  BY <1>1, <1>2, <1>3 DEF PageOK

LEMMA ServiceUnchanged ==
  ASSUME ServiceOK, UNCHANGED <<srv, mails, unsure>>
  PROVE  ServiceOK'
BY DEF ServiceOK

\* The service does nothing to t that its reader could not know: what he can
\* know of its draft stays true.
LEMMA SentOnceKept ==
  ASSUME NEW t \in Threads, SentOnce(t), UNCHANGED <<ui, cards>>,
         reqs'["send"] = reqs["send"],
         \/ t \in unsure'
         \/ mails'[t] \notin {1, 2}
         \/ /\ mails'[t] = mails[t]
            /\ t \in unsure => t \in unsure'
            /\ Known(t) /\ Drafted(t)' => Drafted(t) /\ Card(srv', t).draft = Card(srv, t).draft
  PROVE  SentOnce(t)'
BY DEF SentOnce, Known, Sending, OutOfReach

\* Nor does the reader, but by opening the composer on it.
LEMMA SentOnceUnread ==
  ASSUME NEW t \in Threads, SentOnce(t), UNCHANGED <<srv, cards, mails, unsure>>,
         reqs'["send"] = reqs["send"],
         ui'.pane = "create" /\ ui'.compose = t => ui.pane = "create" /\ ui.compose = t
  PROVE  SentOnce(t)'
BY DEF SentOnce, Known, Sending, OutOfReach, Drafted
-----------------------------------------------------------------------------
(***************************************************************************)
(* What the reader does.                                                   *)
(***************************************************************************)

LEMMA InitEstablishes == Init => IInv
<1> SUFFICES ASSUME Init PROVE IInv
  OBVIOUS
<1>1. PICK t0 \in Threads : t0 = CHOOSE t \in Threads : TRUE
  BY NamesAssumption
<1>2. srv = <<>> \/ srv = <<[thread |-> t0, draft |-> "draft", messages |-> FALSE]>>
  BY <1>1 DEF Init
<1>3. ListOK(srv) /\ ListOK(cards)
  <2>1. ListOK(<<>>)
    BY DEF ListOK
  <2>2. PICK c \in Cards : c = [thread |-> t0, draft |-> "draft", messages |-> FALSE]
    BY DEF Cards, DraftStates
  <2>3. c.draft = "draft"
    BY <2>2
  <2>4. ListOK(<<c>>)
    BY <2>3 DEF ListOK, CardOK
  <2> QED
    BY <1>2, <2>1, <2>2, <2>4 DEF Init
<1>4. CountsOK
  BY BoundAssumption DEF Init, CountsOK
<1>5. RequestsOK
  <2>1. PICK tab \in {"other", "outreach"} :
          reqs = [op \in Ops |-> IF op = "load" /\ tab = "outreach"
                                 THEN [at |-> "asked", thread |-> None] ELSE Idle]
    BY DEF Init
  <2> QED
    BY <2>1 DEF RequestsOK, RequestOK, Idle, States, Ops
<1>6. mails = [t \in Threads |-> IF Has(srv, t) THEN 0 ELSE None]
  BY DEF Init
<1>7. ServiceOK
  BY <1>3, <1>6, NamesAssumption DEF Init, ServiceOK, Maybe
<1>8. PageOK
  <2>1. ui \in UIs /\ ui.body = None /\ ui.hint = None /\ ui.selected = None /\ ui.pane = "read"
    BY DEF Init, UIs, Maybe
  <2>2. TextsOK(ui)
    BY <2>1 DEF TextsOK
  <2>3. Selected(ui, cards) = None
    BY <2>1 DEF Init, Selected, Newest
  <2> QED
    BY <1>3, <2>1, <2>2, <2>3 DEF PageOK, Following
<1>9. \A t \in Threads : mails[t] \notin {1, 2}
  BY <1>6, NamesAssumption
<1>10. \A t \in Threads : SentOnce(t)
  BY <1>9 DEF SentOnce, Known
<1> QED
  BY <1>4, <1>5, <1>7, <1>8, <1>10 DEF IInv

LEMMA ChangeTabKeeps ==
  ASSUME IInv, ChangeTab
  PROVE  IInv'
<1>1. /\ CountsOK /\ RequestsOK /\ ServiceOK /\ PageOK /\ \A t \in Threads : SentOnce(t)
      /\ UNCHANGED <<srv, cards, clicks, arrived, mails, unsure>>
  BY DEF IInv, ChangeTab
<1>2. PICK u : u = [ui EXCEPT !.tab = IF Onscreen THEN "other" ELSE "outreach",
                              !.tried = @ \/ ~Onscreen]
  OBVIOUS
<1>3. u \in UIs /\ TextsOK(u) /\ u.pane = ui.pane /\ u.compose = ui.compose
  BY <1>1, <1>2 DEF PageOK, UIs, TextsOK
<1>4. Show(u, cards', reqs)
  BY <1>1, <1>2 DEF ChangeTab
<1>5. /\ PageOK'
      /\ ui'.compose = u.compose
      /\ ui'.pane = "create" => u.pane = "create"
  BY <1>1, <1>3, <1>4, PageShown DEF PageOK
<1>6. RequestsOK' /\ reqs'["send"] = reqs["send"]
  <2>1. CASE Ask("load", None)
    BY <1>1, <2>1, RequestAsked DEF Ops
  <2>2. CASE UNCHANGED reqs
    BY <1>1, <2>2 DEF RequestsOK
  <2> QED
    BY <2>1, <2>2 DEF ChangeTab
<1>7. CountsOK' /\ ServiceOK'
  BY <1>1, ServiceUnchanged DEF CountsOK
<1>8. \A t \in Threads : SentOnce(t)'
  BY <1>1, <1>3, <1>5, <1>6, SentOnceUnread
<1> QED
  BY <1>5, <1>6, <1>7, <1>8 DEF IInv

\* A sent thread the reader selects opens to be read: it has a message.
LEMMA SelectKeeps ==
  ASSUME IInv, NEW s \in Threads, Select(s)
  PROVE  IInv'
<1>1. /\ CountsOK /\ RequestsOK /\ ServiceOK /\ PageOK /\ \A t \in Threads : SentOnce(t)
      /\ UNCHANGED <<srv, cards, reqs, clicks, arrived, mails, unsure>>
  BY DEF IInv, Select
<1>2. PICK v : v = [ui EXCEPT !.selected = s, !.compose = s, !.pane = DefaultPane(cards, s)]
  OBVIOUS
<1>3. v \in UIs /\ v.tab = "outreach" /\ v.selected = s /\ v.compose = s /\ v.pane = DefaultPane(cards, s)
  <2>1. DefaultPane(cards, s) \in {"read", "create"}
    BY DEF DefaultPane
  <2> QED
    BY <1>1, <1>2, <2>1 DEF PageOK, UIs, Select, Onscreen, Maybe
<1>4. PICK u : u = CloseReply(v)
  OBVIOUS
<1>5. /\ u \in UIs /\ TextsOK(u) /\ u.tab = "outreach" /\ u.selected = s /\ u.compose = s
      /\ u.pane = DefaultPane(cards, s) /\ u.reply = None
  BY <1>3, <1>4, CloseReplyPage
<1>6. Show(u, cards', reqs)
  BY <1>1, <1>2, <1>4 DEF Select
<1>7. /\ PageOK'
      /\ ui'.tab = "outreach"
      /\ ui'.selected = s
      /\ ui'.compose = s
      /\ ui'.pane = "create" => DefaultPane(cards, s) = "create"
  BY <1>1, <1>5, <1>6, PageShown DEF PageOK
<1>8. ui'.pane = "create" => ~Card(cards, s).messages
  <2> SUFFICES ASSUME ui'.pane = "create", Card(cards, s).messages
               PROVE  FALSE
    OBVIOUS
  <2>1. ListOK(cards) /\ ui \in UIs /\ Show(u, cards, reqs)
    BY <1>1, <1>6 DEF PageOK
  <2>2. ui'.pane = Settled(u, cards).pane /\ ui'.reply = Settled(u, cards).reply
    BY <1>5, <2>1, ShowPage
  <2>3. Settled(u, cards) = u
    BY <1>5, <2>1, <2>2, SettledPage
  <2>4. Following(u, cards)
    BY <1>5, <2>1, <2>3, SettledPage
  <2>5. Selected(u, cards) = s /\ s # None
    BY <1>5, NamesAssumption DEF Selected, Select
  <2> QED
    BY <1>5, <2>4, <2>5 DEF Following
<1>9. ASSUME NEW t \in Threads
      PROVE  SentOnce(t)'
  <2>1. CASE t = s
    <3>1. ~(ui'.pane = "create" /\ Has(cards, s) /\ Card(cards, s).draft # "none")
          \/ ~(Unsent(Card(cards, s)) => Card(cards, s).messages)
      BY <1>7, <1>8 DEF DefaultPane
    <3> QED
      BY <1>1, <2>1, <3>1 DEF SentOnce, Known, Sending, OutOfReach, Drafted, Select
  <2>2. CASE t # s
    BY <1>1, <1>7, <2>2, SentOnceUnread
  <2> QED
    BY <2>1, <2>2
<1>10. CountsOK' /\ ServiceOK' /\ RequestsOK'
  BY <1>1, ServiceUnchanged DEF CountsOK, RequestsOK
<1> QED
  BY <1>7, <1>9, <1>10 DEF IInv

LEMMA NewKeeps ==
  ASSUME IInv, New
  PROVE  IInv'
<1>1. /\ CountsOK /\ RequestsOK /\ ServiceOK /\ PageOK /\ \A t \in Threads : SentOnce(t)
      /\ UNCHANGED <<srv, cards, reqs, clicks, arrived, mails, unsure>>
  BY DEF IInv, New
<1>2. PICK v : v = [ui EXCEPT !.selected = None, !.compose = None, !.pane = "create"]
  OBVIOUS
<1>3. v \in UIs /\ v.compose = None
  BY <1>1, <1>2 DEF PageOK, UIs, Maybe
<1>4. PICK u : u = CloseReply(v)
  OBVIOUS
<1>5. u \in UIs /\ TextsOK(u) /\ u.compose = None
  BY <1>3, <1>4, CloseReplyPage
<1>6. Show(u, cards', reqs)
  BY <1>1, <1>2, <1>4 DEF New, StartNew
<1>7. PageOK' /\ ui'.compose = None
  BY <1>1, <1>5, <1>6, PageShown DEF PageOK
<1>8. \A t \in Threads : SentOnce(t)'
  BY <1>1, <1>7, SentOnceUnread, NamesAssumption
<1>9. CountsOK' /\ ServiceOK' /\ RequestsOK'
  BY <1>1, ServiceUnchanged DEF CountsOK, RequestsOK
<1> QED
  BY <1>7, <1>8, <1>9 DEF IInv

\* The thread the reader reads is the one its composer of replies is on.
LEMMA ReadingFollows ==
  ASSUME PageOK, NEW t \in Threads, Reading(t)
  PROVE  ui.reply = t
BY NamesAssumption DEF PageOK, Following, Reading, Onscreen

LEMMA TypeReplyKeeps ==
  ASSUME IInv, NEW s \in Threads, TypeReply(s)
  PROVE  IInv'
<1>1. /\ CountsOK /\ RequestsOK /\ ServiceOK /\ PageOK /\ \A t \in Threads : SentOnce(t)
      /\ UNCHANGED <<srv, cards, reqs, clicks, arrived, mails, unsure>>
  BY DEF IInv, TypeReply
<1>2. PICK b \in Texts : b = [for |-> s, moved |-> FALSE]
  BY DEF Texts
<1>3. ui' = [ui EXCEPT !.body = b, !.hint = None]
  BY <1>2 DEF TypeReply
<1>4. /\ ui' \in UIs /\ ui'.tab = ui.tab /\ ui'.selected = ui.selected /\ ui'.compose = ui.compose
      /\ ui'.pane = ui.pane /\ ui'.reply = ui.reply /\ ui'.body = b /\ ui'.hint = None
  BY <1>1, <1>3 DEF PageOK, UIs, Maybe
<1>5. TextsOK(ui')
  <2>1. ui.reply = s
    BY <1>1, ReadingFollows DEF TypeReply
  <2> QED
    BY <1>2, <1>4, <2>1 DEF TextsOK
<1>6. PageOK'
  <2>1. Selected(ui', cards) = Selected(ui, cards)
    BY <1>4 DEF Selected
  <2>2. Following(ui', cards)
    BY <1>1, <1>4, <2>1 DEF Following, PageOK
  <2> QED
    BY <1>1, <1>4, <1>5, <2>2 DEF PageOK
<1>7. \A t \in Threads : SentOnce(t)'
  BY <1>1, <1>4, SentOnceUnread
<1>8. CountsOK' /\ ServiceOK' /\ RequestsOK'
  BY <1>1, ServiceUnchanged DEF CountsOK, RequestsOK
<1> QED
  BY <1>6, <1>7, <1>8 DEF IInv

LEMMA TakeHintKeeps ==
  ASSUME IInv, TakeHint
  PROVE  IInv'
<1>1. /\ CountsOK /\ RequestsOK /\ ServiceOK /\ PageOK /\ \A t \in Threads : SentOnce(t)
      /\ UNCHANGED <<srv, cards, reqs, clicks, arrived, mails, unsure>>
  BY DEF IInv, TakeHint
<1>2. PICK b \in Texts : b = ui.hint
  BY <1>1 DEF TakeHint, PageOK, UIs, Maybe
<1>3. ui' = [ui EXCEPT !.body = b, !.hint = None]
  BY <1>2 DEF TakeHint
<1>4. /\ ui' \in UIs /\ ui'.tab = ui.tab /\ ui'.selected = ui.selected /\ ui'.compose = ui.compose
      /\ ui'.pane = ui.pane /\ ui'.reply = ui.reply /\ ui'.body = b /\ ui'.hint = None
  BY <1>1, <1>3 DEF PageOK, UIs, Maybe
<1>5. TextsOK(ui')
  BY <1>1, <1>2, <1>4 DEF TextsOK, PageOK
<1>6. PageOK'
  <2>1. Selected(ui', cards) = Selected(ui, cards)
    BY <1>4 DEF Selected
  <2>2. Following(ui', cards)
    BY <1>1, <1>4, <2>1 DEF Following, PageOK
  <2> QED
    BY <1>1, <1>4, <1>5, <2>2 DEF PageOK
<1>7. \A t \in Threads : SentOnce(t)'
  BY <1>1, <1>4, SentOnceUnread
<1>8. CountsOK' /\ ServiceOK' /\ RequestsOK'
  BY <1>1, ServiceUnchanged DEF CountsOK, RequestsOK
<1> QED
  BY <1>6, <1>7, <1>8 DEF IInv

LEMMA ClickCounts ==
  ASSUME CountsOK, Clicked, UNCHANGED arrived
  PROVE  CountsOK'
BY BoundAssumption DEF CountsOK, Clicked

\* A request of the composer of drafts, other than to send.
LEMMA ComposerKeeps ==
  ASSUME IInv, NEW op \in {"create", "revise", "retry"} \union Cancels, NEW t, Click(op, t),
         t \in IF op = "create" THEN {None} ELSE Threads,
         UNCHANGED <<srv, cards, ui, arrived, mails, unsure>>
  PROVE  IInv'
<1>1. CountsOK /\ RequestsOK /\ ServiceOK /\ PageOK /\ \A s \in Threads : SentOnce(s)
  BY DEF IInv
<1>2. CountsOK'
  BY <1>1, ClickCounts DEF Click
<1>3. RequestsOK' /\ reqs'["send"] = reqs["send"]
  <2>1. Ask(op, t) /\ op \in Ops \ {"reply"}
    BY DEF Click, Ops, Cancels
  <2>2. t \in IF op \in {"load", "create"} THEN {None} ELSE Threads
    BY DEF Cancels
  <2> QED
    BY <1>1, <2>1, <2>2, RequestAsked DEF Ops, Cancels
<1>4. ServiceOK' /\ PageOK'
  BY <1>1, ServiceUnchanged, PageUnchanged
<1>5. \A s \in Threads : SentOnce(s)'
  BY <1>1, <1>3, SentOnceUnread
<1> QED
  BY <1>2, <1>3, <1>4, <1>5 DEF IInv

\* What the reader sends is not a draft he could know to be sent.
LEMMA ClickSendKeeps ==
  ASSUME IInv, NEW s \in Threads, ClickSend(s)
  PROVE  IInv'
<1>1. /\ CountsOK /\ RequestsOK /\ ServiceOK /\ PageOK /\ \A t \in Threads : SentOnce(t)
      /\ UNCHANGED <<srv, cards, ui, arrived, mails, unsure>>
      /\ Clicked /\ Ask("send", s)
  BY DEF IInv, ClickSend, Click
<1>2. CountsOK'
  BY <1>1, ClickCounts
<1>3. /\ RequestsOK'
      /\ reqs["send"].at = "idle"
      /\ reqs'["send"].at = "asked" /\ reqs'["send"].thread = s
  BY <1>1, RequestAsked DEF Ops
<1>4. ServiceOK' /\ PageOK'
  BY <1>1, ServiceUnchanged, PageUnchanged
<1>5. ASSUME NEW t \in Threads
      PROVE  SentOnce(t)'
  <2>1. Known(t) /\ Drafted(t) => Card(srv, t).draft = "sent" /\ OutOfReach(t)
    BY <1>1, <1>3 DEF SentOnce, Sending
  <2>2. Known(t) /\ Drafted(t) => t # s
    BY <2>1 DEF OutOfReach, ClickSend, Composing
  <2>3. Known(t)' <=> Known(t)
    BY <1>1 DEF Known
  <2>4. Drafted(t)' <=> Drafted(t)
    BY <1>1 DEF Drafted
  <2>5. OutOfReach(t) => OutOfReach(t)'
    BY <1>1 DEF OutOfReach
  <2>6. mails'[t] = 2 => t \in unsure'
    BY <1>1 DEF SentOnce
  <2>7. t # s => ~Sending(t)'
    BY <1>3 DEF Sending
  <2> QED
    BY <1>1, <2>1, <2>2, <2>3, <2>4, <2>5, <2>6, <2>7 DEF SentOnce
<1> QED
  BY <1>2, <1>3, <1>4, <1>5 DEF IInv

LEMMA ClickReplyKeeps ==
  ASSUME IInv, NEW s \in Threads, ClickReply(s)
  PROVE  IInv'
<1>1. /\ CountsOK /\ RequestsOK /\ ServiceOK /\ PageOK /\ \A t \in Threads : SentOnce(t)
      /\ UNCHANGED <<srv, cards, ui, arrived, mails, unsure>>
      /\ Clicked
  BY DEF IInv, ClickReply
<1>2. CountsOK'
  BY <1>1, ClickCounts
<1>3. ui.reply = s
  BY <1>1, ReadingFollows DEF ClickReply
<1>4. PICK r : r = [at |-> "asked", thread |-> s, quoted |-> ui.reply, body |-> ui.body]
  OBVIOUS
<1>5. ui.body \in Texts /\ (ui.body.for # ui.reply => ui.body.moved)
  BY <1>1 DEF ClickReply, PageOK, UIs, Maybe, TextsOK
<1>6. RequestOK("reply", r)
  BY <1>3, <1>4, <1>5 DEF RequestOK, States
<1>7. reqs' = [reqs EXCEPT !["reply"] = r]
  BY <1>4 DEF ClickReply, Open
<1>8. RequestsOK' /\ reqs'["send"] = reqs["send"]
  BY <1>1, <1>6, <1>7, RequestReplaced DEF Ops
<1>9. ServiceOK' /\ PageOK'
  BY <1>1, ServiceUnchanged, PageUnchanged
<1>10. \A t \in Threads : SentOnce(t)'
  BY <1>1, <1>8, SentOnceUnread
<1> QED
  BY <1>2, <1>8, <1>9, <1>10 DEF IInv

LEMMA ClickSuggestKeeps ==
  ASSUME IInv, NEW s \in Threads, ClickSuggest(s)
  PROVE  IInv'
<1>1. /\ CountsOK /\ RequestsOK /\ ServiceOK /\ PageOK /\ \A t \in Threads : SentOnce(t)
      /\ UNCHANGED <<srv, cards, arrived, mails, unsure>>
      /\ Clicked /\ Ask("suggest", s)
      /\ ui' = [ui EXCEPT !.wandered = FALSE]
  BY DEF IInv, ClickSuggest, Click
<1>2. CountsOK'
  BY <1>1, ClickCounts
<1>3. RequestsOK' /\ reqs'["send"] = reqs["send"]
  BY <1>1, RequestAsked DEF Ops
<1>4. /\ ui' \in UIs /\ ui'.tab = ui.tab /\ ui'.selected = ui.selected /\ ui'.compose = ui.compose
      /\ ui'.pane = ui.pane /\ ui'.reply = ui.reply /\ ui'.body = ui.body /\ ui'.hint = ui.hint
  BY <1>1 DEF PageOK, UIs
<1>5. PageOK'
  <2>1. Selected(ui', cards) = Selected(ui, cards)
    BY <1>4 DEF Selected
  <2>2. Following(ui', cards)
    BY <1>1, <1>4, <2>1 DEF Following, PageOK
  <2>3. TextsOK(ui')
    BY <1>1, <1>4 DEF TextsOK, PageOK
  <2> QED
    BY <1>1, <1>4, <2>2, <2>3 DEF PageOK
<1>6. \A t \in Threads : SentOnce(t)'
  BY <1>1, <1>3, <1>4, SentOnceUnread
<1>7. ServiceOK'
  BY <1>1, ServiceUnchanged
<1> QED
  BY <1>2, <1>3, <1>5, <1>6, <1>7 DEF IInv

LEMMA ReaderKeeps ==
  ASSUME IInv, Reader
  PROVE  IInv'
<1>1. CASE ChangeTab \/ New \/ TakeHint
  BY <1>1, ChangeTabKeeps, NewKeeps, TakeHintKeeps
<1>2. CASE ClickCreate
  BY <1>2, ComposerKeeps DEF ClickCreate
<1>3. CASE \E t \in Threads : Select(t) \/ TypeReply(t) \/ ClickSend(t) \/ ClickReply(t) \/ ClickSuggest(t)
  BY <1>3, SelectKeeps, TypeReplyKeeps, ClickSendKeeps, ClickReplyKeeps, ClickSuggestKeeps
<1>4. CASE \E t \in Threads : ClickRevise(t) \/ ClickRetry(t) \/ \E op \in Ops : ClickCancel(op, t)
  <2>1. ASSUME NEW op \in Ops, NEW t \in Threads, ClickCancel(op, t) PROVE IInv'
    BY <2>1, ComposerKeeps DEF ClickCancel, Cancels
  <2> QED
    BY <1>4, <2>1, ComposerKeeps DEF ClickRevise, ClickRetry
<1> QED
  BY <1>1, <1>2, <1>3, <1>4 DEF Reader
-----------------------------------------------------------------------------
(***************************************************************************)
(* What the service does.                                                  *)
(***************************************************************************)

\* A step of a request other than to send, on a service that stays as it is.
LEMMA QuietKeeps ==
  ASSUME IInv, RequestsOK', reqs'["send"] = reqs["send"],
         UNCHANGED <<srv, cards, ui, clicks, arrived, mails, unsure>>
  PROVE  IInv'
<1>1. CountsOK /\ ServiceOK /\ PageOK /\ \A t \in Threads : SentOnce(t)
  BY DEF IInv
<1>2. CountsOK' /\ ServiceOK' /\ PageOK'
  BY <1>1, ServiceUnchanged, PageUnchanged DEF CountsOK
<1>3. \A t \in Threads : SentOnce(t)'
  BY <1>1, SentOnceUnread
<1> QED
  BY <1>2, <1>3 DEF IInv

LEMMA RefuseKeeps ==
  ASSUME IInv, NEW op \in Ops, Refuse(op)
  PROVE  IInv'
<1>1. /\ CountsOK /\ RequestsOK /\ ServiceOK /\ PageOK /\ \A t \in Threads : SentOnce(t)
      /\ UNCHANGED <<srv, cards, ui, clicks, arrived, mails, unsure>>
  BY DEF IInv, Refuse
<1>2. /\ RequestsOK'
      /\ reqs'[op].at = "failed" /\ reqs'[op].thread = reqs[op].thread
      /\ \A o \in Ops : o # op => reqs'[o] = reqs[o]
  BY <1>1, RequestLost DEF Refuse, Asked
<1>3. CASE op # "send"
  BY <1>1, <1>2, <1>3, QuietKeeps DEF Ops
<1>4. CASE op = "send"
  <2>1. reqs["send"].at = "asked"
    BY <1>1, <1>4 DEF Refuse, Asked, RequestsOK, RequestOK
  <2>2. ASSUME NEW t \in Threads
        PROVE  SentOnce(t)'
    BY <1>1, <1>2, <1>4, <2>1 DEF SentOnce, Known, Sending, OutOfReach, Drafted
  <2>3. CountsOK' /\ ServiceOK' /\ PageOK'
    BY <1>1, ServiceUnchanged, PageUnchanged DEF CountsOK
  <2> QED
    BY <1>2, <2>2, <2>3 DEF IInv
<1> QED
  BY <1>3, <1>4

LEMMA AnswerLoadKeeps ==
  ASSUME IInv, AnswerLoad
  PROVE  IInv'
<1>1. RequestsOK /\ ListOK(srv) /\ None \in Maybe(Threads)
  BY DEF IInv, ServiceOK, Maybe
<1>2. reqs["load"].at # "idle" /\ Answered("load", srv, None)
  BY DEF AnswerLoad, Asked
<1>3. RequestsOK' /\ reqs'["send"] = reqs["send"]
  BY <1>1, <1>2, RequestAnswered DEF Ops
<1> QED
  BY <1>3, QuietKeeps DEF AnswerLoad

LEMMA SuggestKeeps ==
  ASSUME IInv, NEW s \in Threads, Suggest(s)
  PROVE  IInv'
<1>1. RequestsOK /\ ListOK(srv) /\ None \in Maybe(Threads)
  BY DEF IInv, ServiceOK, Maybe
<1>2. reqs["suggest"].at # "idle" /\ Answered("suggest", srv, None)
  BY DEF Suggest, Asked
<1>3. RequestsOK' /\ reqs'["send"] = reqs["send"]
  BY <1>1, <1>2, RequestAnswered DEF Ops
<1> QED
  BY <1>3, QuietKeeps DEF Suggest

LEMMA ReadDraftKeeps ==
  ASSUME IInv, NEW op \in Ops, ReadDraft(op)
  PROVE  IInv'
<1>1. RequestsOK /\ op \in {"revise", "retry"} /\ reqs[op].at = "asked"
  BY DEF IInv, ReadDraft, Asked
<1>2. PICK r : r = [at |-> "working", thread |-> reqs[op].thread, saw |-> Card(srv, reqs[op].thread).draft]
  OBVIOUS
<1>3. RequestOK(op, r)
  <2>1. reqs[op].thread \in Threads
    BY <1>1 DEF RequestsOK, RequestOK
  <2> QED
    BY <1>1, <1>2, <2>1 DEF RequestOK, States
<1>4. reqs' = [reqs EXCEPT ![op] = r]
  BY <1>2 DEF ReadDraft
<1>5. RequestsOK' /\ reqs'["send"] = reqs["send"]
  BY <1>1, <1>3, <1>4, RequestReplaced DEF Ops
<1> QED
  BY <1>5, QuietKeeps DEF ReadDraft

\* A step of the service that puts a card of s first, or in its place: the
\* drafts of the other threads stay as they are.
LEMMA CardKeeps ==
  ASSUME ServiceOK, NEW s \in Threads, NEW c, CardOK(c), c.thread = s,
         \/ srv' = Raise(srv, c)
         \/ Has(srv, s) /\ srv' = Put(srv, c)
  PROVE  /\ ListOK(srv')
         /\ Has(srv', s) /\ Card(srv', s) = c
         /\ \A t \in Threads : Has(srv', t) => Has(srv, t) \/ t = s
         /\ \A t \in Threads : t # s /\ Drafted(t)' =>
              Drafted(t) /\ Card(srv', t).draft = Card(srv, t).draft
<1>1. ListOK(srv)
  BY DEF ServiceOK
<1>2. /\ ListOK(srv')
      /\ Has(srv', s) /\ Card(srv', s) = c
      /\ \A t : Has(srv', t) => Has(srv, t) \/ t = s
      /\ \A t : t # s /\ Has(srv', t) => Card(srv', t) = Card(srv, t)
  <2>1. CASE srv' = Raise(srv, c)
    BY <1>1, <2>1, RaiseCard
  <2>2. CASE Has(srv, s) /\ srv' = Put(srv, c)
    BY <1>1, <2>2, PutCard
  <2> QED
    BY <2>1, <2>2
<1> QED
  BY <1>2 DEF Drafted

\* A new thread, or one the vendor's answer was drafted in: nothing left with
\* its draft.
LEMMA NewDraftKeeps ==
  ASSUME IInv, NEW s \in Threads, NEW c, CardOK(c), c.thread = s,
         srv' = Raise(srv, c), mails' = [mails EXCEPT ![s] = 0],
         unsure' = unsure \/ unsure' = unsure \ {s},
         RequestsOK', reqs'["send"] = reqs["send"], CountsOK', UNCHANGED <<cards, ui>>
  PROVE  IInv'
<1>1. ServiceOK /\ PageOK /\ \A t \in Threads : SentOnce(t)
  BY DEF IInv
<1>2. /\ ListOK(srv')
      /\ \A t \in Threads : Has(srv', t) => Has(srv, t) \/ t = s
      /\ \A t \in Threads : t # s /\ Drafted(t)' =>
           Drafted(t) /\ Card(srv', t).draft = Card(srv, t).draft
  BY <1>1, CardKeeps
<1>3. mails'[s] = 0 /\ \A t \in Threads : t # s => mails'[t] = mails[t]
  BY <1>1 DEF ServiceOK
<1>4. ServiceOK'
  BY <1>1, <1>2, <1>3, NamesAssumption DEF ServiceOK, Maybe
<1>5. \A t \in Threads : SentOnce(t)'
  BY <1>1, <1>2, <1>3, SentOnceKept
<1>6. PageOK'
  BY <1>1, PageUnchanged
<1> QED
  BY <1>4, <1>5, <1>6 DEF IInv

\* A step that does not count a mail, and lets no draft look unsent again but
\* to a reader who cannot know.
LEMMA OldDraftKeeps ==
  ASSUME IInv, ListOK(srv'), UNCHANGED <<mails, cards, ui>>,
         unsure \subseteq unsure', unsure' \subseteq Threads,
         \A t \in Threads : Has(srv', t) => Has(srv, t),
         \A t \in Threads \ unsure' : Drafted(t)' /\ Known(t) =>
           Drafted(t) /\ Card(srv', t).draft = Card(srv, t).draft,
         RequestsOK', reqs'["send"] = reqs["send"], CountsOK'
  PROVE  IInv'
<1>1. ServiceOK /\ PageOK /\ \A t \in Threads : SentOnce(t)
  BY DEF IInv
<1>2. ServiceOK'
  BY <1>1 DEF ServiceOK
<1>3. \A t \in Threads : SentOnce(t)'
  BY <1>1, SentOnceKept
<1>4. PageOK'
  BY <1>1, PageUnchanged
<1> QED
  BY <1>2, <1>3, <1>4 DEF IInv

LEMMA CountsUnchanged ==
  ASSUME CountsOK, UNCHANGED <<clicks, arrived>>
  PROVE  CountsOK'
BY DEF CountsOK

LEMMA ThreadCard ==
  ASSUME NEW t \in Threads, NEW draft \in DraftStates, NEW messages \in BOOLEAN,
         draft = "sent" => messages
  PROVE  /\ CardOK(Thread(t, draft, messages))
         /\ Thread(t, draft, messages).thread = t
         /\ Thread(t, draft, messages).draft = draft
         /\ Thread(t, draft, messages).messages = messages
BY DEF CardOK, Cards, Thread

LEMMA CreateKeeps ==
  ASSUME IInv, NEW s \in Threads, Create(s)
  PROVE  IInv'
<1>1. /\ CountsOK /\ RequestsOK /\ ServiceOK
      /\ UNCHANGED <<cards, ui, clicks, arrived, unsure>>
      /\ reqs["create"].at # "idle"
      /\ Answered("create", srv', s) \/ Lost("create")
      /\ mails' = [mails EXCEPT ![s] = 0]
  BY DEF IInv, Create, Asked
<1>2. PICK c : c = Thread(s, "draft", FALSE)
  OBVIOUS
<1>3. CardOK(c) /\ c.thread = s
  BY <1>2, ThreadCard DEF DraftStates
<1>4. srv' = Raise(srv, c)
  BY <1>2 DEF Create
<1>5. ListOK(srv')
  BY <1>1, <1>3, <1>4, CardKeeps
<1>6. RequestsOK' /\ reqs'["send"] = reqs["send"]
  <2>1. PICK list : list = srv'
    OBVIOUS
  <2>2. ListOK(list) /\ (Answered("create", list, s) \/ Lost("create")) /\ s \in Maybe(Threads)
    BY <1>1, <1>5, <2>1 DEF Maybe
  <2> QED
    BY <1>1, <2>2, RequestReplied DEF Ops
<1> QED
  BY <1>1, <1>3, <1>4, <1>6, NewDraftKeeps, CountsUnchanged

\* Whatever comes back of a request that was carried out.
LEMMA ReplyKeepsRequests ==
  ASSUME RequestsOK, NEW op \in Ops \ {"send"}, reqs[op].at # "idle", ListOK(srv'), Reply(op)
  PROVE  RequestsOK' /\ reqs'["send"] = reqs["send"]
<1>1. PICK list : list = srv'
  OBVIOUS
<1>2. ListOK(list) /\ (Answered(op, list, None) \/ Lost(op)) /\ None \in Maybe(Threads)
  BY <1>1 DEF Reply, Maybe
<1> QED
  BY <1>2, RequestReplied DEF Ops

LEMMA ArriveKeeps ==
  ASSUME IInv, NEW s \in Threads, Arrive(s)
  PROVE  IInv'
<1>1. /\ RequestsOK /\ ServiceOK /\ CountsOK /\ ListOK(srv)
      /\ UNCHANGED <<cards, ui, reqs, clicks>>
      /\ arrived < MaxMail /\ arrived' = arrived + 1
      /\ (~Full /\ Fresh(s)) \/ (Has(srv, s) /\ Card(srv, s).messages)
  BY DEF IInv, ServiceOK, Arrive
<1>2. RequestsOK' /\ reqs'["send"] = reqs["send"]
  BY <1>1 DEF RequestsOK
<1>3. CountsOK'
  BY <1>1, BoundAssumption DEF CountsOK
<1>4. PICK drafted \in BOOLEAN :
        LET d == IF drafted THEN "draft" ELSE IF Has(srv, s) THEN Card(srv, s).draft ELSE "none"
        IN  /\ srv' = Raise(srv, Thread(s, d, TRUE))
            /\ mails' = [mails EXCEPT ![s] = IF drafted \/ @ = None THEN 0 ELSE @]
            /\ unsure' = IF drafted THEN unsure \ {s} ELSE unsure
  BY DEF Arrive
<1> DEFINE draft == IF drafted THEN "draft" ELSE IF Has(srv, s) THEN Card(srv, s).draft ELSE "none"
<1>5. draft \in DraftStates
  BY <1>1, <1>4, CardOfThread DEF DraftStates, CardOK, Cards
<1>6. PICK c : c = Thread(s, draft, TRUE)
  OBVIOUS
<1>7. CardOK(c) /\ c.thread = s /\ c.draft = draft
  BY <1>5, <1>6, ThreadCard
<1>8. CASE drafted \/ mails[s] = None
  <2>1. mails' = [mails EXCEPT ![s] = 0]
    BY <1>4, <1>8
  <2> QED
    BY <1>1, <1>2, <1>3, <1>4, <1>6, <1>7, <2>1, NewDraftKeeps
<1>9. CASE ~(drafted \/ mails[s] = None)
  <2>1. mails' = mails /\ unsure' = unsure
    BY <1>1, <1>4, <1>9 DEF ServiceOK
  <2>2. Has(srv, s) /\ draft = Card(srv, s).draft
    <3>1. Fresh(s) /\ ~Full => mails[s] = None
      BY DEF Fresh, Full
    <3> QED
      BY <1>1, <1>4, <1>9, <3>1
  <2>3. /\ ListOK(srv')
        /\ Has(srv', s) /\ Card(srv', s) = c
        /\ \A t \in Threads : Has(srv', t) => Has(srv, t) \/ t = s
        /\ \A t \in Threads : t # s /\ Drafted(t)' =>
             Drafted(t) /\ Card(srv', t).draft = Card(srv, t).draft
    BY <1>1, <1>4, <1>6, <1>7, CardKeeps
  <2>4. \A t \in Threads : Drafted(t)' => Drafted(t) /\ Card(srv', t).draft = Card(srv, t).draft
    BY <1>7, <2>2, <2>3 DEF Drafted
  <2>5. \A t \in Threads : Has(srv', t) => Has(srv, t)
    BY <2>2, <2>3
  <2>6. unsure' \subseteq Threads
    BY <1>1, <2>1 DEF ServiceOK
  <2> QED
    BY <1>1, <1>2, <1>3, <2>1, <2>3, <2>4, <2>5, <2>6, OldDraftKeeps
<1> QED
  BY <1>8, <1>9
\* A reply puts its thread first, and leaves its draft as it is.
LEMMA SendReplyKeeps ==
  ASSUME IInv, NEW s \in Threads, SendReply(s)
  PROVE  IInv'
<1>1. /\ RequestsOK /\ ServiceOK /\ CountsOK /\ ListOK(srv)
      /\ UNCHANGED <<cards, ui, clicks, arrived, mails, unsure>>
      /\ reqs["reply"].at # "idle" /\ Has(srv, s) /\ Reply("reply")
      /\ unsure' \subseteq Threads
  BY DEF IInv, ServiceOK, SendReply, Asked
<1>2. PICK old : old = Card(srv, s)
  OBVIOUS
<1>3. CardOK(old) /\ old.thread = s
  BY <1>1, <1>2, CardOfThread
<1>4. PICK c : c = [old EXCEPT !.messages = TRUE]
  OBVIOUS
<1>5. CardOK(c) /\ c.thread = s /\ c.draft = old.draft
  BY <1>3, <1>4 DEF CardOK, Cards
<1>6. srv' = Raise(srv, c)
  BY <1>2, <1>4 DEF SendReply
<1>7. /\ ListOK(srv')
      /\ Has(srv', s) /\ Card(srv', s) = c
      /\ \A t \in Threads : Has(srv', t) => Has(srv, t) \/ t = s
      /\ \A t \in Threads : t # s /\ Drafted(t)' =>
           Drafted(t) /\ Card(srv', t).draft = Card(srv, t).draft
  BY <1>1, <1>5, <1>6, CardKeeps
<1>8. \A t \in Threads : Drafted(t)' => Drafted(t) /\ Card(srv', t).draft = Card(srv, t).draft
  BY <1>1, <1>2, <1>5, <1>7 DEF Drafted
<1>9. RequestsOK' /\ reqs'["send"] = reqs["send"]
  BY <1>1, <1>7, ReplyKeepsRequests DEF Ops
<1> QED
  BY <1>1, <1>7, <1>8, <1>9, OldDraftKeeps, CountsUnchanged

\* A canceled draft is gone.
LEMMA CancelKeeps ==
  ASSUME IInv, NEW op \in Ops, NEW s \in Threads, Cancel(op, s)
  PROVE  IInv'
<1>1. /\ RequestsOK /\ ServiceOK /\ CountsOK /\ ListOK(srv)
      /\ UNCHANGED <<cards, ui, clicks, arrived, mails, unsure>>
      /\ op \in Ops \ {"send"} /\ reqs[op].at # "idle" /\ Has(srv, s) /\ Reply(op)
      /\ unsure' \subseteq Threads
  BY DEF IInv, ServiceOK, Cancel, Cancels, Asked, Drafted
<1>2. /\ ListOK(srv')
      /\ \A t \in Threads : Has(srv', t) => Has(srv, t)
      /\ \A t \in Threads : Drafted(t)' => Drafted(t) /\ Card(srv', t).draft = Card(srv, t).draft
  <2>1. CASE Card(srv, s).messages
    <3>1. PICK c : c = Thread(s, "none", TRUE)
      OBVIOUS
    <3>2. CardOK(c) /\ c.thread = s /\ c.draft = "none"
      BY <3>1, ThreadCard DEF DraftStates
    <3>3. srv' = Put(srv, c)
      BY <2>1, <3>1 DEF Cancel
    <3>4. /\ ListOK(srv')
          /\ Has(srv', s) /\ Card(srv', s) = c
          /\ \A t \in Threads : Has(srv', t) => Has(srv, t) \/ t = s
          /\ \A t \in Threads : t # s /\ Drafted(t)' =>
               Drafted(t) /\ Card(srv', t).draft = Card(srv, t).draft
      BY <1>1, <3>2, <3>3, CardKeeps
    <3> QED
      BY <1>1, <3>2, <3>4 DEF Drafted
  <2>2. CASE ~Card(srv, s).messages
    <3>1. srv' = Without(srv, s)
      BY <2>2 DEF Cancel
    <3>2. /\ ListOK(srv')
          /\ \A u : Has(srv', u) => Has(srv, u) /\ u # s
          /\ \A u : Has(srv, u) /\ u # s => Card(srv', u) = Card(srv, u)
      BY <1>1, <3>1, WithoutCard
    <3> QED
      BY <3>2 DEF Drafted
  <2> QED
    BY <2>1, <2>2
<1>3. RequestsOK' /\ reqs'["send"] = reqs["send"]
  BY <1>1, <1>2, ReplyKeepsRequests
<1> QED
  BY <1>1, <1>2, <1>3, OldDraftKeeps, CountsUnchanged

\* A draft is put back in the state of an unsent one: if it was sent, its reader
\* cannot know.
LEMMA RedraftKeeps ==
  ASSUME IInv, NEW s \in Threads, Drafted(s), Redraft(s)
  PROVE  /\ ListOK(srv')
         /\ unsure \subseteq unsure' /\ unsure' \subseteq Threads
         /\ \A t \in Threads : Has(srv', t) => Has(srv, t)
         /\ \A t \in Threads \ unsure' : Drafted(t)' /\ Known(t) =>
              Drafted(t) /\ Card(srv', t).draft = Card(srv, t).draft
<1>1. ServiceOK /\ ListOK(srv) /\ Has(srv, s) /\ SentOnce(s)
  BY DEF IInv, ServiceOK, Drafted
<1>2. PICK old : old = Card(srv, s)
  OBVIOUS
<1>3. CardOK(old) /\ old.thread = s
  BY <1>1, <1>2, CardOfThread
<1>4. PICK c : c = [old EXCEPT !.draft = "draft"]
  OBVIOUS
<1>5. CardOK(c) /\ c.thread = s
  BY <1>3, <1>4 DEF CardOK, Cards, DraftStates
<1>6. srv' = Raise(srv, c) \/ srv' = Put(srv, c)
  BY <1>2, <1>4 DEF Redraft
<1>7. unsure' = IF Card(srv, s).draft = "sent" THEN unsure \union {s} ELSE unsure
  BY DEF Redraft
<1>8. /\ ListOK(srv')
      /\ \A t \in Threads : Has(srv', t) => Has(srv, t) \/ t = s
      /\ \A t \in Threads : t # s /\ Drafted(t)' =>
           Drafted(t) /\ Card(srv', t).draft = Card(srv, t).draft
  BY <1>1, <1>5, <1>6, CardKeeps
<1>9. s \in unsure' \/ ~Known(s)
  BY <1>1, <1>7 DEF SentOnce
<1> QED
  BY <1>1, <1>7, <1>8, <1>9 DEF ServiceOK

LEMMA ReviseKeeps ==
  ASSUME IInv, Revise
  PROVE  IInv'
<1>1. /\ RequestsOK /\ ServiceOK /\ CountsOK /\ ListOK(srv)
      /\ UNCHANGED <<cards, ui, clicks, arrived, mails>>
      /\ reqs["revise"].at # "idle" /\ Reply("revise")
  BY DEF IInv, ServiceOK, Revise
<1>2. PICK s \in Threads : s = reqs["revise"].thread
  BY <1>1 DEF RequestsOK, RequestOK, Ops
<1>3. /\ ListOK(srv')
      /\ unsure \subseteq unsure' /\ unsure' \subseteq Threads
      /\ \A t \in Threads : Has(srv', t) => Has(srv, t)
      /\ \A t \in Threads \ unsure' : Drafted(t)' /\ Known(t) =>
           Drafted(t) /\ Card(srv', t).draft = Card(srv, t).draft
  <2>1. CASE Drafted(s) /\ Redraft(s)
    BY <2>1, RedraftKeeps
  <2>2. CASE UNCHANGED <<srv, unsure>>
    BY <1>1, <2>2 DEF ServiceOK, Drafted
  <2> QED
    BY <1>2, <2>1, <2>2 DEF Revise
<1>4. RequestsOK' /\ reqs'["send"] = reqs["send"]
  BY <1>1, <1>3, ReplyKeepsRequests DEF Ops
<1> QED
  BY <1>1, <1>3, <1>4, OldDraftKeeps, CountsUnchanged

LEMMA RetryKeeps ==
  ASSUME IInv, Retry
  PROVE  IInv'
<1>1. /\ RequestsOK /\ ServiceOK /\ CountsOK /\ ListOK(srv)
      /\ UNCHANGED <<cards, ui, clicks, arrived>>
      /\ reqs["retry"].at # "idle" /\ Reply("retry")
  BY DEF IInv, ServiceOK, Retry
<1>2. CASE \E t \in Threads : Has(srv, t) /\ Unsent(Card(srv, t))
  <2>1. PICK s \in Threads : Has(srv, s) /\ Unsent(Card(srv, s)) /\ Redraft(s) /\ UNCHANGED mails
    BY <1>2 DEF Retry
  <2>2. Drafted(s)
    BY <2>1 DEF Drafted, Unsent
  <2>3. /\ ListOK(srv')
        /\ unsure \subseteq unsure' /\ unsure' \subseteq Threads
        /\ \A t \in Threads : Has(srv', t) => Has(srv, t)
        /\ \A t \in Threads \ unsure' : Drafted(t)' /\ Known(t) =>
             Drafted(t) /\ Card(srv', t).draft = Card(srv, t).draft
    BY <2>1, <2>2, RedraftKeeps
  <2>4. RequestsOK' /\ reqs'["send"] = reqs["send"]
    BY <1>1, <2>3, ReplyKeepsRequests DEF Ops
  <2> QED
    BY <1>1, <2>1, <2>3, <2>4, OldDraftKeeps, CountsUnchanged
<1>3. CASE ~\E t \in Threads : Has(srv, t) /\ Unsent(Card(srv, t))
  <2>1. PICK s \in Threads :
          /\ srv' = Raise(srv, Thread(s, "draft", FALSE))
          /\ mails' = [mails EXCEPT ![s] = 0]
          /\ UNCHANGED unsure
    BY <1>3 DEF Retry
  <2>2. PICK c : c = Thread(s, "draft", FALSE)
    OBVIOUS
  <2>3. CardOK(c) /\ c.thread = s
    BY <2>2, ThreadCard DEF DraftStates
  <2>4. ListOK(srv')
    BY <1>1, <2>1, <2>2, <2>3, CardKeeps
  <2>5. RequestsOK' /\ reqs'["send"] = reqs["send"]
    BY <1>1, <2>4, ReplyKeepsRequests DEF Ops
  <2> QED
    BY <1>1, <2>1, <2>2, <2>3, <2>5, NewDraftKeeps, CountsUnchanged
<1> QED
  BY <1>2, <1>3

\* A request to send, and what it does to its thread: its mail leaves only if
\* the reader could not know of an earlier one.
LEMMA SendingKeeps ==
  ASSUME IInv, NEW s \in Threads, Asked("send"), s = reqs["send"].thread, Drafted(s),
         NEW c, CardOK(c), c.thread = s,
         \/ srv' = Raise(srv, c)
         \/ srv' = Put(srv, c),
         Answered("send", srv', None) \/ Lost("send"),
         Count(s) \/ UNCHANGED mails,
         unsure' = unsure \/ unsure' = unsure \union {s},
         UNCHANGED <<cards, ui, clicks, arrived>>,
         \/ s \in unsure'
         \/ c.draft = "sent" /\ Answered("send", srv', None)
         \/ UNCHANGED mails
  PROVE  IInv'
<1>1. /\ RequestsOK /\ ServiceOK /\ CountsOK /\ PageOK /\ ListOK(srv)
      /\ Has(srv, s) /\ reqs["send"].at = "asked" /\ \A t \in Threads : SentOnce(t)
  BY DEF IInv, ServiceOK, Drafted, Asked
<1>2. ~Known(s)
  BY <1>1 DEF SentOnce, Sending
<1>3. /\ ListOK(srv')
      /\ Has(srv', s) /\ Card(srv', s) = c
      /\ \A t \in Threads : Has(srv', t) => Has(srv, t) \/ t = s
      /\ \A t \in Threads : t # s /\ Drafted(t)' =>
           Drafted(t) /\ Card(srv', t).draft = Card(srv, t).draft
  BY <1>1, CardKeeps
<1>4. PICK list : list = srv'
  OBVIOUS
<1>5. /\ RequestsOK'
      /\ reqs'["send"].thread = s
      /\ Answered("send", srv', None) => reqs'["send"].at = "answered"
      /\ reqs'["send"].at # "idle"
  <2>1. ListOK(list) /\ (Answered("send", list, None) \/ Lost("send")) /\ None \in Maybe(Threads)
    BY <1>3, <1>4 DEF Maybe
  <2>2. CASE Answered("send", list, None)
    BY <1>1, <2>1, <2>2, RequestAnswered DEF Ops
  <2>3. CASE Lost("send")
    <3>1. /\ RequestsOK'
          /\ reqs'["send"].at = "failed" /\ reqs'["send"].thread = s
      BY <1>1, <2>3, RequestLost DEF Ops
    <3>2. ~Answered("send", srv', None)
      <4>1. SUFFICES ASSUME Answered("send", list, None) PROVE FALSE
        BY <1>4
      <4>2. reqs'["send"].at = "answered"
        BY <1>1, <2>1, <4>1, RequestAnswered DEF Ops
      <4> QED
        BY <3>1, <4>2
    <3> QED
      BY <3>1, <3>2
  <2> QED
    BY <1>4, <2>1, <2>2, <2>3
<1>6. /\ mails' \in [Threads -> Maybe(0 .. 2)]
      /\ \A t \in Threads : t # s => mails'[t] = mails[t]
      /\ mails[s] # None /\ mails'[s] # None
      /\ mails'[s] = mails[s] \/ (Count(s) /\ mails'[s] = IF mails[s] < 2 THEN mails[s] + 1 ELSE mails[s])
  <2>1. mails[s] \in 0 .. 2
    BY <1>1 DEF ServiceOK, Maybe
  <2>2. PICK n : n = IF mails[s] < 2 THEN mails[s] + 1 ELSE mails[s]
    OBVIOUS
  <2>3. n \in 0 .. 2
    BY <2>1, <2>2
  <2>4. Count(s) => mails' = [mails EXCEPT ![s] = n]
    BY <2>2 DEF Count
  <2> QED
    BY <1>1, <2>1, <2>2, <2>3, <2>4, NamesAssumption DEF ServiceOK, Maybe
<1>7. ServiceOK'
  BY <1>1, <1>3, <1>6 DEF ServiceOK
<1>8. ASSUME NEW t \in Threads, t # s
      PROVE  SentOnce(t)'
  <2>1. mails'[t] = mails[t] /\ (t \in unsure' <=> t \in unsure)
    BY <1>6, <1>8
  <2>2. Known(t)' <=> Known(t)
    BY <2>1 DEF Known
  <2>3. ~Sending(t) /\ ~Sending(t)'
    BY <1>5, <1>8 DEF Sending
  <2>4. OutOfReach(t)' <=> OutOfReach(t)
    BY DEF OutOfReach
  <2> QED
    BY <1>1, <1>3, <1>8, <2>1, <2>2, <2>3, <2>4 DEF SentOnce
<1>9. SentOnce(s)'
  <2>1. CASE s \in unsure'
    BY <2>1 DEF SentOnce, Known
  <2>2. CASE s \notin unsure' /\ mails'[s] = mails[s]
    <3>1. ~Known(s)' /\ (mails'[s] = 2 => s \in unsure')
      BY <1>1, <1>2, <2>2 DEF Known, SentOnce
    <3> QED
      BY <3>1 DEF SentOnce
  <2>3. CASE s \notin unsure' /\ mails'[s] # mails[s]
    <3>1. c.draft = "sent" /\ reqs'["send"].at = "answered" /\ Sending(s)'
      BY <1>5, <2>3 DEF Sending
    <3>2. mails'[s] # 2
      <4>1. mails[s] \in 0 .. 2 /\ s \notin unsure
        BY <1>1, <1>6, <2>3 DEF ServiceOK, Maybe
      <4>2. mails[s] # 1 /\ mails[s] # 2
        BY <1>1, <1>2, <4>1 DEF Known, SentOnce
      <4> QED
        BY <1>6, <2>3, <4>1, <4>2
    <3> QED
      BY <1>3, <3>1, <3>2 DEF SentOnce
  <2> QED
    BY <2>1, <2>2, <2>3
<1>10. CountsOK' /\ PageOK'
  BY <1>1, CountsUnchanged, PageUnchanged
<1> QED
  BY <1>5, <1>7, <1>8, <1>9, <1>10 DEF IInv

LEMMA ErrorCard ==
  ASSUME ListOK(srv), NEW s \in Threads, Has(srv, s), NEW c, c = [Card(srv, s) EXCEPT !.draft = "error"]
  PROVE  CardOK(c) /\ c.thread = s /\ c.draft = "error"
<1>1. PICK old : old = Card(srv, s)
  OBVIOUS
<1>2. CardOK(old) /\ old.thread = s
  BY <1>1, CardOfThread
<1>3. c = [old EXCEPT !.draft = "error"]
  BY <1>1
<1> QED
  BY <1>2, <1>3 DEF CardOK, Cards, DraftStates

LEMMA SendNothingKeeps ==
  ASSUME IInv, NEW s \in Threads, SendNothing(s)
  PROVE  IInv'
<1>1. ListOK(srv) /\ Has(srv, s)
  BY DEF IInv, ServiceOK, SendNothing, Drafted
<1>2. PICK c : c = [Card(srv, s) EXCEPT !.draft = "error"]
  OBVIOUS
<1>3. CardOK(c) /\ c.thread = s
  BY <1>1, <1>2, ErrorCard
<1>4. srv' = Put(srv, c)
  BY <1>2 DEF SendNothing
<1> QED
  BY <1>3, <1>4, SendingKeeps DEF SendNothing

LEMMA SendKeeps ==
  ASSUME IInv, NEW s \in Threads, Send(s)
  PROVE  IInv'
<1>1. PICK c : c = Thread(s, "sent", TRUE)
  OBVIOUS
<1>2. CardOK(c) /\ c.thread = s /\ c.draft = "sent"
  BY <1>1, ThreadCard DEF DraftStates
<1>3. srv' = Raise(srv, c)
  BY <1>1 DEF Send
<1> QED
  BY <1>2, <1>3, SendingKeeps DEF Send

LEMMA SendUnmarkedKeeps ==
  ASSUME IInv, NEW s \in Threads, SendUnmarked(s)
  PROVE  IInv'
<1>1. ListOK(srv) /\ Has(srv, s) /\ s \in unsure'
  BY DEF IInv, ServiceOK, SendUnmarked, Drafted
<1>2. PICK c : CardOK(c) /\ c.thread = s /\ (srv' = Raise(srv, c) \/ srv' = Put(srv, c))
  <2>1. CASE srv' = Put(srv, [Card(srv, s) EXCEPT !.draft = "error"])
    BY <1>1, <2>1, ErrorCard
  <2>2. CASE srv' = Raise(srv, Thread(s, "error", TRUE))
    BY <2>2, ThreadCard DEF DraftStates
  <2> QED
    BY <2>1, <2>2 DEF SendUnmarked
<1> QED
  BY <1>1, <1>2, SendingKeeps DEF SendUnmarked

LEMMA ServiceKeeps ==
  ASSUME IInv, Service
  PROVE  IInv'
<1>1. CASE AnswerLoad \/ Revise \/ Retry
  BY <1>1, AnswerLoadKeeps, ReviseKeeps, RetryKeeps
<1>2. CASE \E op \in Ops : Refuse(op) \/ ReadDraft(op)
  BY <1>2, RefuseKeeps, ReadDraftKeeps
<1>3. CASE \E t \in Threads : Create(t) \/ SendNothing(t) \/ Send(t) \/ SendUnmarked(t)
  BY <1>3, CreateKeeps, SendNothingKeeps, SendKeeps, SendUnmarkedKeeps
<1>4. CASE \E t \in Threads : (\E op \in Ops : Cancel(op, t)) \/ SendReply(t) \/ Suggest(t) \/ Arrive(t)
  BY <1>4, CancelKeeps, SendReplyKeeps, SuggestKeeps, ArriveKeeps
<1> QED
  BY <1>1, <1>2, <1>3, <1>4 DEF Service
-----------------------------------------------------------------------------
(***************************************************************************)
(* What the page does with an answer.                                      *)
(***************************************************************************)

LEMMA PollKeeps ==
  ASSUME IInv, Poll
  PROVE  IInv'
<1>1. RequestsOK /\ Ask("load", None)
  BY DEF IInv, Poll
<1>2. RequestsOK' /\ reqs'["send"] = reqs["send"]
  BY <1>1, RequestAsked DEF Ops
<1> QED
  BY <1>2, QuietKeeps DEF Poll

\* What an answer shows: a draft that was sent is in the composer, or looks
\* unsent, only of a thread whose reader could not know.
LEMMA TakeKeeps ==
  ASSUME IInv, NEW op \in Ops, Take(op)
  PROVE  IInv'
<1>1. /\ CountsOK /\ RequestsOK /\ ServiceOK /\ PageOK /\ \A t \in Threads : SentOnce(t)
      /\ UNCHANGED <<srv, clicks, arrived, mails>>
      /\ reqs[op].at = "answered" /\ RequestOK(op, reqs[op])
      /\ unsure' = unsure \union Overtaken(reqs[op].cards) \union Reopened(op)
  BY DEF IInv, Take, RequestsOK
<1>2. PICK list : list = reqs[op].cards
  OBVIOUS
<1>3. ListOK(list) /\ cards' = list
  BY <1>1, <1>2 DEF RequestOK, Take
<1>4. PICK a : a = Applied(ui, list)
  OBVIOUS
<1>5. a \in UIs /\ TextsOK(a)
  BY <1>1, <1>3, <1>4, AppliedPage DEF PageOK
<1>6. PICK u : u = Continued(op, a)
  OBVIOUS
<1>7. u \in UIs /\ TextsOK(u) /\ (op = "send" => u.pane = "read")
  BY <1>1, <1>5, <1>6, ContinuedPage DEF PageOK
<1>8. Show(u, cards', Done(op))
  BY <1>2, <1>3, <1>4, <1>6 DEF Take
<1>9. /\ PageOK'
      /\ op = "send" => ui'.pane # "create"
  BY <1>1, <1>3, <1>7, <1>8, PageShown
<1>10. /\ RequestsOK'
       /\ reqs'[op].at = "idle"
       /\ \A o \in Ops : o # op => reqs'[o] = reqs[o]
  BY <1>1, RequestDone DEF Take
<1>11. CountsOK' /\ ServiceOK'
  BY <1>1, CountsUnchanged DEF ServiceOK, Overtaken, Reopened
<1>12. ASSUME NEW t \in Threads
       PROVE  SentOnce(t)'
  <2>1. mails'[t] = 2 => t \in unsure'
    BY <1>1 DEF SentOnce
  <2>2. SUFFICES ASSUME Known(t)', Drafted(t)'
                 PROVE  /\ Card(srv', t).draft = "sent"
                        /\ ~(Sending(t)' /\ reqs'["send"].at \in {"asked", "failed"})
                        /\ Sending(t)' \/ OutOfReach(t)'
    BY <2>1 DEF SentOnce
  <2>3. Known(t) /\ Drafted(t) /\ t \notin Overtaken(list) /\ t \notin Reopened(op)
    BY <1>1, <1>2, <2>2 DEF Known, Drafted
  <2>4. /\ Card(srv, t).draft = "sent" /\ Has(srv, t)
        /\ ~(Sending(t) /\ reqs["send"].at \in {"asked", "failed"})
    BY <1>1, <2>3 DEF SentOnce, Drafted
  <2>5. ~(Sending(t)' /\ reqs'["send"].at \in {"asked", "failed"})
    BY <1>10, <2>4 DEF Sending, Ops
  <2>6. ~(Has(list, t) /\ Unsent(Card(list, t)))
    BY <2>3, <2>4 DEF Overtaken
  <2>7. ASSUME ~Sending(t)'
        PROVE  OutOfReach(t)'
    <3>1. SUFFICES ASSUME ui'.pane = "create", ui'.compose = t, Has(list, t), Card(list, t).draft # "none"
                   PROVE  FALSE
      BY <1>3, <2>6 DEF OutOfReach
    <3>2. Card(list, t).draft = "sent"
      BY <1>3, <2>6, <3>1, CardOfThread DEF CardOK, Cards, DraftStates, Unsent
    <3>3. t \in Reopened(op)
      BY <1>3, <1>9, <2>7, <3>1, <3>2 DEF Reopened, Sending
    <3> QED
      BY <2>3, <3>3
  <2> QED
    BY <1>1, <2>4, <2>5, <2>7
<1> QED
  BY <1>9, <1>10, <1>11, <1>12 DEF IInv

\* A failed request marks a card that it leaves on the page, if any.
LEMMA FailKeeps ==
  ASSUME IInv, NEW op \in Ops, Fail(op)
  PROVE  IInv'
<1>1. /\ CountsOK /\ RequestsOK /\ ServiceOK /\ PageOK /\ \A t \in Threads : SentOnce(t)
      /\ UNCHANGED <<srv, clicks, arrived, mails, unsure>>
      /\ reqs[op].at = "failed" /\ ListOK(cards) /\ ui \in UIs /\ TextsOK(ui)
  BY DEF IInv, Fail, PageOK
<1>2. /\ ListOK(cards')
      /\ \A t \in Threads : Has(cards', t) => Has(cards, t)
      /\ \A t \in Threads : Has(cards', t) /\ Card(cards', t).draft # "none" => Card(cards, t).draft # "none"
      /\ \A t \in Threads : Has(cards', t) /\ Unsent(Card(cards', t)) =>
           /\ Card(cards, t).draft # "none"
           /\ Card(cards', t).messages = Card(cards, t).messages
  <2>1. PICK s : s = reqs[op].thread
    OBVIOUS
  <2>2. CASE op \in {"send", "retry"} /\ Has(cards, s) /\ Card(cards, s).draft # "none"
    <3>1. PICK old : old = Card(cards, s)
      OBVIOUS
    <3>2. CardOK(old) /\ old.thread = s
      BY <1>1, <2>2, <3>1, CardOfThread
    <3>3. PICK c : c = [old EXCEPT !.draft = "error"]
      OBVIOUS
    <3>4. CardOK(c) /\ c.thread = s /\ c.draft = "error" /\ c.messages = old.messages
      BY <3>2, <3>3 DEF CardOK, Cards, DraftStates
    <3>5. cards' = Put(cards, c)
      BY <2>1, <2>2, <3>1, <3>3 DEF Fail
    <3>6. /\ ListOK(cards')
          /\ \A t : Has(cards', t) <=> Has(cards, t)
          /\ \A t : Has(cards, t) => Card(cards', t) = IF t = s THEN c ELSE Card(cards, t)
      BY <1>1, <3>4, <3>5, PutCard
    <3> QED
      BY <2>2, <3>1, <3>4, <3>6 DEF Unsent
  <2>3. CASE ~(op \in {"send", "retry"} /\ Has(cards, s) /\ Card(cards, s).draft # "none")
    <3>1. cards' = cards
      BY <2>1, <2>3 DEF Fail
    <3> QED
      BY <1>1, <3>1 DEF Unsent
  <2> QED
    BY <2>2, <2>3
<1>3. /\ PageOK'
      /\ ui'.compose = ui.compose
      /\ ui'.pane = "create" => ui.pane = "create"
  <2>1. Show(ui, cards', Done(op))
    BY DEF Fail
  <2> QED
    BY <1>1, <1>2, <2>1, PageShown
<1>4. /\ RequestsOK'
      /\ reqs'[op].at = "idle"
      /\ \A o \in Ops : o # op => reqs'[o] = reqs[o]
  BY <1>1, RequestDone DEF Fail
<1>5. CountsOK' /\ ServiceOK'
  BY <1>1, CountsUnchanged, ServiceUnchanged
<1>6. ASSUME NEW t \in Threads
      PROVE  SentOnce(t)'
  <2>1. mails'[t] = 2 => t \in unsure'
    BY <1>1 DEF SentOnce
  <2>2. SUFFICES ASSUME Known(t)', Drafted(t)'
                 PROVE  /\ Card(srv', t).draft = "sent"
                        /\ ~(Sending(t)' /\ reqs'["send"].at \in {"asked", "failed"})
                        /\ Sending(t)' \/ OutOfReach(t)'
    BY <2>1 DEF SentOnce
  <2>3. Known(t) /\ Drafted(t)
    BY <1>1, <2>2 DEF Known, Drafted
  <2>4. /\ Card(srv, t).draft = "sent"
        /\ ~(Sending(t) /\ reqs["send"].at \in {"asked", "failed"})
        /\ Sending(t) \/ OutOfReach(t)
    BY <1>1, <2>3 DEF SentOnce
  <2>5. ~(Sending(t)' /\ reqs'["send"].at \in {"asked", "failed"})
    BY <1>4, <2>4 DEF Sending, Ops
  <2>6. ASSUME ~Sending(t)'
        PROVE  OutOfReach(t)'
    <3>1. ~Sending(t)
      BY <1>1, <1>4, <2>4, <2>6 DEF Sending, Ops
    <3>2. OutOfReach(t)
      BY <2>4, <3>1
    <3>3. ~(ui'.pane = "create" /\ ui'.compose = t /\ Has(cards', t) /\ Card(cards', t).draft # "none")
      BY <1>2, <1>3, <3>2 DEF OutOfReach
    <3>4. Has(cards', t) /\ Unsent(Card(cards', t)) => Card(cards', t).messages
      <4>1. SUFFICES ASSUME Has(cards', t), Unsent(Card(cards', t))
                     PROVE  Card(cards, t).messages
        BY <1>2
      <4>2. Has(cards, t) /\ Card(cards, t).draft # "none"
        BY <1>2, <4>1
      <4>3. Card(cards, t).draft = "sent" \/ Unsent(Card(cards, t))
        BY <1>1, <4>2, CardOfThread DEF CardOK, Cards, DraftStates, Unsent
      <4> QED
        BY <1>1, <3>2, <4>2, <4>3, CardOfThread DEF CardOK, OutOfReach
    <3> QED
      BY <3>3, <3>4 DEF OutOfReach
  <2> QED
    BY <1>1, <2>4, <2>5, <2>6
<1> QED
  BY <1>3, <1>4, <1>5, <1>6 DEF IInv

LEMMA NextKeeps ==
  ASSUME IInv, [Next]_vars
  PROVE  IInv'
<1>1. CASE Reader
  BY <1>1, ReaderKeeps
<1>2. CASE Service
  BY <1>2, ServiceKeeps
<1>3. CASE Poll
  BY <1>3, PollKeeps
<1>4. CASE \E op \in Ops : Take(op) \/ Fail(op)
  BY <1>4, TakeKeeps, FailKeeps
<1>5. CASE UNCHANGED vars
  <2>1. UNCHANGED <<srv, cards, ui, reqs, clicks, arrived, mails, unsure>>
    BY <1>5 DEF vars
  <2>2. RequestsOK' /\ reqs'["send"] = reqs["send"]
    BY <2>1 DEF IInv, RequestsOK
  <2> QED
    BY <2>1, <2>2, QuietKeeps
<1> QED
  BY <1>1, <1>2, <1>3, <1>4, <1>5 DEF Next, Page
-----------------------------------------------------------------------------
(***************************************************************************)
(* The theorems.                                                           *)
(***************************************************************************)

\* The inductive invariant holds in every state.
THEOREM Invariance == Spec => []IInv
<1>1. Init => IInv
  BY InitEstablishes
<1>2. IInv /\ [Next]_vars => IInv'
  BY NextKeeps
<1> QED
  BY <1>1, <1>2, PTL DEF Spec

\* Types; and neither an answer nor the page lists a thread twice, whatever
\* the service raises, rewrites and takes off its list meanwhile.
THEOREM TypeCorrect == Spec => []TypeOK
<1>1. IInv => TypeOK
  <2> SUFFICES ASSUME IInv PROVE TypeOK
    OBVIOUS
  <2>1. ASSUME NEW cs \in {srv, cards} \union {reqs[op].cards : op \in {o \in Ops : reqs[o].at = "answered"}}
        PROVE  cs \in Seq(Cards) /\ \A i, j \in DOMAIN cs : cs[i].thread = cs[j].thread => i = j
    <3>1. ListOK(cs)
      BY DEF IInv, ServiceOK, PageOK, RequestsOK, RequestOK
    <3> QED
      BY <3>1 DEF ListOK
  <2>2. ui \in UIs /\ DOMAIN reqs = Ops /\ \A op \in Ops : reqs[op].at \in States
    BY DEF IInv, PageOK, RequestsOK, RequestOK
  <2>3. /\ clicks \in 0 .. MaxClicks /\ arrived \in 0 .. MaxMail
        /\ mails \in [Threads -> Maybe(0 .. 2)]
        /\ unsure \subseteq Threads
    BY DEF IInv, CountsOK, ServiceOK
  <2> QED
    BY <2>1, <2>2, <2>3 DEF TypeOK, UIs, States
<1> QED
  BY <1>1, Invariance, PTL

\* A reply is posted to the thread whose message it quotes, with a text written
\* for it or a suggestion from which the reader had moved away: the composer of
\* replies is on the selected thread whenever it can be read.
THEOREM RepliesGoHome == Spec => []RepliesStayHome
<1>1. IInv => RepliesStayHome
  <2> SUFFICES ASSUME IInv PROVE RepliesStayHome
    OBVIOUS
  <2>1. TextsOK(ui) /\ RequestOK("reply", reqs["reply"])
    BY DEF IInv, PageOK, RequestsOK, Ops
  <2> QED
    BY <2>1 DEF RepliesStayHome, TextsOK, RequestOK, Asked
<1> QED
  BY <1>1, Invariance, PTL

\* Of a draft that was mailed twice, the reader could not know of the first mail.
THEOREM OneMailKnowingly == Spec => []MailedTwiceUnknowingly
<1>1. IInv => MailedTwiceUnknowingly
  BY DEF IInv, SentOnce, MailedTwiceUnknowingly
<1> QED
  BY <1>1, Invariance, PTL

\* The poll of a page leaves the reply being written in the selected thread
\* alone, whatever its answer lists besides.
THEOREM ReplyOutlivesPoll == Spec => PollKeepsReply
<1>1. ASSUME IInv, NEW t \in Threads, Take("load"), Has(cards', t),
             ui.selected = t, ui.reply = t, ui.body # None
      PROVE  ui'.body = ui.body /\ ui'.reply = t
  <2>1. PICK cs : cs = reqs["load"].cards
    OBVIOUS
  <2>2. cs = cards' /\ ListOK(cs) /\ Has(cs, t) /\ ui \in UIs /\ TextsOK(ui)
    BY <1>1, <2>1 DEF IInv, PageOK, RequestsOK, RequestOK, Take, Ops
  <2>3. PICK a : a = [ui EXCEPT !.loaded = TRUE]
    OBVIOUS
  <2>4. /\ a \in UIs /\ a.selected = t /\ a.reply = t /\ a.body = ui.body
    BY <1>1, <2>2, <2>3 DEF UIs
  <2>5. t # None
    BY NamesAssumption
  <2>6. Reselected(a, cs) = a
    BY <2>2, <2>4, <2>5 DEF Reselected
  <2>7. PICK w : w = IF a.compose # None /\ ~Has(cs, a.compose) THEN [a EXCEPT !.compose = None] ELSE a
    OBVIOUS
  <2>8. w \in UIs /\ w.selected = t /\ w.reply = t /\ w.body = ui.body
    BY <2>4, <2>7 DEF UIs, Maybe
  <2>9. Selected(w, cs) = t
    BY <2>2, <2>5, <2>8 DEF Selected
  <2>10. Settled(w, cs) = w
    BY <2>8, <2>9 DEF Settled
  <2>11. Applied(ui, cs) = w
    BY <2>2, <2>3, <2>6, <2>7, <2>8, <2>10 DEF Applied
  <2>12. Continued("load", w) = w
    BY DEF Continued
  <2>13. Show(w, cs, Done("load"))
    BY <1>1, <2>1, <2>11, <2>12 DEF Take
  <2>14. TextsOK(w)
    BY <2>2, <2>8, <2>11, AppliedPage
  <2>15. ui'.reply = w.reply /\ ui'.body = w.body
    BY <2>2, <2>8, <2>10, <2>13, <2>14, ShowPage
  <2> QED
    BY <2>8, <2>15
<1>2. IInv /\ [Next]_vars =>
        [\A t \in Threads :
           (/\ Take("load") /\ Has(cards', t)
            /\ ui.selected = t /\ ui.reply = t /\ ui.body # None)
             => ui'.body = ui.body /\ ui'.reply = t]_vars
  BY <1>1
<1> QED
  BY <1>2, Invariance, PTL DEF Spec, PollKeepsReply
=============================================================================
