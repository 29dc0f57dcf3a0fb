----------------------- MODULE ConsentCleanup_proofs -----------------------
(***************************************************************************)
(* Proofs about ConsentCleanup and UserConsent: types, the agreement of    *)
(* preferences and events, and what a cleanup leaves alone, for any number *)
(* of users, requests and cleaners.                                        *)
(*                                                                         *)
(* What the row locks give is said of each process: a request at work in   *)
(* its transaction has the preference's row, and its draft is that row as  *)
(* committed with the change it was asked for; a cleaner past its second   *)
(* check has both rows, and the registration is still one that was never   *)
(* completed.                                                              *)
(***************************************************************************)
EXTENDS ConsentCleanup, SequenceTheorems, FiniteSetTheorems, TLAPS

(***************************************************************************)
(* Sequences of events.                                                    *)
(***************************************************************************)


EventRecords ==
  {"TERMS_ACCEPTED", "PRIVACY_POLICY_ACKNOWLEDGED", "MODEL_TRAINING_OPTED_IN", "MODEL_TRAINING_OPTED_OUT"}
    \X {"old", "current"}

Kinds == {TrainingTypes, {"PRIVACY_POLICY_ACKNOWLEDGED"}}

\* The places of s with an event of one of the types in T.
At(s, T) == {i \in 1..Len(s) : s[i][1] \in T}

EndsWith(s, T, e) == \E i \in At(s, T) : s[i] = e /\ \A k \in At(s, T) : k <= i
Once(s) == \E i \in 1..Len(s) : At(s, {"TERMS_ACCEPTED"}) = {i}
NoRepeats(s) ==
  \A T \in Kinds : \A i, j \in At(s, T) :
    i < j /\ (\A k \in At(s, T) : k <= i \/ j <= k) => s[i] # s[j]

LEMMA EventAdded ==
  ASSUME NEW s \in Seq(EventRecords), NEW e \in EventRecords
  PROVE  LET t == s \o <<e>> IN
         /\ t \in Seq(EventRecords)
         /\ Len(t) = Len(s) + 1
         /\ t[Len(s) + 1] = e
         /\ \A i \in 1..Len(s) : t[i] = s[i]
  <1>1. <<e>> \in Seq(EventRecords) /\ Len(<<e>>) = 1 /\ <<e>>[1] = e
    OBVIOUS
  <1>2. QED
    BY <1>1, ConcatProperties

LEMMA PlaceAdded ==
  ASSUME NEW s \in Seq(EventRecords), NEW e \in EventRecords, NEW T, e[1] \in T
  PROVE  At(s \o <<e>>, T) = At(s, T) \cup {Len(s) + 1}
  <1> DEFINE t == s \o <<e>>
  <1>1. Len(s) \in Nat /\ 1..Len(t) = (1..Len(s)) \cup {Len(s) + 1}
    BY EventAdded
  <1>2. t[Len(s) + 1] = e /\ \A i \in 1..Len(s) : t[i] = s[i]
    BY EventAdded
  <1>3. QED
    BY <1>1, <1>2 DEF At

LEMMA NoPlaceAdded ==
  ASSUME NEW s \in Seq(EventRecords), NEW e \in EventRecords, NEW T, e[1] \notin T
  PROVE  At(s \o <<e>>, T) = At(s, T)
  <1> DEFINE t == s \o <<e>>
  <1>1. Len(s) \in Nat /\ 1..Len(t) = (1..Len(s)) \cup {Len(s) + 1}
    BY EventAdded
  <1>2. t[Len(s) + 1] = e /\ \A i \in 1..Len(s) : t[i] = s[i]
    BY EventAdded
  <1>3. QED
    BY <1>1, <1>2 DEF At

LEMMA LastAdded ==
  ASSUME NEW s \in Seq(EventRecords), NEW e \in EventRecords, NEW T, NEW f
  PROVE  /\ e[1] \in T => EndsWith(s \o <<e>>, T, e)
         /\ e[1] \notin T /\ EndsWith(s, T, f) => EndsWith(s \o <<e>>, T, f)
  <1>1. Len(s) \in Nat
    OBVIOUS
  <1>2. ASSUME e[1] \in T PROVE EndsWith(s \o <<e>>, T, e)
    <2>1. At(s \o <<e>>, T) = At(s, T) \cup {Len(s) + 1}
      BY <1>2, PlaceAdded
    <2>2. \A k \in At(s \o <<e>>, T) : k <= Len(s) + 1
      BY <1>1, <2>1 DEF At
    <2>3. QED
      BY <2>1, <2>2, EventAdded DEF EndsWith
  <1>3. ASSUME e[1] \notin T, EndsWith(s, T, f) PROVE EndsWith(s \o <<e>>, T, f)
    <2>1. At(s \o <<e>>, T) = At(s, T)
      BY <1>3, NoPlaceAdded
    <2>2. PICK i \in At(s, T) : s[i] = f /\ \A k \in At(s, T) : k <= i
      BY <1>3 DEF EndsWith
    <2>3. (s \o <<e>>)[i] = f
      BY <2>2, EventAdded DEF At
    <2>4. QED
      BY <2>1, <2>2, <2>3 DEF EndsWith
  <1>4. QED
    BY <1>2, <1>3

LEMMA OnceAdded ==
  ASSUME NEW s \in Seq(EventRecords), NEW e \in EventRecords, Once(s), e[1] # "TERMS_ACCEPTED"
  PROVE  Once(s \o <<e>>)
  <1>1. At(s \o <<e>>, {"TERMS_ACCEPTED"}) = At(s, {"TERMS_ACCEPTED"})
    <2>1. e[1] \notin {"TERMS_ACCEPTED"}
      OBVIOUS
    <2>2. QED
      BY <2>1, NoPlaceAdded
  <1>2. PICK i \in 1..Len(s) : At(s, {"TERMS_ACCEPTED"}) = {i}
    BY DEF Once
  <1>3. i \in 1..Len(s \o <<e>>)
    BY EventAdded
  <1>4. QED
    BY <1>1, <1>2, <1>3 DEF Once

LEMMA ChangeAdded ==
  ASSUME NEW s \in Seq(EventRecords), NEW e \in EventRecords, NEW T \in Kinds, NEW f,
         NoRepeats(s), e[1] \in T, EndsWith(s, T, f), e # f
  PROVE  NoRepeats(s \o <<e>>)
  <1> DEFINE t == s \o <<e>>
  <1>0. Len(s) \in Nat
    OBVIOUS
  <1>1. SUFFICES ASSUME NEW K \in Kinds, NEW i \in At(t, K), NEW j \in At(t, K),
                        i < j, \A k \in At(t, K) : k <= i \/ j <= k
                 PROVE  t[i] # t[j]
    BY DEF NoRepeats
  <1>2. CASE e[1] \notin K
    <2>1. At(t, K) = At(s, K)
      BY <1>2, NoPlaceAdded
    <2>2. t[i] = s[i] /\ t[j] = s[j]
      BY <2>1, EventAdded DEF At
    <2>3. QED
      BY <1>1, <2>1, <2>2 DEF NoRepeats
  <1>3. CASE e[1] \in K
    <2>1. K = T
      BY <1>3 DEF Kinds, TrainingTypes
    <2>2. At(t, K) = At(s, K) \cup {Len(s) + 1}
      BY <1>3, PlaceAdded
    <2>3. PICK m \in At(s, K) : s[m] = f /\ \A k \in At(s, K) : k <= m
      BY <2>1 DEF EndsWith
    <2>4. CASE j = Len(s) + 1
      <3>1. i \in At(s, K)
        BY <1>1, <2>2, <2>4
      <3>2. i <= m /\ m \in 1..Len(s) /\ i \in 1..Len(s)
        BY <2>3, <3>1 DEF At
      <3>3. m <= i \/ j <= m
        BY <1>1, <2>2, <2>3
      <3>4. i = m
        BY <1>0, <2>4, <3>2, <3>3
      <3>5. QED
        BY <2>3, <2>4, <3>4, <3>2, EventAdded
    <2>5. CASE j # Len(s) + 1
      <3>1. j \in At(s, K)
        BY <2>2, <2>5
      <3>2. i \in At(s, K)
        BY <1>0, <1>1, <2>2, <3>1 DEF At
      <3>3. t[i] = s[i] /\ t[j] = s[j]
        BY <3>1, <3>2, EventAdded DEF At
      <3>4. \A k \in At(s, K) : k <= i \/ j <= k
        BY <1>1, <2>2
      <3>5. QED
        BY <1>1, <3>1, <3>2, <3>3, <3>4 DEF NoRepeats
    <2>6. QED
      BY <2>4, <2>5
  <1>4. QED
    BY <1>2, <1>3

LEMMA Onboarded ==
  ASSUME NEW v \in {"old", "current"}, NEW o \in BOOLEAN
  PROVE  LET s == OnboardingEvents(v, o) IN
         /\ s \in Seq(EventRecords)
         /\ Once(s) /\ NoRepeats(s)
         /\ EndsWith(s, {"PRIVACY_POLICY_ACKNOWLEDGED"}, <<"PRIVACY_POLICY_ACKNOWLEDGED", v>>)
         /\ EndsWith(s, TrainingTypes, TrainingEvent(o))
  <1> DEFINE s == OnboardingEvents(v, o)
  <1>1. TrainingEvent(o) \in EventRecords /\ TrainingEvent(o)[1] \in TrainingTypes
        /\ TrainingEvent(o)[1] # "TERMS_ACCEPTED" /\ TrainingEvent(o)[1] # "PRIVACY_POLICY_ACKNOWLEDGED"
    BY DEF TrainingEvent, TrainingTypes, EventRecords
  <1>2. <<"TERMS_ACCEPTED", "current">> \in EventRecords /\ <<"PRIVACY_POLICY_ACKNOWLEDGED", v>> \in EventRecords
    BY DEF EventRecords
  <1>3. s = << <<"TERMS_ACCEPTED", "current">>, <<"PRIVACY_POLICY_ACKNOWLEDGED", v>>, TrainingEvent(o) >>
    BY DEF OnboardingEvents
  <1>4. s \in Seq(EventRecords) /\ Len(s) = 3 /\ s[1] = <<"TERMS_ACCEPTED", "current">>
        /\ s[2] = <<"PRIVACY_POLICY_ACKNOWLEDGED", v>> /\ s[3] = TrainingEvent(o)
    <2> HIDE DEF s
    <2> QED BY <1>1, <1>2, <1>3
  <1>5. 1..Len(s) = {1, 2, 3}
    BY <1>4
  <1>6. At(s, {"TERMS_ACCEPTED"}) = {1} /\ At(s, {"PRIVACY_POLICY_ACKNOWLEDGED"}) = {2} /\ At(s, TrainingTypes) = {3}
    <2> HIDE DEF s
    <2> QED BY <1>1, <1>4, <1>5 DEF At, TrainingTypes
  <1> HIDE DEF s
  <1>7. Once(s)
    BY <1>5, <1>6 DEF Once
  <1>8. NoRepeats(s)
    BY <1>6 DEF NoRepeats, Kinds
  <1>9. EndsWith(s, {"PRIVACY_POLICY_ACKNOWLEDGED"}, <<"PRIVACY_POLICY_ACKNOWLEDGED", v>>)
        /\ EndsWith(s, TrainingTypes, TrainingEvent(o))
    BY <1>4, <1>6 DEF EndsWith
  <1>10. QED
    BY <1>4, <1>7, <1>8, <1>9 DEF s
-----------------------------------------------------------------------------
(***************************************************************************)
(* Rows, calls and events.                                                 *)
(***************************************************************************)

Steps == {"idle", "arriving", "ensuring", "locking", "deciding", "recording", "done"}
Calls == [user : Users \cup {NoOne}, form : Forms \cup {"none"}, op : Operations \cup {"none"}, optIn : BOOLEAN]

\* The CHECKs of the preference table.
Legal(p) == IF p.terms THEN p.privacy # "none" ELSE p.privacy = "none" /\ ~p.optIn

\* The row that call c makes of row p, and whether there is nothing to do.
Asked(c, p) ==
  CASE c.op = "completeOnboarding" -> Accepted(p, c.optIn)
    [] c.op = "acknowledgePrivacyPolicy" -> [p EXCEPT !.privacy = "current"]
    [] c.op = "updateModelTrainingPreference" -> [p EXCEPT !.optIn = c.optIn]

NothingToDo(c, p) ==
  CASE c.op = "completeOnboarding" -> p.terms
    [] c.op = "acknowledgePrivacyPolicy" -> p.terms /\ ~RequiresPrivacyAcknowledgment(p)
    [] c.op = "updateModelTrainingPreference" -> p.terms /\ p.optIn = c.optIn

\* The row p and the events s agree.
Agree(p, s) ==
  IF p = NoPreference \/ ~p.terms THEN s = <<>>
  ELSE /\ s \in Seq(EventRecords)
       /\ Once(s) /\ NoRepeats(s)
       /\ EndsWith(s, {"PRIVACY_POLICY_ACKNOWLEDGED"}, <<"PRIVACY_POLICY_ACKNOWLEDGED", p.privacy>>)
       /\ EndsWith(s, TrainingTypes, TrainingEvent(p.optIn))

\* c has something to do with p, and may.
Changes(c, p) ==
  /\ p \in Preferences /\ Legal(p)
  /\ c \in Calls /\ c.op \in Operations
  /\ ~NothingToDo(c, p)
  /\ c.op # "completeOnboarding" => p.terms

LEMMA Operation ==
  ASSUME NEW c, c.op \in Operations
  PROVE  \/ c.op = "completeOnboarding"
         \/ c.op = "acknowledgePrivacyPolicy"
         \/ c.op = "updateModelTrainingPreference"
  BY DEF Operations

\* A change makes a legal row of a user who has accepted.
LEMMA AskedIsLegal ==
  ASSUME NEW c, NEW p, Changes(c, p)
  PROVE  Asked(c, p) \in Preferences /\ Legal(Asked(c, p)) /\ Asked(c, p).terms
  <1>1. CASE c.op = "completeOnboarding"
    BY <1>1 DEF Changes, Asked, Accepted, Legal, Preferences, Calls
  <1>2. CASE c.op = "acknowledgePrivacyPolicy"
    BY <1>2 DEF Changes, Asked, Legal, Preferences, Calls
  <1>3. CASE c.op = "updateModelTrainingPreference"
    BY <1>3 DEF Changes, Asked, Legal, Preferences, Calls
  <1>4. QED
    BY <1>1, <1>2, <1>3, Operation DEF Changes

LEMMA TrainingRecord ==
  ASSUME NEW o \in BOOLEAN
  PROVE  /\ TrainingEvent(o) \in EventRecords
         /\ TrainingEvent(o)[1] \in TrainingTypes
         /\ TrainingEvent(o)[1] # "TERMS_ACCEPTED"
         /\ TrainingEvent(o)[1] # "PRIVACY_POLICY_ACKNOWLEDGED"
         /\ \A q \in BOOLEAN : q # o => TrainingEvent(q) # TrainingEvent(o)
  BY DEF TrainingEvent, TrainingTypes, EventRecords

\* The events a transaction writes go with the row it writes.
LEMMA ChangeIsRecorded ==
  ASSUME NEW c, NEW p, NEW s, Changes(c, p), Agree(p, s)
  PROVE  Agree(Asked(c, p), s \o EventsOf(c))
  <1> DEFINE q == Asked(c, p)
  <1>0. p # NoPreference /\ q # NoPreference /\ q.terms /\ c.optIn \in BOOLEAN /\ p.optIn \in BOOLEAN
    BY AskedIsLegal, IdentityAssumption DEF Changes, Calls, Preferences
  <1>1. CASE c.op = "completeOnboarding"
    <2>1. s = <<>>
      BY <1>1 DEF Changes, NothingToDo, Agree
    <2>2. EventsOf(c) = OnboardingEvents("current", c.optIn)
      BY <1>1 DEF EventsOf
    <2>3. OnboardingEvents("current", c.optIn) \in Seq(EventRecords)
      BY <1>0, Onboarded
    <2>4. s \o EventsOf(c) = OnboardingEvents("current", c.optIn)
      BY <2>1, <2>2, <2>3
    <2>5. q.privacy = "current" /\ q.optIn = c.optIn
      BY <1>1 DEF Asked, Accepted, Changes, Preferences
    <2>6. QED
      BY <1>0, <2>4, <2>5, Onboarded DEF Agree
  <1>2. CASE c.op = "acknowledgePrivacyPolicy"
    <2> DEFINE e == <<"PRIVACY_POLICY_ACKNOWLEDGED", "current">>
               K == {"PRIVACY_POLICY_ACKNOWLEDGED"}
    <2>1. p.terms /\ p.privacy # "current" /\ p.optIn \in BOOLEAN
      BY <1>2 DEF Changes, NothingToDo, RequiresPrivacyAcknowledgment, Preferences
    <2>2. /\ s \in Seq(EventRecords) /\ Once(s) /\ NoRepeats(s)
          /\ EndsWith(s, K, <<"PRIVACY_POLICY_ACKNOWLEDGED", p.privacy>>)
          /\ EndsWith(s, TrainingTypes, TrainingEvent(p.optIn))
      BY <1>0, <2>1 DEF Agree
    <2>3. EventsOf(c) = <<e>>
      BY <1>2 DEF EventsOf
    <2>4. /\ e \in EventRecords /\ e[1] \in K /\ e[1] \notin TrainingTypes /\ e[1] # "TERMS_ACCEPTED"
          /\ K \in Kinds /\ e # <<"PRIVACY_POLICY_ACKNOWLEDGED", p.privacy>>
      BY <2>1 DEF EventRecords, TrainingTypes, Kinds
    <2>5. q.privacy = "current" /\ q.optIn = p.optIn
      BY <1>2 DEF Asked, Changes, Preferences
    <2> HIDE DEF e, K
    <2>6. s \o <<e>> \in Seq(EventRecords) /\ Once(s \o <<e>>)
      BY <2>2, <2>4, EventAdded, OnceAdded
    <2>7. NoRepeats(s \o <<e>>)
      BY <2>2, <2>4, ChangeAdded
    <2>8. EndsWith(s \o <<e>>, K, e)
      BY <2>2, <2>4, LastAdded
    <2>9. EndsWith(s \o <<e>>, TrainingTypes, TrainingEvent(p.optIn))
      BY <2>2, <2>4, LastAdded
    <2>10. QED
      BY <1>0, <2>3, <2>5, <2>6, <2>7, <2>8, <2>9 DEF Agree, e, K
  <1>3. CASE c.op = "updateModelTrainingPreference"
    <2> DEFINE e == TrainingEvent(c.optIn)
               K == {"PRIVACY_POLICY_ACKNOWLEDGED"}
    <2>1. p.terms /\ p.optIn # c.optIn
      BY <1>3 DEF Changes, NothingToDo
    <2>2. /\ s \in Seq(EventRecords) /\ Once(s) /\ NoRepeats(s)
          /\ EndsWith(s, K, <<"PRIVACY_POLICY_ACKNOWLEDGED", p.privacy>>)
          /\ EndsWith(s, TrainingTypes, TrainingEvent(p.optIn))
      BY <1>0, <2>1 DEF Agree
    <2>3. EventsOf(c) = <<e>>
      BY <1>3 DEF EventsOf
    <2>4. /\ e \in EventRecords /\ e[1] \in TrainingTypes /\ e[1] \notin K /\ e[1] # "TERMS_ACCEPTED"
          /\ TrainingTypes \in Kinds /\ e # TrainingEvent(p.optIn)
      BY <1>0, <2>1, TrainingRecord DEF Kinds
    <2>5. q.privacy = p.privacy /\ q.optIn = c.optIn
      BY <1>3 DEF Asked, Changes, Preferences
    <2> HIDE DEF e, K
    <2>6. s \o <<e>> \in Seq(EventRecords) /\ Once(s \o <<e>>)
      BY <2>2, <2>4, EventAdded, OnceAdded
    <2>7. NoRepeats(s \o <<e>>)
      BY <2>2, <2>4, ChangeAdded
    <2>8. EndsWith(s \o <<e>>, TrainingTypes, e)
      BY <2>2, <2>4, LastAdded
    <2>9. EndsWith(s \o <<e>>, K, <<"PRIVACY_POLICY_ACKNOWLEDGED", p.privacy>>)
      BY <2>2, <2>4, LastAdded
    <2>10. QED
      BY <1>0, <2>3, <2>5, <2>6, <2>7, <2>8, <2>9 DEF Agree, e, K
  <1>4. QED
    BY <1>1, <1>2, <1>3, Operation DEF Changes

\* Agreement is what EventsMatchRows asks of one user.
LEMMA AgreementExplains ==
  ASSUME NEW p \in Preferences, p.terms, NEW s, Agree(p, s)
  PROVE  /\ Cardinality(At(s, {"TERMS_ACCEPTED"})) = 1
         /\ s[CHOOSE i \in At(s, {"PRIVACY_POLICY_ACKNOWLEDGED"}) :
                \A k \in At(s, {"PRIVACY_POLICY_ACKNOWLEDGED"}) : k <= i][2] = p.privacy
         /\ s[CHOOSE i \in At(s, TrainingTypes) : \A k \in At(s, TrainingTypes) : k <= i]
              = TrainingEvent(p.optIn)
  <1>0. /\ s \in Seq(EventRecords) /\ Len(s) \in Nat /\ Once(s)
        /\ EndsWith(s, {"PRIVACY_POLICY_ACKNOWLEDGED"}, <<"PRIVACY_POLICY_ACKNOWLEDGED", p.privacy>>)
        /\ EndsWith(s, TrainingTypes, TrainingEvent(p.optIn))
    <2>1. p # NoPreference
      BY IdentityAssumption
    <2>2. QED
      BY <2>1 DEF Agree
  <1>1. Cardinality(At(s, {"TERMS_ACCEPTED"})) = 1
    <2>1. PICK i \in 1..Len(s) : At(s, {"TERMS_ACCEPTED"}) = {i}
      BY <1>0 DEF Once
    <2>2. QED
      BY <2>1, FS_Singleton
  <1>2. ASSUME NEW T, NEW e, EndsWith(s, T, e)
        PROVE  s[CHOOSE i \in At(s, T) : \A k \in At(s, T) : k <= i] = e
    <2>1. PICK j \in At(s, T) : s[j] = e /\ \A k \in At(s, T) : k <= j
      BY <1>2 DEF EndsWith
    <2> DEFINE m == CHOOSE i \in At(s, T) : \A k \in At(s, T) : k <= i
    <2>2. m \in At(s, T) /\ \A k \in At(s, T) : k <= m
      BY <2>1
    <2>3. m = j
      <3>1. m \in Nat /\ j \in Nat /\ m <= j /\ j <= m
        BY <1>0, <2>1, <2>2 DEF At
      <3>2. QED
        BY <3>1
    <2>4. QED
      BY <2>1, <2>3
  <1>3. s[CHOOSE i \in At(s, {"PRIVACY_POLICY_ACKNOWLEDGED"}) :
            \A k \in At(s, {"PRIVACY_POLICY_ACKNOWLEDGED"}) : k <= i][2] = p.privacy
    <2> DEFINE e == s[CHOOSE i \in At(s, {"PRIVACY_POLICY_ACKNOWLEDGED"}) :
                        \A k \in At(s, {"PRIVACY_POLICY_ACKNOWLEDGED"}) : k <= i]
    <2>1. e = <<"PRIVACY_POLICY_ACKNOWLEDGED", p.privacy>>
      BY <1>0, <1>2
    <2> HIDE DEF e
    <2>2. e[2] = p.privacy
      BY <2>1
    <2>3. QED
      BY <2>2 DEF e
  <1>4. s[CHOOSE i \in At(s, TrainingTypes) : \A k \in At(s, TrainingTypes) : k <= i]
          = TrainingEvent(p.optIn)
    BY <1>0, <1>2
  <1>5. QED
    BY <1>1, <1>3, <1>4

LEMMA AgreedIsTyped ==
  ASSUME NEW p, NEW s, Agree(p, s)
  PROVE  s \in Seq(EventRecords)
  <1>1. <<>> \in Seq(EventRecords)
    OBVIOUS
  <1>2. QED
    BY <1>1 DEF Agree
-----------------------------------------------------------------------------
(***************************************************************************)
(* The invariant.                                                          *)
(***************************************************************************)

TableTypes ==
  /\ users \subseteq Users
  /\ legacy \in [Users -> BOOLEAN]
  /\ pref \in [Users -> Preferences \cup {NoPreference}]
  /\ \A u \in Users : pref[u] # NoPreference => u \in users /\ Legal(pref[u])
  /\ aged \in [Users -> BOOLEAN]

GrantTypes ==
  /\ grant \in [Users -> 0..MaxGrants]
  /\ \A u \in Users \ users : grant[u] = 0

LockTypes ==
  /\ userLock \in [Users -> Cleaners \cup {NoOne}]
  /\ userShare \in [Users -> SUBSET Requests]
  /\ prefLock \in [Users -> Requests \cup Cleaners \cup {NoOne}]
  /\ grantLock \in [Users -> Cleaners \cup {NoOne}]
  /\ lockHolder \in Cleaners \cup {NoOne}

RequestTypes ==
  /\ pc \in [Requests -> Steps]
  /\ call \in [Requests -> Calls]
  /\ draft \in [Requests -> Preferences]
  /\ answer \in [Requests -> {"none", "saved", "consent required", "failed"}]

CleanerTypes ==
  /\ cpc \in [Cleaners -> {"idle", "selecting", "picking", "locking", "checking", "stopping",
                           "revoking", "deleting"}]
  /\ candidates \in [Cleaners -> SUBSET Users]
  /\ target \in [Cleaners -> Users \cup {NoOne}]
  /\ failures \in 0..MaxFailures

\* The row a transaction finds, or inserts.
Base(u) == IF pref[u] = NoPreference THEN InitialPreference ELSE pref[u]

\* In its transaction r has the preference's row, or the one it inserts; its draft is the row as
\* committed, then with the change; and the gate r came through stays open.
RequestOK(r) ==
  /\ pc[r] # "idle" => UserOf(r) \in Users
  /\ answer[r] # "none" => pc[r] = "done"
  /\ pc[r] \in {"ensuring", "locking", "deciding", "recording"} =>
       /\ call[r].op \in Operations
       /\ call[r].op # "completeOnboarding" => pref[UserOf(r)] # NoPreference /\ pref[UserOf(r)].terms
  /\ pc[r] \in {"deciding", "recording"} => prefLock[UserOf(r)] = r
  /\ pc[r] = "deciding" => draft[r] = Base(UserOf(r))
  /\ pc[r] = "recording" =>
       /\ draft[r] = Asked(call[r], Base(UserOf(r)))
       /\ ~NothingToDo(call[r], Base(UserOf(r)))

\* c deals with an old registration; from the first check on it has the user's row, and after
\* the second the preference's too, and the registration is not completed.
CleanerOK(c) ==
  /\ \A u \in candidates[c] : aged[u]
  /\ cpc[c] \in {"locking", "checking", "stopping", "revoking", "deleting"} =>
       target[c] \in Users /\ aged[target[c]]
  /\ cpc[c] \in {"checking", "stopping", "revoking", "deleting"} =>
       target[c] \in users /\ userLock[target[c]] = c
  /\ cpc[c] \in {"stopping", "revoking", "deleting"} =>
       /\ NeverCompleted(target[c])
       /\ pref[target[c]] # NoPreference => prefLock[target[c]] = c

EventsOK ==
  /\ events \in [Users -> Seq(EventRecords)]
  /\ \A u \in Users : Agree(pref[u], events[u]) /\ (u \notin users => events[u] = <<>>)

Types == TableTypes /\ GrantTypes /\ LockTypes /\ RequestTypes /\ CleanerTypes

RequestsOK == \A r \in Requests : RequestOK(r)
CleanersOK == \A c \in Cleaners : CleanerOK(c)

IInv ==
  /\ Types
  /\ RequestsOK
  /\ CleanersOK
  /\ EventsOK
  /\ SavedIsKept

LEMMA InvariantIsTyped ==
  ASSUME IInv
  PROVE  TypeOK
  <1>1. \A u \in Users : pref[u] # NoPreference =>
          IF pref[u].terms THEN pref[u].privacy # "none" ELSE pref[u].privacy = "none" /\ ~pref[u].optIn
    BY DEF IInv, Types, TableTypes, Legal
  <1>2. \A u \in Users \ users : events[u] = <<>> /\ grant[u] = 0
    BY DEF IInv, Types, GrantTypes, EventsOK
  <1>3. WorkIsLocked
    BY DEF IInv, RequestsOK, CleanersOK, RequestOK, CleanerOK, WorkIsLocked
  <1>4. QED
    BY <1>1, <1>2, <1>3 DEF IInv, Types, TableTypes, GrantTypes, LockTypes, RequestTypes, CleanerTypes, TypeOK,
       Steps, Calls

LEMMA InvariantMatches ==
  ASSUME IInv
  PROVE  EventsMatchRows
  <1>0. \A u \in Users : Agree(pref[u], events[u]) /\ pref[u] \in Preferences \cup {NoPreference}
    BY DEF IInv, Types, TableTypes, EventsOK
  <1>1. EventsExplainPreference
    <2>1. SUFFICES ASSUME NEW u \in Users
                   PROVE  IF pref[u] = NoPreference \/ ~pref[u].terms
                          THEN events[u] = <<>>
                          ELSE /\ Cardinality({i \in 1..Len(events[u]) : events[u][i][1] = "TERMS_ACCEPTED"}) = 1
                               /\ LastEvent(u, {"PRIVACY_POLICY_ACKNOWLEDGED"})[2] = pref[u].privacy
                               /\ LastEvent(u, TrainingTypes) = TrainingEvent(pref[u].optIn)
      BY DEF EventsExplainPreference
    <2>2. CASE pref[u] = NoPreference \/ ~pref[u].terms
      BY <1>0, <2>2 DEF Agree
    <2>3. CASE pref[u] # NoPreference /\ pref[u].terms
      <3>1. pref[u] \in Preferences /\ Agree(pref[u], events[u])
        BY <1>0, <2>3
      <3>2. At(events[u], {"TERMS_ACCEPTED"}) = {i \in 1..Len(events[u]) : events[u][i][1] = "TERMS_ACCEPTED"}
        BY DEF At
      <3>3. LastEvent(u, {"PRIVACY_POLICY_ACKNOWLEDGED"})[2] = pref[u].privacy
        <4>1. LastEvent(u, {"PRIVACY_POLICY_ACKNOWLEDGED"}) =
                events[u][CHOOSE i \in At(events[u], {"PRIVACY_POLICY_ACKNOWLEDGED"}) :
                            \A k \in At(events[u], {"PRIVACY_POLICY_ACKNOWLEDGED"}) : k <= i]
          BY DEF LastEvent, At
        <4>2. QED
          BY <2>3, <3>1, <4>1, AgreementExplains
      <3>4. LastEvent(u, TrainingTypes) = TrainingEvent(pref[u].optIn)
        <4>1. LastEvent(u, TrainingTypes) =
                events[u][CHOOSE i \in At(events[u], TrainingTypes) : \A k \in At(events[u], TrainingTypes) : k <= i]
          BY DEF LastEvent, At
        <4>2. QED
          BY <2>3, <3>1, <4>1, AgreementExplains
      <3>5. Cardinality({i \in 1..Len(events[u]) : events[u][i][1] = "TERMS_ACCEPTED"}) = 1
        BY <2>3, <3>1, <3>2, AgreementExplains
      <3>6. QED
        BY <2>3, <3>3, <3>4, <3>5
    <2>4. QED
      BY <2>2, <2>3
  <1>2. EventsRecordChanges
    <2>1. SUFFICES ASSUME NEW u \in Users
                   PROVE  NoRepeats(events[u])
      BY DEF EventsRecordChanges, NoRepeats, Kinds, At
    <2>2. CASE events[u] = <<>>
      BY <2>2 DEF NoRepeats, At
    <2>3. CASE events[u] # <<>>
      BY <1>0, <2>3 DEF Agree
    <2>4. QED
      BY <2>2, <2>3
  <1>3. GateStaysOpen
    BY DEF IInv, RequestsOK, RequestOK, GateStaysOpen, Base
  <1>4. QED
    BY <1>1, <1>2, <1>3 DEF EventsMatchRows

LEMMA InvariantKeeps ==
  ASSUME IInv
  PROVE  ChoicesAreKept
  <1>1. SUFFICES ASSUME NEW c \in Cleaners, cpc[c] \in {"stopping", "revoking", "deleting"}
                 PROVE  /\ target[c] \in users /\ aged[target[c]] /\ ~legacy[target[c]]
                        /\ pref[target[c]] # NoPreference => ~pref[target[c]].terms /\ pref[target[c]].owned
                        /\ \A r \in Requests : UserOf(r) = target[c] => answer[r] # "saved"
    BY DEF IInv, ChoicesAreKept, PurgeOnlyNeverCompleted
  <1>2. CleanerOK(c)
    BY DEF IInv, CleanersOK
  <1>3. target[c] \in users /\ aged[target[c]] /\ NeverCompleted(target[c])
    BY <1>1, <1>2 DEF CleanerOK
  <1>4. ASSUME NEW r \in Requests, UserOf(r) = target[c] PROVE answer[r] # "saved"
    BY <1>3, <1>4 DEF IInv, SavedIsKept, NeverCompleted
  <1>5. QED
    BY <1>3, <1>4 DEF NeverCompleted

LEMMA InitialState ==
  ASSUME Init
  PROVE  IInv
  <1> USE DEF Init, ConsentInit
  <1>1. TableTypes
    BY DEF TableTypes, Legal
  <1>2. GrantTypes
    BY CleanupBoundsAssumption DEF GrantTypes
  <1>3. LockTypes
    BY DEF LockTypes
  <1>4. RequestTypes
    BY DEF RequestTypes, Steps, Calls, NoCall, Preferences, InitialPreference
  <1>5. CleanerTypes
    BY CleanupBoundsAssumption DEF CleanerTypes
  <1>6. RequestsOK
    BY DEF RequestsOK, RequestOK
  <1>7. CleanersOK
    BY DEF CleanersOK, CleanerOK
  <1>8. EventsOK
    <2>1. SUFFICES ASSUME NEW u \in Users PROVE Agree(pref[u], events[u])
      BY AgreedIsTyped DEF EventsOK
    <2>2. CASE pref[u] = NoPreference \/ ~pref[u].terms
      BY <2>2 DEF Agree
    <2>3. CASE pref[u] # NoPreference /\ pref[u].terms
      <3>1. events[u] = OnboardingEvents(pref[u].privacy, pref[u].optIn)
        BY <2>3
      <3>2. pref[u].privacy \in {"old", "current"} /\ pref[u].optIn \in BOOLEAN
        BY <2>3 DEF Preferences
      <3>3. QED
        BY <2>3, <3>1, <3>2, Onboarded DEF Agree
    <2>4. QED
      BY <2>2, <2>3
  <1>9. SavedIsKept
    BY DEF SavedIsKept
  <1>10. QED
    BY <1>1, <1>2, <1>3, <1>4, <1>5, <1>6, <1>7, <1>8, <1>9 DEF IInv, Types
-----------------------------------------------------------------------------
(***************************************************************************)
(* What a step may do to those who do not take it.                         *)
(***************************************************************************)

\* Acceptance is not taken back, nor is who has accepted deleted.
TermsStay ==
  \A u \in Users : pref[u] # NoPreference /\ pref[u].terms =>
    pref'[u] # NoPreference /\ pref'[u].terms /\ (u \in users => u \in users')

LEMMA OtherRequest ==
  ASSUME IInv, NEW q \in Requests,
         pc'[q] = pc[q], call'[q] = call[q], draft'[q] = draft[q], answer'[q] = answer[q],
         \A u \in Users : prefLock[u] = q => prefLock'[u] = q /\ pref'[u] = pref[u],
         TermsStay
  PROVE  RequestOK(q)'
  <1>1. RequestOK(q)
    BY DEF IInv, RequestsOK
  <1>2. pc'[q] # "idle" => UserOf(q)' \in Users
    BY <1>1 DEF RequestOK, UserOf
  <1>3. pc'[q] \in {"ensuring", "locking", "deciding", "recording"} =>
          /\ call'[q].op \in Operations
          /\ call'[q].op # "completeOnboarding" => pref'[UserOf(q)'] # NoPreference /\ pref'[UserOf(q)'].terms
    BY <1>1 DEF RequestOK, UserOf, TermsStay
  <1>4. ASSUME pc[q] \in {"deciding", "recording"}
        PROVE  prefLock'[UserOf(q)'] = q /\ Base(UserOf(q))' = Base(UserOf(q))
    BY <1>1, <1>4 DEF RequestOK, UserOf, Base
  <1>5. QED
    BY <1>1, <1>2, <1>3, <1>4 DEF RequestOK, UserOf

LEMMA OtherCleaner ==
  ASSUME IInv, NEW d \in Cleaners,
         cpc'[d] = cpc[d], candidates'[d] = candidates[d], target'[d] = target[d],
         legacy' = legacy, \A u \in Users : aged[u] => aged'[u],
         \A u \in Users : userLock[u] = d =>
           userLock'[u] = d /\ pref'[u] = pref[u] /\ (u \in users => u \in users'),
         \A u \in Users : prefLock[u] = d => prefLock'[u] = d
  PROVE  CleanerOK(d)'
  <1>1. CleanerOK(d) /\ candidates[d] \subseteq Users /\ users \subseteq Users
    BY DEF IInv, CleanersOK, Types, TableTypes, CleanerTypes
  <1>2. QED
    BY <1>1 DEF CleanerOK, NeverCompleted

LEMMA SavedStays ==
  ASSUME IInv, TermsStay,
         \A q \in Requests : answer'[q] = "saved" => answer[q] = "saved" /\ call'[q] = call[q]
  PROVE  SavedIsKept'
  <1>1. SUFFICES ASSUME NEW q \in Requests, answer'[q] = "saved"
                 PROVE  /\ call'[q].user \in users'
                        /\ pref'[call'[q].user] # NoPreference /\ pref'[call'[q].user].terms
    BY DEF SavedIsKept, UserOf
  <1>2. answer[q] = "saved" /\ call'[q].user = call[q].user
    BY <1>1
  <1>3. /\ call[q].user \in users /\ users \subseteq Users
        /\ pref[call[q].user] # NoPreference /\ pref[call[q].user].terms
    BY <1>2 DEF IInv, SavedIsKept, UserOf, Types, TableTypes
  <1>4. QED
    BY <1>2, <1>3 DEF TermsStay

-----------------------------------------------------------------------------
(***************************************************************************)
(* Every step keeps it.                                                    *)
(***************************************************************************)

\* What a form does with the preference it has read or created.
LEMMA ChooseEffect ==
  ASSUME IInv, NEW r \in Requests, NEW p \in Preferences, pc[r] = "arriving", Choose(r, p)
  PROVE  /\ RequestTypes'
         /\ draft' = draft /\ call'[r].user = call[r].user
         /\ \A q \in Requests : q # r => pc'[q] = pc[q] /\ call'[q] = call[q] /\ answer'[q] = answer[q]
         /\ \/ pc'[r] = "done" /\ answer'[r] = "consent required"
            \/ /\ pc'[r] = "ensuring" /\ answer' = answer /\ call'[r].op \in Operations
               /\ call'[r].op # "completeOnboarding" => p.terms
  <1> USE DEF IInv, Types, RequestTypes, Steps, Operations
  <1>1. CASE call[r].form = "consent" /\ call' = [call EXCEPT ![r].op = IF p.terms THEN "acknowledgePrivacyPolicy"
                                                                               ELSE "completeOnboarding"]
             /\ Goto(r, "ensuring") /\ UNCHANGED <<draft, answer>>
    BY <1>1 DEF Goto, Calls
  <1>2. CASE p.terms /\ call' = [call EXCEPT ![r].op = "updateModelTrainingPreference"]
             /\ Goto(r, "ensuring") /\ UNCHANGED <<draft, answer>>
    BY <1>2 DEF Goto, Calls
  <1>3. CASE Answer(r, "consent required")
    BY <1>3 DEF Answer, Goto, Calls
  <1>4. QED
    BY <1>1, <1>2, <1>3 DEF Choose

LEMMA BaseIsLegal ==
  ASSUME IInv, NEW u \in Users
  PROVE  Base(u) \in Preferences /\ Legal(Base(u)) /\ Agree(Base(u), events[u])
  <1>1. Agree(pref[u], events[u]) /\ pref[u] \in Preferences \cup {NoPreference}
        /\ (pref[u] # NoPreference => Legal(pref[u]))
    BY DEF IInv, Types, TableTypes, EventsOK
  <1>2. CASE pref[u] # NoPreference
    BY <1>1, <1>2 DEF Base
  <1>3. CASE pref[u] = NoPreference
    <2>1. events[u] = <<>> /\ Base(u) = InitialPreference
      BY <1>1, <1>3 DEF Agree, Base
    <2>2. InitialPreference \in Preferences /\ Legal(InitialPreference) /\ ~InitialPreference.terms
      BY DEF InitialPreference, Preferences, Legal
    <2>3. QED
      BY <2>1, <2>2 DEF Agree
  <1>4. QED
    BY <1>2, <1>3

\* What a request that has passed its checks records.
LEMMA WorkIsChange ==
  ASSUME IInv, NEW r \in Requests, pc[r] \in {"deciding", "recording"},
         ~NothingToDo(call[r], Base(UserOf(r))),
         call[r].op # "completeOnboarding" => Base(UserOf(r)).terms
  PROVE  Changes(call[r], Base(UserOf(r)))
  <1>1. UserOf(r) \in Users /\ call[r] \in Calls /\ call[r].op \in Operations
    BY DEF IInv, Types, RequestTypes, RequestsOK, RequestOK
  <1>2. QED
    BY <1>1, BaseIsLegal DEF Changes

LEMMA SubmitKeeps ==
  ASSUME IInv, NEW r \in Requests, NEW u \in Users, NEW form \in Forms, NEW optIn \in BOOLEAN,
         Submit(r, u, form, optIn), UNCHANGED <<aged, mailVars, cleanerVars>>
  PROVE  IInv'
  <1>1. UNCHANGED <<users, legacy, pref, events, userLock, userShare, prefLock, draft, answer, aged,
                    grant, grantLock, lockHolder, cpc, candidates, target, failures>>
    BY DEF Submit, tableVars, lockVars, mailVars, cleanerVars
  <1>2. TableTypes' /\ GrantTypes' /\ LockTypes' /\ CleanerTypes' /\ CleanersOK' /\ EventsOK'
    BY <1>1 DEF IInv, Types, TableTypes, Legal, GrantTypes, LockTypes, CleanerTypes, CleanersOK, CleanerOK,
       NeverCompleted, EventsOK, UserOf
  <1>3. TermsStay
    BY <1>1 DEF TermsStay
  <1>4. RequestTypes'
    BY <1>1, CleanupBoundsAssumption DEF RequestTypes, Steps, Calls, Submit, Goto, Forms, IInv, Types,
       LockTypes, CleanerTypes
  <1>5. RequestsOK'
    <2>1. ASSUME NEW q \in Requests, q # r PROVE RequestOK(q)'
      <3>1. pc'[q] = pc[q] /\ call'[q] = call[q] /\ draft'[q] = draft[q] /\ answer'[q] = answer[q]
        BY <1>1, <2>1 DEF Types, RequestTypes, Submit, Goto
      <3>2. QED
        BY <1>1, <1>3, <3>1, OtherRequest
    <2>2. RequestOK(r)'
      <3>1. pc'[r] = "arriving" /\ call'[r].user = u
        BY DEF IInv, Types, RequestTypes, Submit, Goto
      <3>2. answer[r] = "none"
        BY DEF IInv, RequestsOK, RequestOK, Submit
      <3>3. QED
        BY <1>1, <3>1, <3>2 DEF RequestOK, UserOf
    <2>3. QED
      BY <2>1, <2>2 DEF RequestsOK
  <1>6. SavedIsKept'
    <2>1. \A q \in Requests : answer'[q] = "saved" => answer[q] = "saved" /\ call'[q] = call[q]
      BY <1>1 DEF IInv, RequestsOK, RequestOK, Submit
    <2>2. QED
      BY <1>3, <2>1, SavedStays
  <1>7. QED
    BY <1>2, <1>4, <1>5, <1>6 DEF IInv, Types

LEMMA ReadPreferenceKeeps ==
  ASSUME IInv, NEW r \in Requests,
         ReadPreference(r), UNCHANGED <<aged, mailVars, cleanerVars>>
  PROVE  IInv'
  <1>1. UNCHANGED <<users, legacy, pref, events, userLock, userShare, prefLock, draft, aged, grant,
                    grantLock, lockHolder, cpc, candidates, target, failures>>
    BY DEF ReadPreference, Answer, Choose, Goto, consentVars, tableVars, lockVars, requestVars, mailVars,
       cleanerVars
  <1>2. /\ RequestTypes'
        /\ draft' = draft /\ call'[r].user = call[r].user
        /\ \A q \in Requests : q # r => pc'[q] = pc[q] /\ call'[q] = call[q] /\ answer'[q] = answer[q]
        /\ \/ pc'[r] = "done" /\ answer'[r] = "consent required"
           \/ /\ pc'[r] = "ensuring" /\ answer' = answer /\ call'[r].op \in Operations
              /\ call'[r].op # "completeOnboarding" => pref[UserOf(r)].terms
    <2>1. UserOf(r) \in Users /\ pref[UserOf(r)] \in Preferences /\ pc[r] = "arriving" /\ Choose(r, pref[UserOf(r)])
      BY DEF ReadPreference, IInv, Types, TableTypes, RequestsOK, RequestOK
    <2>2. QED
      BY <2>1, ChooseEffect
  <1>3. TableTypes' /\ GrantTypes' /\ LockTypes' /\ CleanerTypes' /\ CleanersOK' /\ EventsOK'
    BY <1>1 DEF IInv, Types, TableTypes, Legal, GrantTypes, LockTypes, CleanerTypes, CleanersOK, CleanerOK,
       NeverCompleted, EventsOK, UserOf
  <1>4. TermsStay
    BY <1>1 DEF TermsStay
  <1>5. RequestTypes'
    BY <1>2
  <1>6. RequestsOK'
    <2>1. ASSUME NEW q \in Requests, q # r PROVE RequestOK(q)'
      BY <1>1, <1>2, <1>4, <2>1, OtherRequest
    <2>2. RequestOK(r)'
      <3>1. pc[r] = "arriving" /\ RequestOK(r) /\ pref[UserOf(r)] # NoPreference
        BY DEF ReadPreference, IInv, RequestsOK
      <3>2. UserOf(r)' = UserOf(r)
        BY <1>2 DEF UserOf
      <3>3. QED
        BY <1>1, <1>2, <3>1, <3>2 DEF RequestOK
    <2>3. QED
      BY <2>1, <2>2 DEF RequestsOK
  <1>7. SavedIsKept'
    <2>1. \A q \in Requests : answer'[q] = "saved" => answer[q] = "saved" /\ call'[q] = call[q]
      <3>1. answer[r] = "none"
        BY DEF ReadPreference, IInv, RequestsOK, RequestOK
      <3>2. QED
        BY <1>2, <3>1
    <2>2. QED
      BY <1>4, <2>1, SavedStays
  <1>8. QED
    BY <1>3, <1>5, <1>6, <1>7 DEF IInv, Types

LEMMA EnsurePreferenceKeeps ==
  ASSUME IInv, NEW r \in Requests,
         EnsurePreference(r), UNCHANGED <<aged, mailVars, cleanerVars>>
  PROVE  IInv'
  <1>1. UNCHANGED <<users, legacy, events, userLock, userShare, prefLock, draft, aged, grant, grantLock,
                    lockHolder, cpc, candidates, target, failures>>
    BY DEF EnsurePreference, Answer, Choose, Goto, consentVars, tableVars, lockVars, requestVars, mailVars,
       cleanerVars
  <1>2. /\ RequestTypes'
        /\ draft' = draft /\ call'[r].user = call[r].user
        /\ \A q \in Requests : q # r => pc'[q] = pc[q] /\ call'[q] = call[q] /\ answer'[q] = answer[q]
        /\ \/ pc'[r] = "done" /\ answer'[r] = "consent required"
           \/ /\ pc'[r] = "ensuring" /\ answer' = answer /\ call'[r].op \in Operations
              /\ call'[r].op # "completeOnboarding" => InitialPreference.terms
    <2>1. InitialPreference \in Preferences
      BY DEF InitialPreference, Preferences
    <2>2. pc[r] = "arriving" /\ Choose(r, InitialPreference)
      BY DEF EnsurePreference
    <2>3. QED
      BY <2>1, <2>2, ChooseEffect
  <1>3. GrantTypes' /\ LockTypes' /\ CleanerTypes'
    BY <1>1 DEF IInv, Types, GrantTypes, LockTypes, CleanerTypes
  <1>4. TermsStay
    BY <1>1 DEF TermsStay, EnsurePreference
  <1>5. TableTypes'
    BY <1>1, CleanupBoundsAssumption DEF TableTypes, Legal, EnsurePreference, CanRefer, Choose, Goto, Answer,
       UserOf, InitialPreference, Preferences, IInv, Types, LockTypes, RequestTypes, CleanerTypes
  <1>6. RequestTypes'
    BY <1>2
  <1>7. RequestsOK'
    <2>1. ASSUME NEW q \in Requests, q # r PROVE RequestOK(q)'
      <3>1. \A v \in Users : prefLock[v] = q => prefLock'[v] = q /\ pref'[v] = pref[v]
        BY <1>1, IdentityAssumption DEF EnsurePreference
      <3>2. QED
        BY <1>2, <1>4, <2>1, <3>1, OtherRequest
    <2>2. RequestOK(r)'
      <3>1. pc[r] = "arriving" /\ RequestOK(r)
        BY DEF EnsurePreference, IInv, RequestsOK
      <3>2. UserOf(r)' = UserOf(r) /\ ~InitialPreference.terms
        BY <1>2 DEF UserOf, InitialPreference
      <3>3. QED
        BY <1>2, <3>1, <3>2 DEF RequestOK
    <2>3. QED
      BY <2>1, <2>2 DEF RequestsOK
  <1>8. CleanersOK'
    <2>1. ASSUME NEW d \in Cleaners PROVE CleanerOK(d)'
      <3>1. \A v \in Users : userLock[v] = d => pref'[v] = pref[v]
        BY IdentityAssumption DEF EnsurePreference, CanRefer
      <3>2. QED
        BY <1>1, <3>1, OtherCleaner
    <2>2. QED
      BY <2>1 DEF CleanersOK
  <1>9. EventsOK'
    <2>1. ASSUME NEW u \in Users PROVE Agree(pref'[u], events'[u]) /\ (u \notin users' => events'[u] = <<>>)
      <3>1. Agree(pref[u], events[u]) /\ (u \notin users => events[u] = <<>>)
        BY DEF IInv, EventsOK
      <3>2. CASE u = UserOf(r)
        <4>1. pref[u] = NoPreference /\ pref'[u] = InitialPreference
          BY <3>2 DEF EnsurePreference, IInv, Types, TableTypes
        <4>2. ~InitialPreference.terms
          BY DEF InitialPreference
        <4>3. events[u] = <<>>
          BY <3>1, <4>1 DEF Agree
        <4>4. QED
          BY <1>1, <3>1, <4>1, <4>2, <4>3 DEF Agree
      <3>3. CASE u # UserOf(r)
        <4>1. pref'[u] = pref[u]
          BY <3>3 DEF EnsurePreference
        <4>2. QED
          BY <1>1, <3>1, <4>1
      <3>4. QED
        BY <3>2, <3>3
    <2>2. QED
      BY <1>1, <2>1 DEF IInv, EventsOK
  <1>10. SavedIsKept'
    <2>1. \A q \in Requests : answer'[q] = "saved" => answer[q] = "saved" /\ call'[q] = call[q]
      <3>1. answer[r] = "none"
        BY DEF EnsurePreference, IInv, RequestsOK, RequestOK
      <3>2. QED
        BY <1>2, <3>1
    <2>2. QED
      BY <1>4, <2>1, SavedStays
  <1>11. QED
    BY <1>3, <1>5, <1>6, <1>7, <1>8, <1>9, <1>10 DEF IInv, Types

LEMMA KeepRowKeeps ==
  ASSUME IInv, NEW r \in Requests,
         KeepRow(r), UNCHANGED <<aged, mailVars, cleanerVars>>
  PROVE  IInv'
  <1>1. UNCHANGED <<users, legacy, pref, events, userLock, userShare, prefLock, call, draft, answer,
                    aged, grant, grantLock, lockHolder, cpc, candidates, target, failures>>
    BY DEF KeepRow, tableVars, lockVars, mailVars, cleanerVars
  <1>2. TableTypes' /\ GrantTypes' /\ LockTypes' /\ CleanerTypes' /\ CleanersOK' /\ EventsOK' /\ SavedIsKept'
    BY <1>1 DEF IInv, Types, TableTypes, Legal, GrantTypes, LockTypes, CleanerTypes, CleanersOK, CleanerOK,
       NeverCompleted, EventsOK, SavedIsKept, UserOf
  <1>3. TermsStay
    BY <1>1 DEF TermsStay
  <1>4. RequestTypes'
    BY <1>1, CleanupBoundsAssumption DEF RequestTypes, Steps, Calls, KeepRow, Goto, UserOf, IInv, Types,
       LockTypes, CleanerTypes
  <1>5. RequestsOK'
    <2>1. ASSUME NEW q \in Requests, q # r PROVE RequestOK(q)'
      <3>1. pc'[q] = pc[q] /\ call'[q] = call[q] /\ draft'[q] = draft[q] /\ answer'[q] = answer[q]
        BY <1>1, <2>1 DEF Types, RequestTypes, KeepRow, Goto
      <3>2. \A v \in Users : prefLock[v] = q => prefLock'[v] = q /\ pref'[v] = pref[v]
        BY <1>1, <2>1 DEF UserOf
      <3>3. QED
        BY <1>3, <3>1, <3>2, OtherRequest
    <2>2. RequestOK(r)'
      BY <1>1, IdentityAssumption DEF IInv, Types, TableTypes, LockTypes, RequestTypes, RequestsOK, RequestOK,
         Base, KeepRow, Goto, UserOf
    <2>3. QED
      BY <2>1, <2>2 DEF RequestsOK
  <1>6. QED
    BY <1>2, <1>4, <1>5 DEF IInv, Types

LEMMA InsertRowKeeps ==
  ASSUME IInv, NEW r \in Requests,
         InsertRow(r), UNCHANGED <<aged, mailVars, cleanerVars>>
  PROVE  IInv'
  <1>1. UNCHANGED <<users, legacy, pref, events, userLock, call, answer, aged, grant, grantLock,
                    lockHolder, cpc, candidates, target, failures>>
    BY DEF InsertRow, tableVars, mailVars, cleanerVars
  <1>2. TableTypes' /\ GrantTypes' /\ CleanerTypes' /\ EventsOK' /\ SavedIsKept'
    BY <1>1 DEF IInv, Types, TableTypes, GrantTypes, CleanerTypes, EventsOK, SavedIsKept, UserOf
  <1>3. TermsStay
    BY <1>1 DEF TermsStay
  <1>4. LockTypes'
    BY <1>1, IdentityAssumption, CleanupBoundsAssumption DEF LockTypes, InsertRow, CanRefer, Goto, UserOf,
       InitialPreference, Preferences, IInv, Types, TableTypes, RequestTypes, CleanerTypes
  <1>5. RequestTypes'
    BY <1>1, IdentityAssumption, CleanupBoundsAssumption DEF RequestTypes, Steps, Calls, InsertRow, CanRefer,
       Goto, UserOf, InitialPreference, Preferences, IInv, Types, TableTypes, LockTypes, CleanerTypes
  <1>6. RequestsOK'
    <2>1. ASSUME NEW q \in Requests, q # r PROVE RequestOK(q)'
      <3>1. pc'[q] = pc[q] /\ call'[q] = call[q] /\ draft'[q] = draft[q] /\ answer'[q] = answer[q]
        BY <1>1, <2>1 DEF Types, RequestTypes, InsertRow, Goto
      <3>2. \A v \in Users : prefLock[v] = q => prefLock'[v] = q /\ pref'[v] = pref[v]
        BY <1>1, <2>1, IdentityAssumption DEF InsertRow
      <3>3. QED
        BY <1>3, <3>1, <3>2, OtherRequest
    <2>2. RequestOK(r)'
      BY <1>1 DEF IInv, Types, TableTypes, LockTypes, RequestTypes, RequestsOK, RequestOK, Base, InsertRow,
         Goto, UserOf, InitialPreference, Preferences
    <2>3. QED
      BY <2>1, <2>2 DEF RequestsOK
  <1>7. CleanersOK'
    <2>1. ASSUME NEW d \in Cleaners PROVE CleanerOK(d)'
      <3>1. \A v \in Users : (userLock[v] = d => pref'[v] = pref[v]) /\ (prefLock[v] = d => prefLock'[v] = d)
        BY <1>1, IdentityAssumption DEF InsertRow
      <3>2. QED
        BY <1>1, <3>1, OtherCleaner
    <2>2. QED
      BY <2>1 DEF CleanersOK
  <1>8. QED
    BY <1>2, <1>4, <1>5, <1>6, <1>7 DEF IInv, Types

LEMMA LockPreferenceKeeps ==
  ASSUME IInv, NEW r \in Requests,
         LockPreference(r), UNCHANGED <<aged, mailVars, cleanerVars>>
  PROVE  IInv'
  <1>1. UNCHANGED <<users, legacy, pref, events, userLock, userShare, call, answer, aged, grant,
                    grantLock, lockHolder, cpc, candidates, target, failures>>
    BY DEF LockPreference, tableVars, mailVars, cleanerVars
  <1>2. TableTypes' /\ GrantTypes' /\ CleanerTypes' /\ EventsOK' /\ SavedIsKept'
    BY <1>1 DEF IInv, Types, TableTypes, GrantTypes, CleanerTypes, EventsOK, SavedIsKept, UserOf
  <1>3. TermsStay
    BY <1>1 DEF TermsStay
  <1>4. LockTypes'
    BY <1>1, CleanupBoundsAssumption DEF LockTypes, LockPreference, Goto, UserOf, IInv, Types, TableTypes,
       RequestTypes
  <1>5. RequestTypes'
    <2>1. pref[UserOf(r)] \in Preferences
      BY DEF LockPreference, IInv, Types, TableTypes, RequestsOK, RequestOK
    <2>2. QED
      BY <1>1, <2>1 DEF LockPreference, Goto, IInv, Types, RequestTypes, Steps
  <1>6. RequestsOK'
    <2>1. ASSUME NEW q \in Requests, q # r PROVE RequestOK(q)'
      <3>1. pc'[q] = pc[q] /\ call'[q] = call[q] /\ draft'[q] = draft[q] /\ answer'[q] = answer[q]
        BY <1>1, <2>1 DEF Types, RequestTypes, LockPreference, Goto
      <3>2. \A v \in Users : prefLock[v] = q => prefLock'[v] = q /\ pref'[v] = pref[v]
        BY <1>1, <2>1, IdentityAssumption DEF LockPreference
      <3>3. QED
        BY <1>3, <3>1, <3>2, OtherRequest
    <2>2. RequestOK(r)'
      BY <1>1, IdentityAssumption DEF IInv, Types, TableTypes, LockTypes, RequestTypes, RequestsOK, RequestOK,
         Base, LockPreference, Goto, UserOf
    <2>3. QED
      BY <2>1, <2>2 DEF RequestsOK
  <1>7. CleanersOK'
    <2>1. ASSUME NEW d \in Cleaners PROVE CleanerOK(d)'
      <3>1. \A v \in Users : (userLock[v] = d => pref'[v] = pref[v]) /\ (prefLock[v] = d => prefLock'[v] = d)
        BY <1>1, IdentityAssumption DEF LockPreference
      <3>2. QED
        BY <1>1, <3>1, OtherCleaner
    <2>2. QED
      BY <2>1 DEF CleanersOK
  <1>8. QED
    BY <1>2, <1>4, <1>5, <1>6, <1>7 DEF IInv, Types

LEMMA FindNoRowKeeps ==
  ASSUME IInv, NEW r \in Requests,
         FindNoRow(r), UNCHANGED <<aged, mailVars, cleanerVars>>
  PROVE  IInv'
  <1>1. UNCHANGED <<users, legacy, pref, events, userLock, userShare, prefLock, call, draft, aged, grant,
                    grantLock, lockHolder, cpc, candidates, target, failures>>
    BY DEF FindNoRow, Answer, tableVars, lockVars, mailVars, cleanerVars
  <1>2. TableTypes' /\ GrantTypes' /\ LockTypes' /\ CleanerTypes' /\ CleanersOK' /\ EventsOK'
    BY <1>1 DEF IInv, Types, TableTypes, Legal, GrantTypes, LockTypes, CleanerTypes, CleanersOK, CleanerOK,
       NeverCompleted, EventsOK, UserOf
  <1>3. TermsStay
    BY <1>1 DEF TermsStay
  <1>4. RequestTypes'
    BY <1>1, IdentityAssumption, CleanupBoundsAssumption DEF RequestTypes, Steps, Calls, FindNoRow, Goto,
       Answer, UserOf, IInv, Types, TableTypes, LockTypes, CleanerTypes
  <1>5. RequestsOK'
    <2>1. ASSUME NEW q \in Requests, q # r PROVE RequestOK(q)'
      <3>1. pc'[q] = pc[q] /\ call'[q] = call[q] /\ draft'[q] = draft[q] /\ answer'[q] = answer[q]
        BY <1>1, <2>1 DEF Types, RequestTypes, FindNoRow, Goto, Answer
      <3>2. \A v \in Users : prefLock[v] = q => prefLock'[v] = q /\ pref'[v] = pref[v]
        BY <1>1, <2>1 DEF UserOf
      <3>3. QED
        BY <1>3, <3>1, <3>2, OtherRequest
    <2>2. RequestOK(r)'
      BY <1>1, IdentityAssumption DEF IInv, Types, TableTypes, LockTypes, RequestTypes, RequestsOK, RequestOK,
         Base, FindNoRow, Goto, Answer, UserOf
    <2>3. QED
      BY <2>1, <2>2 DEF RequestsOK
  <1>6. SavedIsKept'
    <2>1. \A q \in Requests : answer'[q] = "saved" => answer[q] = "saved" /\ call'[q] = call[q]
      BY <1>1 DEF Types, RequestTypes, RequestsOK, RequestOK, FindNoRow, Answer
    <2>2. QED
      BY <1>3, <2>1, SavedStays
  <1>7. QED
    BY <1>2, <1>4, <1>5, <1>6 DEF IInv, Types

LEMMA ReturnUnchangedKeeps ==
  ASSUME IInv, NEW r \in Requests,
         ReturnUnchanged(r), UNCHANGED <<aged, mailVars, cleanerVars>>
  PROVE  IInv'
  <1>1. UNCHANGED <<users, legacy, pref, events, userLock, call, draft, aged, grant, grantLock,
                    lockHolder, cpc, candidates, target, failures>>
    BY DEF ReturnUnchanged, Answer, Unlock, tableVars, mailVars, cleanerVars
  <1>2. TableTypes' /\ GrantTypes' /\ CleanerTypes' /\ EventsOK'
    BY <1>1 DEF IInv, Types, TableTypes, GrantTypes, CleanerTypes, EventsOK
  <1>3. TermsStay
    BY <1>1 DEF TermsStay
  <1>4. LockTypes'
    BY <1>1, CleanupBoundsAssumption DEF LockTypes, ReturnUnchanged, Goto, Answer, Unlock, UserOf, IInv, Types
  <1>5. RequestTypes'
    BY <1>1, IdentityAssumption, CleanupBoundsAssumption DEF RequestTypes, Steps, Calls, ReturnUnchanged,
       Goto, Answer, Unlock, UserOf, IInv, Types, TableTypes, LockTypes, CleanerTypes
  <1>6. RequestsOK'
    <2>1. ASSUME NEW q \in Requests, q # r PROVE RequestOK(q)'
      <3>1. pc'[q] = pc[q] /\ call'[q] = call[q] /\ draft'[q] = draft[q] /\ answer'[q] = answer[q]
        BY <1>1, <2>1 DEF Types, RequestTypes, ReturnUnchanged, Goto, Answer
      <3>2. \A v \in Users : prefLock[v] = q => prefLock'[v] = q /\ pref'[v] = pref[v]
        BY <1>1, <2>1 DEF ReturnUnchanged, Unlock
      <3>3. QED
        BY <1>3, <3>1, <3>2, OtherRequest
    <2>2. RequestOK(r)'
      BY <1>1, IdentityAssumption DEF IInv, Types, TableTypes, LockTypes, RequestTypes, RequestsOK, RequestOK,
         Base, ReturnUnchanged, Goto, Answer, Unlock, UserOf
    <2>3. QED
      BY <2>1, <2>2 DEF RequestsOK
  <1>7. CleanersOK'
    <2>1. ASSUME NEW d \in Cleaners PROVE CleanerOK(d)'
      <3>1. \A v \in Users : (userLock[v] = d => pref'[v] = pref[v]) /\ (prefLock[v] = d => prefLock'[v] = d)
        BY <1>1, IdentityAssumption DEF ReturnUnchanged, Unlock
      <3>2. QED
        BY <1>1, <3>1, OtherCleaner
    <2>2. QED
      BY <2>1 DEF CleanersOK
  <1>8. SavedIsKept'
    <2>1. UserOf(r) \in Users /\ draft[r] = Base(UserOf(r)) /\ call[r].op \in Operations
      BY DEF ReturnUnchanged, IInv, RequestsOK, RequestOK
    <2>2. draft[r].terms
      BY <2>1 DEF ReturnUnchanged, Unchanged, Operations
    <2>3. pref[UserOf(r)] # NoPreference /\ pref[UserOf(r)].terms /\ UserOf(r) \in users
      BY <2>1, <2>2 DEF Base, InitialPreference, IInv, Types, TableTypes
    <2>4. \A q \in Requests : q # r /\ answer'[q] = "saved" => answer[q] = "saved"
      BY DEF ReturnUnchanged, Answer
    <2>5. QED
      BY <1>1, <2>3, <2>4 DEF IInv, SavedIsKept, UserOf
  <1>9. QED
    BY <1>2, <1>4, <1>5, <1>6, <1>7, <1>8 DEF IInv, Types

LEMMA SaveRowKeeps ==
  ASSUME IInv, NEW r \in Requests,
         SaveRow(r), UNCHANGED <<aged, mailVars, cleanerVars>>
  PROVE  IInv'
  <1>1. UNCHANGED <<users, legacy, pref, events, userLock, userShare, prefLock, call, answer, aged,
                    grant, grantLock, lockHolder, cpc, candidates, target, failures>>
    BY DEF SaveRow, tableVars, lockVars, mailVars, cleanerVars
  <1>2. /\ Changes(call[r], Base(UserOf(r)))
        /\ draft' = [draft EXCEPT ![r] = Asked(call[r], Base(UserOf(r)))]
        /\ Asked(call[r], Base(UserOf(r))) \in Preferences
    <2>1. pc[r] = "deciding" /\ draft[r] = Base(UserOf(r)) /\ call[r].op \in Operations
      BY DEF SaveRow, IInv, RequestsOK, RequestOK
    <2>2. ~NothingToDo(call[r], draft[r])
      BY <2>1 DEF SaveRow, Unchanged, NothingToDo
    <2>3. draft' = [draft EXCEPT ![r] = Asked(call[r], @)]
      BY <2>1 DEF SaveRow, Asked
    <2>4. draft' = [draft EXCEPT ![r] = Asked(call[r], Base(UserOf(r)))]
      BY <2>1, <2>3
    <2>5. call[r].op # "completeOnboarding" => draft[r].terms
      BY DEF SaveRow
    <2>6. Changes(call[r], Base(UserOf(r)))
      BY <2>1, <2>2, <2>5, WorkIsChange
    <2>7. QED
      BY <2>4, <2>6, AskedIsLegal
  <1>3. TableTypes' /\ GrantTypes' /\ LockTypes' /\ CleanerTypes' /\ CleanersOK' /\ EventsOK' /\ SavedIsKept'
    BY <1>1 DEF IInv, Types, TableTypes, Legal, GrantTypes, LockTypes, CleanerTypes, CleanersOK, CleanerOK,
       NeverCompleted, EventsOK, SavedIsKept, UserOf
  <1>4. TermsStay
    BY <1>1 DEF TermsStay
  <1>5. RequestTypes'
    BY <1>1, <1>2 DEF SaveRow, Goto, IInv, Types, RequestTypes, Steps
  <1>6. RequestsOK'
    <2>1. ASSUME NEW q \in Requests, q # r PROVE RequestOK(q)'
      <3>1. pc'[q] = pc[q] /\ call'[q] = call[q] /\ draft'[q] = draft[q] /\ answer'[q] = answer[q]
        BY <1>1, <1>2, <2>1 DEF Types, RequestTypes, SaveRow, Goto
      <3>2. QED
        BY <1>1, <1>4, <3>1, OtherRequest
    <2>2. RequestOK(r)'
      <3>1. pc[r] = "deciding" /\ pc'[r] = "recording" /\ RequestOK(r)
        BY DEF SaveRow, Goto, IInv, Types, RequestTypes, RequestsOK
      <3>2. UserOf(r)' = UserOf(r) /\ Base(UserOf(r))' = Base(UserOf(r))
        BY <1>1 DEF UserOf, Base
      <3>3. draft'[r] = Asked(call[r], Base(UserOf(r)))
        BY <1>2 DEF IInv, Types, RequestTypes
      <3>4. ~NothingToDo(call[r], Base(UserOf(r)))
        BY <1>2 DEF Changes
      <3>5. QED
        BY <1>1, <3>1, <3>2, <3>3, <3>4 DEF RequestOK
    <2>3. QED
      BY <2>1, <2>2 DEF RequestsOK
  <1>7. QED
    BY <1>3, <1>5, <1>6 DEF IInv, Types

LEMMA RecordAndCommitKeeps ==
  ASSUME IInv, NEW r \in Requests,
         RecordAndCommit(r), UNCHANGED <<aged, mailVars, cleanerVars>>
  PROVE  IInv'
  <1>1. UNCHANGED <<users, legacy, userLock, call, draft, aged, grant, grantLock, lockHolder, cpc,
                    candidates, target, failures>>
    BY DEF RecordAndCommit, Answer, Unlock, mailVars, cleanerVars
  <1>2. /\ UserOf(r) \in users /\ UserOf(r) \in Users /\ userLock[UserOf(r)] = NoOne
        /\ prefLock[UserOf(r)] = r
        /\ Changes(call[r], Base(UserOf(r)))
        /\ draft[r] = Asked(call[r], Base(UserOf(r)))
        /\ draft[r] \in Preferences /\ Legal(draft[r]) /\ draft[r].terms /\ draft[r] # NoPreference
        /\ pref' = [pref EXCEPT ![UserOf(r)] = draft[r]]
        /\ pref \in [Users -> Preferences \cup {NoPreference}]
    <2>1. pc[r] = "recording" /\ UserOf(r) \in users /\ userLock[UserOf(r)] = NoOne
          /\ pref' = [pref EXCEPT ![UserOf(r)] = draft[r]]
      BY DEF RecordAndCommit, CanRefer
    <2>2. RequestOK(r) /\ pref \in [Users -> Preferences \cup {NoPreference}]
      BY DEF IInv, RequestsOK, Types, TableTypes
    <2>3. /\ UserOf(r) \in Users /\ prefLock[UserOf(r)] = r
          /\ draft[r] = Asked(call[r], Base(UserOf(r))) /\ ~NothingToDo(call[r], Base(UserOf(r)))
          /\ call[r].op # "completeOnboarding" => Base(UserOf(r)).terms
      BY <2>1, <2>2 DEF RequestOK, Base
    <2>4. Changes(call[r], Base(UserOf(r)))
      BY <2>1, <2>3, WorkIsChange
    <2>5. QED
      BY <2>1, <2>2, <2>3, <2>4, AskedIsLegal, IdentityAssumption
  <1>3. GrantTypes' /\ CleanerTypes'
    BY <1>1 DEF IInv, Types, GrantTypes, CleanerTypes
  <1>4. TermsStay
    BY <1>1, <1>2 DEF TermsStay
  <1>5. TableTypes'
    BY <1>1, <1>2 DEF IInv, Types, TableTypes
  <1>6. LockTypes'
    BY <1>1, IdentityAssumption, CleanupBoundsAssumption DEF LockTypes, RecordAndCommit, CanRefer, Goto,
       Answer, Unlock, UserOf, IInv, Types, TableTypes, RequestTypes, CleanerTypes
  <1>7. RequestTypes'
    BY <1>1, CleanupBoundsAssumption DEF RequestTypes, Steps, Calls, RecordAndCommit, CanRefer, Goto, Answer,
       Unlock, IInv, Types, TableTypes, LockTypes, CleanerTypes
  <1>8. RequestsOK'
    <2>1. ASSUME NEW q \in Requests, q # r PROVE RequestOK(q)'
      <3>1. pc'[q] = pc[q] /\ call'[q] = call[q] /\ draft'[q] = draft[q] /\ answer'[q] = answer[q]
        BY <1>1, <2>1 DEF Types, RequestTypes, RecordAndCommit, Goto, Answer
      <3>2. \A v \in Users : prefLock[v] = q => prefLock'[v] = q /\ pref'[v] = pref[v]
        BY <1>2, <2>1 DEF RecordAndCommit, Unlock
      <3>3. QED
        BY <1>4, <3>1, <3>2, OtherRequest
    <2>2. RequestOK(r)'
      <3>1. pc'[r] = "done" /\ UserOf(r)' = UserOf(r)
        BY <1>1 DEF RecordAndCommit, Answer, Goto, IInv, Types, RequestTypes, UserOf
      <3>2. QED
        BY <1>2, <3>1 DEF RequestOK
    <2>3. QED
      BY <2>1, <2>2 DEF RequestsOK
  <1>9. CleanersOK'
    <2>1. ASSUME NEW d \in Cleaners PROVE CleanerOK(d)'
      <3>1. \A v \in Users : (userLock[v] = d => pref'[v] = pref[v]) /\ (prefLock[v] = d => prefLock'[v] = d)
        BY <1>1, IdentityAssumption DEF IInv, Types, TableTypes, LockTypes, RequestTypes, RecordAndCommit,
           CanRefer, Goto, Answer, Unlock, UserOf
      <3>2. QED
        BY <1>1, <3>1, OtherCleaner
    <2>2. QED
      BY <2>1 DEF CleanersOK
  <1>10. EventsOK'
    <2>1. ASSUME NEW u \in Users PROVE Agree(pref'[u], events'[u]) /\ (u \notin users => events'[u] = <<>>)
      <3>1. Agree(pref[u], events[u]) /\ (u \notin users => events[u] = <<>>)
        BY DEF IInv, EventsOK
      <3>2. CASE u = UserOf(r)
        <4>1. u \in users /\ pref'[u] = Asked(call[r], Base(u))
          BY <1>2, <3>2
        <4>2. events'[u] = events[u] \o EventsOf(call[r])
          BY <3>2 DEF RecordAndCommit, IInv, EventsOK
        <4>3. Agree(Base(u), events[u])
          BY BaseIsLegal
        <4>4. QED
          BY <1>2, <3>2, <4>1, <4>2, <4>3, ChangeIsRecorded
      <3>3. CASE u # UserOf(r)
        <4>1. pref'[u] = pref[u] /\ events'[u] = events[u]
          BY <1>2, <3>3 DEF RecordAndCommit
        <4>2. QED
          BY <3>1, <4>1
      <3>4. QED
        BY <3>2, <3>3
    <2>2. \A u \in Users : events'[u] \in Seq(EventRecords)
      BY <2>1, AgreedIsTyped
    <2>3. events' \in [Users -> Seq(EventRecords)]
      BY <2>2 DEF RecordAndCommit, IInv, EventsOK
    <2>4. QED
      BY <1>1, <2>1, <2>3 DEF EventsOK
  <1>11. SavedIsKept'
    <2>1. SUFFICES ASSUME NEW q \in Requests, answer'[q] = "saved"
                   PROVE  /\ UserOf(q) \in users
                          /\ pref'[UserOf(q)] # NoPreference /\ pref'[UserOf(q)].terms
      BY <1>1 DEF SavedIsKept, UserOf
    <2>2. CASE UserOf(q) = UserOf(r)
      BY <1>2, <2>2
    <2>3. CASE UserOf(q) # UserOf(r)
      <3>1. answer[q] = "saved"
        BY <2>1, <2>3 DEF RecordAndCommit, Answer
      <3>2. UserOf(q) \in users /\ pref[UserOf(q)] # NoPreference /\ pref[UserOf(q)].terms
        BY <3>1 DEF IInv, SavedIsKept
      <3>3. QED
        BY <1>2, <2>3, <3>2 DEF Types, TableTypes
    <2>4. QED
      BY <2>2, <2>3
  <1>12. QED
    BY <1>3, <1>5, <1>6, <1>7, <1>8, <1>9, <1>10, <1>11 DEF IInv, Types

LEMMA FailRequestKeeps ==
  ASSUME IInv, NEW r \in Requests,
         FailRequest(r), UNCHANGED <<aged, mailVars, cleanerVars>>
  PROVE  IInv'
  <1>1. UNCHANGED <<users, legacy, pref, events, userLock, call, draft, aged, grant, grantLock,
                    lockHolder, cpc, candidates, target, failures>>
    BY DEF FailRequest, Answer, Unlock, tableVars, mailVars, cleanerVars
  <1>2. TableTypes' /\ GrantTypes' /\ CleanerTypes' /\ EventsOK'
    BY <1>1 DEF IInv, Types, TableTypes, GrantTypes, CleanerTypes, EventsOK
  <1>3. TermsStay
    BY <1>1 DEF TermsStay
  <1>4. LockTypes'
    BY <1>1, CleanupBoundsAssumption DEF LockTypes, FailRequest, Goto, Answer, Unlock, UserOf, IInv, Types
  <1>5. RequestTypes'
    BY <1>1, IdentityAssumption, CleanupBoundsAssumption DEF RequestTypes, Steps, Calls, FailRequest, Goto,
       Answer, Unlock, UserOf, IInv, Types, TableTypes, LockTypes, CleanerTypes
  <1>6. RequestsOK'
    <2>1. ASSUME NEW q \in Requests, q # r PROVE RequestOK(q)'
      <3>1. pc'[q] = pc[q] /\ call'[q] = call[q] /\ draft'[q] = draft[q] /\ answer'[q] = answer[q]
        BY <1>1, <2>1 DEF Types, RequestTypes, FailRequest, Goto, Answer
      <3>2. \A v \in Users : prefLock[v] = q => prefLock'[v] = q /\ pref'[v] = pref[v]
        BY <1>1, <2>1 DEF FailRequest, Unlock
      <3>3. QED
        BY <1>3, <3>1, <3>2, OtherRequest
    <2>2. RequestOK(r)'
      BY <1>1, IdentityAssumption DEF IInv, Types, TableTypes, LockTypes, RequestTypes, RequestsOK, RequestOK,
         Base, FailRequest, Goto, Answer, Unlock, UserOf
    <2>3. QED
      BY <2>1, <2>2 DEF RequestsOK
  <1>7. CleanersOK'
    <2>1. ASSUME NEW d \in Cleaners PROVE CleanerOK(d)'
      <3>1. \A v \in Users : (userLock[v] = d => pref'[v] = pref[v]) /\ (prefLock[v] = d => prefLock'[v] = d)
        BY <1>1, IdentityAssumption DEF FailRequest, Unlock
      <3>2. QED
        BY <1>1, <3>1, OtherCleaner
    <2>2. QED
      BY <2>1 DEF CleanersOK
  <1>8. SavedIsKept'
    <2>1. \A q \in Requests : answer'[q] = "saved" => answer[q] = "saved" /\ call'[q] = call[q]
      BY <1>1 DEF Types, RequestTypes, RequestsOK, RequestOK, FailRequest, Answer
    <2>2. QED
      BY <1>3, <2>1, SavedStays
  <1>9. QED
    BY <1>2, <1>4, <1>5, <1>6, <1>7, <1>8 DEF IInv, Types

LEMMA AgeKeeps ==
  ASSUME IInv, NEW u \in Users,
         Age(u)
  PROVE  IInv'
  <1>1. UNCHANGED <<users, legacy, pref, events, userLock, userShare, prefLock, pc, call, draft, answer,
                    grant, grantLock, lockHolder, cpc, candidates, target, failures>>
    BY DEF Age, consentVars, tableVars, lockVars, requestVars, mailVars, cleanerVars
  <1>2. GrantTypes' /\ LockTypes' /\ RequestTypes' /\ CleanerTypes' /\ RequestsOK' /\ EventsOK' /\ SavedIsKept'
    BY <1>1 DEF IInv, Types, GrantTypes, LockTypes, RequestTypes, Steps, Calls, CleanerTypes, RequestsOK,
       RequestOK, Base, EventsOK, SavedIsKept, UserOf
  <1>3. TableTypes'
    BY <1>1, CleanupBoundsAssumption DEF TableTypes, Legal, Age, IInv, Types, LockTypes
  <1>4. CleanersOK'
    BY <1>1, CleanupBoundsAssumption DEF CleanersOK, CleanerOK, NeverCompleted, Age, IInv
  <1>5. QED
    BY <1>2, <1>3, <1>4 DEF IInv, Types

LEMMA AuthorizeMailboxKeeps ==
  ASSUME IInv, NEW u \in Users,
         AuthorizeMailbox(u)
  PROVE  IInv'
  <1>1. UNCHANGED <<users, legacy, pref, events, userLock, userShare, prefLock, pc, call, draft, answer,
                    aged, grantLock, lockHolder, cpc, candidates, target, failures>>
    BY DEF AuthorizeMailbox, consentVars, tableVars, lockVars, requestVars, cleanerVars
  <1>2. TableTypes' /\ LockTypes' /\ RequestTypes' /\ CleanerTypes' /\ RequestsOK' /\ CleanersOK' /\ EventsOK' /\ SavedIsKept'
    BY <1>1 DEF IInv, Types, TableTypes, Legal, LockTypes, RequestTypes, Steps, Calls, CleanerTypes,
       RequestsOK, RequestOK, Base, CleanersOK, CleanerOK, NeverCompleted, EventsOK, SavedIsKept, UserOf
  <1>3. GrantTypes'
    <2>1. grant' = [grant EXCEPT ![u] = @ + 1] /\ grant[u] < MaxGrants /\ u \in users
      BY DEF AuthorizeMailbox
    <2>2. grant[u] + 1 \in 0..MaxGrants
      BY <2>1, CleanupBoundsAssumption DEF IInv, Types, GrantTypes
    <2>3. QED
      BY <1>1, <2>1, <2>2 DEF IInv, Types, GrantTypes
  <1>4. QED
    BY <1>2, <1>3 DEF IInv, Types

LEMMA StartCleanupKeeps ==
  ASSUME IInv, NEW c \in Cleaners,
         StartCleanup(c)
  PROVE  IInv'
  <1>1. UNCHANGED <<users, legacy, pref, events, userLock, userShare, prefLock, pc, call, draft, answer,
                    aged, grant, grantLock, target, failures>>
    BY DEF StartCleanup, consentVars, tableVars, lockVars, requestVars, mailVars
  <1>2. TableTypes' /\ GrantTypes' /\ RequestTypes' /\ RequestsOK' /\ EventsOK' /\ SavedIsKept'
    BY <1>1 DEF IInv, Types, TableTypes, Legal, GrantTypes, RequestTypes, Steps, Calls, RequestsOK, RequestOK,
       Base, EventsOK, SavedIsKept, UserOf
  <1>3. LockTypes'
    BY <1>1, CleanupBoundsAssumption DEF LockTypes, StartCleanup, PendingUsers, CGoto, IInv, Types, TableTypes
  <1>4. CleanerTypes'
    BY <1>1, CleanupBoundsAssumption DEF CleanerTypes, StartCleanup, PendingUsers, CGoto, IInv, Types,
       TableTypes, LockTypes
  <1>5. CleanersOK'
    <2>1. ASSUME NEW d \in Cleaners, d # c PROVE CleanerOK(d)'
      <3>1. cpc'[d] = cpc[d] /\ candidates'[d] = candidates[d] /\ target'[d] = target[d]
        BY <1>1, <2>1 DEF Types, CleanerTypes, StartCleanup, CGoto
      <3>2. \A v \in Users : (userLock[v] = d => userLock'[v] = d) /\ (prefLock[v] = d => prefLock'[v] = d)
        BY <1>1, <2>1 DEF CGoto
      <3>3. QED
        BY <1>1, <3>1, <3>2, OtherCleaner
    <2>2. CleanerOK(c)'
      BY <1>1, IdentityAssumption DEF IInv, Types, TableTypes, LockTypes, CleanerTypes, CleanersOK, CleanerOK,
         NeverCompleted, StartCleanup, PendingUsers, CGoto
    <2>3. QED
      BY <2>1, <2>2 DEF CleanersOK
  <1>6. QED
    BY <1>2, <1>3, <1>4, <1>5 DEF IInv, Types

LEMMA SelectMissingKeeps ==
  ASSUME IInv, NEW c \in Cleaners,
         SelectMissing(c)
  PROVE  IInv'
  <1>1. UNCHANGED <<users, legacy, pref, events, userLock, userShare, prefLock, pc, call, draft, answer,
                    aged, grant, grantLock, lockHolder, target, failures>>
    BY DEF SelectMissing, consentVars, tableVars, lockVars, requestVars, mailVars
  <1>2. TableTypes' /\ GrantTypes' /\ LockTypes' /\ RequestTypes' /\ RequestsOK' /\ EventsOK' /\ SavedIsKept'
    BY <1>1 DEF IInv, Types, TableTypes, Legal, GrantTypes, LockTypes, RequestTypes, Steps, Calls, RequestsOK,
       RequestOK, Base, EventsOK, SavedIsKept, UserOf
  <1>3. CleanerTypes'
    BY <1>1, CleanupBoundsAssumption DEF CleanerTypes, SelectMissing, MissingUsers, CGoto, IInv, Types,
       TableTypes, LockTypes
  <1>4. CleanersOK'
    <2>1. ASSUME NEW d \in Cleaners, d # c PROVE CleanerOK(d)'
      <3>1. cpc'[d] = cpc[d] /\ candidates'[d] = candidates[d] /\ target'[d] = target[d]
        BY <1>1, <2>1 DEF Types, CleanerTypes, SelectMissing, CGoto
      <3>2. \A v \in Users : (userLock[v] = d => userLock'[v] = d) /\ (prefLock[v] = d => prefLock'[v] = d)
        BY <1>1, <2>1 DEF CGoto
      <3>3. QED
        BY <1>1, <3>1, <3>2, OtherCleaner
    <2>2. CleanerOK(c)'
      BY <1>1, IdentityAssumption DEF IInv, Types, TableTypes, LockTypes, CleanerTypes, CleanersOK, CleanerOK,
         NeverCompleted, SelectMissing, MissingUsers, CGoto
    <2>3. QED
      BY <2>1, <2>2 DEF CleanersOK
  <1>5. QED
    BY <1>2, <1>3, <1>4 DEF IInv, Types

LEMMA PickCandidateKeeps ==
  ASSUME IInv, NEW c \in Cleaners,
         PickCandidate(c)
  PROVE  IInv'
  <1>1. UNCHANGED <<users, legacy, pref, events, userLock, userShare, prefLock, pc, call, draft, answer,
                    aged, grant, grantLock, lockHolder, candidates, failures>>
    BY DEF PickCandidate, consentVars, tableVars, lockVars, requestVars, mailVars
  <1>2. TableTypes' /\ GrantTypes' /\ LockTypes' /\ RequestTypes' /\ RequestsOK' /\ EventsOK' /\ SavedIsKept'
    BY <1>1 DEF IInv, Types, TableTypes, Legal, GrantTypes, LockTypes, RequestTypes, Steps, Calls, RequestsOK,
       RequestOK, Base, EventsOK, SavedIsKept, UserOf
  <1>3. CleanerTypes'
    BY <1>1, CleanupBoundsAssumption DEF CleanerTypes, PickCandidate, CGoto, IInv, Types, TableTypes,
       LockTypes
  <1>4. CleanersOK'
    <2>1. ASSUME NEW d \in Cleaners, d # c PROVE CleanerOK(d)'
      <3>1. cpc'[d] = cpc[d] /\ candidates'[d] = candidates[d] /\ target'[d] = target[d]
        BY <1>1, <2>1 DEF Types, CleanerTypes, PickCandidate, CGoto
      <3>2. \A v \in Users : (userLock[v] = d => userLock'[v] = d) /\ (prefLock[v] = d => prefLock'[v] = d)
        BY <1>1, <2>1 DEF CGoto
      <3>3. QED
        BY <1>1, <3>1, <3>2, OtherCleaner
    <2>2. CleanerOK(c)'
      BY <1>1, IdentityAssumption DEF IInv, Types, TableTypes, LockTypes, CleanerTypes, CleanersOK, CleanerOK,
         NeverCompleted, PickCandidate, CGoto
    <2>3. QED
      BY <2>1, <2>2 DEF CleanersOK
  <1>5. QED
    BY <1>2, <1>3, <1>4 DEF IInv, Types

LEMMA EndCleanupKeeps ==
  ASSUME IInv, NEW c \in Cleaners,
         EndCleanup(c)
  PROVE  IInv'
  <1>1. UNCHANGED <<users, legacy, pref, events, userLock, userShare, prefLock, pc, call, draft, answer,
                    aged, grant, grantLock, candidates, target, failures>>
    BY DEF EndCleanup, consentVars, tableVars, lockVars, requestVars, mailVars
  <1>2. TableTypes' /\ GrantTypes' /\ RequestTypes' /\ RequestsOK' /\ EventsOK' /\ SavedIsKept'
    BY <1>1 DEF IInv, Types, TableTypes, Legal, GrantTypes, RequestTypes, Steps, Calls, RequestsOK, RequestOK,
       Base, EventsOK, SavedIsKept, UserOf
  <1>3. LockTypes'
    BY <1>1, CleanupBoundsAssumption DEF LockTypes, EndCleanup, CGoto, ReleaseCleanupLock, IInv, Types,
       TableTypes
  <1>4. CleanerTypes'
    BY <1>1, CleanupBoundsAssumption DEF CleanerTypes, EndCleanup, CGoto, ReleaseCleanupLock, IInv, Types,
       TableTypes, LockTypes
  <1>5. CleanersOK'
    <2>1. ASSUME NEW d \in Cleaners, d # c PROVE CleanerOK(d)'
      <3>1. cpc'[d] = cpc[d] /\ candidates'[d] = candidates[d] /\ target'[d] = target[d]
        BY <1>1, <2>1 DEF Types, CleanerTypes, EndCleanup, CGoto
      <3>2. \A v \in Users : (userLock[v] = d => userLock'[v] = d) /\ (prefLock[v] = d => prefLock'[v] = d)
        BY <1>1, <2>1 DEF ReleaseCleanupLock
      <3>3. QED
        BY <1>1, <3>1, <3>2, OtherCleaner
    <2>2. CleanerOK(c)'
      BY <1>1, IdentityAssumption DEF IInv, Types, TableTypes, LockTypes, CleanerTypes, CleanersOK, CleanerOK,
         NeverCompleted, EndCleanup, CGoto, ReleaseCleanupLock
    <2>3. QED
      BY <2>1, <2>2 DEF CleanersOK
  <1>6. QED
    BY <1>2, <1>3, <1>4, <1>5 DEF IInv, Types

LEMMA LockUserKeeps ==
  ASSUME IInv, NEW c \in Cleaners,
         LockUser(c)
  PROVE  IInv'
  <1>1. UNCHANGED <<users, legacy, pref, events, userShare, prefLock, pc, call, draft, answer, aged,
                    grant, grantLock, lockHolder, candidates, target, failures>>
    BY DEF LockUser, tableVars, requestVars, mailVars
  <1>2. TableTypes' /\ GrantTypes' /\ RequestTypes' /\ RequestsOK' /\ EventsOK' /\ SavedIsKept'
    BY <1>1 DEF IInv, Types, TableTypes, Legal, GrantTypes, RequestTypes, Steps, Calls, RequestsOK, RequestOK,
       Base, EventsOK, SavedIsKept, UserOf
  <1>3. LockTypes'
    BY <1>1, CleanupBoundsAssumption DEF LockTypes, LockUser, CGoto, IInv, Types, TableTypes
  <1>4. CleanerTypes'
    BY <1>1, CleanupBoundsAssumption DEF CleanerTypes, LockUser, CGoto, IInv, Types, TableTypes, LockTypes
  <1>5. CleanersOK'
    <2>1. ASSUME NEW d \in Cleaners, d # c PROVE CleanerOK(d)'
      <3>1. cpc'[d] = cpc[d] /\ candidates'[d] = candidates[d] /\ target'[d] = target[d]
        BY <1>1, <2>1 DEF Types, CleanerTypes, LockUser, CGoto
      <3>2. \A v \in Users : (userLock[v] = d => userLock'[v] = d) /\ (prefLock[v] = d => prefLock'[v] = d)
        BY <1>1, <2>1, IdentityAssumption DEF LockUser
      <3>3. QED
        BY <1>1, <3>1, <3>2, OtherCleaner
    <2>2. CleanerOK(c)'
      BY <1>1, IdentityAssumption DEF IInv, Types, TableTypes, LockTypes, CleanerTypes, CleanersOK, CleanerOK,
         NeverCompleted, LockUser, CGoto
    <2>3. QED
      BY <2>1, <2>2 DEF CleanersOK
  <1>6. QED
    BY <1>2, <1>3, <1>4, <1>5 DEF IInv, Types

LEMMA FindNoUserKeeps ==
  ASSUME IInv, NEW c \in Cleaners,
         FindNoUser(c)
  PROVE  IInv'
  <1>1. UNCHANGED <<users, legacy, pref, events, userShare, pc, call, draft, answer, aged, grant,
                    lockHolder, failures>>
    BY DEF FindNoUser, CRelease, NextCandidate, tableVars, requestVars
  <1>2. TableTypes' /\ GrantTypes' /\ RequestTypes' /\ EventsOK' /\ SavedIsKept'
    BY <1>1 DEF IInv, Types, TableTypes, Legal, GrantTypes, RequestTypes, Steps, Calls, EventsOK, SavedIsKept,
       UserOf
  <1>3. TermsStay
    BY <1>1 DEF TermsStay
  <1>4. LockTypes'
    BY <1>1, CleanupBoundsAssumption DEF LockTypes, FindNoUser, NextCandidate, CGoto, CRelease, IInv, Types,
       TableTypes
  <1>5. CleanerTypes'
    BY <1>1, CleanupBoundsAssumption DEF CleanerTypes, FindNoUser, NextCandidate, CGoto, CRelease, IInv,
       Types, TableTypes
  <1>6. RequestsOK'
    <2>1. ASSUME NEW q \in Requests PROVE RequestOK(q)'
      <3>1. \A v \in Users : prefLock[v] = q => prefLock'[v] = q /\ pref'[v] = pref[v]
        BY <1>1, IdentityAssumption DEF FindNoUser, NextCandidate, CRelease
      <3>2. QED
        BY <1>1, <1>3, <3>1, OtherRequest
    <2>2. QED
      BY <2>1 DEF RequestsOK
  <1>7. CleanersOK'
    <2>1. ASSUME NEW d \in Cleaners, d # c PROVE CleanerOK(d)'
      <3>1. cpc'[d] = cpc[d] /\ candidates'[d] = candidates[d] /\ target'[d] = target[d]
        BY <1>1, <2>1 DEF Types, CleanerTypes, FindNoUser, NextCandidate, CGoto
      <3>2. \A v \in Users : (userLock[v] = d => userLock'[v] = d) /\ (prefLock[v] = d => prefLock'[v] = d)
        BY <1>1, <2>1 DEF FindNoUser, NextCandidate, CRelease
      <3>3. QED
        BY <1>1, <3>1, <3>2, OtherCleaner
    <2>2. CleanerOK(c)'
      BY <1>1, IdentityAssumption DEF IInv, Types, TableTypes, LockTypes, CleanerTypes, CleanersOK, CleanerOK,
         NeverCompleted, FindNoUser, NextCandidate, CGoto, CRelease
    <2>3. QED
      BY <2>1, <2>2 DEF CleanersOK
  <1>8. QED
    BY <1>2, <1>4, <1>5, <1>6, <1>7 DEF IInv, Types

LEMMA ConfirmCandidateKeeps ==
  ASSUME IInv, NEW c \in Cleaners,
         ConfirmCandidate(c)
  PROVE  IInv'
  <1>1. UNCHANGED <<users, legacy, pref, events, userLock, userShare, pc, call, draft, answer, aged,
                    grant, grantLock, lockHolder, candidates, target, failures>>
    BY DEF ConfirmCandidate, tableVars, requestVars, mailVars
  <1>2. TableTypes' /\ GrantTypes' /\ RequestTypes' /\ EventsOK' /\ SavedIsKept'
    BY <1>1 DEF IInv, Types, TableTypes, Legal, GrantTypes, RequestTypes, Steps, Calls, EventsOK, SavedIsKept,
       UserOf
  <1>3. TermsStay
    BY <1>1 DEF TermsStay
  <1>4. LockTypes'
    BY <1>1, CleanupBoundsAssumption DEF LockTypes, ConfirmCandidate, CanLockPreference, CGoto, IInv, Types,
       TableTypes, RequestTypes
  <1>5. CleanerTypes'
    BY <1>1, CleanupBoundsAssumption DEF CleanerTypes, ConfirmCandidate, CanLockPreference, CGoto, IInv,
       Types, TableTypes, LockTypes
  <1>6. RequestsOK'
    <2>1. ASSUME NEW q \in Requests PROVE RequestOK(q)'
      <3>1. \A v \in Users : prefLock[v] = q => prefLock'[v] = q /\ pref'[v] = pref[v]
        BY <1>1, IdentityAssumption DEF ConfirmCandidate, CanLockPreference
      <3>2. QED
        BY <1>1, <1>3, <3>1, OtherRequest
    <2>2. QED
      BY <2>1 DEF RequestsOK
  <1>7. CleanersOK'
    <2>1. ASSUME NEW d \in Cleaners, d # c PROVE CleanerOK(d)'
      <3>1. cpc'[d] = cpc[d] /\ candidates'[d] = candidates[d] /\ target'[d] = target[d]
        BY <1>1, <2>1 DEF Types, CleanerTypes, ConfirmCandidate, CGoto
      <3>2. \A v \in Users : (userLock[v] = d => userLock'[v] = d) /\ (prefLock[v] = d => prefLock'[v] = d)
        BY <1>1, <2>1, IdentityAssumption DEF ConfirmCandidate, CanLockPreference
      <3>3. QED
        BY <1>1, <3>1, <3>2, OtherCleaner
    <2>2. CleanerOK(c)'
      BY <1>1 DEF IInv, Types, LockTypes, CleanersOK, CleanerOK, NeverCompleted, ConfirmCandidate
    <2>3. QED
      BY <2>1, <2>2 DEF CleanersOK
  <1>8. QED
    BY <1>2, <1>4, <1>5, <1>6, <1>7 DEF IInv, Types

LEMMA SkipCandidateKeeps ==
  ASSUME IInv, NEW c \in Cleaners,
         SkipCandidate(c)
  PROVE  IInv'
  <1>1. UNCHANGED <<users, legacy, pref, events, userShare, pc, call, draft, answer, aged, grant,
                    lockHolder, failures>>
    BY DEF SkipCandidate, CRelease, NextCandidate, tableVars, requestVars
  <1>2. TableTypes' /\ GrantTypes' /\ RequestTypes' /\ EventsOK' /\ SavedIsKept'
    BY <1>1 DEF IInv, Types, TableTypes, Legal, GrantTypes, RequestTypes, Steps, Calls, EventsOK, SavedIsKept,
       UserOf
  <1>3. TermsStay
    BY <1>1 DEF TermsStay
  <1>4. LockTypes'
    BY <1>1, CleanupBoundsAssumption DEF LockTypes, SkipCandidate, NextCandidate, CGoto, CRelease, IInv,
       Types, TableTypes
  <1>5. CleanerTypes'
    BY <1>1, CleanupBoundsAssumption DEF CleanerTypes, SkipCandidate, NextCandidate, CGoto, CRelease, IInv,
       Types, TableTypes
  <1>6. RequestsOK'
    <2>1. ASSUME NEW q \in Requests PROVE RequestOK(q)'
      <3>1. \A v \in Users : prefLock[v] = q => prefLock'[v] = q /\ pref'[v] = pref[v]
        BY <1>1, IdentityAssumption DEF SkipCandidate, NextCandidate, CRelease
      <3>2. QED
        BY <1>1, <1>3, <3>1, OtherRequest
    <2>2. QED
      BY <2>1 DEF RequestsOK
  <1>7. CleanersOK'
    <2>1. ASSUME NEW d \in Cleaners, d # c PROVE CleanerOK(d)'
      <3>1. cpc'[d] = cpc[d] /\ candidates'[d] = candidates[d] /\ target'[d] = target[d]
        BY <1>1, <2>1 DEF Types, CleanerTypes, SkipCandidate, NextCandidate, CGoto
      <3>2. \A v \in Users : (userLock[v] = d => userLock'[v] = d) /\ (prefLock[v] = d => prefLock'[v] = d)
        BY <1>1, <2>1 DEF SkipCandidate, NextCandidate, CRelease
      <3>3. QED
        BY <1>1, <3>1, <3>2, OtherCleaner
    <2>2. CleanerOK(c)'
      BY <1>1, IdentityAssumption DEF IInv, Types, TableTypes, LockTypes, CleanerTypes, CleanersOK, CleanerOK,
         NeverCompleted, SkipCandidate, NextCandidate, CGoto, CRelease
    <2>3. QED
      BY <2>1, <2>2 DEF CleanersOK
  <1>8. QED
    BY <1>2, <1>4, <1>5, <1>6, <1>7 DEF IInv, Types

LEMMA StopWatchKeeps ==
  ASSUME IInv, NEW c \in Cleaners,
         StopWatch(c)
  PROVE  IInv'
  <1>1. UNCHANGED <<users, legacy, pref, events, userLock, userShare, prefLock, pc, call, draft, answer,
                    aged, grant, lockHolder, candidates, target, failures>>
    BY DEF StopWatch, consentVars, tableVars, lockVars, requestVars
  <1>2. TableTypes' /\ GrantTypes' /\ RequestTypes' /\ RequestsOK' /\ EventsOK' /\ SavedIsKept'
    BY <1>1 DEF IInv, Types, TableTypes, Legal, GrantTypes, RequestTypes, Steps, Calls, RequestsOK, RequestOK,
       Base, EventsOK, SavedIsKept, UserOf
  <1>3. LockTypes'
    <2>1. grantLock' \in [Users -> Cleaners \cup {NoOne}]
      BY DEF StopWatch, IInv, Types, LockTypes
    <2>2. QED
      BY <1>1, <2>1 DEF IInv, Types, LockTypes
  <1>4. CleanerTypes'
    BY <1>1, CleanupBoundsAssumption DEF CleanerTypes, StopWatch, CGoto, IInv, Types, TableTypes, LockTypes
  <1>5. CleanersOK'
    <2>1. ASSUME NEW d \in Cleaners, d # c PROVE CleanerOK(d)'
      <3>1. cpc'[d] = cpc[d] /\ candidates'[d] = candidates[d] /\ target'[d] = target[d]
        BY <1>1, <2>1 DEF Types, CleanerTypes, StopWatch, CGoto
      <3>2. \A v \in Users : (userLock[v] = d => userLock'[v] = d) /\ (prefLock[v] = d => prefLock'[v] = d)
        BY <1>1, <2>1 DEF CGoto
      <3>3. QED
        BY <1>1, <3>1, <3>2, OtherCleaner
    <2>2. CleanerOK(c)'
      BY <1>1 DEF IInv, CleanersOK, CleanerOK, NeverCompleted, StopWatch
    <2>3. QED
      BY <2>1, <2>2 DEF CleanersOK
  <1>6. QED
    BY <1>2, <1>3, <1>4, <1>5 DEF IInv, Types

LEMMA RevokeAuthorizationKeeps ==
  ASSUME IInv, NEW c \in Cleaners,
         RevokeAuthorization(c)
  PROVE  IInv'
  <1>1. UNCHANGED <<users, legacy, pref, events, userLock, userShare, prefLock, pc, call, draft, answer,
                    aged, grant, grantLock, lockHolder, candidates, target, failures>>
    BY DEF RevokeAuthorization, consentVars, tableVars, lockVars, requestVars, mailVars
  <1>2. TableTypes' /\ GrantTypes' /\ LockTypes' /\ RequestTypes' /\ RequestsOK' /\ EventsOK' /\ SavedIsKept'
    BY <1>1 DEF IInv, Types, TableTypes, Legal, GrantTypes, LockTypes, RequestTypes, Steps, Calls, RequestsOK,
       RequestOK, Base, EventsOK, SavedIsKept, UserOf
  <1>3. CleanerTypes'
    BY <1>1, CleanupBoundsAssumption DEF CleanerTypes, RevokeAuthorization, CGoto, IInv, Types, TableTypes,
       LockTypes
  <1>4. CleanersOK'
    <2>1. ASSUME NEW d \in Cleaners, d # c PROVE CleanerOK(d)'
      <3>1. cpc'[d] = cpc[d] /\ candidates'[d] = candidates[d] /\ target'[d] = target[d]
        BY <1>1, <2>1 DEF Types, CleanerTypes, RevokeAuthorization, CGoto
      <3>2. \A v \in Users : (userLock[v] = d => userLock'[v] = d) /\ (prefLock[v] = d => prefLock'[v] = d)
        BY <1>1, <2>1 DEF CGoto
      <3>3. QED
        BY <1>1, <3>1, <3>2, OtherCleaner
    <2>2. CleanerOK(c)'
      BY <1>1 DEF IInv, CleanersOK, CleanerOK, NeverCompleted, RevokeAuthorization
    <2>3. QED
      BY <2>1, <2>2 DEF CleanersOK
  <1>5. QED
    BY <1>2, <1>3, <1>4 DEF IInv, Types

LEMMA DeleteUserKeeps ==
  ASSUME IInv, NEW c \in Cleaners,
         DeleteUser(c)
  PROVE  IInv'
  <1>1. UNCHANGED <<legacy, userShare, pc, call, draft, answer, aged, lockHolder, failures>>
    BY DEF DeleteUser, CRelease, NextCandidate, requestVars
  <1>2. /\ target[c] \in Users /\ NeverCompleted(target[c]) /\ userLock[target[c]] = c
        /\ pref[target[c]] # NoPreference => prefLock[target[c]] = c
        /\ users' = users \ {target[c]} /\ pref' = [pref EXCEPT ![target[c]] = NoPreference]
        /\ events' = [events EXCEPT ![target[c]] = <<>>] /\ grant' = [grant EXCEPT ![target[c]] = 0]
        /\ pref \in [Users -> Preferences \cup {NoPreference}]
    <2>1. cpc[c] = "deleting" /\ CleanerOK(c)
      BY DEF DeleteUser, IInv, CleanersOK
    <2>2. QED
      BY <2>1 DEF CleanerOK, DeleteUser, IInv, Types, TableTypes
  <1>3. RequestTypes'
    BY <1>1 DEF IInv, Types, RequestTypes, Steps, Calls, UserOf
  <1>4. TermsStay
    BY <1>2 DEF TermsStay, NeverCompleted
  <1>5. TableTypes'
    BY <1>1, <1>2 DEF IInv, Types, TableTypes
  <1>6. GrantTypes'
    <2>1. 0 \in 0..MaxGrants
      BY CleanupBoundsAssumption
    <2>2. QED
      BY <1>2, <2>1 DEF IInv, Types, GrantTypes
  <1>7. LockTypes'
    BY <1>1, CleanupBoundsAssumption DEF LockTypes, DeleteUser, NextCandidate, CGoto, CRelease, IInv, Types,
       TableTypes
  <1>8. CleanerTypes'
    BY <1>1, CleanupBoundsAssumption DEF CleanerTypes, DeleteUser, NextCandidate, CGoto, CRelease, IInv,
       Types, TableTypes
  <1>9. RequestsOK'
    <2>1. ASSUME NEW q \in Requests PROVE RequestOK(q)'
      <3>1. ASSUME NEW v \in Users, prefLock[v] = q PROVE prefLock'[v] = q /\ pref'[v] = pref[v]
        <4>1. prefLock'[v] = q
          BY <3>1, IdentityAssumption DEF DeleteUser, NextCandidate, CRelease
        <4>2. pref'[v] = pref[v]
          BY <1>2, <3>1, IdentityAssumption
        <4>3. QED
          BY <4>1, <4>2
      <3>2. QED
        BY <1>1, <1>4, <3>1, OtherRequest
    <2>2. QED
      BY <2>1 DEF RequestsOK
  <1>10. CleanersOK'
    <2>1. ASSUME NEW d \in Cleaners, d # c PROVE CleanerOK(d)'
      <3>1. cpc'[d] = cpc[d] /\ candidates'[d] = candidates[d] /\ target'[d] = target[d]
        BY <1>1, <2>1 DEF Types, CleanerTypes, DeleteUser, NextCandidate, CGoto
      <3>2. \A v \in Users : (userLock[v] = d => userLock'[v] = d) /\ (prefLock[v] = d => prefLock'[v] = d)
        BY <2>1 DEF DeleteUser, NextCandidate, CRelease
      <3>3. \A v \in Users : userLock[v] = d => pref'[v] = pref[v] /\ (v \in users => v \in users')
        BY <1>2, <2>1
      <3>4. QED
        BY <1>1, <3>1, <3>2, <3>3, OtherCleaner
    <2>2. CleanerOK(c)'
      <3>1. cpc'[c] = "picking" /\ candidates'[c] \subseteq candidates[c]
        BY DEF DeleteUser, NextCandidate, CGoto, IInv, Types, CleanerTypes
      <3>2. QED
        BY <1>1, <3>1 DEF IInv, CleanersOK, CleanerOK
    <2>3. QED
      BY <2>1, <2>2 DEF CleanersOK
  <1>11. EventsOK'
    <2>1. ASSUME NEW u \in Users PROVE Agree(pref'[u], events'[u]) /\ (u \notin users' => events'[u] = <<>>)
      <3>1. Agree(pref[u], events[u]) /\ (u \notin users => events[u] = <<>>)
        BY DEF IInv, EventsOK
      <3>2. CASE u = target[c]
        BY <1>2, <3>1, <3>2 DEF Agree, NeverCompleted
      <3>3. CASE u # target[c]
        BY <1>2, <3>1, <3>3
      <3>4. QED
        BY <3>2, <3>3
    <2>2. events' \in [Users -> Seq(EventRecords)]
      BY <1>2 DEF IInv, EventsOK
    <2>3. QED
      BY <2>1, <2>2 DEF EventsOK
  <1>12. SavedIsKept'
    <2>1. \A q \in Requests : answer'[q] = "saved" => answer[q] = "saved" /\ call'[q] = call[q]
      BY <1>1 DEF Types, RequestTypes, RequestsOK, RequestOK
    <2>2. QED
      BY <1>4, <2>1, SavedStays
  <1>13. QED
    BY <1>3, <1>5, <1>6, <1>7, <1>8, <1>9, <1>10, <1>11, <1>12 DEF IInv, Types

LEMMA AbortCandidateKeeps ==
  ASSUME IInv, NEW c \in Cleaners,
         AbortCandidate(c), failures' \in 0..MaxFailures
  PROVE  IInv'
  <1>1. UNCHANGED <<users, legacy, pref, events, userShare, pc, call, draft, answer, aged, grant,
                    lockHolder>>
    BY DEF AbortCandidate, CRelease, NextCandidate, tableVars, requestVars
  <1>2. TableTypes' /\ GrantTypes' /\ RequestTypes' /\ EventsOK' /\ SavedIsKept'
    BY <1>1 DEF IInv, Types, TableTypes, Legal, GrantTypes, RequestTypes, Steps, Calls, EventsOK, SavedIsKept,
       UserOf
  <1>3. TermsStay
    BY <1>1 DEF TermsStay
  <1>4. LockTypes'
    BY <1>1, CleanupBoundsAssumption DEF LockTypes, AbortCandidate, NextCandidate, CGoto, CRelease, IInv,
       Types, TableTypes
  <1>5. CleanerTypes'
    BY <1>1, CleanupBoundsAssumption DEF CleanerTypes, AbortCandidate, NextCandidate, CGoto, CRelease, IInv,
       Types, TableTypes
  <1>6. RequestsOK'
    <2>1. ASSUME NEW q \in Requests PROVE RequestOK(q)'
      <3>1. \A v \in Users : prefLock[v] = q => prefLock'[v] = q /\ pref'[v] = pref[v]
        BY <1>1, IdentityAssumption DEF AbortCandidate, NextCandidate, CRelease
      <3>2. QED
        BY <1>1, <1>3, <3>1, OtherRequest
    <2>2. QED
      BY <2>1 DEF RequestsOK
  <1>7. CleanersOK'
    <2>1. ASSUME NEW d \in Cleaners, d # c PROVE CleanerOK(d)'
      <3>1. cpc'[d] = cpc[d] /\ candidates'[d] = candidates[d] /\ target'[d] = target[d]
        BY <1>1, <2>1 DEF Types, CleanerTypes, AbortCandidate, NextCandidate, CGoto
      <3>2. \A v \in Users : (userLock[v] = d => userLock'[v] = d) /\ (prefLock[v] = d => prefLock'[v] = d)
        BY <1>1, <2>1 DEF AbortCandidate, NextCandidate, CRelease
      <3>3. QED
        BY <1>1, <3>1, <3>2, OtherCleaner
    <2>2. CleanerOK(c)'
      BY <1>1, IdentityAssumption DEF IInv, Types, TableTypes, LockTypes, CleanerTypes, CleanersOK, CleanerOK,
         NeverCompleted, AbortCandidate, NextCandidate, CGoto, CRelease
    <2>3. QED
      BY <2>1, <2>2 DEF CleanersOK
  <1>8. QED
    BY <1>2, <1>4, <1>5, <1>6, <1>7 DEF IInv, Types

LEMMA CrashCleanerKeeps ==
  ASSUME IInv, NEW c \in Cleaners,
         CrashCleaner(c)
  PROVE  IInv'
  <1>1. UNCHANGED <<users, legacy, pref, events, userShare, pc, call, draft, answer, aged, grant>>
    BY DEF CrashCleaner, CRelease, tableVars, requestVars
  <1>2. TableTypes' /\ GrantTypes' /\ RequestTypes' /\ EventsOK' /\ SavedIsKept'
    BY <1>1 DEF IInv, Types, TableTypes, Legal, GrantTypes, RequestTypes, Steps, Calls, EventsOK, SavedIsKept,
       UserOf
  <1>3. TermsStay
    BY <1>1 DEF TermsStay
  <1>4. LockTypes'
    BY <1>1, CleanupBoundsAssumption DEF LockTypes, CrashCleaner, CGoto, CRelease, ReleaseCleanupLock, IInv,
       Types, TableTypes
  <1>5. CleanerTypes'
    <2>1. failures' \in 0..MaxFailures
      BY CleanupBoundsAssumption DEF CrashCleaner, IInv, Types, CleanerTypes
    <2>2. /\ cpc' = [cpc EXCEPT ![c] = "idle"]
          /\ candidates' = [candidates EXCEPT ![c] = {}]
          /\ target' = [target EXCEPT ![c] = NoOne]
      BY DEF CrashCleaner, CGoto
    <2>3. QED
      BY <2>1, <2>2 DEF IInv, Types, CleanerTypes
  <1>6. RequestsOK'
    <2>1. ASSUME NEW q \in Requests PROVE RequestOK(q)'
      <3>1. \A v \in Users : prefLock[v] = q => prefLock'[v] = q /\ pref'[v] = pref[v]
        BY <1>1, IdentityAssumption DEF CrashCleaner, CRelease
      <3>2. QED
        BY <1>1, <1>3, <3>1, OtherRequest
    <2>2. QED
      BY <2>1 DEF RequestsOK
  <1>7. CleanersOK'
    <2>1. ASSUME NEW d \in Cleaners, d # c PROVE CleanerOK(d)'
      <3>1. cpc'[d] = cpc[d] /\ candidates'[d] = candidates[d] /\ target'[d] = target[d]
        BY <1>1, <2>1 DEF Types, CleanerTypes, CrashCleaner, CGoto
      <3>2. \A v \in Users : (userLock[v] = d => userLock'[v] = d) /\ (prefLock[v] = d => prefLock'[v] = d)
        BY <1>1, <2>1 DEF CrashCleaner, CRelease
      <3>3. QED
        BY <1>1, <3>1, <3>2, OtherCleaner
    <2>2. CleanerOK(c)'
      BY <1>1, IdentityAssumption DEF IInv, Types, TableTypes, LockTypes, CleanerTypes, CleanersOK, CleanerOK,
         NeverCompleted, CrashCleaner, CGoto, CRelease, ReleaseCleanupLock
    <2>3. QED
      BY <2>1, <2>2 DEF CleanersOK
  <1>8. QED
    BY <1>2, <1>4, <1>5, <1>6, <1>7 DEF IInv, Types

LEMMA LoseCleanupLockKeeps ==
  ASSUME IInv, NEW c \in Cleaners,
         LoseCleanupLock(c)
  PROVE  IInv'
  <1>1. UNCHANGED <<users, legacy, pref, events, userLock, userShare, prefLock, pc, call, draft, answer,
                    aged, grant, grantLock, cpc, candidates, target>>
    BY DEF LoseCleanupLock, consentVars, tableVars, lockVars, requestVars, mailVars
  <1>2. TableTypes' /\ GrantTypes' /\ RequestTypes' /\ RequestsOK' /\ CleanersOK' /\ EventsOK' /\ SavedIsKept'
    BY <1>1 DEF IInv, Types, TableTypes, Legal, GrantTypes, RequestTypes, Steps, Calls, RequestsOK, RequestOK,
       Base, CleanersOK, CleanerOK, NeverCompleted, EventsOK, SavedIsKept, UserOf
  <1>3. LockTypes'
    BY <1>1, CleanupBoundsAssumption DEF LockTypes, LoseCleanupLock, IInv, Types, TableTypes
  <1>4. CleanerTypes'
    <2>1. failures' \in 0..MaxFailures
      BY CleanupBoundsAssumption DEF LoseCleanupLock, IInv, Types, CleanerTypes
    <2>2. QED
      BY <1>1, <2>1 DEF IInv, Types, CleanerTypes
  <1>5. QED
    BY <1>2, <1>3, <1>4 DEF IInv, Types

LEMMA FormStepKeeps ==
  ASSUME IInv, ConsentNext, UNCHANGED <<aged, mailVars, cleanerVars>>
  PROVE  IInv'
  <1>1. CASE \E r \in Requests, u \in Users, form \in Forms, optIn \in BOOLEAN : Submit(r, u, form, optIn)
    BY <1>1, SubmitKeeps
  <1>2. ASSUME NEW r \in Requests, RequestStep(r) PROVE IInv'
    BY <1>2, ReadPreferenceKeeps, EnsurePreferenceKeeps, KeepRowKeeps, InsertRowKeeps, LockPreferenceKeeps,
       FindNoRowKeeps, ReturnUnchangedKeeps, SaveRowKeeps, RecordAndCommitKeeps DEF RequestStep
  <1>3. CASE \E r \in Requests : FailRequest(r)
    BY <1>3, FailRequestKeeps
  <1>4. QED
    BY <1>1, <1>2, <1>3 DEF ConsentNext

LEMMA CleanerStepKeeps ==
  ASSUME IInv, NEW c \in Cleaners, CleanerStep(c)
  PROVE  IInv'
  BY SelectMissingKeeps, PickCandidateKeeps, EndCleanupKeeps, LockUserKeeps, FindNoUserKeeps,
     ConfirmCandidateKeeps,
     SkipCandidateKeeps, StopWatchKeeps, RevokeAuthorizationKeeps, DeleteUserKeeps DEF CleanerStep

LEMMA FailureKeeps ==
  ASSUME IInv, NEW c \in Cleaners,
         FailCandidate(c) \/ CancelCleaner(c)
  PROVE  IInv'
  <1>1. failures' \in 0..MaxFailures /\ AbortCandidate(c)
    BY CleanupBoundsAssumption DEF IInv, Types, CleanerTypes, FailCandidate, CancelCleaner
  <1>2. QED
    BY <1>1, AbortCandidateKeeps

LEMMA StepKeeps ==
  ASSUME IInv, [Next]_vars
  PROVE  IInv'
  <1>1. CASE ConsentNext /\ UNCHANGED <<aged, mailVars, cleanerVars>>
    BY <1>1, FormStepKeeps
  <1>2. CASE \E u \in Users : Age(u) \/ AuthorizeMailbox(u)
    BY <1>2, AgeKeeps, AuthorizeMailboxKeeps
  <1>3. CASE \E c \in Cleaners : StartCleanup(c) \/ CrashCleaner(c) \/ LoseCleanupLock(c)
    BY <1>3, StartCleanupKeeps, CrashCleanerKeeps, LoseCleanupLockKeeps
  <1>4. CASE \E c \in Cleaners : CleanerStep(c)
    BY <1>4, CleanerStepKeeps
  <1>5. CASE \E c \in Cleaners : FailCandidate(c) \/ CancelCleaner(c)
    BY <1>5, FailureKeeps
  <1>6. CASE \E r \in Requests : CancelRequest(r) /\ UNCHANGED <<aged, mailVars, cleanerVars>>
    BY <1>6, FailRequestKeeps DEF CancelRequest
  <1>7. CASE UNCHANGED vars
    BY <1>7 DEF vars, consentVars, tableVars, lockVars, requestVars, mailVars, cleanerVars, IInv, Types,
       TableTypes,
       Legal, GrantTypes, LockTypes, RequestTypes, Steps, Calls, CleanerTypes, RequestsOK, RequestOK, Base, UserOf,
       CleanersOK, CleanerOK, NeverCompleted, EventsOK, SavedIsKept
  <1>8. QED
    BY <1>1, <1>2, <1>3, <1>4, <1>5, <1>6, <1>7 DEF Next, BreakDeadlock

LEMMA Invariance == Spec => []IInv
  <1>1. Init => IInv
    BY InitialState
  <1>2. IInv /\ [Next]_vars => IInv'
    BY StepKeeps
  <1>3. QED
    BY <1>1, <1>2, PTL DEF Spec
-----------------------------------------------------------------------------
(***************************************************************************)
(* The theorems.                                                           *)
(***************************************************************************)

\* Types, the CHECKs of the preference table and the foreign keys to users, for any number of users,
\* requests, cleaners, authorizations and failures.
THEOREM TypeCorrect == Spec => []TypeOK
  <1>1. IInv => TypeOK
    BY InvariantIsTyped
  <1>2. QED
    BY <1>1, Invariance, PTL

\* However many forms are sent at once and whatever is deleted meanwhile, the append-only events of a
\* user explain his preference, record changes only, and no form finds its gate closed again.
THEOREM EventsStayTrue == Spec => []EventsMatchRows
  <1>1. IInv => EventsMatchRows
    BY InvariantMatches
  <1>2. QED
    BY <1>1, Invariance, PTL

\* However many cleanups run at once, with or without their advisory lock, what a user was told is
\* saved is not deleted, and no provider is called for a registration that was completed.
THEOREM ChoicesStay == Spec => []ChoicesAreKept
  <1>1. IInv => ChoicesAreKept
    BY InvariantKeeps
  <1>2. QED
    BY <1>1, Invariance, PTL
-----------------------------------------------------------------------------
(***************************************************************************)
(* The refinement: what each step does to the accounts as a caller sees    *)
(* them.                                                                   *)
(***************************************************************************)

\* What Registration sees of the tables and the answers.
HasAccepted(u) == pref[u] # NoPreference /\ pref[u].terms
Stage(u) == IF u \notin users THEN "gone" ELSE IF HasAccepted(u) THEN "accepted" ELSE "pending"
Told(r) == answer[r] = "saved"
Promised == {UserOf(r) : r \in {x \in Requests : Told(x)}}

\* A step that accepts, deletes and promises nothing.
SameAccounts ==
  /\ UNCHANGED <<users, legacy>>
  /\ \A u \in Users : HasAccepted(u)' <=> HasAccepted(u)
  /\ \A r \in Requests : (Told(r)' <=> Told(r)) /\ (Told(r) => UserOf(r)' = UserOf(r))

LEMMA SameAccountsSimulated ==
  ASSUME SameAccounts
  PROVE  UNCHANGED Accounts!accountVars
  <1>1. \A u \in Users : Stage(u)' = Stage(u)
    BY DEF SameAccounts, Stage
  <1>2. Promised' = Promised
    BY DEF SameAccounts, Promised
  <1>3. QED
    BY <1>1, <1>2 DEF SameAccounts, Stage, HasAccepted, Promised, Told, Accounts!accountVars

\* Who has been told has ended.
LEMMA ToldIsDone ==
  ASSUME IInv, NEW r \in Requests, pc[r] # "done"
  PROVE  ~Told(r)
  BY DEF IInv, RequestsOK, RequestOK, Told

LEMMA RequestShowsLittle ==
  ASSUME IInv, NEW r \in Requests,
         \/ \E u \in Users, form \in Forms, optIn \in BOOLEAN : Submit(r, u, form, optIn)
         \/ ReadPreference(r) \/ EnsurePreference(r) \/ KeepRow(r) \/ InsertRow(r)
         \/ LockPreference(r) \/ FindNoRow(r) \/ SaveRow(r) \/ FailRequest(r)
  PROVE  SameAccounts
  <1>1. pc[r] # "done" /\ UNCHANGED <<users, legacy>>
    BY DEF Submit, ReadPreference, EnsurePreference, KeepRow, InsertRow, LockPreference, FindNoRow, SaveRow,
           FailRequest, tableVars
  <1>2. \A u \in Users : HasAccepted(u)' <=> HasAccepted(u)
    <2>1. CASE EnsurePreference(r)
      BY <2>1 DEF EnsurePreference, HasAccepted, InitialPreference, IInv, Types, TableTypes
    <2>2. CASE ~EnsurePreference(r)
      BY <2>2 DEF Submit, ReadPreference, KeepRow, InsertRow, LockPreference, FindNoRow, SaveRow, FailRequest,
         tableVars,
                  HasAccepted
    <2>3. QED
      BY <2>1, <2>2
  <1>3. /\ \A q \in Requests : q # r => answer'[q] = answer[q] /\ call'[q] = call[q]
        /\ answer'[r] = "saved" => answer[r] = "saved"
    BY DEF IInv, Types, RequestTypes, Submit, ReadPreference, EnsurePreference, KeepRow, InsertRow,
       LockPreference,
           FindNoRow, SaveRow, FailRequest, Choose, Answer
  <1>4. QED
    BY <1>1, <1>2, <1>3, ToldIsDone DEF SameAccounts, Told, UserOf

LEMMA OtherStepsShowLittle ==
  ASSUME IInv, [Next]_vars
  PROVE  \/ SameAccounts
         \/ \E r \in Requests : RecordAndCommit(r) \/ ReturnUnchanged(r)
         \/ \E c \in Cleaners : DeleteUser(c)
  <1>1. CASE ConsentNext
    BY <1>1, RequestShowsLittle DEF ConsentNext, RequestStep
  <1>2. CASE \E r \in Requests : CancelRequest(r)
    BY <1>2, RequestShowsLittle DEF CancelRequest
  <1>3. ASSUME UNCHANGED <<tableVars, requestVars>> PROVE SameAccounts
    BY <1>3 DEF tableVars, requestVars, SameAccounts, HasAccepted, Told, UserOf
  <1>4. CASE \E u \in Users : Age(u) \/ AuthorizeMailbox(u)
    BY <1>3, <1>4 DEF Age, AuthorizeMailbox, consentVars
  <1>5. CASE \E c \in Cleaners : StartCleanup(c) \/ CrashCleaner(c) \/ LoseCleanupLock(c)
    BY <1>3, <1>5 DEF StartCleanup, CrashCleaner, LoseCleanupLock, consentVars
  <1>6. CASE \E c \in Cleaners : FailCandidate(c) \/ CancelCleaner(c)
    BY <1>3, <1>6 DEF FailCandidate, CancelCleaner, AbortCandidate
  <1>7. ASSUME NEW c \in Cleaners, CleanerStep(c), ~DeleteUser(c) PROVE SameAccounts
    <2>1. CASE SelectMissing(c) \/ PickCandidate(c) \/ EndCleanup(c) \/ StopWatch(c) \/ RevokeAuthorization(c)
      BY <1>3, <2>1 DEF SelectMissing, PickCandidate, EndCleanup, StopWatch, RevokeAuthorization, consentVars
    <2>2. CASE LockUser(c) \/ FindNoUser(c) \/ ConfirmCandidate(c) \/ SkipCandidate(c)
      BY <1>3, <2>2 DEF LockUser, FindNoUser, ConfirmCandidate, SkipCandidate
    <2>3. QED
      BY <1>7, <2>1, <2>2 DEF CleanerStep
  <1>8. CASE UNCHANGED vars
    BY <1>3, <1>8 DEF vars, consentVars
  <1>9. QED
    BY <1>1, <1>2, <1>4, <1>5, <1>6, <1>7, <1>8 DEF Next, BreakDeadlock

\* A request that says "saved" promises to its user what the committed row has.
LEMMA PromiseMade ==
  ASSUME IInv, NEW r \in Requests, pc[r] # "done", Answer(r, "saved")
  PROVE  Promised' = Promised \cup {UserOf(r)}
  <1>1. /\ ~Told(r) /\ Told(r)'
        /\ \A q \in Requests : UserOf(q)' = UserOf(q) /\ (q # r => (Told(q)' <=> Told(q)))
    BY ToldIsDone DEF Answer, Told, UserOf, IInv, Types, RequestTypes
  <1>2. QED
    BY <1>1 DEF Promised

LEMMA CommitSimulated ==
  ASSUME IInv, NEW r \in Requests, RecordAndCommit(r)
  PROVE  Accounts!Next
  <1>1. PICK u \in Users : u = UserOf(r) /\ u \in users
    BY DEF RecordAndCommit, CanRefer, IInv, Types, TableTypes
  <1>2. Changes(call[r], Base(u)) /\ draft[r] = Asked(call[r], Base(u))
    <2>1. /\ draft[r] = Asked(call[r], Base(u)) /\ ~NothingToDo(call[r], Base(u))
          /\ call[r].op # "completeOnboarding" => pref[u] # NoPreference /\ pref[u].terms
      BY <1>1 DEF RecordAndCommit, IInv, RequestsOK, RequestOK
    <2>2. QED
      BY <1>1, <2>1, WorkIsChange DEF RecordAndCommit, Base
  <1>3. draft[r].terms /\ draft[r] # NoPreference
    BY <1>2, AskedIsLegal, IdentityAssumption
  <1>4. /\ HasAccepted(u)'
        /\ \A v \in Users : v # u => (HasAccepted(v)' <=> HasAccepted(v))
    BY <1>1, <1>3 DEF RecordAndCommit, HasAccepted, IInv, Types, TableTypes
  <1>5. ASSUME NEW v \in Users
        PROVE  Stage(v)' = IF v = u THEN "accepted" ELSE Stage(v)
    BY <1>1, <1>4 DEF RecordAndCommit, Stage
  <1>6. Promised' = Promised \cup {u} /\ legacy' = legacy
    BY <1>1, PromiseMade DEF RecordAndCommit
  <1>7. Stage(u) \in {"pending", "accepted"}
    BY <1>1 DEF Stage
  <1>8. CASE Stage(u) = "pending"
    <2>1. Accounts!Accept(u)
      BY <1>1, <1>5, <1>6, <1>8 DEF Accounts!Accept, Stage, HasAccepted, Promised, Told
    <2>2. QED
      BY <2>1 DEF Accounts!Next
  <1>9. CASE Stage(u) = "accepted"
    <2>1. Accounts!Confirm(u)
      BY <1>1, <1>5, <1>6, <1>9 DEF Accounts!Confirm, Stage, HasAccepted, Promised, Told
    <2>2. QED
      BY <2>1 DEF Accounts!Next
  <1>10. QED
    BY <1>7, <1>8, <1>9

LEMMA ReturnSimulated ==
  ASSUME IInv, NEW r \in Requests, ReturnUnchanged(r)
  PROVE  Accounts!Next
  <1>1. PICK u \in Users : u = UserOf(r) /\ draft[r] = Base(u)
    BY DEF ReturnUnchanged, IInv, RequestsOK, RequestOK
  <1>2. draft[r].terms
    BY Operation DEF ReturnUnchanged, Unchanged, IInv, RequestsOK, RequestOK
  <1>3. Stage(u) = "accepted"
    BY <1>1, <1>2 DEF Base, InitialPreference, Stage, HasAccepted, IInv, Types, TableTypes
  <1>4. Promised' = Promised \cup {u} /\ UNCHANGED <<users, legacy, pref>>
    BY <1>1, PromiseMade DEF ReturnUnchanged, tableVars
  <1>5. Accounts!Confirm(u)
    BY <1>3, <1>4 DEF Accounts!Confirm, Stage, HasAccepted, Promised, Told
  <1>6. QED
    BY <1>5 DEF Accounts!Next

LEMMA DeletionSimulated ==
  ASSUME IInv, NEW c \in Cleaners, DeleteUser(c)
  PROVE  Accounts!Next
  <1>1. PICK u \in Users : u = target[c] /\ u \in users /\ NeverCompleted(u)
    BY DEF DeleteUser, IInv, CleanersOK, CleanerOK, Types, TableTypes
  <1>2. Stage(u) = "pending" /\ ~legacy[u]
    BY <1>1 DEF NeverCompleted, Stage, HasAccepted
  <1>3. ASSUME NEW v \in Users
        PROVE  Stage(v)' = IF v = u THEN "gone" ELSE Stage(v)
    BY <1>1 DEF DeleteUser, Stage, HasAccepted, IInv, Types, TableTypes
  <1>4. Promised' = Promised /\ legacy' = legacy
    BY DEF DeleteUser, requestVars, Promised, Told, UserOf
  <1>5. Accounts!Delete(u)
    BY <1>2, <1>3, <1>4 DEF Accounts!Delete, Stage, HasAccepted, Promised, Told
  <1>6. QED
    BY <1>5 DEF Accounts!Next

\* Rows, locks and transactions add nothing to Registration: an account is accepted or deleted once
\* and for ever, accounts from before enforcement are not deleted, and what a caller was told holds.
THEOREM RegistrationImplemented == Spec => ImplementsRegistration
  <1>1. Init => Accounts!Init
    <2>1. SUFFICES ASSUME Init PROVE Accounts!Init
      OBVIOUS
    <2>2. \A u \in Users : Stage(u) \in {"pending", "accepted"}
      BY <2>1 DEF Init, ConsentInit, Stage
    <2>3. Promised = {}
      BY <2>1 DEF Init, ConsentInit, Promised, Told
    <2>4. QED
      BY <2>1, <2>2, <2>3 DEF Init, ConsentInit, Accounts!Init, Stage, HasAccepted, Promised, Told
  <1>2. IInv /\ [Next]_vars => [Accounts!Next]_(Accounts!accountVars)
    BY OtherStepsShowLittle, SameAccountsSimulated, CommitSimulated, ReturnSimulated, DeletionSimulated
  <1>3. QED
    BY <1>1, <1>2, Invariance, PTL DEF Spec, ImplementsRegistration, Accounts!Spec
=============================================================================
