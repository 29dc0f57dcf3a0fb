----------------------- MODULE OnboardingDrafts_proofs -----------------------
(***************************************************************************)
(* Proofs about OnboardingDrafts for every set of drafts, users, sessions  *)
(* and requests.                                                           *)
(***************************************************************************)
EXTENDS OnboardingDrafts, TLAPS

\* What a completion in its transaction knows: it has its draft locked, the draft is still
\* the ACTIVE draft it selected, and so has no project.
HoldersAreLocked ==
  \A r \in Requests : pc[r] \in {"completing", "creating"} =>
    /\ call[r].draft \in Drafts
    /\ lock[call[r].draft] = r
    /\ status[call[r].draft] = "ACTIVE"

\* A request that is going to save has a draft in hand.
DraftsInHand ==
  \A r \in Requests : pc[r] \in {"reading", "checking", "expiring", "saving"} =>
    call[r].draft \in Existing

\* Who is going to save EXPIRED knows that the time has passed.
StaleIsPast ==
  \A r \in Requests :
    /\ pc[r] = "expiring" => past[call[r].draft]
    /\ pc[r] = "marking" => \A d \in call[r].found : past[d]

\* Ids that were selected are those of drafts, and an actor is what its operation needs.
KnowsWhatItNeeds ==
  \A r \in Requests :
    /\ call[r].found \subseteq Existing
    /\ pc[r] \in {"superseding", "inserting"} => call[r].actor \in Sessions
    /\ call[r].op = "associate" => call[r].actor \in Users

\* Who has not ended has made no project and answered nothing.
AnswersAtEnd ==
  \A r \in Requests : pc[r] # "done" =>
    /\ answer[r] = NoAnswer
    /\ \A d \in Drafts : project[d] # r

\* Projects and the answers that name them.
ProjectsAreAnswered ==
  /\ \A d \in Drafts : project[d] # NoOne => answer[project[d]].told = "created"
  /\ \A r \in Requests : answer[r].told = "created" => answer[r].project = r
  /\ \A r \in Requests : answer[r].project # NoOne => \E d \in Drafts : project[d] = answer[r].project

\* TypeOK in parts: the rows, what their columns say together, and the requests.
RowTypes ==
  /\ status \in [Drafts -> Statuses]
  /\ session \in [Drafts -> Sessions]
  /\ owner \in [Drafts -> Users \cup {NoOne}]
  /\ selected \in [Drafts -> BOOLEAN]
  /\ project \in [Drafts -> Requests \cup {NoOne}]
  /\ past \in [Drafts -> BOOLEAN]
  /\ lock \in [Drafts -> Requests \cup {NoOne}]

RowsConsistent ==
  \A d \in Drafts :
    /\ status[d] \in {"none", "ACTIVE"} => project[d] = NoOne
    /\ status[d] = "CONSUMED" => project[d] # NoOne
    /\ status[d] = "EXPIRED" => past[d]

RequestTypes ==
  /\ pc \in [Requests -> Places]
  /\ call \in [Requests -> Calls]
  /\ answer \in [Requests -> Answers]

\* A step that creates no project and sends nobody to one.
Quiet ==
  /\ project' = project
  /\ \A q \in Requests :
       \/ answer'[q] = answer[q] /\ (pc[q] = "done" => pc'[q] = "done")
       \/ /\ pc[q] # "done" /\ pc'[q] = "done"
          /\ answer'[q] = [told |-> "refused", project |-> NoOne]

\* The part of the invariant that is about rows, and the one that is about answers.
RowInv ==
  /\ RowTypes
  /\ RowsConsistent
  /\ RequestTypes
  /\ HoldersAreLocked
  /\ DraftsInHand
  /\ StaleIsPast
  /\ KnowsWhatItNeeds

AnswerInv ==
  /\ AnswersAtEnd
  /\ ProjectsAreAnswered
  /\ AnswersNameProjects
-----------------------------------------------------------------------------
\* RowTypes, RowsConsistent and RequestTypes are TypeOK.
LEMMA TypeHalves == TypeOK <=> RowTypes /\ RowsConsistent /\ RequestTypes
  BY DEF TypeOK, RowTypes, RowsConsistent, RequestTypes

\* What a request starts and ends with has its type.
LEMMA NoCallType == NoCall \in Calls
  BY DEF NoCall, Calls

LEMMA InitRows == Init => RowInv
<1> SUFFICES ASSUME Init PROVE RowInv
  OBVIOUS
<1>1. RowTypes /\ RowsConsistent
  BY DEF Init, RowTypes, RowsConsistent, Statuses
<1>2. RequestTypes
  BY NoCallType DEF Init, RequestTypes, Places, Answers, NoAnswer
<1>3. HoldersAreLocked /\ DraftsInHand /\ StaleIsPast /\ KnowsWhatItNeeds
  BY DEF Init, HoldersAreLocked, DraftsInHand, StaleIsPast, KnowsWhatItNeeds, NoCall
<1>4. QED
  BY <1>1, <1>2, <1>3 DEF RowInv

LEMMA BeginTypes ==
  ASSUME RequestTypes,
         NEW r \in Requests,
         NEW o \in {"none", "lookup", "select", "associate", "expire", "search", "complete"},
         NEW a \in Users \cup Sessions \cup {NoOne},
         NEW d \in Drafts \cup {NoOne},
         NEW ids \in SUBSET Drafts,
         NEW l \in Places,
         Begin(r, o, a, d, ids, l)
  PROVE  RequestTypes'
<1> DEFINE k == [op |-> o, actor |-> a, draft |-> d, found |-> ids, seen |-> NoOne]
<1>1. k \in Calls
  BY DEF Calls
<1>2. call' = [call EXCEPT ![r] = k] /\ pc' = [pc EXCEPT ![r] = l] /\ answer' = answer
  BY DEF Begin, Goto
<1>3. QED
  BY <1>1, <1>2 DEF RequestTypes

LEMMA AnswerTypes ==
  ASSUME RequestTypes,
         NEW r \in Requests,
         NEW told \in {"none", "created", "recovered", "refused"},
         NEW p \in Requests \cup {NoOne},
         Answer(r, told, p)
  PROVE  RequestTypes'
  BY NoCallType DEF RequestTypes, Answer, Finish, Goto, Answers, Places

-----------------------------------------------------------------------------
\* Every step keeps RowInv; one lemma for each conjunct.  That of the row types needs what the
\* requests know of the rows they are going to write.
LEMMA StepRowTypes ==
  ASSUME RowInv, [Next]_vars
  PROVE  (RowTypes /\ RowsConsistent)'
<1> USE IdentityAssumption DEF RowInv, RowTypes, RowsConsistent, HoldersAreLocked, DraftsInHand,
                               StaleIsPast, KnowsWhatItNeeds, Existing, Statuses, Goto, rowVars, requestVars
<1>1. ASSUME NEW d \in Drafts, PassDeadline(d)
      PROVE  (RowTypes /\ RowsConsistent)'
  BY <1>1 DEF PassDeadline
<1>2. ASSUME NEW r \in Requests, BeginWithToken(r) \/ BeginExpiry(r) \/ BeginSearch(r) \/ BeginCompletion(r)
      PROVE  (RowTypes /\ RowsConsistent)'
  BY <1>2 DEF BeginWithToken, BeginExpiry, BeginSearch, BeginCompletion, Begin, OwnedWith
<1>3. ASSUME NEW r \in Requests, Read(r)
      PROVE  (RowTypes /\ RowsConsistent)'
  BY <1>3 DEF Read, Finish
<1>4. ASSUME NEW r \in Requests, FindStale(r) \/ FindFresh(r)
      PROVE  (RowTypes /\ RowsConsistent)'
  BY <1>4 DEF FindStale, FindFresh, Finish
<1>5. ASSUME NEW r \in Requests, SaveExpired(r) \/ SaveOwner(r) \/ SaveSelection(r) \/ SaveRecommendations(r)
      PROVE  (RowTypes /\ RowsConsistent)'
  BY <1>5 DEF SaveExpired, SaveOwner, SaveSelection, SaveRecommendations, CanSave, Finish
<1>6. ASSUME NEW r \in Requests, MarkExpired(r) \/ Supersede(r)
      PROVE  (RowTypes /\ RowsConsistent)'
  BY <1>6 DEF MarkExpired, Supersede, UpdateFound, Finish
<1>7. ASSUME NEW r \in Requests, InsertDraft(r)
      PROVE  (RowTypes /\ RowsConsistent)'
  BY <1>7 DEF InsertDraft
<1>8. ASSUME NEW r \in Requests, LockDraft(r)
      PROVE  (RowTypes /\ RowsConsistent)'
  BY <1>8 DEF LockDraft, OwnedWith
<1>9. ASSUME NEW r \in Requests, PassOver(r)
      PROVE  (RowTypes /\ RowsConsistent)'
  BY <1>9 DEF PassOver, OwnedWith
<1>10. ASSUME NEW r \in Requests, FindNoActive(r) \/ StartProject(r)
       PROVE  (RowTypes /\ RowsConsistent)'
  BY <1>10 DEF FindNoActive, StartProject
<1>11. ASSUME NEW r \in Requests, ExpireHeld(r)
       PROVE  (RowTypes /\ RowsConsistent)'
  BY <1>11 DEF ExpireHeld, Release, Answer, Finish
<1>12. ASSUME NEW r \in Requests, Reject(r)
       PROVE  (RowTypes /\ RowsConsistent)'
  BY <1>12 DEF Reject, Release, Answer, Finish
<1>13. ASSUME NEW r \in Requests, CommitProject(r)
       PROVE  (RowTypes /\ RowsConsistent)'
  BY <1>13 DEF CommitProject, Release, Answer, Finish
<1>14. ASSUME NEW r \in Requests, Recover(r) \/ FindNoConsumed(r)
       PROVE  (RowTypes /\ RowsConsistent)'
  BY <1>14 DEF Recover, FindNoConsumed, OwnedWith, Answer, Finish
<1>15. ASSUME NEW r \in Requests, Fail(r)
       PROVE  (RowTypes /\ RowsConsistent)'
  BY <1>15 DEF Fail, Stop, Release, Answer, Finish
<1>16. CASE UNCHANGED vars
  BY <1>16 DEF vars
<1>17. QED
  BY <1>1, <1>2, <1>3, <1>4, <1>5, <1>6, <1>7, <1>8, <1>9, <1>10, <1>11, <1>12, <1>13, <1>14,
     <1>15, <1>16
  DEF Next, Step

LEMMA StepRequestTypes ==
  ASSUME RowInv, [Next]_vars
  PROVE  RequestTypes'
<1> USE IdentityAssumption, NoCallType DEF RowInv, RequestTypes, Places, Existing, Goto, rowVars,
                                           requestVars
<1>1. ASSUME NEW d \in Drafts, PassDeadline(d)
      PROVE  RequestTypes'
  BY <1>1 DEF PassDeadline
<1>2. ASSUME NEW r \in Requests, BeginWithToken(r)
      PROVE  RequestTypes'
  <2>1. PICK d \in Existing :
          \/ \E o \in {"lookup", "select"} : Begin(r, o, NoOne, d, {}, "reading")
          \/ \E u \in Users : Begin(r, "associate", u, d, {}, "reading")
    BY <1>2 DEF BeginWithToken
  <2>2. QED
    BY <2>1, BeginTypes
<1>3. ASSUME NEW r \in Requests, BeginExpiry(r)
      PROVE  RequestTypes'
  BY <1>3, BeginTypes DEF BeginExpiry
<1>4. ASSUME NEW r \in Requests, BeginSearch(r)
      PROVE  RequestTypes'
  BY <1>4, BeginTypes DEF BeginSearch
<1>5. ASSUME NEW r \in Requests, BeginCompletion(r)
      PROVE  RequestTypes'
  BY <1>5, BeginTypes DEF BeginCompletion, OwnedWith
<1>6. ASSUME NEW r \in Requests, Read(r)
      PROVE  RequestTypes'
  <2>1. owner[call[r].draft] \in Users \cup {NoOne}
    BY <1>6 DEF Read, DraftsInHand, RowTypes
  <2>2. QED
    BY <1>6, <2>1 DEF Read, Finish, Calls
<1>7. ASSUME NEW r \in Requests, FindStale(r) \/ FindFresh(r)
      PROVE  RequestTypes'
  BY <1>7 DEF FindStale, FindFresh, Finish
<1>8. ASSUME NEW r \in Requests, SaveExpired(r) \/ SaveOwner(r) \/ SaveSelection(r) \/ SaveRecommendations(r)
      PROVE  RequestTypes'
  BY <1>8 DEF SaveExpired, SaveOwner, SaveSelection, SaveRecommendations, CanSave, Finish
<1>9. ASSUME NEW r \in Requests, Supersede(r)
      PROVE  RequestTypes'
  BY <1>9 DEF Supersede, UpdateFound, Calls
<1>10. ASSUME NEW r \in Requests, MarkExpired(r)
       PROVE  RequestTypes'
  BY <1>10 DEF MarkExpired, UpdateFound, Finish
<1>11. ASSUME NEW r \in Requests, InsertDraft(r)
       PROVE  RequestTypes'
  BY <1>11 DEF InsertDraft, Calls
<1>12. ASSUME NEW r \in Requests, LockDraft(r)
       PROVE  RequestTypes'
  BY <1>12 DEF LockDraft, OwnedWith, Calls
<1>13. ASSUME NEW r \in Requests, PassOver(r)
       PROVE  RequestTypes'
  BY <1>13 DEF PassOver, OwnedWith, Calls
<1>14. ASSUME NEW r \in Requests, FindNoActive(r) \/ StartProject(r)
       PROVE  RequestTypes'
  BY <1>14 DEF FindNoActive, StartProject
<1>15. ASSUME NEW r \in Requests, ExpireHeld(r)
       PROVE  RequestTypes'
  BY <1>15, AnswerTypes DEF ExpireHeld
<1>16. ASSUME NEW r \in Requests, Reject(r)
       PROVE  RequestTypes'
  BY <1>16, AnswerTypes DEF Reject
<1>17. ASSUME NEW r \in Requests, CommitProject(r)
       PROVE  RequestTypes'
  BY <1>17, AnswerTypes DEF CommitProject
<1>18. ASSUME NEW r \in Requests, Recover(r)
       PROVE  RequestTypes'
  <2>1. PICK d \in OwnedWith(call[r].actor, "CONSUMED") : Answer(r, "recovered", project[d])
    BY <1>18 DEF Recover
  <2>2. project[d] \in Requests \cup {NoOne}
    BY DEF OwnedWith, RowTypes
  <2>3. QED
    BY <2>1, <2>2, AnswerTypes
<1>19. ASSUME NEW r \in Requests, FindNoConsumed(r)
       PROVE  RequestTypes'
  BY <1>19, AnswerTypes DEF FindNoConsumed
<1>20. ASSUME NEW r \in Requests, Fail(r)
       PROVE  RequestTypes'
  <2>1. CASE call[r].op = "complete"
    BY <1>20, <2>1, AnswerTypes DEF Fail, Stop
  <2>2. CASE call[r].op # "complete"
    BY <1>20, <2>2 DEF Fail, Stop, Finish
  <2>3. QED
    BY <2>1, <2>2
<1>21. CASE UNCHANGED vars
  BY <1>21 DEF vars
<1>22. QED
  BY <1>1, <1>2, <1>3, <1>4, <1>5, <1>6, <1>7, <1>8, <1>9, <1>10, <1>11, <1>12, <1>13, <1>14,
     <1>15, <1>16, <1>17, <1>18, <1>19, <1>20, <1>21
  DEF Next, Step

LEMMA StepHolders ==
  ASSUME RowInv, [Next]_vars
  PROVE  HoldersAreLocked'
<1> USE IdentityAssumption DEF RowInv, RowTypes, RequestTypes, HoldersAreLocked, Calls, NoCall, Goto,
                               rowVars, requestVars
<1>1. ASSUME NEW d \in Drafts, PassDeadline(d)
      PROVE  HoldersAreLocked'
  BY <1>1 DEF PassDeadline
<1>2. ASSUME NEW r \in Requests, BeginWithToken(r) \/ BeginExpiry(r) \/ BeginSearch(r) \/ BeginCompletion(r)
      PROVE  HoldersAreLocked'
  BY <1>2 DEF BeginWithToken, BeginExpiry, BeginSearch, BeginCompletion, Begin, OwnedWith
<1>3. ASSUME NEW r \in Requests, Read(r)
      PROVE  HoldersAreLocked'
  BY <1>3 DEF Read, Finish
<1>4. ASSUME NEW r \in Requests, FindStale(r) \/ FindFresh(r)
      PROVE  HoldersAreLocked'
  BY <1>4 DEF FindStale, FindFresh, Finish
<1>5. ASSUME NEW r \in Requests, SaveExpired(r) \/ SaveOwner(r) \/ SaveSelection(r) \/ SaveRecommendations(r)
      PROVE  HoldersAreLocked'
  BY <1>5 DEF SaveExpired, SaveOwner, SaveSelection, SaveRecommendations, CanSave, Finish
<1>6. ASSUME NEW r \in Requests, MarkExpired(r) \/ Supersede(r)
      PROVE  HoldersAreLocked'
  BY <1>6 DEF MarkExpired, Supersede, UpdateFound, Finish
<1>7. ASSUME NEW r \in Requests, InsertDraft(r)
      PROVE  HoldersAreLocked'
  BY <1>7 DEF InsertDraft
<1>8. ASSUME NEW r \in Requests, LockDraft(r)
      PROVE  HoldersAreLocked'
  BY <1>8 DEF LockDraft, OwnedWith
<1>9. ASSUME NEW r \in Requests, PassOver(r)
      PROVE  HoldersAreLocked'
  BY <1>9 DEF PassOver, OwnedWith
<1>10. ASSUME NEW r \in Requests, FindNoActive(r) \/ StartProject(r)
       PROVE  HoldersAreLocked'
  BY <1>10 DEF FindNoActive, StartProject
<1>11. ASSUME NEW r \in Requests, ExpireHeld(r)
       PROVE  HoldersAreLocked'
  <2>1. \A s \in Requests \ {r} : pc[s] \in {"completing", "creating"} => call[s].draft # call[r].draft
    BY <1>11 DEF ExpireHeld
  <2>2. pc'[r] = "done" /\ \A s \in Requests \ {r} : pc'[s] = pc[s] /\ call'[s] = call[s]
    BY <1>11 DEF ExpireHeld, Answer, Finish
  <2>3. \A d \in Drafts : /\ lock[d] # r => lock'[d] = lock[d]
                          /\ d # call[r].draft => status'[d] = status[d]
    BY <1>11 DEF ExpireHeld, Release
  <2>4. QED
    BY <2>1, <2>2, <2>3
<1>12. ASSUME NEW r \in Requests, Reject(r)
       PROVE  HoldersAreLocked'
  BY <1>12 DEF Reject, Release, Answer, Finish
<1>13. ASSUME NEW r \in Requests, CommitProject(r)
       PROVE  HoldersAreLocked'
  BY <1>13 DEF CommitProject, Release, Answer, Finish
<1>14. ASSUME NEW r \in Requests, Recover(r)
       PROVE  HoldersAreLocked'
  <2>1. Finish(r) /\ UNCHANGED <<rowVars, past, lock>>
    BY <1>14 DEF Recover, Answer
  <2>2. QED
    BY <2>1 DEF Finish
<1>15. ASSUME NEW r \in Requests, FindNoConsumed(r)
       PROVE  HoldersAreLocked'
  BY <1>15 DEF FindNoConsumed, OwnedWith, Answer, Finish
<1>16. ASSUME NEW r \in Requests, Fail(r)
       PROVE  HoldersAreLocked'
  <2>1. Finish(r) /\ Release(r) /\ UNCHANGED <<rowVars, past>>
    BY <1>16 DEF Fail, Stop, Answer
  <2>2. QED
    BY <2>1 DEF Finish, Release
<1>17. CASE UNCHANGED vars
  BY <1>17 DEF vars
<1>18. QED
  BY <1>1, <1>2, <1>3, <1>4, <1>5, <1>6, <1>7, <1>8, <1>9, <1>10, <1>11, <1>12, <1>13, <1>14,
     <1>15, <1>16, <1>17
  DEF Next, Step

LEMMA StepInHand ==
  ASSUME RowInv, [Next]_vars
  PROVE  DraftsInHand'
<1> USE IdentityAssumption DEF RowInv, RowTypes, RequestTypes, DraftsInHand, HoldersAreLocked,
                               Existing, Calls, NoCall, Goto, rowVars, requestVars
<1>1. ASSUME NEW d \in Drafts, PassDeadline(d)
      PROVE  DraftsInHand'
  BY <1>1 DEF PassDeadline
<1>2. ASSUME NEW r \in Requests, BeginWithToken(r) \/ BeginExpiry(r) \/ BeginSearch(r) \/ BeginCompletion(r)
      PROVE  DraftsInHand'
  BY <1>2 DEF BeginWithToken, BeginExpiry, BeginSearch, BeginCompletion, Begin, OwnedWith
<1>3. ASSUME NEW r \in Requests, Read(r)
      PROVE  DraftsInHand'
  BY <1>3 DEF Read, Finish
<1>4. ASSUME NEW r \in Requests, FindStale(r) \/ FindFresh(r)
      PROVE  DraftsInHand'
  BY <1>4 DEF FindStale, FindFresh, Finish
<1>5. ASSUME NEW r \in Requests, SaveExpired(r) \/ SaveOwner(r) \/ SaveSelection(r) \/ SaveRecommendations(r)
      PROVE  DraftsInHand'
  BY <1>5 DEF SaveExpired, SaveOwner, SaveSelection, SaveRecommendations, CanSave, Finish
<1>6. ASSUME NEW r \in Requests, MarkExpired(r) \/ Supersede(r)
      PROVE  DraftsInHand'
  BY <1>6 DEF MarkExpired, Supersede, UpdateFound, Finish
<1>7. ASSUME NEW r \in Requests, InsertDraft(r)
      PROVE  DraftsInHand'
  BY <1>7 DEF InsertDraft
<1>8. ASSUME NEW r \in Requests, LockDraft(r)
      PROVE  DraftsInHand'
  BY <1>8 DEF LockDraft, OwnedWith
<1>9. ASSUME NEW r \in Requests, PassOver(r)
      PROVE  DraftsInHand'
  BY <1>9 DEF PassOver, OwnedWith
<1>10. ASSUME NEW r \in Requests, FindNoActive(r) \/ StartProject(r)
       PROVE  DraftsInHand'
  BY <1>10 DEF FindNoActive, StartProject
<1>11. ASSUME NEW r \in Requests, ExpireHeld(r)
       PROVE  DraftsInHand'
  BY <1>11 DEF ExpireHeld, Release, Answer, Finish
<1>12. ASSUME NEW r \in Requests, Reject(r)
       PROVE  DraftsInHand'
  BY <1>12 DEF Reject, Release, Answer, Finish
<1>13. ASSUME NEW r \in Requests, CommitProject(r)
       PROVE  DraftsInHand'
  BY <1>13 DEF CommitProject, Release, Answer, Finish
<1>14. ASSUME NEW r \in Requests, Recover(r)
       PROVE  DraftsInHand'
  <2>1. Finish(r) /\ UNCHANGED <<rowVars, past, lock>>
    BY <1>14 DEF Recover, Answer
  <2>2. QED
    BY <2>1 DEF Finish
<1>15. ASSUME NEW r \in Requests, FindNoConsumed(r)
       PROVE  DraftsInHand'
  BY <1>15 DEF FindNoConsumed, OwnedWith, Answer, Finish
<1>16. ASSUME NEW r \in Requests, Fail(r)
       PROVE  DraftsInHand'
  <2>1. Finish(r) /\ Release(r) /\ UNCHANGED <<rowVars, past>>
    BY <1>16 DEF Fail, Stop, Answer
  <2>2. QED
    BY <2>1 DEF Finish, Release
<1>17. CASE UNCHANGED vars
  BY <1>17 DEF vars
<1>18. QED
  BY <1>1, <1>2, <1>3, <1>4, <1>5, <1>6, <1>7, <1>8, <1>9, <1>10, <1>11, <1>12, <1>13, <1>14,
     <1>15, <1>16, <1>17
  DEF Next, Step

LEMMA StepStale ==
  ASSUME RowInv, [Next]_vars
  PROVE  StaleIsPast'
<1> USE IdentityAssumption DEF RowInv, RowTypes, RequestTypes, StaleIsPast, Calls, NoCall, Goto,
                               rowVars, requestVars
<1>1. ASSUME NEW d \in Drafts, PassDeadline(d)
      PROVE  StaleIsPast'
  BY <1>1 DEF PassDeadline
<1>2. ASSUME NEW r \in Requests, BeginWithToken(r) \/ BeginExpiry(r) \/ BeginSearch(r) \/ BeginCompletion(r)
      PROVE  StaleIsPast'
  BY <1>2 DEF BeginWithToken, BeginExpiry, BeginSearch, BeginCompletion, Begin, OwnedWith
<1>3. ASSUME NEW r \in Requests, Read(r)
      PROVE  StaleIsPast'
  BY <1>3 DEF Read, Finish
<1>4. ASSUME NEW r \in Requests, FindStale(r) \/ FindFresh(r)
      PROVE  StaleIsPast'
  BY <1>4 DEF FindStale, FindFresh, Finish
<1>5. ASSUME NEW r \in Requests, SaveExpired(r) \/ SaveOwner(r) \/ SaveSelection(r) \/ SaveRecommendations(r)
      PROVE  StaleIsPast'
  BY <1>5 DEF SaveExpired, SaveOwner, SaveSelection, SaveRecommendations, CanSave, Finish
<1>6. ASSUME NEW r \in Requests, MarkExpired(r) \/ Supersede(r)
      PROVE  StaleIsPast'
  BY <1>6 DEF MarkExpired, Supersede, UpdateFound, Finish
<1>7. ASSUME NEW r \in Requests, InsertDraft(r)
      PROVE  StaleIsPast'
  BY <1>7 DEF InsertDraft
<1>8. ASSUME NEW r \in Requests, LockDraft(r)
      PROVE  StaleIsPast'
  BY <1>8 DEF LockDraft, OwnedWith
<1>9. ASSUME NEW r \in Requests, PassOver(r)
      PROVE  StaleIsPast'
  BY <1>9 DEF PassOver, OwnedWith
<1>10. ASSUME NEW r \in Requests, FindNoActive(r) \/ StartProject(r)
       PROVE  StaleIsPast'
  BY <1>10 DEF FindNoActive, StartProject
<1>11. ASSUME NEW r \in Requests, ExpireHeld(r)
       PROVE  StaleIsPast'
  BY <1>11 DEF ExpireHeld, Release, Answer, Finish
<1>12. ASSUME NEW r \in Requests, Reject(r)
       PROVE  StaleIsPast'
  BY <1>12 DEF Reject, Release, Answer, Finish
<1>13. ASSUME NEW r \in Requests, CommitProject(r)
       PROVE  StaleIsPast'
  BY <1>13 DEF CommitProject, Release, Answer, Finish
<1>14. ASSUME NEW r \in Requests, Recover(r)
       PROVE  StaleIsPast'
  <2>1. Finish(r) /\ UNCHANGED <<rowVars, past, lock>>
    BY <1>14 DEF Recover, Answer
  <2>2. QED
    BY <2>1 DEF Finish
<1>15. ASSUME NEW r \in Requests, FindNoConsumed(r)
       PROVE  StaleIsPast'
  BY <1>15 DEF FindNoConsumed, OwnedWith, Answer, Finish
<1>16. ASSUME NEW r \in Requests, Fail(r)
       PROVE  StaleIsPast'
  <2>1. Finish(r) /\ Release(r) /\ UNCHANGED <<rowVars, past>>
    BY <1>16 DEF Fail, Stop, Answer
  <2>2. QED
    BY <2>1 DEF Finish, Release
<1>17. CASE UNCHANGED vars
  BY <1>17 DEF vars
<1>18. QED
  BY <1>1, <1>2, <1>3, <1>4, <1>5, <1>6, <1>7, <1>8, <1>9, <1>10, <1>11, <1>12, <1>13, <1>14,
     <1>15, <1>16, <1>17
  DEF Next, Step

LEMMA StepKnows ==
  ASSUME RowInv, [Next]_vars
  PROVE  KnowsWhatItNeeds'
<1> USE IdentityAssumption DEF RowInv, RowTypes, RequestTypes, KnowsWhatItNeeds, HoldersAreLocked,
                               Existing, Calls, NoCall, Goto, rowVars, requestVars
<1>1. ASSUME NEW d \in Drafts, PassDeadline(d)
      PROVE  KnowsWhatItNeeds'
  BY <1>1 DEF PassDeadline
<1>2. ASSUME NEW r \in Requests, BeginWithToken(r) \/ BeginExpiry(r) \/ BeginSearch(r) \/ BeginCompletion(r)
      PROVE  KnowsWhatItNeeds'
  BY <1>2 DEF BeginWithToken, BeginExpiry, BeginSearch, BeginCompletion, Begin, OwnedWith
<1>3. ASSUME NEW r \in Requests, Read(r)
      PROVE  KnowsWhatItNeeds'
  <2>1. CASE status[call[r].draft] = "ACTIVE"
    BY <1>3, <2>1 DEF Read, Finish
  <2>2. CASE ~(status[call[r].draft] = "ACTIVE")
    BY <1>3, <2>2 DEF Read, Finish
  <2>3. QED
    BY <2>1, <2>2
<1>4. ASSUME NEW r \in Requests, FindFresh(r)
      PROVE  KnowsWhatItNeeds'
  <2>1. CASE call[r].op = "lookup" \/ OwnerConflict(r)
    BY <1>4, <2>1 DEF FindFresh, Finish
  <2>2. CASE ~(call[r].op = "lookup" \/ OwnerConflict(r))
    BY <1>4, <2>2 DEF FindFresh, Finish
  <2>3. QED
    BY <2>1, <2>2
<1>5. ASSUME NEW r \in Requests, FindStale(r)
      PROVE  KnowsWhatItNeeds'
  BY <1>5 DEF FindStale
<1>6. ASSUME NEW r \in Requests, SaveExpired(r) \/ SaveOwner(r) \/ SaveSelection(r) \/ SaveRecommendations(r)
      PROVE  KnowsWhatItNeeds'
  BY <1>6 DEF SaveExpired, SaveOwner, SaveSelection, SaveRecommendations, CanSave, Finish
<1>7. ASSUME NEW r \in Requests, MarkExpired(r) \/ Supersede(r)
      PROVE  KnowsWhatItNeeds'
  BY <1>7 DEF MarkExpired, Supersede, UpdateFound, Finish
<1>8. ASSUME NEW r \in Requests, InsertDraft(r)
      PROVE  KnowsWhatItNeeds'
  BY <1>8 DEF InsertDraft
<1>9. ASSUME NEW r \in Requests, LockDraft(r)
      PROVE  KnowsWhatItNeeds'
  BY <1>9 DEF LockDraft, OwnedWith
<1>10. ASSUME NEW r \in Requests, PassOver(r)
       PROVE  KnowsWhatItNeeds'
  BY <1>10 DEF PassOver, OwnedWith
<1>11. ASSUME NEW r \in Requests, FindNoActive(r) \/ StartProject(r)
       PROVE  KnowsWhatItNeeds'
  BY <1>11 DEF FindNoActive, StartProject
<1>12. ASSUME NEW r \in Requests, ExpireHeld(r)
       PROVE  KnowsWhatItNeeds'
  BY <1>12 DEF ExpireHeld, Release, Answer, Finish
<1>13. ASSUME NEW r \in Requests, Reject(r)
       PROVE  KnowsWhatItNeeds'
  BY <1>13 DEF Reject, Release, Answer, Finish
<1>14. ASSUME NEW r \in Requests, CommitProject(r)
       PROVE  KnowsWhatItNeeds'
  BY <1>14 DEF CommitProject, Release, Answer, Finish
<1>15. ASSUME NEW r \in Requests, Recover(r)
       PROVE  KnowsWhatItNeeds'
  <2>1. Finish(r) /\ UNCHANGED <<rowVars, past, lock>>
    BY <1>15 DEF Recover, Answer
  <2>2. QED
    BY <2>1 DEF Finish
<1>16. ASSUME NEW r \in Requests, FindNoConsumed(r)
       PROVE  KnowsWhatItNeeds'
  BY <1>16 DEF FindNoConsumed, OwnedWith, Answer, Finish
<1>17. ASSUME NEW r \in Requests, Fail(r)
       PROVE  KnowsWhatItNeeds'
  <2>1. Finish(r) /\ Release(r) /\ UNCHANGED <<rowVars, past>>
    BY <1>17 DEF Fail, Stop, Answer
  <2>2. QED
    BY <2>1 DEF Finish, Release
<1>18. CASE UNCHANGED vars
  BY <1>18 DEF vars
<1>19. QED
  BY <1>1, <1>2, <1>3, <1>4, <1>5, <1>6, <1>7, <1>8, <1>9, <1>10, <1>11, <1>12, <1>13, <1>14,
     <1>15, <1>16, <1>17, <1>18
  DEF Next, Step

\* Only CommitProject and Recover touch projects or send somebody to one.
LEMMA OtherStepsAreQuiet ==
  ASSUME RowInv, [Next]_vars
  PROVE  Quiet \/ \E s \in Requests : CommitProject(s) \/ Recover(s)
<1> USE IdentityAssumption DEF RowInv, RowTypes, RequestTypes, Quiet, Goto, rowVars, requestVars
<1>1. ASSUME NEW d \in Drafts, PassDeadline(d)
      PROVE  Quiet \/ \E s \in Requests : CommitProject(s) \/ Recover(s)
  BY <1>1 DEF PassDeadline
<1>2. ASSUME NEW r \in Requests, BeginWithToken(r) \/ BeginExpiry(r) \/ BeginSearch(r) \/ BeginCompletion(r)
      PROVE  Quiet \/ \E s \in Requests : CommitProject(s) \/ Recover(s)
  BY <1>2 DEF BeginWithToken, BeginExpiry, BeginSearch, BeginCompletion, Begin, OwnedWith
<1>3. ASSUME NEW r \in Requests, Read(r)
      PROVE  Quiet \/ \E s \in Requests : CommitProject(s) \/ Recover(s)
  BY <1>3 DEF Read, Finish
<1>4. ASSUME NEW r \in Requests, FindStale(r) \/ FindFresh(r)
      PROVE  Quiet \/ \E s \in Requests : CommitProject(s) \/ Recover(s)
  BY <1>4 DEF FindStale, FindFresh, Finish
<1>5. ASSUME NEW r \in Requests, SaveExpired(r) \/ SaveOwner(r) \/ SaveSelection(r) \/ SaveRecommendations(r)
      PROVE  Quiet \/ \E s \in Requests : CommitProject(s) \/ Recover(s)
  BY <1>5 DEF SaveExpired, SaveOwner, SaveSelection, SaveRecommendations, CanSave, Finish
<1>6. ASSUME NEW r \in Requests, MarkExpired(r) \/ Supersede(r)
      PROVE  Quiet \/ \E s \in Requests : CommitProject(s) \/ Recover(s)
  BY <1>6 DEF MarkExpired, Supersede, UpdateFound, Finish
<1>7. ASSUME NEW r \in Requests, InsertDraft(r)
      PROVE  Quiet \/ \E s \in Requests : CommitProject(s) \/ Recover(s)
  BY <1>7 DEF InsertDraft
<1>8. ASSUME NEW r \in Requests, LockDraft(r)
      PROVE  Quiet \/ \E s \in Requests : CommitProject(s) \/ Recover(s)
  BY <1>8 DEF LockDraft, OwnedWith
<1>9. ASSUME NEW r \in Requests, PassOver(r)
      PROVE  Quiet \/ \E s \in Requests : CommitProject(s) \/ Recover(s)
  BY <1>9 DEF PassOver, OwnedWith
<1>10. ASSUME NEW r \in Requests, FindNoActive(r) \/ StartProject(r)
       PROVE  Quiet \/ \E s \in Requests : CommitProject(s) \/ Recover(s)
  BY <1>10 DEF FindNoActive, StartProject
<1>11. ASSUME NEW r \in Requests, ExpireHeld(r)
       PROVE  Quiet \/ \E s \in Requests : CommitProject(s) \/ Recover(s)
  BY <1>11 DEF ExpireHeld, Release, Answer, Finish
<1>12. ASSUME NEW r \in Requests, Reject(r)
       PROVE  Quiet \/ \E s \in Requests : CommitProject(s) \/ Recover(s)
  BY <1>12 DEF Reject, Release, Answer, Finish
<1>13. ASSUME NEW r \in Requests, CommitProject(r)
       PROVE  Quiet \/ \E s \in Requests : CommitProject(s) \/ Recover(s)
  BY <1>13 DEF CommitProject, Release, Answer, Finish
<1>14. ASSUME NEW r \in Requests, Recover(r) \/ FindNoConsumed(r)
       PROVE  Quiet \/ \E s \in Requests : CommitProject(s) \/ Recover(s)
  BY <1>14 DEF Recover, FindNoConsumed, OwnedWith, Answer, Finish
<1>15. ASSUME NEW r \in Requests, Fail(r)
       PROVE  Quiet \/ \E s \in Requests : CommitProject(s) \/ Recover(s)
  BY <1>15 DEF Fail, Stop, Release, Answer, Finish
<1>16. CASE UNCHANGED vars
  BY <1>16 DEF vars
<1>17. QED
  BY <1>1, <1>2, <1>3, <1>4, <1>5, <1>6, <1>7, <1>8, <1>9, <1>10, <1>11, <1>12, <1>13, <1>14,
     <1>15, <1>16
  DEF Next, Step

LEMMA RowsStay ==
  ASSUME RowInv, [Next]_vars
  PROVE  RowInv'
  BY StepRowTypes, StepRequestTypes, StepHolders, StepInHand, StepStale, StepKnows DEF RowInv

\* Type correctness, with what it says of the rows: in every reachable state an ACTIVE draft has
\* no project, a CONSUMED one has one, and an EXPIRED one is past its time.
THEOREM TypeCorrect == Spec => []TypeOK
<1>1. Init => RowInv
  BY InitRows
<1>2. RowInv /\ [Next]_vars => RowInv'
  BY RowsStay
<1>3. RowInv => TypeOK
  BY TypeHalves DEF RowInv
<1>4. QED
  BY <1>1, <1>2, <1>3, PTL DEF Spec
-----------------------------------------------------------------------------
\* AnswersNameProjects needs ProjectsAreAnswered (a recovered project has been answered) and
\* AnswersAtEnd (a project that is made is new).
LEMMA InitAnswers == Init => AnswerInv
<1> SUFFICES ASSUME Init PROVE AnswerInv
  OBVIOUS
<1>1. /\ \A d \in Drafts : project[d] = NoOne
      /\ \A r \in Requests : answer[r] = NoAnswer
  BY DEF Init
<1>2. AnswersAtEnd
  BY <1>1, IdentityAssumption DEF AnswersAtEnd, NoAnswer, Init
<1>3. \A r \in Requests : /\ answer[r].told # "created"
                          /\ answer[r].told # "recovered"
                          /\ answer[r].project = NoOne
  BY <1>1 DEF NoAnswer
<1>4. ProjectsAreAnswered
  BY <1>1, <1>3 DEF ProjectsAreAnswered
<1>5. AnswersNameProjects
  BY <1>1, <1>3 DEF AnswersNameProjects
<1>6. QED
  BY <1>2, <1>4, <1>5 DEF AnswerInv

\* A quiet step only gives answers that name no project.
LEMMA QuietKeepsAnswers ==
  ASSUME RowInv, AnswerInv, RequestTypes', Quiet
  PROVE  AnswerInv'
<1>1. AnswersAtEnd /\ ProjectsAreAnswered /\ AnswersNameProjects
  BY DEF AnswerInv
<1>2. AnswersAtEnd'
  BY <1>1, IdentityAssumption DEF AnswersAtEnd, Quiet, RequestTypes, NoAnswer
<1>3. project' = project /\ \A d \in Drafts : project[d] \in Requests \cup {NoOne}
  BY DEF Quiet, RowInv, RowTypes
<1>4. \A q \in Requests :
        answer[q].told = "created" \/ answer'[q].told = "created" \/ answer'[q].told = "recovered"
          \/ answer'[q].project # NoOne
        => answer'[q] = answer[q]
  BY <1>1, IdentityAssumption DEF AnswersAtEnd, Quiet, NoAnswer
<1>5. ProjectsAreAnswered'
  BY <1>1, <1>3, <1>4 DEF ProjectsAreAnswered
<1>6. AnswersNameProjects'
  BY <1>1, <1>3, <1>4 DEF AnswersNameProjects
<1>7. QED
  BY <1>2, <1>5, <1>6 DEF AnswerInv

\* A new project is that of a request that had none, and goes to a draft that had none.
LEMMA CommitKeepsAnswers ==
  ASSUME RowInv, AnswerInv, NEW r \in Requests, CommitProject(r)
  PROVE  AnswerInv'
<1> USE IdentityAssumption DEF RowInv, RowTypes, RequestTypes, AnswerInv
<1> DEFINE d == call[r].draft
<1>1. d \in Drafts /\ project[d] = NoOne
  BY DEF CommitProject, HoldersAreLocked, RowsConsistent
<1>2. answer[r] = NoAnswer /\ \A e \in Drafts : project[e] # r
  BY DEF CommitProject, AnswersAtEnd
<1>3. /\ project' = [project EXCEPT ![d] = r]
      /\ answer' = [answer EXCEPT ![r] = [told |-> "created", project |-> r]]
      /\ pc' = [pc EXCEPT ![r] = "done"]
  BY DEF CommitProject, Answer, Finish, Goto
<1>4a. DOMAIN project = Drafts /\ DOMAIN answer = Requests
  OBVIOUS
<1> HIDE DEF d
<1>4. AnswersAtEnd'
  BY <1>1, <1>3 DEF AnswersAtEnd
<1>5. ProjectsAreAnswered'
  BY <1>1, <1>2, <1>3 DEF ProjectsAreAnswered, NoAnswer
<1> HIDE DEF RowInv, RowTypes, RequestTypes
<1>6. AnswersNameProjects'
  <2>1. \A q \in Requests : answer'[q].told = "created" => \E e \in Drafts : project'[e] = q
    BY <1>1, <1>2, <1>3, <1>4a DEF AnswersNameProjects
  <2>2. \A e, f \in Drafts : project'[e] # NoOne /\ project'[e] = project'[f] => e = f
    BY <1>1, <1>2, <1>3, <1>4a DEF AnswersNameProjects
  <2>3. \A q \in Requests : answer'[q].told = "recovered" =>
          \E p \in Requests : answer'[q].project = p /\ answer'[p].told = "created"
    BY <1>2, <1>3, <1>4a DEF AnswersNameProjects, NoAnswer
  <2>4. QED
    BY <2>1, <2>2, <2>3 DEF AnswersNameProjects
<1>7. QED
  BY <1>4, <1>5, <1>6

\* A retry is sent to the project of a consumed draft, which is one that was answered.
LEMMA RecoverKeepsAnswers ==
  ASSUME RowInv, AnswerInv, NEW r \in Requests, Recover(r)
  PROVE  AnswerInv'
<1> USE IdentityAssumption DEF RowInv, RowTypes, RequestTypes, AnswerInv
<1>1. PICK d \in OwnedWith(call[r].actor, "CONSUMED") : Answer(r, "recovered", project[d])
  BY DEF Recover
<1>2. d \in Drafts /\ project[d] \in Requests
  BY DEF OwnedWith, RowsConsistent
<1>3. answer[project[d]].told = "created"
  BY <1>2 DEF ProjectsAreAnswered
<1>4. answer[r] = NoAnswer /\ project[d] # r /\ \A e \in Drafts : project[e] # r
  BY <1>2 DEF Recover, AnswersAtEnd
<1>5. /\ project' = project
      /\ answer' = [answer EXCEPT ![r] = [told |-> "recovered", project |-> project[d]]]
      /\ pc' = [pc EXCEPT ![r] = "done"]
  BY <1>1 DEF Recover, Answer, Finish, Goto, rowVars
<1>6. AnswersAtEnd'
  BY <1>5 DEF AnswersAtEnd
<1>7. ProjectsAreAnswered'
  BY <1>2, <1>4, <1>5 DEF ProjectsAreAnswered, NoAnswer
<1>8. AnswersNameProjects'
  BY <1>2, <1>3, <1>4, <1>5 DEF AnswersNameProjects, NoAnswer
<1>9. QED
  BY <1>6, <1>7, <1>8

LEMMA StepsKeepAnswers ==
  ASSUME RowInv, AnswerInv, [Next]_vars
  PROVE  RowInv' /\ AnswerInv'
<1>1. RowInv'
  BY RowsStay
<1>2. CASE Quiet
  BY <1>1, <1>2, QuietKeepsAnswers DEF RowInv
<1>3. CASE \E r \in Requests : CommitProject(r) \/ Recover(r)
  <2>1. PICK r \in Requests : CommitProject(r) \/ Recover(r)
    BY <1>3
  <2>2. AnswerInv'
    BY <2>1, CommitKeepsAnswers, RecoverKeepsAnswers
  <2>3. QED
    BY <1>1, <2>2
<1>4. QED
  BY <1>1, <1>2, <1>3, OtherStepsAreQuiet

\* However requests, commands and completions interleave and fail: every project that was made
\* stays recorded in a draft of its own, no draft has two, and whoever is sent to a project is
\* sent to one that was made.
THEOREM AnswersAreKept == Spec => []AnswersNameProjects
<1>1. Init => RowInv /\ AnswerInv
  BY InitRows, InitAnswers
<1>2. RowInv /\ AnswerInv /\ [Next]_vars => (RowInv /\ AnswerInv)'
  BY StepsKeepAnswers
<1>3. RowInv /\ AnswerInv => AnswersNameProjects
  BY DEF AnswerInv
<1>4. QED
  BY <1>1, <1>2, <1>3, PTL DEF Spec
-----------------------------------------------------------------------------
\* A status is overwritten, and a draft newly held, only by those Held names: the others have
\* seen it ACTIVE.
LEMMA SettledDrafts ==
  ASSUME RowInv, [Next]_vars, NEW c \in Drafts, Settled(c)
  PROVE  Settled(c)'
<1> USE IdentityAssumption DEF RowInv, RowTypes, RequestTypes, HoldersAreLocked, Settled, Held,
                               Existing, Calls, NoCall, Goto, rowVars, requestVars
<1>1. ASSUME NEW d \in Drafts, PassDeadline(d)
      PROVE  Settled(c)'
  BY <1>1 DEF PassDeadline
<1>2. ASSUME NEW r \in Requests, BeginWithToken(r)
      PROVE  Settled(c)'
  BY <1>2 DEF BeginWithToken, Begin
<1>3. ASSUME NEW r \in Requests, BeginExpiry(r)
      PROVE  Settled(c)'
  BY <1>3 DEF BeginExpiry, Begin
<1>4. ASSUME NEW r \in Requests, BeginSearch(r)
      PROVE  Settled(c)'
  BY <1>4 DEF BeginSearch, Begin
<1>5. ASSUME NEW r \in Requests, BeginCompletion(r)
      PROVE  Settled(c)'
  BY <1>5 DEF BeginCompletion, Begin, OwnedWith
<1>6. ASSUME NEW r \in Requests, Read(r)
      PROVE  Settled(c)'
  <2>1. /\ status[call[r].draft] = "ACTIVE" => call'[r].draft = call[r].draft /\ pc'[r] = "checking"
        /\ status[call[r].draft] # "ACTIVE" => pc'[r] = "done"
        /\ UNCHANGED rowVars
    BY <1>6 DEF Read, Finish
  <2>2. \A s \in Requests \ {r} : pc'[s] = pc[s] /\ call'[s] = call[s]
    BY <1>6 DEF Read, Finish
  <2>3. QED
    BY <2>1, <2>2
<1>7. ASSUME NEW r \in Requests, FindStale(r)
      PROVE  Settled(c)'
  BY <1>7 DEF FindStale
<1>8. ASSUME NEW r \in Requests, FindFresh(r)
      PROVE  Settled(c)'
  <2>1. pc[r] = "checking" /\ (pc'[r] = "done" \/ pc'[r] = "saving") /\ UNCHANGED rowVars
    BY <1>8 DEF FindFresh, Finish
  <2>2. \A s \in Requests \ {r} : pc'[s] = pc[s] /\ call'[s] = call[s]
    BY <1>8 DEF FindFresh, Finish
  <2>3. QED
    BY <2>1, <2>2
<1>9. ASSUME NEW r \in Requests, SaveExpired(r) \/ SaveOwner(r) \/ SaveSelection(r) \/ SaveRecommendations(r)
      PROVE  Settled(c)'
  BY <1>9 DEF SaveExpired, SaveOwner, SaveSelection, SaveRecommendations, CanSave, Finish
<1>10. ASSUME NEW r \in Requests, MarkExpired(r)
       PROVE  Settled(c)'
  <2>1. status'[c] = status[c]
    BY <1>10 DEF MarkExpired, UpdateFound
  <2>2. QED
    BY <1>10, <2>1 DEF MarkExpired, Finish
<1>11. ASSUME NEW r \in Requests, Supersede(r)
       PROVE  Settled(c)'
  <2>1. status'[c] = status[c]
    BY <1>11 DEF Supersede, UpdateFound
  <2>2. QED
    BY <1>11, <2>1 DEF Supersede, Finish
<1>12. ASSUME NEW r \in Requests, InsertDraft(r)
       PROVE  Settled(c)'
  BY <1>12 DEF InsertDraft
<1>13. ASSUME NEW r \in Requests, LockDraft(r)
       PROVE  Settled(c)'
  BY <1>13 DEF LockDraft, OwnedWith
<1>14. ASSUME NEW r \in Requests, PassOver(r)
       PROVE  Settled(c)'
  BY <1>14 DEF PassOver, OwnedWith
<1>15. ASSUME NEW r \in Requests, FindNoActive(r) \/ StartProject(r)
       PROVE  Settled(c)'
  BY <1>15 DEF FindNoActive, StartProject
<1>16. ASSUME NEW r \in Requests, ExpireHeld(r)
       PROVE  Settled(c)'
  BY <1>16 DEF ExpireHeld, Release, Answer, Finish
<1>17. ASSUME NEW r \in Requests, Reject(r)
       PROVE  Settled(c)'
  BY <1>17 DEF Reject, Release, Answer, Finish
<1>18. ASSUME NEW r \in Requests, CommitProject(r)
       PROVE  Settled(c)'
  BY <1>18 DEF CommitProject, Release, Answer, Finish
<1>19. ASSUME NEW r \in Requests, Recover(r) \/ FindNoConsumed(r)
       PROVE  Settled(c)'
  BY <1>19 DEF Recover, FindNoConsumed, OwnedWith, Answer, Finish
<1>20. ASSUME NEW r \in Requests, Fail(r)
       PROVE  Settled(c)'
  BY <1>20 DEF Fail, Stop, Release, Answer, Finish
<1>21. CASE UNCHANGED vars
  BY <1>21 DEF vars
<1>22. QED
  BY <1>1, <1>2, <1>3, <1>4, <1>5, <1>6, <1>7, <1>8, <1>9, <1>10, <1>11, <1>12, <1>13, <1>14,
     <1>15, <1>16, <1>17, <1>18, <1>19, <1>20, <1>21
  DEF Next, Step

\* A draft that is consumed, and that no request has read as something else, stays consumed.
THEOREM SettledIsKept == Spec => SettledStays
<1>1. Init => RowInv
  BY InitRows
<1>2. RowInv /\ [Next]_vars => RowInv'
  BY RowsStay
<1>3. RowInv /\ [Next]_vars => [\A d \in Drafts : Settled(d) => Settled(d)']_vars
  BY SettledDrafts
<1>4. QED
  BY <1>1, <1>2, <1>3, PTL DEF Spec, SettledStays
-----------------------------------------------------------------------------
(***************************************************************************)
(* The refinement: what each step does to the drafts as a caller sees them.*)
(***************************************************************************)

\* What DraftOutcome sees of the rows and the answers.
Stage(d) ==
  IF project[d] # NoOne THEN "made"
  ELSE IF status[d] = "none" THEN "absent"
  ELSE IF status[d] = "ACTIVE" THEN "open"
  ELSE "closed"
MadeInto(d) == {project[d]} \ {NoOne}
Promised == {answer[r].project : r \in Requests} \ {NoOne}

\* A draft whose row a statement writes stays as it is, or is closed.
StaysOrCloses(d) ==
  \/ status'[d] = status[d]
  \/ d \in Existing /\ status'[d] \in {"EXPIRED", "ABANDONED"}

LEMMA OtherStepsOnlyClose ==
  ASSUME RowInv, [Next]_vars
  PROVE  \/ \E r \in Requests : CommitProject(r) \/ InsertDraft(r)
         \/ \A d \in Drafts : StaysOrCloses(d)
<1> USE DEF RowInv, RowTypes, HoldersAreLocked, DraftsInHand, KnowsWhatItNeeds, StaysOrCloses, Existing, rowVars
<1>1. ASSUME NEW d \in Drafts, PassDeadline(d)
      PROVE  \A e \in Drafts : StaysOrCloses(e)
  BY <1>1 DEF PassDeadline
<1>2. ASSUME NEW r \in Requests, BeginWithToken(r) \/ BeginExpiry(r) \/ BeginSearch(r) \/ BeginCompletion(r)
      PROVE  \A e \in Drafts : StaysOrCloses(e)
  BY <1>2 DEF BeginWithToken, BeginExpiry, BeginSearch, BeginCompletion, Begin
<1>3. ASSUME NEW r \in Requests, Read(r) \/ FindStale(r) \/ FindFresh(r)
      PROVE  \A e \in Drafts : StaysOrCloses(e)
  BY <1>3 DEF Read, FindStale, FindFresh
<1>4. ASSUME NEW r \in Requests, SaveExpired(r) \/ SaveOwner(r) \/ SaveSelection(r) \/ SaveRecommendations(r)
      PROVE  \A e \in Drafts : StaysOrCloses(e)
  BY <1>4 DEF SaveExpired, SaveOwner, SaveSelection, SaveRecommendations, CanSave
<1>5. ASSUME NEW r \in Requests, MarkExpired(r) \/ Supersede(r)
      PROVE  \A e \in Drafts : StaysOrCloses(e)
  BY <1>5 DEF MarkExpired, Supersede, UpdateFound
<1>6. ASSUME NEW r \in Requests, LockDraft(r) \/ PassOver(r) \/ FindNoActive(r) \/ StartProject(r)
      PROVE  \A e \in Drafts : StaysOrCloses(e)
  BY <1>6 DEF LockDraft, PassOver, FindNoActive, StartProject
<1>7. ASSUME NEW r \in Requests, ExpireHeld(r)
      PROVE  \A e \in Drafts : StaysOrCloses(e)
  BY <1>7 DEF ExpireHeld
<1>8. ASSUME NEW r \in Requests, Reject(r) \/ Recover(r) \/ FindNoConsumed(r) \/ Fail(r)
      PROVE  \A e \in Drafts : StaysOrCloses(e)
  BY <1>8 DEF Reject, Recover, FindNoConsumed, Fail
<1>9. CASE UNCHANGED vars
  BY <1>9 DEF vars
<1>10. QED
  BY <1>1, <1>2, <1>3, <1>4, <1>5, <1>6, <1>7, <1>8, <1>9 DEF Next, Step

\* Quiet steps tell nobody of a project, as the answers they give name none.
LEMMA QuietPromisesNothing ==
  ASSUME AnswerInv, Quiet
  PROVE  Promised' = Promised /\ \A d \in Drafts : MadeInto(d)' = MadeInto(d)
<1>1. \A q \in Requests : answer'[q].project = answer[q].project
  BY DEF Quiet, AnswerInv, AnswersAtEnd, NoAnswer
<1>2. QED
  BY <1>1 DEF Promised, MadeInto, Quiet

LEMMA ClosingSimulated ==
  ASSUME RowInv, AnswerInv, Quiet, \A d \in Drafts : StaysOrCloses(d)
  PROVE  Outcome!Next
<1>1. PICK S \in SUBSET Drafts : S = {d \in Drafts : Stage(d) = "open" /\ status'[d] # status[d]}
  OBVIOUS
<1>2. ASSUME NEW d \in Drafts
      PROVE  Stage(d)' = IF d \in S THEN "closed" ELSE Stage(d)
  BY <1>1 DEF Quiet, StaysOrCloses, Existing, Stage
<1>3. Outcome!Close(S)
  BY <1>1, <1>2, QuietPromisesNothing DEF Outcome!Close, Stage, MadeInto, Promised
<1>4. QED
  BY <1>3 DEF Outcome!Next

LEMMA InsertSimulated ==
  ASSUME RowInv, AnswerInv, Quiet, NEW r \in Requests, InsertDraft(r)
  PROVE  Outcome!Next
<1>1. PICK d \in Drafts \ Existing : status' = [status EXCEPT ![d] = "ACTIVE"]
  BY DEF InsertDraft
<1>2. Stage(d) = "absent"
  BY <1>1 DEF RowInv, RowsConsistent, Existing, Stage
<1>3. ASSUME NEW e \in Drafts
      PROVE  Stage(e)' = IF e = d THEN "open" ELSE Stage(e)
  BY <1>1, <1>2 DEF RowInv, RowTypes, Quiet, Stage
<1>4. Outcome!Open(d)
  BY <1>1, <1>2, <1>3, QuietPromisesNothing DEF Outcome!Open, Stage, MadeInto, Promised
<1>5. QED
  BY <1>1, <1>4 DEF Outcome!Next

LEMMA CommitSimulated ==
  ASSUME RowInv, AnswerInv, NEW r \in Requests, CommitProject(r)
  PROVE  Outcome!Next
<1>1. PICK d \in Drafts : d = call[r].draft /\ Stage(d) = "open"
  BY DEF CommitProject, RowInv, RowsConsistent, HoldersAreLocked, Stage
<1>2. /\ answer[r] = NoAnswer
      /\ \A e \in Drafts : project[e] # r
      /\ r # NoOne
  BY IdentityAssumption DEF CommitProject, AnswerInv, AnswersAtEnd
<1>3. /\ project' = [project EXCEPT ![d] = r]
      /\ status' = [status EXCEPT ![d] = "CONSUMED"]
      /\ answer' = [answer EXCEPT ![r] = [told |-> "created", project |-> r]]
  BY <1>1 DEF CommitProject, Answer
<1>4. ASSUME NEW e \in Drafts
      PROVE  /\ Stage(e)' = IF e = d THEN "made" ELSE Stage(e)
             /\ MadeInto(e)' = IF e = d THEN {r} ELSE MadeInto(e)
             /\ r \notin MadeInto(e)
  BY <1>1, <1>2, <1>3 DEF RowInv, RowTypes, Stage, MadeInto
<1>5. Promised' = Promised \cup {r}
  <2>1. \A q \in Requests : answer'[q].project = IF q = r THEN r ELSE answer[q].project
    BY <1>3 DEF RowInv, RequestTypes
  <2>2. answer[r].project = NoOne
    BY <1>2 DEF NoAnswer
  <2>3. QED
    BY <1>2, <2>1, <2>2 DEF Promised
<1>6. Outcome!Make(d, r)
  BY <1>1, <1>4, <1>5 DEF Outcome!Make, Stage, MadeInto, Promised
<1>7. QED
  BY <1>6 DEF Outcome!Next

LEMMA RecoverSimulated ==
  ASSUME RowInv, AnswerInv, NEW r \in Requests, Recover(r)
  PROVE  Outcome!Next
<1>1. PICK d \in Drafts : Answer(r, "recovered", project[d])
  BY DEF Recover, OwnedWith
<1>2. answer' = [answer EXCEPT ![r] = [told |-> "recovered", project |-> project[d]]]
  BY <1>1 DEF Answer
<1>3. answer[r].project = NoOne
  BY DEF Recover, AnswerInv, AnswersAtEnd, NoAnswer
<1>4. Promised' = Promised \cup MadeInto(d)
  <2>1. \A q \in Requests : answer'[q].project = IF q = r THEN project[d] ELSE answer[q].project
    BY <1>2 DEF RowInv, RequestTypes
  <2>2. QED
    BY <1>3, <2>1 DEF Promised, MadeInto
<1>5. UNCHANGED <<status, project>>
  BY DEF Recover, rowVars
<1>6. Outcome!Promise(d)
  BY <1>4, <1>5 DEF Outcome!Promise, MadeInto, Promised
<1>7. QED
  BY <1>6 DEF Outcome!Next

\* The draft table is DraftOutcome: whatever stale saves make of the status column, a draft is made
\* into one project at most, none once it has expired or given way, and who is sent to a project is
\* sent to one that a draft was made into.
THEOREM DraftOutcomeImplemented == Spec => ImplementsDraftOutcome
<1>1. Init => RowInv /\ AnswerInv
  BY InitRows, InitAnswers
<1>2. Init => Outcome!Init
  <2>1. SUFFICES ASSUME Init PROVE Outcome!Init
    OBVIOUS
  <2>2. \A d \in Drafts : Stage(d) \in {"absent", "open"} /\ MadeInto(d) = {}
    BY <2>1 DEF Init, Stage, MadeInto
  <2>3. Promised = {}
    BY <2>1 DEF Init, NoAnswer, Promised
  <2>4. QED
    BY <2>2, <2>3 DEF Outcome!Init, Stage, MadeInto, Promised
<1>3. RowInv /\ AnswerInv /\ [Next]_vars => (RowInv /\ AnswerInv)'
  BY StepsKeepAnswers
<1>4. RowInv /\ AnswerInv /\ [Next]_vars => [Outcome!Next]_(Outcome!outcomeVars)
  <2>1. SUFFICES ASSUME RowInv, AnswerInv, [Next]_vars PROVE Outcome!Next
    OBVIOUS
  <2>2. CASE \E r \in Requests : CommitProject(r) \/ Recover(r)
    BY <2>1, <2>2, CommitSimulated, RecoverSimulated
  <2>3. CASE Quiet
    <3>1. ASSUME NEW r \in Requests, CommitProject(r) PROVE Outcome!Next
      BY <2>1, <3>1, CommitSimulated
    <3>2. QED
      BY <2>1, <2>3, <3>1, OtherStepsOnlyClose, ClosingSimulated, InsertSimulated
  <2>4. QED
    BY <2>1, <2>2, <2>3, OtherStepsAreQuiet
<1>5. QED
  BY <1>1, <1>2, <1>3, <1>4, PTL DEF Spec, ImplementsDraftOutcome, Outcome!Spec
=============================================================================
