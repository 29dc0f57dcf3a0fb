-------------------------- MODULE EmailSync_proofs --------------------------
(***************************************************************************)
(* Proofs about EmailSync for every set of workers, both providers and     *)
(* every value of the bounds.                                              *)
(***************************************************************************)
EXTENDS EmailSync, TLAPS

(***************************************************************************)
(* The inductive invariant.  NothingSkipped speaks of the cursor in the    *)
(* row only.  A worker, though, lists from the cursor of a row it read     *)
(* some time ago and later writes the position of its event, so the copies *)
(* and what a worker still has to do are part of the argument.             *)
(***************************************************************************)

\* Where a process can be and what it then has.
Shape ==
  /\ \A w \in Workers :
       /\ pc[w] \in {"idle", "listing", "syncing", "inserting", "deleting"}
       /\ pc[w] # "idle" => event[w] \in Events
       /\ pc[w] \in {"listing", "syncing", "inserting"} => copy[w] \in Connections
       /\ pc[w] = "inserting" => current[w] \in 1..mailbox
  /\ \A k \in Callers :
       /\ pc[k] \in {"idle", "storing", "calling", "saving", "enqueuing"}
       /\ pc[k] \in {"storing", "calling", "saving"} => copy[k] \in Connections
  /\ pc["renew"] \notin {"storing", "enqueuing"}
  /\ pc["connect"] = "storing" => copy["connect"].gen = row.gen /\ row.gen < MaxConnects

\* Every authorization sends at most one backfill.
OneBackfillEach ==
  /\ backfills <= row.gen
  /\ pc["connect"] \notin {"idle", "storing"} => backfills < row.gen

\* Events announce messages that have arrived.
EventsArrived ==
  /\ \A e \in queue : e.type # "manual_backfill" => e.at <= mailbox
  /\ \A w \in Workers : pc[w] # "idle" /\ event[w].type # "manual_backfill" => event[w].at <= mailbox

\* Every cursor a process has read was as good as the row's.
CopiesSettled ==
  \A p \in Processes : copy[p] # NoConnection => \A m \in 1..copy[p].cursor : Settled(m)

\* What an event announces is settled or still to do.
ListedSettled ==
  \A w \in Workers : pc[w] \in {"syncing", "inserting"} =>
    /\ event[w].type = "gmail_history" => \A m \in 1..event[w].at : Settled(m) \/ m \in todo[w]
    /\ event[w].type = "microsoft_message" => event[w].at \in messages \cup todo[w]

DataInv == TableTypes /\ ProcessTypes /\ Shape /\ OneBackfillEach /\ EventsArrived
Safe    == NothingSkipped /\ CopiesSettled /\ ListedSettled /\ AckedIsRecorded
IInv    == FlagTypes /\ DataInv /\ Safe
-----------------------------------------------------------------------------
(***************************************************************************)
(* Types.                                                                  *)
(***************************************************************************)

LEMMA SavedType ==
  ASSUME row \in Connections, NEW old \in Connections, NEW new \in Connections
  PROVE  /\ Saved(old, new) \in Connections
         /\ Saved(old, new).cursor \in {row.cursor, new.cursor}
         /\ new.gen = old.gen => Saved(old, new).gen = row.gen
BY DEF Saved, Column, Connections

LEMMA InitTypes == Init => FlagTypes /\ DataInv
<1> SUFFICES ASSUME Init PROVE FlagTypes /\ DataInv
  OBVIOUS
<1> USE BoundsAssumption, ProcessesAssumption, NullAssumption DEF Init, Processes, Callers, Connections
<1>1. FlagTypes
  BY DEF FlagTypes
<1>2. TableTypes
  BY DEF TableTypes
<1>3. ProcessTypes
  BY DEF ProcessTypes
<1>4. Shape
  BY DEF Shape
<1>5. OneBackfillEach /\ EventsArrived
  BY DEF OneBackfillEach, EventsArrived
<1>6. QED
  BY <1>1, <1>2, <1>3, <1>4, <1>5 DEF DataInv

LEMMA StepFlags == FlagTypes /\ [Next]_vars => FlagTypes'
BY DEF FlagTypes, Next, vars, providerVars, rowVars, workerVars, countVars, WorkerProgress,
       CallerProgress, Arrive, Revoke, WatchComesDue, WatchExpires, Receive, List, SkipDuplicate,
       FetchMissing, InsertMessage, FinishEvent, DeleteEvent, GiveUp, Unauthorized, RefreshFails,
       InsertConflicts, DeliveryFails, ReadConnection, StoreTokens, StartRenewal, CallWatch, SaveWatch,
       EnqueueBackfill, LeaveCaller, WatchUnauthorized, WatchFails, CallerStops

\* What a worker lists has arrived.
LEMMA ListingArrived ==
  ASSUME DataInv, NEW w \in Workers, pc[w] = "listing"
  PROVE  Listing(copy[w], event[w]) \subseteq 1..mailbox
<1>1. copy[w].cursor \in Nat /\ mailbox \in Nat /\ event[w] \in Events
  BY BoundsAssumption DEF DataInv, TableTypes, Shape, Connections
<1>2. event[w].type # "manual_backfill" => event[w].at \in 1..mailbox
  BY <1>1, BoundsAssumption DEF DataInv, EventsArrived, Events
<1>3. QED
  BY <1>1, <1>2 DEF Listing, Events, PushType

LEMMA StoredTokens ==
  ASSUME TableTypes, ProcessTypes, Shape, StoreTokens
  PROVE  /\ row' \in Connections /\ row'.gen = row.gen + 1 /\ row'.cursor = row.cursor
         /\ copy'["connect"] \in Connections
         /\ copy'["connect"].cursor = copy["connect"].cursor
<1> DEFINE old == copy["connect"]
           new == [old EXCEPT !.status = "active", !.gen = old.gen + 1]
<1>1. old \in Connections /\ old.gen = row.gen /\ row.gen < MaxConnects /\ row.gen \in Nat
  BY BoundsAssumption DEF TableTypes, Shape, StoreTokens, Callers, Connections
<1>2. row.gen + 1 \in 0..MaxConnects
  BY <1>1, BoundsAssumption
<1>3. new \in Connections /\ new.gen = row.gen + 1 /\ new.cursor = old.cursor
  BY <1>1, <1>2 DEF Connections
<1>4. row' = Saved(old, new) /\ copy' = [copy EXCEPT !["connect"] = new]
  BY DEF StoreTokens
<1>5. row' \in Connections
  <2> HIDE DEF old, new
  <2> QED
    BY <1>1, <1>3, <1>4, SavedType DEF TableTypes
<1>6. row'.gen = row.gen + 1 /\ row'.cursor = row.cursor
  <2> HIDE DEF old, new
  <2> QED
    BY <1>1, <1>3, <1>4 DEF Saved, Column
<1>7. copy'["connect"] = new
  BY <1>4 DEF ProcessTypes, Processes, Callers
<1>8. QED
  BY <1>3, <1>4, <1>5, <1>6, <1>7

LEMMA InsertedTypes ==
  ASSUME TableTypes, ProcessTypes, Shape, NEW w \in Workers, InsertMessage(w)
  PROVE  messages' \subseteq 1..mailbox /\ todo' \in [Workers -> SUBSET (1..mailbox)]
<1>1. current[w] \in 1..mailbox
  BY DEF Shape, InsertMessage
<1>2. messages' \subseteq 1..mailbox
  BY <1>1 DEF InsertMessage, TableTypes
<1>3. todo' \in [Workers -> SUBSET (1..mailbox)]
  BY DEF InsertMessage, ProcessTypes
<1>4. QED
  BY <1>2, <1>3

LEMMA StepTypes ==
  ASSUME DataInv, [Next]_vars
  PROVE  DataInv'
<1> USE BoundsAssumption, ProcessesAssumption, NullAssumption, ProviderAssumption
    DEF DataInv, TableTypes, ProcessTypes, Shape, OneBackfillEach, EventsArrived,
        Processes, Callers, Connections, Events, PushType, providerVars, rowVars, workerVars, countVars
<1>1. ASSUME Arrive PROVE DataInv'
  BY <1>1 DEF Arrive
<1>2. ASSUME Revoke PROVE DataInv'
  BY <1>2 DEF Revoke
<1>3. ASSUME WatchComesDue PROVE DataInv'
  BY <1>3 DEF WatchComesDue
<1>4. ASSUME WatchExpires PROVE DataInv'
  BY <1>4 DEF WatchExpires
<1>5. ASSUME NEW w \in Workers, NEW e \in queue, Receive(w, e) PROVE DataInv'
  BY <1>5 DEF Receive, Goto
<1>6. ASSUME NEW w \in Workers, List(w) PROVE DataInv'
  <2>1. todo' \in [Workers -> SUBSET (1..mailbox)]
    BY <1>6, ListingArrived DEF List
  <2>2. QED
    BY <1>6, <2>1 DEF List, Goto
<1>7. ASSUME NEW w \in Workers, NEW m \in todo[w], SkipDuplicate(w, m) PROVE DataInv'
  BY <1>7 DEF SkipDuplicate
<1>8. ASSUME NEW w \in Workers, NEW m \in todo[w], FetchMissing(w, m) PROVE DataInv'
  BY <1>8 DEF FetchMissing, Goto
<1>9. ASSUME NEW w \in Workers, InsertMessage(w) PROVE DataInv'
  <2>1. messages' \subseteq 1..mailbox /\ todo' \in [Workers -> SUBSET (1..mailbox)]
    BY <1>9, InsertedTypes
  <2>2. TableTypes' /\ ProcessTypes'
    BY <1>9, <2>1 DEF InsertMessage, Goto
  <2>3. Shape' /\ OneBackfillEach' /\ EventsArrived'
    BY <1>9 DEF InsertMessage, Goto
  <2>4. QED
    BY <2>2, <2>3
<1>10. ASSUME NEW w \in Workers, FinishEvent(w) PROVE DataInv'
  <2> DEFINE new == [copy[w] EXCEPT !.cursor = event[w].at]
  <2>1. event[w].type = "gmail_history" => new \in Connections /\ new.gen = copy[w].gen
    BY <1>10 DEF FinishEvent
  <2>2. row' \in Connections /\ row'.gen = row.gen
    BY <1>10, <2>1, SavedType DEF FinishEvent
  <2>3. TableTypes' /\ ProcessTypes'
    BY <1>10, <2>2 DEF FinishEvent, Goto
  <2>4. Shape' /\ OneBackfillEach' /\ EventsArrived'
    BY <1>10, <2>2 DEF FinishEvent, Goto
  <2>5. QED
    BY <2>3, <2>4
<1>11. ASSUME NEW w \in Workers, DeleteEvent(w) PROVE DataInv'
  BY <1>11 DEF DeleteEvent, Goto
<1>12. ASSUME NEW w \in Workers, Unauthorized(w) PROVE DataInv'
  <2> DEFINE new == [copy[w] EXCEPT !.status = "reauth_required"]
  <2>1. new \in Connections /\ new.gen = copy[w].gen
    BY <1>12 DEF Unauthorized
  <2>2. row' = Saved(copy[w], new) /\ row \in Connections /\ copy[w] \in Connections
    BY <1>12 DEF Unauthorized
  <2>3. row' \in Connections /\ row'.gen = row.gen
    <3> HIDE DEF new, Connections
    <3> QED
      BY <2>1, <2>2, SavedType
  <2>4. TableTypes' /\ ProcessTypes'
    BY <1>12, <2>3 DEF Unauthorized, Refused, GiveUp, Goto
  <2>5. Shape' /\ OneBackfillEach' /\ EventsArrived'
    BY <1>12, <2>3 DEF Unauthorized, GiveUp, Goto
  <2>6. QED
    BY <2>4, <2>5
<1>13. ASSUME NEW w \in Workers, RefreshFails(w) PROVE DataInv'
  BY <1>13 DEF RefreshFails, GiveUp, Goto
<1>14. ASSUME NEW w \in Workers, InsertConflicts(w) PROVE DataInv'
  BY <1>14 DEF InsertConflicts, GiveUp, Goto
<1>15. ASSUME NEW w \in Workers, DeliveryFails(w) PROVE DataInv'
  BY <1>15 DEF DeliveryFails, GiveUp, Goto
<1>16. ASSUME ReadConnection PROVE DataInv'
  BY <1>16 DEF ReadConnection, Goto
<1>17. ASSUME StoreTokens PROVE DataInv'
  <2>1. row' \in Connections /\ row'.gen = row.gen + 1 /\ copy'["connect"] \in Connections
    BY <1>17, StoredTokens
  <2>2. TableTypes'
    BY <1>17, <2>1 DEF StoreTokens
  <2>3. copy' \in [Processes -> Connections \cup {NoConnection}]
    BY <1>17, <2>1 DEF StoreTokens
  <2>4. ProcessTypes'
    BY <1>17, <2>3 DEF StoreTokens, Goto
  <2>5. Shape'
    BY <1>17, <2>1 DEF StoreTokens, Goto
  <2>6. OneBackfillEach' /\ EventsArrived'
    BY <1>17, <2>1 DEF StoreTokens, Goto
  <2>7. QED
    BY <2>2, <2>4, <2>5, <2>6
<1>18. ASSUME StartRenewal PROVE DataInv'
  BY <1>18 DEF StartRenewal, Goto
<1>19. ASSUME NEW k \in Callers, CallWatch(k) PROVE DataInv'
  BY <1>19 DEF CallWatch, Goto
<1>20. ASSUME NEW k \in Callers, SaveWatch(k) PROVE DataInv'
  <2> DEFINE cursor == IF Provider = "gmail" THEN result[k] ELSE copy[k].cursor
             new == [copy[k] EXCEPT !.watch = "active", !.cursor = cursor]
  <2>1. new \in Connections /\ new.gen = copy[k].gen
    <3>1. copy[k] \in Connections /\ result[k] \in 0..MaxArrivals
      BY <1>20 DEF SaveWatch
    <3>2. cursor \in 0..MaxArrivals
      BY <3>1
    <3>3. QED
      <4> HIDE DEF cursor
      <4> QED  BY <3>1, <3>2
  <2>2. row' = Saved(copy[k], new) /\ row \in Connections /\ copy[k] \in Connections
    <3>1. row' = Saved(copy[k], new)
      BY <1>20 DEF SaveWatch
    <3>2. QED
      BY <1>20, <3>1 DEF SaveWatch
  <2>3. row' \in Connections /\ row'.gen = row.gen
    <3> HIDE DEF new, Connections
    <3> QED
      BY <2>1, <2>2, SavedType
  <2>4. TableTypes' /\ ProcessTypes'
    BY <1>20, <2>3 DEF SaveWatch, Goto
  <2>5. Shape' /\ OneBackfillEach' /\ EventsArrived'
    BY <1>20, <2>3 DEF SaveWatch, Goto
  <2>6. QED
    BY <2>4, <2>5
<1>21. ASSUME EnqueueBackfill PROVE DataInv'
  BY <1>21 DEF EnqueueBackfill, Goto
<1>22. ASSUME NEW k \in Callers, WatchUnauthorized(k) PROVE DataInv'
  <2> DEFINE new == [copy[k] EXCEPT !.status = "reauth_required", !.watch = "error"]
  <2>1. new \in Connections /\ new.gen = copy[k].gen
    BY <1>22 DEF WatchUnauthorized
  <2>2. row' = Saved(copy[k], new) /\ row \in Connections /\ copy[k] \in Connections
    BY <1>22 DEF WatchUnauthorized
  <2>3. row' \in Connections /\ row'.gen = row.gen
    <3> HIDE DEF new, Connections
    <3> QED
      BY <2>1, <2>2, SavedType
  <2>4. TableTypes' /\ ProcessTypes'
    BY <1>22, <2>3 DEF WatchUnauthorized, Refused, LeaveCaller, Goto
  <2>5. Shape' /\ OneBackfillEach' /\ EventsArrived'
    BY <1>22, <2>3 DEF WatchUnauthorized, LeaveCaller, Goto
  <2>6. QED
    BY <2>4, <2>5
<1>23. ASSUME NEW k \in Callers, WatchFails(k) PROVE DataInv'
  <2> DEFINE new == [copy[k] EXCEPT !.watch = "error"]
  <2>1. new \in Connections /\ new.gen = copy[k].gen
    BY <1>23 DEF WatchFails
  <2>2. row' = Saved(copy[k], new) /\ row \in Connections /\ copy[k] \in Connections
    BY <1>23 DEF WatchFails
  <2>3. row' \in Connections /\ row'.gen = row.gen
    <3> HIDE DEF new, Connections
    <3> QED
      BY <2>1, <2>2, SavedType
  <2>4. TableTypes' /\ ProcessTypes'
    BY <1>23, <2>3 DEF WatchFails, LeaveCaller, Goto
  <2>5. Shape' /\ OneBackfillEach' /\ EventsArrived'
    BY <1>23, <2>3 DEF WatchFails, LeaveCaller, Goto
  <2>6. QED
    BY <2>4, <2>5
<1>24. ASSUME NEW k \in Callers, CallerStops(k) PROVE DataInv'
  BY <1>24 DEF CallerStops, LeaveCaller, Goto
<1>25. CASE UNCHANGED vars
  BY <1>25 DEF vars
<1>26. QED
  BY <1>1, <1>2, <1>3, <1>4, <1>5, <1>6, <1>7, <1>8, <1>9, <1>10, <1>11, <1>12, <1>13, <1>14,
     <1>15, <1>16, <1>17, <1>18, <1>19, <1>20, <1>21, <1>22, <1>23, <1>24, <1>25
  DEF Next, WorkerProgress, CallerProgress

-----------------------------------------------------------------------------
(***************************************************************************)
(* The safety invariants.                                                  *)
(***************************************************************************)

LEMMA SavedCursor ==
  ASSUME NEW old, NEW new
  PROVE  Saved(old, new).cursor \in {row.cursor, new.cursor}
BY DEF Saved, Column

\* What is settled stays settled: messages are never deleted and jumped never decreases.
LEMMA SettledStays ==
  ASSUME DataInv, [Next]_vars
  PROVE  /\ messages \subseteq messages'
         /\ jumped \in Nat /\ jumped' \in Nat
         /\ jumped <= jumped'
<1> USE DEF providerVars, rowVars, workerVars, countVars
<1>1. jumped \in Nat /\ jumped' \in Nat /\ mailbox \in Nat /\ result \in [Callers -> Nat]
  BY StepTypes, BoundsAssumption DEF DataInv, TableTypes, ProcessTypes
<1>2. messages \subseteq messages'
  BY DEF Next, vars, WorkerProgress, CallerProgress, Arrive, Revoke, WatchComesDue, WatchExpires,
       Receive, List, SkipDuplicate, FetchMissing, InsertMessage, FinishEvent, DeleteEvent, GiveUp,
       Unauthorized, RefreshFails, InsertConflicts, DeliveryFails, ReadConnection,
       StoreTokens, StartRenewal, CallWatch,
       SaveWatch, EnqueueBackfill, LeaveCaller, WatchUnauthorized, WatchFails, CallerStops
<1>3. ASSUME NEW k \in Callers, SaveWatch(k) PROVE jumped <= jumped'
  <2>1. jumped' = IF Provider = "gmail" /\ result[k] > jumped THEN result[k] ELSE jumped
    BY <1>3 DEF SaveWatch
  <2>2. QED
    BY <1>1, <2>1
<1>4. jumped' = jumped \/ \E k \in Callers : SaveWatch(k)
  BY DEF Next, vars, WorkerProgress, CallerProgress, Arrive, Revoke, WatchComesDue, WatchExpires,
       Receive, List, SkipDuplicate, FetchMissing, InsertMessage, FinishEvent, DeleteEvent, GiveUp,
       Unauthorized, RefreshFails, InsertConflicts, DeliveryFails, ReadConnection,
       StoreTokens, StartRenewal, CallWatch,
       EnqueueBackfill, LeaveCaller, WatchUnauthorized, WatchFails, CallerStops
<1>5. QED
  BY <1>1, <1>2, <1>3, <1>4

\* What is recorded stays recorded.
LEMMA RecordedStays ==
  ASSUME DataInv, [Next]_vars
  PROVE  \A e \in Events : Recorded(e) => Recorded(e)'
<1> SUFFICES ASSUME NEW e \in Events, Recorded(e) PROVE Recorded(e)'
  OBVIOUS
<1>1. /\ messages \subseteq messages'
      /\ jumped \in Nat /\ jumped' \in Nat /\ jumped <= jumped'
  BY SettledStays
<1>2. e.at \in Nat /\ e.type \in {"gmail_history", "microsoft_message", "manual_backfill"}
  BY BoundsAssumption DEF Events, PushType
<1>3. CASE e.type = "gmail_history"
  BY <1>1, <1>2, <1>3 DEF Recorded, Settled
<1>4. CASE e.type = "microsoft_message"
  BY <1>1, <1>4 DEF Recorded
<1>5. CASE e.type = "manual_backfill"
  BY <1>5 DEF Recorded
<1>6. QED
  BY <1>2, <1>3, <1>4, <1>5

LEMMA StepSafe ==
  ASSUME DataInv, Safe, [Next]_vars
  PROVE  Safe'
<1>1. messages \subseteq messages' /\ jumped \in Nat /\ jumped' \in Nat /\ jumped <= jumped'
  BY SettledStays
<1>2. DataInv'
  BY StepTypes
<1> USE <1>1, BoundsAssumption, ProcessesAssumption, NullAssumption, ProviderAssumption
    DEF DataInv, TableTypes, ProcessTypes, Shape, Safe, Settled, NothingSkipped, CopiesSettled, ListedSettled,
        AckedIsRecorded, Recorded, EventsArrived, Processes, Callers, Connections, Events, PushType,
        providerVars, rowVars, workerVars, countVars
<1>3. ASSUME Arrive PROVE Safe'
  BY <1>3 DEF Arrive
<1>4. ASSUME Revoke PROVE Safe'
  BY <1>4 DEF Revoke
<1>5. ASSUME WatchComesDue PROVE Safe'
  BY <1>5 DEF WatchComesDue
<1>6. ASSUME WatchExpires PROVE Safe'
  BY <1>6 DEF WatchExpires
<1>7. ASSUME NEW w \in Workers, NEW e \in queue, Receive(w, e) PROVE Safe'
  <2>1. NothingSkipped' /\ CopiesSettled'
    BY <1>7 DEF Receive
  <2>2. ListedSettled'
    BY <1>7 DEF Receive, Goto
  <2>3. AckedIsRecorded'
    <3>1. \/ pc'[w] = "listing"
          \/ copy'[w] = NoConnection
      BY <1>7 DEF Receive, Goto
    <3>2. \A v \in Workers : v # w =>
             pc'[v] = pc[v] /\ copy'[v] = copy[v] /\ event'[v] = event[v]
      BY <1>7 DEF Receive, Goto
    <3>3. \A v \in Workers : pc[v] = "deleting" => event[v] \in Events
      OBVIOUS
    <3>4. QED
      <4> HIDE DEF Recorded
      <4> QED
        BY <3>1, <3>2, <3>3, RecordedStays
  <2>4. QED
    BY <2>1, <2>2, <2>3
<1>8. ASSUME NEW w \in Workers, List(w) PROVE Safe'
  <2>1. copy[w].cursor \in Nat /\ \A m \in 1..copy[w].cursor : Settled(m)'
    BY <1>8 DEF List
  <2>2. event[w] \in Events /\ (event[w].type # "manual_backfill" => event[w].at \in 1..mailbox)
    BY <1>8 DEF List
  <2>3. todo'[w] = Listing(copy[w], event[w]) /\ event'[w] = event[w]
    BY <1>8 DEF List
  <2>4. /\ event'[w].type = "gmail_history" =>
            \A m \in 1..event'[w].at : Settled(m)' \/ m \in todo'[w]
        /\ event'[w].type = "microsoft_message" => event'[w].at \in todo'[w]
    <3>1. CASE event[w].type = "gmail_history"
      <4>1. todo'[w] = (copy[w].cursor + 1)..mailbox
        BY <2>3, <3>1 DEF Listing
      <4>2. event[w].at \in 1..mailbox /\ mailbox \in Nat /\ event'[w] = event[w]
        BY <2>2, <2>3, <3>1
      <4>3. ASSUME NEW m \in 1..event[w].at PROVE Settled(m)' \/ m \in todo'[w]
        <5>1. CASE m <= copy[w].cursor
          <6>1. m \in 1..copy[w].cursor
            BY <2>1, <4>2, <5>1
          <6>2. QED
            BY <2>1, <6>1
        <5>2. CASE ~(m <= copy[w].cursor)
          <6>1. m \in Nat /\ m <= mailbox /\ m >= copy[w].cursor + 1 /\ copy[w].cursor + 1 \in Nat
            <7> HIDE DEF DataInv, TableTypes, ProcessTypes, Shape, Safe, Connections, Events
            <7> QED  BY <2>1, <4>2, <5>2
          <6>2. m \in (copy[w].cursor + 1)..mailbox
            BY <4>2, <6>1
          <6>3. QED
            BY <4>1, <6>2
        <5>3. QED
          BY <5>1, <5>2
      <4>4. QED
        BY <3>1, <4>2, <4>3
    <3>2. CASE event[w].type = "microsoft_message"
      <4>1. todo'[w] = {event[w].at}
        BY <2>3, <3>2 DEF Listing
      <4>2. QED
        BY <2>3, <3>2, <4>1
    <3>3. QED
      BY <2>3, <3>1, <3>2
  <2>5. ListedSettled'
    BY <1>8, <2>4 DEF List, Goto
  <2>6. NothingSkipped' /\ CopiesSettled' /\ AckedIsRecorded'
    BY <1>8 DEF List, Goto
  <2>7. QED
    BY <2>5, <2>6
<1>9. ASSUME NEW w \in Workers, NEW m \in todo[w], SkipDuplicate(w, m) PROVE Safe'
  BY <1>9 DEF SkipDuplicate
<1>10. ASSUME NEW w \in Workers, NEW m \in todo[w], FetchMissing(w, m) PROVE Safe'
  BY <1>10 DEF FetchMissing, Goto
<1>11. ASSUME NEW w \in Workers, InsertMessage(w) PROVE Safe'
  BY <1>11 DEF InsertMessage, Goto
<1>12. ASSUME NEW w \in Workers, FinishEvent(w) PROVE Safe'
  <2>1. event[w] \in Events /\ event[w].at \in Nat /\ copy[w] \in Connections
    BY <1>12 DEF FinishEvent
  <2>2. CASE event[w].type = "gmail_history"
    <3> DEFINE new == [copy[w] EXCEPT !.cursor = event[w].at]
    <3>1. row' = Saved(copy[w], new) /\ new.cursor = event[w].at
      BY <1>12, <2>1, <2>2 DEF FinishEvent
    <3>2. row'.cursor \in {row.cursor, event[w].at}
      <4> HIDE DEF new
      <4> QED
        BY <3>1, SavedCursor
    <3>3. \A m \in 1..event[w].at : m \in messages' \/ m <= jumped'
      BY <1>12, <2>1, <2>2 DEF FinishEvent
    <3>4. NothingSkipped'
      BY <1>12, <3>2, <3>3 DEF FinishEvent
    <3>5. AckedIsRecorded'
      BY <1>12, <2>2, <3>3 DEF FinishEvent, Goto
    <3>6. CopiesSettled' /\ ListedSettled'
      BY <1>12 DEF FinishEvent, Goto
    <3>7. QED
      BY <3>4, <3>5, <3>6
  <2>3. CASE event[w].type # "gmail_history"
    <3>1. NothingSkipped'
      BY <1>12, <2>3 DEF FinishEvent
    <3>2. AckedIsRecorded'
      BY <1>12, <2>1, <2>3 DEF FinishEvent, Goto
    <3>3. CopiesSettled' /\ ListedSettled'
      BY <1>12 DEF FinishEvent, Goto
    <3>4. QED
      BY <3>1, <3>2, <3>3
  <2>4. QED
    BY <2>2, <2>3
<1>13. ASSUME NEW w \in Workers, DeleteEvent(w) PROVE Safe'
  <2>1. NothingSkipped' /\ CopiesSettled'
    BY <1>13 DEF DeleteEvent
  <2>2. \A v \in Workers : v # w =>
           pc'[v] = pc[v] /\ copy'[v] = copy[v] /\ event'[v] = event[v]
    BY <1>13 DEF DeleteEvent, Goto
  <2>3. pc'[w] = "idle"
    BY <1>13 DEF DeleteEvent, Goto
  <2>4. ListedSettled'
    BY <1>13, <2>2, <2>3 DEF DeleteEvent
  <2>5. AckedIsRecorded'
    BY <1>13, <2>2, <2>3 DEF DeleteEvent
  <2>6. QED
    BY <2>1, <2>4, <2>5
<1>14. ASSUME NEW w \in Workers, Unauthorized(w) PROVE Safe'
  <2> DEFINE new == [copy[w] EXCEPT !.status = "reauth_required"]
  <2>1. row' = Saved(copy[w], new) /\ copy[w] \in Connections
    BY <1>14 DEF Unauthorized
  <2>2. new.cursor = copy[w].cursor
    BY <2>1
  <2>3. row'.cursor \in {row.cursor, copy[w].cursor}
    <3> HIDE DEF new
    <3> QED
      BY <2>1, <2>2, SavedCursor
  <2>4. NothingSkipped'
    BY <1>14, <2>1, <2>3 DEF Unauthorized, GiveUp
  <2>5. CopiesSettled' /\ ListedSettled' /\ AckedIsRecorded'
    BY <1>14 DEF Unauthorized, GiveUp, Goto
  <2>6. QED
    BY <2>4, <2>5
<1>15. ASSUME NEW w \in Workers, RefreshFails(w) PROVE Safe'
  BY <1>15 DEF RefreshFails, GiveUp, Goto
<1>16. ASSUME NEW w \in Workers, InsertConflicts(w) PROVE Safe'
  BY <1>16 DEF InsertConflicts, GiveUp, Goto
<1>17. ASSUME NEW w \in Workers, DeliveryFails(w) PROVE Safe'
  BY <1>17 DEF DeliveryFails, GiveUp, Goto
<1>18. ASSUME ReadConnection PROVE Safe'
  BY <1>18 DEF ReadConnection, Goto
<1>19. ASSUME StoreTokens PROVE Safe'
  <2>1. /\ row'.cursor = row.cursor /\ copy["connect"] \in Connections
        /\ copy'["connect"].cursor = copy["connect"].cursor
    BY <1>19, StoredTokens DEF StoreTokens
  <2>2. NothingSkipped'
    BY <1>19, <2>1 DEF StoreTokens
  <2>3. \A p \in Processes : p # "connect" => copy'[p] = copy[p]
    BY <1>19 DEF StoreTokens
  <2>4. CopiesSettled'
    BY <1>19, <2>1, <2>3 DEF StoreTokens
  <2>5. ListedSettled' /\ AckedIsRecorded'
    BY <1>19, <2>3 DEF StoreTokens, Goto
  <2>6. QED
    BY <2>2, <2>4, <2>5
<1>20. ASSUME StartRenewal PROVE Safe'
  BY <1>20 DEF StartRenewal, Goto
<1>21. ASSUME NEW k \in Callers, CallWatch(k) PROVE Safe'
  BY <1>21 DEF CallWatch, Goto
<1>22. ASSUME NEW k \in Callers, SaveWatch(k) PROVE Safe'
  <2> DEFINE cursor == IF Provider = "gmail" THEN result[k] ELSE copy[k].cursor
             new == [copy[k] EXCEPT !.watch = "active", !.cursor = cursor]
  <2>1. row' = Saved(copy[k], new) /\ copy[k] \in Connections /\ result[k] \in Nat
    BY <1>22 DEF SaveWatch
  <2>2. new.cursor = cursor
    BY <2>1
  <2>3. row'.cursor \in {row.cursor, cursor}
    <3> HIDE DEF new, cursor
    <3> QED
      BY <2>1, <2>2, SavedCursor
  <2>4. \A m \in 1..cursor : m \in messages' \/ m <= jumped'
    <3>1. CASE Provider = "gmail"
      BY <1>22, <2>1, <3>1 DEF SaveWatch
    <3>2. CASE Provider # "gmail"
      BY <1>22, <2>1, <3>2 DEF SaveWatch
    <3>3. QED
      BY <3>1, <3>2
  <2>5. NothingSkipped'
    BY <1>22, <2>3, <2>4 DEF SaveWatch
  <2>6. CopiesSettled' /\ ListedSettled'
    BY <1>22 DEF SaveWatch, Goto
  <2>7. AckedIsRecorded'
    <3>1. \A w \in Workers : pc'[w] = pc[w] /\ copy'[w] = copy[w] /\ event'[w] = event[w]
      BY <1>22 DEF SaveWatch, Goto
    <3>2. \A w \in Workers : pc[w] = "deleting" => event[w] \in Events
      OBVIOUS
    <3>3. QED
      <4> HIDE DEF Recorded
      <4> QED
        BY <3>1, <3>2, RecordedStays
  <2>8. QED
    BY <2>5, <2>6, <2>7
<1>23. ASSUME EnqueueBackfill PROVE Safe'
  BY <1>23 DEF EnqueueBackfill, Goto
<1>24. ASSUME NEW k \in Callers, WatchUnauthorized(k) PROVE Safe'
  <2> DEFINE new == [copy[k] EXCEPT !.status = "reauth_required", !.watch = "error"]
  <2>1. row' = Saved(copy[k], new) /\ copy[k] \in Connections
    BY <1>24 DEF WatchUnauthorized
  <2>2. new.cursor = copy[k].cursor
    BY <2>1
  <2>3. row'.cursor \in {row.cursor, copy[k].cursor}
    <3> HIDE DEF new
    <3> QED
      BY <2>1, <2>2, SavedCursor
  <2>4. NothingSkipped'
    BY <1>24, <2>1, <2>3 DEF WatchUnauthorized, LeaveCaller
  <2>5. CopiesSettled' /\ ListedSettled' /\ AckedIsRecorded'
    BY <1>24 DEF WatchUnauthorized, LeaveCaller, Goto
  <2>6. QED
    BY <2>4, <2>5
<1>25. ASSUME NEW k \in Callers, WatchFails(k) PROVE Safe'
  <2> DEFINE new == [copy[k] EXCEPT !.watch = "error"]
  <2>1. row' = Saved(copy[k], new) /\ copy[k] \in Connections
    BY <1>25 DEF WatchFails
  <2>2. new.cursor = copy[k].cursor
    BY <2>1
  <2>3. row'.cursor \in {row.cursor, copy[k].cursor}
    <3> HIDE DEF new
    <3> QED
      BY <2>1, <2>2, SavedCursor
  <2>4. NothingSkipped'
    BY <1>25, <2>1, <2>3 DEF WatchFails, LeaveCaller
  <2>5. CopiesSettled' /\ ListedSettled' /\ AckedIsRecorded'
    BY <1>25 DEF WatchFails, LeaveCaller, Goto
  <2>6. QED
    BY <2>4, <2>5
<1>26. ASSUME NEW k \in Callers, CallerStops(k) PROVE Safe'
  BY <1>26 DEF CallerStops, LeaveCaller, Goto
<1>27. CASE UNCHANGED vars
  BY <1>27 DEF vars
<1>28. QED
  BY <1>3, <1>4, <1>5, <1>6, <1>7, <1>8, <1>9, <1>10, <1>11, <1>12, <1>13, <1>14, <1>15, <1>16,
     <1>17, <1>18, <1>19, <1>20, <1>21, <1>22, <1>23, <1>24, <1>25, <1>26, <1>27
  DEF Next, WorkerProgress, CallerProgress

-----------------------------------------------------------------------------
LEMMA InitSafe == Init => Safe
BY ProcessesAssumption DEF Init, Safe, NothingSkipped, CopiesSettled, ListedSettled, AckedIsRecorded,
   Processes, Callers

LEMMA Invariance == Spec => []IInv
<1>1. Init => IInv
  BY InitTypes, InitSafe DEF IInv
<1>2. IInv /\ [Next]_vars => IInv'
  BY StepFlags, StepTypes, StepSafe DEF IInv
<1>3. QED
  BY <1>1, <1>2, PTL DEF Spec

\* Every variable keeps its type: in particular the messages listed, fetched and recorded have
\* arrived, and the cursor stays a position of the mailbox (email_sync_event_service.ts,
\* email_watch_service.ts).
THEOREM TypeCorrect == Spec => []TypeOK
<1>1. IInv => TypeOK
  BY DEF IInv, DataInv, TypeOK
<1>2. QED
  BY <1>1, Invariance, PTL

\* However many workers handle the history events, in whatever order and however often, no event
\* moves the row's cursor past a message that is not recorded (processGmailHistoryEvent).
THEOREM CursorSkipsNothing == Spec => []NothingSkipped
<1>1. IInv => NothingSkipped
  BY DEF IInv, Safe
<1>2. QED
  BY <1>1, Invariance, PTL

\* An event that found its connection is deleted from the queue only when what it announced is
\* recorded (processEmailSyncQueue).
THEOREM AcknowledgedIsRecorded == Spec => []AckedIsRecorded
<1>1. IInv => AckedIsRecorded
  BY DEF IInv, Safe
<1>2. QED
  BY <1>1, Invariance, PTL

\* Neither the cursor nor the deletion of events loses a message, for any number of workers and
\* connections of processEmailSyncEvent, both providers and every order of deliveries.
THEOREM MailStaysSafe == Spec => []MailIsNotLost
BY CursorSkipsNothing, AcknowledgedIsRecorded, PTL DEF MailIsNotLost
-----------------------------------------------------------------------------
(***************************************************************************)
(* Who writes the status of the connection.                                *)
(***************************************************************************)

\* A process that saves another column leaves the status and the authorization alone.
LEMMA OtherColumnsSaved ==
  ASSUME row \in Connections, NEW old \in Connections, NEW new \in Connections,
         new.status = old.status, new.gen = old.gen, row' = Saved(old, new)
  PROVE  row'.status = row.status /\ row'.gen = row.gen
BY DEF Saved, Column, Connections

\* A process that was refused asks for a new authorization.
LEMMA RefusedSaved ==
  ASSUME row \in Connections, NEW old \in Connections, NEW new \in Connections,
         new.gen = old.gen, row' = Saved(old, new),
         revoked \in Nat, ~Accepts(old), Accepts(row)
  PROVE  row'.gen = row.gen /\ old.gen < row.gen
BY BoundsAssumption DEF Saved, Column, Connections, Accepts

StatusStep ==
  /\ row.status = "active" /\ row'.status = "reauth_required" /\ Accepts(row) =>
       \/ \E p \in Processes : ActsOnOldTokens(p)
       \/ refusals' > refusals
  /\ row'.gen > row.gen => row'.status = "active" \/ row.status # copy["connect"].status

\* Who was refused while the row's tokens are good has read the row before the last authorization,
\* or the refusal was not about the tokens.
LEMMA RefusalIsStale ==
  ASSUME DataInv, NEW p \in Processes, NEW new \in Connections, copy[p] \in Connections,
         pc'[p] # pc[p], Refused(copy[p]), new.gen = copy[p].gen, row' = Saved(copy[p], new)
  PROVE  StatusStep
  <1>1. row \in Connections /\ row'.gen = row.gen /\ row.gen \in Nat
    BY SavedType, BoundsAssumption DEF DataInv, TableTypes, Connections
  <1>2. CASE ~Accepts(copy[p])
    <2>1. Accepts(row) => copy[p].gen < row.gen
      BY <1>1, <1>2, RefusedSaved, BoundsAssumption DEF DataInv, TableTypes
    <2>2. copy[p] # NoConnection
      BY NullAssumption
    <2>3. Accepts(row) => ActsOnOldTokens(p)
      BY <2>1, <2>2 DEF ActsOnOldTokens
    <2>4. QED
      BY <1>1, <2>3 DEF StatusStep
  <1>3. CASE Accepts(copy[p])
    <2>1. refusals \in Nat /\ refusals' = refusals + 1
      BY <1>3, BoundsAssumption DEF Refused, DataInv, TableTypes
    <2>2. refusals' > refusals
      BY <2>1
    <2>3. QED
      BY <1>1, <2>2 DEF StatusStep
  <1>4. QED
    BY <1>2, <1>3

LEMMA UnchangedStatus ==
  ASSUME DataInv, row'.status = row.status, row'.gen = row.gen
  PROVE  StatusStep
BY BoundsAssumption DEF StatusStep, DataInv, TableTypes, Connections

LEMMA StatusSteps ==
  ASSUME DataInv, [Next]_vars
  PROVE  StatusStep
<1> USE DEF providerVars, rowVars, workerVars, countVars
<1>1. row \in Connections /\ Workers \subseteq Processes /\ Callers \subseteq Processes
  BY DEF DataInv, TableTypes, Processes
<1>2. ASSUME NEW w \in Workers, FinishEvent(w) PROVE StatusStep
  <2> DEFINE new == [copy[w] EXCEPT !.cursor = event[w].at]
  <2>1. CASE event[w].type = "gmail_history"
    <3>1. copy[w] \in Connections /\ event[w].at \in 0..MaxArrivals /\ row' = Saved(copy[w], new)
      BY <1>2, <2>1 DEF FinishEvent, DataInv, Shape, Events, PushType
    <3>2. new \in Connections /\ new.status = copy[w].status /\ new.gen = copy[w].gen
      BY <3>1 DEF Connections
    <3>3. QED
      <4> HIDE DEF new
      <4> QED
        BY <1>1, <3>1, <3>2, OtherColumnsSaved, UnchangedStatus
  <2>2. CASE event[w].type # "gmail_history"
    BY <1>2, <2>2, UnchangedStatus DEF FinishEvent
  <2>3. QED
    BY <2>1, <2>2
<1>3. ASSUME NEW w \in Workers, Unauthorized(w) PROVE StatusStep
  <2> DEFINE new == [copy[w] EXCEPT !.status = "reauth_required"]
  <2>1. copy[w] \in Connections /\ Refused(copy[w]) /\ row' = Saved(copy[w], new)
    BY <1>3 DEF Unauthorized, DataInv, Shape
  <2>4. pc'[w] # pc[w]
    BY <1>1, <1>3 DEF Unauthorized, GiveUp, Goto, DataInv, ProcessTypes
  <2>2. new \in Connections /\ new.gen = copy[w].gen
    BY <2>1 DEF Connections
  <2>3. QED
    <3> HIDE DEF new
    <3> QED
      BY <1>1, <2>1, <2>2, <2>4, RefusalIsStale
<1>4. ASSUME StoreTokens PROVE StatusStep
  <2> DEFINE old == copy["connect"]
             new == [old EXCEPT !.status = "active", !.gen = old.gen + 1]
  <2>1. old \in Connections /\ row' = Saved(old, new)
    BY <1>4 DEF StoreTokens, DataInv, Shape, Callers
  <2>2. new.status = "active"
    BY <2>1 DEF Connections
  <2>3. row'.status = IF old.status = "active" THEN row.status ELSE "active"
    <3> HIDE DEF old, new
    <3> QED
      BY <2>1, <2>2 DEF Saved, Column
  <2>4. QED
    BY <2>3 DEF StatusStep
<1>5. ASSUME NEW k \in Callers, SaveWatch(k) PROVE StatusStep
  <2> DEFINE cursor == IF Provider = "gmail" THEN result[k] ELSE copy[k].cursor
             new == [copy[k] EXCEPT !.watch = "active", !.cursor = cursor]
  <2>1. copy[k] \in Connections /\ row' = Saved(copy[k], new)
    BY <1>5 DEF SaveWatch, DataInv, Shape
  <2>2. cursor \in 0..MaxArrivals
    BY <2>1, BoundsAssumption DEF DataInv, TableTypes, ProcessTypes, Connections
  <2>3. new \in Connections /\ new.status = copy[k].status /\ new.gen = copy[k].gen
    <3> HIDE DEF cursor
    <3> QED
      BY <2>1, <2>2 DEF Connections
  <2>4. QED
    <3> HIDE DEF new
    <3> QED
      BY <1>1, <2>1, <2>3, OtherColumnsSaved, UnchangedStatus
<1>6. ASSUME NEW k \in Callers, WatchUnauthorized(k) PROVE StatusStep
  <2> DEFINE new == [copy[k] EXCEPT !.status = "reauth_required", !.watch = "error"]
  <2>1. copy[k] \in Connections /\ Refused(copy[k]) /\ row' = Saved(copy[k], new)
    BY <1>6 DEF WatchUnauthorized, DataInv, Shape
  <2>4. pc'[k] # pc[k]
    BY <1>1, <1>6 DEF WatchUnauthorized, LeaveCaller, Goto, DataInv, ProcessTypes
  <2>2. new \in Connections /\ new.gen = copy[k].gen
    BY <2>1 DEF Connections
  <2>3. QED
    <3> HIDE DEF new
    <3> QED
      BY <1>1, <2>1, <2>2, <2>4, RefusalIsStale
<1>7. ASSUME NEW k \in Callers, WatchFails(k) PROVE StatusStep
  <2> DEFINE new == [copy[k] EXCEPT !.watch = "error"]
  <2>1. copy[k] \in Connections /\ row' = Saved(copy[k], new)
    BY <1>7 DEF WatchFails, DataInv, Shape
  <2>2. new \in Connections /\ new.status = copy[k].status /\ new.gen = copy[k].gen
    BY <2>1 DEF Connections
  <2>3. QED
    <3> HIDE DEF new
    <3> QED
      BY <1>1, <2>1, <2>2, OtherColumnsSaved, UnchangedStatus
<1>8. \/ UNCHANGED row
      \/ \E w \in Workers : FinishEvent(w) \/ Unauthorized(w)
      \/ StoreTokens
      \/ \E k \in Callers : SaveWatch(k) \/ WatchUnauthorized(k) \/ WatchFails(k)
  BY DEF Next, vars, WorkerProgress, CallerProgress, Arrive, Revoke, WatchComesDue, WatchExpires,
       Receive, List, SkipDuplicate, FetchMissing, InsertMessage, DeleteEvent, RefreshFails,
       InsertConflicts, DeliveryFails, ReadConnection, StartRenewal, CallWatch, EnqueueBackfill,
       CallerStops
<1>9. QED
  BY <1>2, <1>3, <1>4, <1>5, <1>6, <1>7, <1>8, UnchangedStatus

\* A connection whose tokens are good asks for a new authorization only by a process that has read
\* the row before the last authorization, or by a refusal that was not about the tokens; an
\* authorization leaves it in another status than active only if another has written the status
\* meanwhile: for any number of workers, both callers and every order of their saves
\* (markConnectionFailure, handleWatchFailure).
THEOREM OnlyStaleMisjudge == Spec => OnlyStaleProcessesMisjudge
<1>1. DataInv /\ [Next]_vars => [StatusStep]_vars
  BY StatusSteps
<1>2. IInv => DataInv
  BY DEF IInv
<1>3. QED
  BY <1>1, <1>2, Invariance, PTL DEF Spec, OnlyStaleProcessesMisjudge, StatusStep
=============================================================================
