--------------------------- MODULE Listings_proofs ---------------------------
(***************************************************************************)
(* Proofs about what finds listings and what attaches them.                *)
(*                                                                         *)
(* VendorSearch: its counters, for any number of requests and rules, any   *)
(* limits and windows, and whatever else counts in the same buckets; its   *)
(* merging, its lookups and its ranking, for any places and categories,    *)
(* and any searches at once.                                               *)
(*                                                                         *)
(* ProjectVendors: its types, the order of its locks and what its answers  *)
(* promise, for any calls, users, projects and listings.                   *)
(***************************************************************************)
EXTENDS VendorSearch, ProjectVendors, FiniteSetTheorems, SequenceTheorems, WellFoundedInduction, TLAPS

Keys    == StableKeys \cup {"weak"}
Of(k)   == {p[k] : p \in Places}
AllCats == UNION {p.cats : p \in Places}

\* What dedupeCandidates handles: the fields of places, categories of several of them, and a rank.
Cands == [fsq : Of("fsq"), email : Of("email"), phone : Of("phone"), weak : Of("weak"),
          cats : SUBSET AllCats, date : Of("date"), place : Of("place"), rank : Nat]

\* What discover recommends.
Finds == [at : Nat, rank : Nat, known : BOOLEAN, read : Rows]

SearchTypes ==
  [pc : {"new", "search", "persist", "answered", "failed"}, plan : Seq(DOMAIN Results),
   todo : Seq(Cands), look : Seq(Keys), apart : SUBSET Nat, rank : Nat,
   found : SUBSET Finds, broken : BOOLEAN, answer : Seq(Finds), got : SUBSET Places]

\* A request has passed no rule before its check begins, some rules while it goes on, and all of
\* them when it is admitted.
GateOrder ==
  \A r \in Requests :
    /\ gate[r].verdict = "outside" => gate[r].passed = 0
    /\ gate[r].verdict \in {"checking", "rejected"} => gate[r].passed < Rules
    /\ gate[r].verdict = "admitted" => gate[r].passed = Rules

\* A bucket counts at least the requests its rule has let through, and lets through no more than
\* the limit.
BucketsCount ==
  \A i \in 1..Rules, w \in Times :
    /\ IsFiniteSet(Passed(i, w))
    /\ Cardinality(Passed(i, w)) <= count[i][w]
    /\ Cardinality(Passed(i, w)) <= Limit[i]

RejectedFindFull ==
  \A r \in Requests : gate[r].verdict = "rejected" =>
    LET i == gate[r].passed + 1 IN count[i][WindowOf(i, r)] > Limit[i]

\* A search of a signed-in user that has begun was admitted.
SearchAdmitted ==
  /\ search = [r \in Requests |-> search[r]]
  /\ \A r \in Requests \ Anonymous : search[r].pc # "new" => gate[r].verdict = "admitted"

RateInv == RateTypeOK /\ GateOrder /\ BucketsCount /\ RejectedFindFull

GateInv == RateInv /\ SearchAdmitted

-----------------------------------------------------------------------------
(***************************************************************************)
(* Windows                                                                 *)
(***************************************************************************)

\* The window number of a time is not above the time.
LEMMA WindowBound ==
  ASSUME NEW a \in Nat, NEW b \in Nat \ {0}
  PROVE  a \div b \in 0..a
OBVIOUS

\* The window of a time is one the counters have.
LEMMA TimeWindow ==
  ASSUME NEW i \in 1..Rules, NEW now \in Times
  PROVE  now \div Window[i] \in Times
<1>1. now \in 0..MaxTime /\ Window[i] \in Nat \ {0}
  BY RulesAssumption DEF Times
<1>2. now \div Window[i] \in 0..now
  BY <1>1, TimeAssumption, WindowBound
<1>3. QED
  BY <1>1, <1>2, TimeAssumption DEF Times

\* The window in which a request is counted is one the counters have.
LEMMA WindowType ==
  ASSUME RateTypeOK, NEW i \in 1..Rules, NEW r \in Requests
  PROVE  WindowOf(i, r) \in Times
<1>1. gate[r].at \in Times
  BY DEF RateTypeOK
<1>2. QED
  BY <1>1, TimeWindow DEF WindowOf

-----------------------------------------------------------------------------
(***************************************************************************)
(* The counters                                                            *)
(***************************************************************************)

\* No bucket has counted anything yet.
LEMMA RateInitially == RateInit => RateInv
<1> SUFFICES ASSUME RateInit PROVE RateInv
  OBVIOUS
<1>1. RateTypeOK
  BY TimeAssumption, RulesAssumption DEF RateInit, RateTypeOK, Times, Verdicts
<1>2. GateOrder
  BY DEF RateInit, GateOrder
<1>3. BucketsCount
  <2> SUFFICES ASSUME NEW i \in 1..Rules, NEW w \in Times
               PROVE  /\ IsFiniteSet(Passed(i, w))
                      /\ Cardinality(Passed(i, w)) <= count[i][w]
                      /\ Cardinality(Passed(i, w)) <= Limit[i]
    BY DEF BucketsCount
  <2>1. Passed(i, w) = {}
    BY RulesAssumption DEF Passed, RateInit
  <2>2. count[i][w] = 0 /\ Limit[i] \in Nat
    BY RulesAssumption DEF RateInit
  <2>3. QED
    BY <2>1, <2>2, FS_EmptySet
<1>4. RejectedFindFull
  BY DEF RateInit, RejectedFindFull
<1>5. QED
  BY <1>1, <1>2, <1>3, <1>4 DEF RateInv

\* Counters only grow, the sets of let-through requests stay: enough for every step but a count
\* that lets its request through.
LEMMA GrowingKeepsBuckets ==
  ASSUME RateInv, RateTypeOK',
         \A i \in 1..Rules, w \in Times : count'[i][w] >= count[i][w],
         \A i \in 1..Rules, w \in Times : Passed(i, w)' = Passed(i, w)
  PROVE  BucketsCount'
<1> SUFFICES ASSUME NEW i \in 1..Rules, NEW w \in Times
             PROVE  /\ IsFiniteSet(Passed(i, w)')
                    /\ Cardinality(Passed(i, w)') <= count'[i][w]
                    /\ Cardinality(Passed(i, w)') <= Limit[i]
  BY DEF BucketsCount
<1>1. Passed(i, w)' = Passed(i, w) /\ count'[i][w] >= count[i][w]
  OBVIOUS
<1>2. /\ IsFiniteSet(Passed(i, w))
      /\ Cardinality(Passed(i, w)) <= count[i][w]
      /\ Cardinality(Passed(i, w)) <= Limit[i]
  BY DEF RateInv, BucketsCount
<1>3. count[i][w] \in Nat /\ count'[i][w] \in Nat /\ Cardinality(Passed(i, w)) \in Nat
  BY <1>2, FS_CardinalityType DEF RateInv, RateTypeOK
<1>4. QED
  BY <1>1, <1>2, <1>3

\* The sets of let-through requests depend on when they were taken up and on the rules they passed.
LEMMA SamePassed ==
  ASSUME RateInv, NEW i \in 1..Rules, NEW w \in Times,
         \A r \in Requests : \/ gate'[r].passed = gate[r].passed /\ gate'[r].at = gate[r].at
                             \/ gate'[r].passed = 0 /\ gate[r].passed = 0
  PROVE  Passed(i, w)' = Passed(i, w)
BY RulesAssumption DEF Passed, WindowOf

\* A request that arrives reads a clock and has passed nothing.
LEMMA ArriveKeeps ==
  ASSUME RateInv, NEW r \in Requests, Arrive(r)
  PROVE  RateInv'
<1> PICK now \in Times :
      gate' = [gate EXCEPT ![r] = [at |-> now, passed |-> 0,
                                   verdict |-> IF Rules = 0 THEN "admitted" ELSE "checking"]]
  BY DEF Arrive
<1>1. RateTypeOK'
  BY RulesAssumption DEF RateInv, RateTypeOK, Arrive, Verdicts
<1>2. GateOrder'
  BY RulesAssumption DEF RateInv, RateTypeOK, GateOrder, Arrive
<1>3. gate[r].passed = 0 /\ gate'[r].passed = 0 /\ \A x \in Requests \ {r} : gate'[x] = gate[x]
  BY DEF RateInv, RateTypeOK, GateOrder, Arrive
<1>4. \A i \in 1..Rules, w \in Times : Passed(i, w)' = Passed(i, w)
  <2> SUFFICES ASSUME NEW i \in 1..Rules, NEW w \in Times PROVE Passed(i, w)' = Passed(i, w)
    OBVIOUS
  <2>1. QED
    BY <1>3, SamePassed
<1>5. BucketsCount'
  <2>1. count' = count /\ count \in [1..Rules -> [Times -> Nat]]
    BY DEF Arrive, RateInv, RateTypeOK
  <2>2. \A i \in 1..Rules, w \in Times : count'[i][w] >= count[i][w]
    BY <2>1
  <2>3. QED
    BY <1>1, <1>4, <2>2, GrowingKeepsBuckets
<1>6. RejectedFindFull'
  BY <1>3 DEF RateInv, RateTypeOK, RejectedFindFull, Arrive, WindowOf
<1>7. QED
  BY <1>1, <1>2, <1>5, <1>6 DEF RateInv

\* What one statement does to the counters.
LEMMA CountedGrows ==
  ASSUME RateInv, NEW i \in 1..Rules, NEW w \in Times, count' = Counted(i, w)
  PROVE  /\ count' \in [1..Rules -> [Times -> Nat]]
         /\ count'[i][w] = count[i][w] + 1
         /\ \A j \in 1..Rules, v \in Times : count'[j][v] >= count[j][v]
<1>1. count \in [1..Rules -> [Times -> Nat]]
  BY DEF RateInv, RateTypeOK
<1>2. PICK row \in [Times -> Nat] : row = count[i]
  BY <1>1
<1>3. PICK n \in Nat : n = row[w] + 1
  BY <1>2
<1>4. count' = [count EXCEPT ![i] = [row EXCEPT ![w] = n]]
  BY <1>1, <1>2, <1>3 DEF Counted
<1>5. count' \in [1..Rules -> [Times -> Nat]] /\ count'[i][w] = count[i][w] + 1
  BY <1>1, <1>2, <1>3, <1>4
<1>6. ASSUME NEW j \in 1..Rules, NEW v \in Times PROVE count'[j][v] >= count[j][v]
  <2>1. count[j][v] \in Nat
    BY <1>1
  <2>2. count'[j][v] = IF j = i /\ v = w THEN n ELSE count[j][v]
    BY <1>1, <1>2, <1>4
  <2>3. QED
    BY <1>2, <1>3, <2>1, <2>2
<1>7. QED
  BY <1>5, <1>6

\* enforceRule: one upsert raises the counter, and its result says whether the request may go on.
LEMMA CountKeeps ==
  ASSUME RateInv, NEW r \in Requests, Count(r)
  PROVE  RateInv'
<1>1. PICK i \in 1..Rules : gate[r].verdict = "checking" /\ gate[r].passed = i - 1 /\ i = gate[r].passed + 1
  <2>1. gate[r].verdict = "checking"
    BY DEF Count
  <2>2. gate[r].passed \in 0..Rules /\ gate[r].passed < Rules
    BY <2>1 DEF RateInv, RateTypeOK, GateOrder
  <2>3. gate[r].passed + 1 \in 1..Rules /\ gate[r].passed = (gate[r].passed + 1) - 1
    BY <2>2, RulesAssumption
  <2>4. QED
    BY <2>1, <2>3
<1>2. PICK w \in Times : w = WindowOf(i, r)
  BY <1>1, WindowType DEF RateInv
<1>3. /\ count' = Counted(i, w)
      /\ gate' = [gate EXCEPT ![r] =
           IF count'[i][w] <= Limit[i]
           THEN [@ EXCEPT !.passed = i, !.verdict = IF i = Rules THEN "admitted" ELSE "checking"]
           ELSE [@ EXCEPT !.verdict = "rejected"]]
  BY <1>1, <1>2 DEF Count
<1>4. /\ count' \in [1..Rules -> [Times -> Nat]]
      /\ count'[i][w] = count[i][w] + 1
      /\ \A j \in 1..Rules, v \in Times : count'[j][v] >= count[j][v]
  BY <1>1, <1>2, <1>3, CountedGrows
<1>5. /\ \A x \in Requests \ {r} : gate'[x] = gate[x]
      /\ gate'[r].at = gate[r].at
      /\ IF count'[i][w] <= Limit[i]
         THEN /\ gate'[r].passed = i
              /\ gate'[r].verdict = IF i = Rules THEN "admitted" ELSE "checking"
         ELSE gate'[r].passed = gate[r].passed /\ gate'[r].verdict = "rejected"
  BY <1>3 DEF RateInv, RateTypeOK
<1>6. RateTypeOK'
  <2>1. gate' \in [Requests -> [at : Times, passed : 0..Rules, verdict : Verdicts]]
    <3>1. gate'[r] \in [at : Times, passed : 0..Rules, verdict : Verdicts]
      <4>1. gate[r] \in [at : Times, passed : 0..Rules, verdict : Verdicts]
        BY DEF RateInv, RateTypeOK
      <4>2. CASE count'[i][w] <= Limit[i]
        <5>1. gate'[r] = [gate[r] EXCEPT !.passed = i,
                                         !.verdict = IF i = Rules THEN "admitted" ELSE "checking"]
          BY <1>3, <4>2 DEF RateInv, RateTypeOK
        <5>2. i \in 0..Rules
          BY <1>1, RulesAssumption
        <5>3. QED
          BY <4>1, <5>1, <5>2 DEF Verdicts
      <4>3. CASE ~(count'[i][w] <= Limit[i])
        <5>1. gate'[r] = [gate[r] EXCEPT !.verdict = "rejected"]
          BY <1>3, <4>3 DEF RateInv, RateTypeOK
        <5>2. QED
          BY <4>1, <5>1 DEF Verdicts
      <4>4. QED
        BY <4>2, <4>3
    <3>2. QED
      BY <1>3, <3>1 DEF RateInv, RateTypeOK
  <2>2. QED
    BY <1>3, <1>4, <2>1 DEF RateInv, RateTypeOK
<1>7. GateOrder'
  BY <1>1, <1>5, RulesAssumption DEF RateInv, GateOrder
<1>8. BucketsCount'
  <2>1. CASE count'[i][w] <= Limit[i]
    <3>1. /\ \A x \in Requests \ {r} : gate'[x] = gate[x]
          /\ gate'[r].at = gate[r].at /\ gate'[r].passed = i
      BY <1>5, <2>1
    <3>2. Passed(i, w)' = Passed(i, w) \cup {r} /\ r \notin Passed(i, w)
      <4>1. r \notin Passed(i, w) /\ gate[r].at \div Window[i] = w
        <5>1. gate[r].passed < i
          BY <1>1 DEF RateInv, RateTypeOK
        <5>2. ~(gate[r].passed >= i)
          BY <1>1, <5>1 DEF RateInv, RateTypeOK
        <5>3. gate[r].at \div Window[i] = w
          BY <1>2 DEF WindowOf
        <5>4. QED
          BY <5>2, <5>3 DEF Passed
      <4>2. \A x \in Requests \ {r} : x \in Passed(i, w)' <=> x \in Passed(i, w)
        BY <3>1 DEF Passed, WindowOf
      <4>3. r \in Passed(i, w)'
        BY <1>1, <3>1, <4>1 DEF Passed, WindowOf
      <4>4. QED
        BY <4>1, <4>2, <4>3 DEF Passed
    <3>3. \A j \in 1..Rules, v \in Times : j # i \/ v # w => Passed(j, v)' = Passed(j, v)
      <4> SUFFICES ASSUME NEW j \in 1..Rules, NEW v \in Times, j # i \/ v # w
                   PROVE  Passed(j, v)' = Passed(j, v)
        OBVIOUS
      <4>1. \A x \in Requests \ {r} : x \in Passed(j, v)' <=> x \in Passed(j, v)
        BY <3>1 DEF Passed, WindowOf
      <4>2. r \in Passed(j, v)' <=> r \in Passed(j, v)
        <5>1. CASE j = i
          BY <1>1, <1>2, <3>1, <5>1 DEF Passed, WindowOf
        <5>2. CASE j # i
          BY <1>1, <3>1, <5>2 DEF Passed, WindowOf
        <5>3. QED
          BY <5>1, <5>2
      <4>3. QED
        BY <4>1, <4>2 DEF Passed
    <3>4. /\ IsFiniteSet(Passed(i, w))
          /\ Cardinality(Passed(i, w)) <= count[i][w]
      BY <1>1, <1>2 DEF RateInv, BucketsCount
    <3>5. /\ IsFiniteSet(Passed(i, w)')
          /\ Cardinality(Passed(i, w)') = Cardinality(Passed(i, w)) + 1
      BY <3>2, <3>4, FS_AddElement
    <3>6. Cardinality(Passed(i, w)) \in Nat /\ count[i][w] \in Nat /\ Limit[i] \in Nat
      BY <1>1, <1>2, <3>4, FS_CardinalityType, RulesAssumption DEF RateInv, RateTypeOK
    <3>7. Cardinality(Passed(i, w)') <= count'[i][w] /\ Cardinality(Passed(i, w)') <= Limit[i]
      BY <1>4, <2>1, <3>4, <3>5, <3>6
    <3> SUFFICES ASSUME NEW j \in 1..Rules, NEW v \in Times
                 PROVE  /\ IsFiniteSet(Passed(j, v)')
                        /\ Cardinality(Passed(j, v)') <= count'[j][v]
                        /\ Cardinality(Passed(j, v)') <= Limit[j]
      BY DEF BucketsCount
    <3>8. CASE j = i /\ v = w
      <4>1. Passed(j, v)' = Passed(i, w)' /\ count'[j][v] = count'[i][w] /\ Limit[j] = Limit[i]
        BY <3>8
      <4>2. QED
        BY <3>5, <3>7, <3>8, <4>1
    <3>9. CASE j # i \/ v # w
      <4>1. Passed(j, v)' = Passed(j, v)
        BY <3>3, <3>9
      <4>2. /\ IsFiniteSet(Passed(j, v))
            /\ Cardinality(Passed(j, v)) <= count[j][v]
            /\ Cardinality(Passed(j, v)) <= Limit[j]
        BY DEF RateInv, BucketsCount
      <4>3. /\ Cardinality(Passed(j, v)) \in Nat
            /\ count[j][v] \in Nat /\ count'[j][v] \in Nat /\ count'[j][v] >= count[j][v]
        BY <1>4, <4>2, FS_CardinalityType DEF RateInv, RateTypeOK
      <4>4. QED
        BY <4>1, <4>2, <4>3
    <3>10. QED
      BY <3>8, <3>9
  <2>2. CASE ~(count'[i][w] <= Limit[i])
    <3>1. \A x \in Requests : gate'[x].passed = gate[x].passed /\ gate'[x].at = gate[x].at
      BY <1>5, <2>2
    <3>2. \A j \in 1..Rules, v \in Times : Passed(j, v)' = Passed(j, v)
      BY <3>1, SamePassed
    <3>3. QED
      BY <1>4, <1>6, <3>2, GrowingKeepsBuckets
  <2>3. QED
    BY <2>1, <2>2
<1>9. RejectedFindFull'
  <2> SUFFICES ASSUME NEW x \in Requests, gate'[x].verdict = "rejected"
               PROVE  LET k == gate'[x].passed + 1 IN count'[k][gate'[x].at \div Window[k]] > Limit[k]
    BY DEF RejectedFindFull, WindowOf
  <2>1. CASE x = r
    <3>1. ~(count'[i][w] <= Limit[i])
      BY <1>5, <2>1
    <3>2. gate'[x].passed + 1 = i /\ gate'[x].at \div Window[i] = w
      BY <1>1, <1>2, <1>5, <2>1, <3>1 DEF WindowOf
    <3>3. count'[i][w] \in Nat /\ Limit[i] \in Nat
      BY <1>1, <1>2, <1>4, RulesAssumption
    <3>4. QED
      BY <3>1, <3>2, <3>3
  <2>2. CASE x # r
    <3> DEFINE k == gate[x].passed + 1
    <3>1. gate'[x] = gate[x]
      BY <1>5, <2>2
    <3>2. k \in 1..Rules /\ WindowOf(k, x) \in Times
      <4>1. k \in 1..Rules
        BY <3>1, RulesAssumption DEF RateInv, RateTypeOK, GateOrder
      <4>2. QED
        BY <4>1, WindowType DEF RateInv
    <3>3. count[k][WindowOf(k, x)] > Limit[k]
      BY <3>1 DEF RateInv, RejectedFindFull
    <3>4. /\ count'[k][WindowOf(k, x)] >= count[k][WindowOf(k, x)]
          /\ count[k][WindowOf(k, x)] \in Nat /\ count'[k][WindowOf(k, x)] \in Nat /\ Limit[k] \in Nat
      BY <1>4, <3>2, RulesAssumption DEF RateInv, RateTypeOK
    <3>5. count'[k][WindowOf(k, x)] > Limit[k]
      BY <3>3, <3>4
    <3>6. QED
      BY <3>1, <3>5 DEF WindowOf
  <2>3. QED
    BY <2>1, <2>2
<1>10. QED
  BY <1>6, <1>7, <1>8, <1>9 DEF RateInv

\* A failing upsert ends the check and counts nothing.
LEMMA CountFailsKeeps ==
  ASSUME RateInv, NEW r \in Requests, CountFails(r)
  PROVE  RateInv'
<1>1. RateTypeOK'
  BY DEF RateInv, RateTypeOK, CountFails, Verdicts
<1>2. /\ \A x \in Requests \ {r} : gate'[x] = gate[x]
      /\ gate'[r].passed = gate[r].passed /\ gate'[r].at = gate[r].at
      /\ gate'[r].verdict = "failed" /\ count' = count
  BY DEF RateInv, RateTypeOK, CountFails
<1>3. GateOrder'
  BY <1>2 DEF RateInv, GateOrder
<1>4. BucketsCount'
  <2>1. \A i \in 1..Rules, w \in Times : Passed(i, w)' = Passed(i, w)
    BY <1>2, SamePassed
  <2>2. \A i \in 1..Rules, w \in Times : count'[i][w] >= count[i][w]
    BY <1>2 DEF RateInv, RateTypeOK
  <2>3. QED
    BY <1>1, <2>1, <2>2, GrowingKeepsBuckets
<1>5. RejectedFindFull'
  BY <1>2 DEF RateInv, RejectedFindFull, WindowOf
<1>6. QED
  BY <1>1, <1>3, <1>4, <1>5 DEF RateInv

\* Requests of other routes and users only add to a bucket.
LEMMA ElsewhereKeeps ==
  ASSUME RateInv, NEW i \in 1..Rules, Elsewhere(i)
  PROVE  RateInv'
<1>1. PICK w \in Times : count' = Counted(i, w)
  BY TimeWindow DEF Elsewhere
<1>2. count' = Counted(i, w) /\ gate' = gate
  BY <1>1 DEF Elsewhere
<1>3. /\ count' \in [1..Rules -> [Times -> Nat]]
      /\ \A j \in 1..Rules, v \in Times : count'[j][v] >= count[j][v]
  BY <1>1, <1>2, CountedGrows
<1>4. RateTypeOK'
  BY <1>2, <1>3 DEF RateInv, RateTypeOK
<1>5. GateOrder'
  BY <1>2 DEF RateInv, GateOrder
<1>6. BucketsCount'
  <2>1. \A j \in 1..Rules, v \in Times : Passed(j, v)' = Passed(j, v)
    BY <1>2 DEF Passed, WindowOf
  <2>2. QED
    BY <1>3, <1>4, <2>1, GrowingKeepsBuckets
<1>7. RejectedFindFull'
  <2> SUFFICES ASSUME NEW x \in Requests, gate[x].verdict = "rejected"
               PROVE  LET k == gate[x].passed + 1 IN count'[k][WindowOf(k, x)] > Limit[k]
    BY <1>2 DEF RejectedFindFull, WindowOf
  <2> DEFINE k == gate[x].passed + 1
  <2>1. k \in 1..Rules
    BY RulesAssumption DEF RateInv, RateTypeOK, GateOrder
  <2>2. WindowOf(k, x) \in Times
    BY <2>1, WindowType DEF RateInv
  <2>3. count[k][WindowOf(k, x)] > Limit[k]
    BY DEF RateInv, RejectedFindFull
  <2>4. /\ count'[k][WindowOf(k, x)] >= count[k][WindowOf(k, x)]
        /\ count[k][WindowOf(k, x)] \in Nat /\ count'[k][WindowOf(k, x)] \in Nat /\ Limit[k] \in Nat
    BY <1>3, <2>1, <2>2, RulesAssumption DEF RateInv, RateTypeOK
  <2>5. QED
    BY <2>3, <2>4
<1>8. QED
  BY <1>4, <1>5, <1>6, <1>7 DEF RateInv

\* The steps of a search leave the counters alone.
LEMMA StillRate ==
  ASSUME RateInv, UNCHANGED rateVars
  PROVE  RateInv'
BY DEF RateInv, RateTypeOK, GateOrder, BucketsCount, RejectedFindFull, Passed, WindowOf, rateVars
-----------------------------------------------------------------------------
(***************************************************************************)
(* The searches                                                            *)
(***************************************************************************)

\* A step of request r that was admitted, or has begun, and leaves the counters alone.
LEMMA SearchKeeps ==
  ASSUME SearchAdmitted, NEW r \in Requests, NEW s, search' = [search EXCEPT ![r] = s],
         UNCHANGED rateVars, r \notin Anonymous => gate[r].verdict = "admitted"
  PROVE  SearchAdmitted'
BY DEF SearchAdmitted, rateVars

\* Every step keeps what is known of the counters and of who passed them.
LEMMA AdmittedKeeps ==
  ASSUME GateInv, \A r \in Requests : search[r] \in SearchTypes, [Next]_vars
  PROVE  GateInv'
<1> SUFFICES GateInv'
  OBVIOUS
<1>1. ASSUME NEW r \in Requests, Gate(r) PROVE GateInv'
  <2>1. RateInv'
    BY <1>1, ArriveKeeps, CountKeeps, CountFailsKeeps DEF GateInv, Gate
  <2>2. /\ \A x \in Requests \ {r} : gate'[x] = gate[x]
        /\ gate[r].verdict # "admitted"
        /\ search' = search
    <3>1. CASE Arrive(r)
      BY <1>1, <3>1 DEF GateInv, RateInv, RateTypeOK, Gate, Arrive
    <3>2. CASE Count(r)
      BY <1>1, <3>2 DEF GateInv, RateInv, RateTypeOK, Gate, Count
    <3>3. CASE CountFails(r)
      BY <1>1, <3>3 DEF GateInv, RateInv, RateTypeOK, Gate, CountFails
    <3>4. QED
      BY <1>1, <3>1, <3>2, <3>3 DEF Gate
  <2>3. SearchAdmitted'
    BY <2>2 DEF GateInv, SearchAdmitted
  <2>4. QED
    BY <2>1, <2>3 DEF GateInv
<1>2. ASSUME NEW r \in Requests, NEW s, search' = [search EXCEPT ![r] = s], UNCHANGED rateVars,
             Admitted(r) \/ search[r].pc # "new"
      PROVE  GateInv'
  <2>1. r \notin Anonymous => gate[r].verdict = "admitted"
    BY <1>2 DEF Admitted, GateInv, SearchAdmitted
  <2>2. QED
    BY <1>2, <2>1, StillRate, SearchKeeps DEF GateInv
<1>3. ASSUME NEW r \in Requests, Plan(r) PROVE GateInv'
  BY <1>2, <1>3 DEF Plan, Set
<1>4. ASSUME NEW r \in Requests, Search(r) PROVE GateInv'
  BY <1>2, <1>4 DEF Search, Set
<1>5. ASSUME NEW r \in Requests, Look(r) PROVE GateInv'
  BY <1>2, <1>5 DEF Look, Set
<1>6. ASSUME NEW r \in Requests, Insert(r) PROVE GateInv'
  BY <1>2, <1>6 DEF Insert, Set
<1>7. ASSUME NEW r \in Requests, Finish(r) PROVE GateInv'
  BY <1>2, <1>7 DEF Finish, Set
<1>8. ASSUME NEW r \in Requests, Break(r) PROVE GateInv'
  BY <1>2, <1>8 DEF Break, Set
<1>9. ASSUME UNCHANGED <<rateVars, search>> PROVE GateInv'
  BY <1>9, StillRate DEF GateInv, SearchAdmitted, rateVars
<1>10. ASSUME NEW address \in Values("email"), CreateVendor(address) PROVE GateInv'
  BY <1>9, <1>10 DEF CreateVendor
<1>11. ASSUME NEW i, NEW k, NEW value, EditListing(i, k, value) PROVE GateInv'
  <2>1. search' = [r \in Requests |-> [search[r] EXCEPT !.apart = @ \ {i}]]
    BY <1>11 DEF EditListing
  <2>2. \A r \in Requests : search'[r].pc = search[r].pc
    BY <2>1 DEF SearchTypes
  <2>3. RateInv' /\ gate' = gate
    BY <1>11, StillRate DEF EditListing, GateInv, rateVars
  <2>4. QED
    BY <2>1, <2>2, <2>3 DEF GateInv, SearchAdmitted
<1>12. ASSUME NEW i \in 1..Rules, Elsewhere(i), UNCHANGED <<rowVars, search>> PROVE GateInv'
  <2>1. RateInv' /\ gate' = gate
    BY <1>12, ElsewhereKeeps DEF GateInv, Elsewhere
  <2>2. QED
    BY <1>12, <2>1 DEF GateInv, SearchAdmitted
<1>13. CASE UNCHANGED vars
  BY <1>9, <1>13 DEF vars
<1>14. QED
  BY <1>1, <1>3, <1>4, <1>5, <1>6, <1>7, <1>8, <1>10, <1>11, <1>12, <1>13 DEF Next
-----------------------------------------------------------------------------
(***************************************************************************)
(* Numbers and sequences                                                   *)
(***************************************************************************)

\* Every set of natural numbers that has a member has a least one.
LEMMA LeastNumber ==
  ASSUME NEW S, S \subseteq Nat, S # {}
  PROVE  \E m \in S : \A k \in S : m <= k
<1>1. IsWellFoundedOn(OpToRel(<, Nat), Nat)
  BY NatLessThanWellFounded
<1>2. PICK m \in S : \A k \in S : ~(<<k, m>> \in OpToRel(<, Nat))
  BY <1>1, WFMin
<1>3. ASSUME NEW k \in S, k < m PROVE FALSE
  <2>1. <<k, m>> \in OpToRel(<, Nat)
    BY <1>3 DEF OpToRel
  <2>2. QED
    BY <1>2, <2>1
<1>4. QED
  BY <1>3

\* Induction up to N, for the members of a set.
LEMMA SetInduction ==
  ASSUME NEW N \in Nat, NEW S, 0 \in S, \A n \in 0 .. N - 1 : n \in S => n + 1 \in S
  PROVE  \A n \in 0 .. N : n \in S
<1> DEFINE Bad == {n \in 0 .. N : n \notin S}
<1> SUFFICES ASSUME Bad # {} PROVE FALSE
  OBVIOUS
<1>1. Bad \subseteq Nat
  OBVIOUS
<1>2. PICK m \in Bad : \A k \in Bad : m <= k
  BY <1>1, LeastNumber
<1>3. m # 0 /\ m - 1 \in 0 .. N - 1 /\ m - 1 \notin Bad
  BY <1>2
<1>4. QED
  BY <1>2, <1>3

\* What the members of a sequence are, of its head and of its tail.
LEMMA Members ==
  ASSUME NEW S, NEW s \in Seq(S)
  PROVE  /\ ToSet(s) \subseteq S
         /\ s = <<>> <=> ToSet(s) = {}
         /\ \A n \in 1 .. Len(s) : s[n] \in ToSet(s)
         /\ \A x \in ToSet(s) : \E n \in 1 .. Len(s) : s[n] = x
         /\ s # <<>> => /\ Head(s) \in S /\ Tail(s) \in Seq(S)
                        /\ ToSet(s) = {Head(s)} \cup ToSet(Tail(s))
<1>1. /\ Len(s) \in Nat /\ DOMAIN s = 1 .. Len(s) /\ \A n \in 1 .. Len(s) : s[n] \in S
      /\ s = <<>> <=> Len(s) = 0
  BY LenProperties, ElementOfSeq, EmptySeq
<1>2. ASSUME s # <<>>
      PROVE  ToSet(s) = {Head(s)} \cup ToSet(Tail(s))
  <2>1. /\ Head(s) = s[1] /\ Tail(s) \in Seq(S) /\ Len(Tail(s)) = Len(s) - 1
        /\ \A i \in 1 .. Len(Tail(s)) : Tail(s)[i] = s[i + 1]
    BY <1>2, HeadTailProperties
  <2>2. DOMAIN Tail(s) = 1 .. Len(s) - 1 /\ Len(s) \in Nat \ {0}
    BY <1>1, <1>2, <2>1, LenProperties
  <2>3. ASSUME NEW x \in ToSet(s) PROVE x \in {Head(s)} \cup ToSet(Tail(s))
    <3>1. PICK n \in 1 .. Len(s) : x = s[n]
      BY <1>1 DEF ToSet
    <3>2. CASE n = 1
      BY <2>1, <3>1, <3>2
    <3>3. CASE n # 1
      <4>1. n - 1 \in DOMAIN Tail(s) /\ Tail(s)[n - 1] = s[n]
        BY <2>1, <2>2, <3>1, <3>3
      <4>2. QED
        BY <3>1, <4>1 DEF ToSet
    <3>4. QED
      BY <3>2, <3>3
  <2>4. ASSUME NEW x \in {Head(s)} \cup ToSet(Tail(s)) PROVE x \in ToSet(s)
    <3>1. CASE x = Head(s)
      BY <1>1, <2>1, <2>2, <3>1 DEF ToSet
    <3>2. CASE x \in ToSet(Tail(s))
      <4>1. PICK n \in 1 .. Len(s) - 1 : x = Tail(s)[n]
        BY <2>2, <3>2 DEF ToSet
      <4>2. n + 1 \in DOMAIN s /\ x = s[n + 1]
        BY <1>1, <2>1, <2>2, <4>1
      <4>3. QED
        BY <4>2 DEF ToSet
    <3>3. QED
      BY <2>4, <3>1, <3>2
  <2>5. QED
    BY <2>3, <2>4
<1>3. s # <<>> => Head(s) \in S /\ Tail(s) \in Seq(S)
  BY HeadTailProperties
<1>4. /\ ToSet(s) \subseteq S
      /\ \A n \in 1 .. Len(s) : s[n] \in ToSet(s)
      /\ \A x \in ToSet(s) : \E n \in 1 .. Len(s) : s[n] = x
  BY <1>1 DEF ToSet
<1>5. s = <<>> <=> ToSet(s) = {}
  <2>1. ASSUME s # <<>> PROVE ToSet(s) # {}
    BY <1>2, <2>1
  <2>2. ASSUME s = <<>> PROVE ToSet(s) = {}
    BY <1>1, <1>4, <2>2
  <2>3. QED
    BY <2>1, <2>2
<1>6. QED
  BY <1>2, <1>3, <1>4, <1>5

\* The members of a sequence with one more.
LEMMA AppendMembers ==
  ASSUME NEW S, NEW s \in Seq(S), NEW x \in S
  PROVE  /\ Append(s, x) \in Seq(S)
         /\ ToSet(Append(s, x)) = ToSet(s) \cup {x}
<1>1. /\ Append(s, x) \in Seq(S) /\ Len(Append(s, x)) = Len(s) + 1
      /\ \A i \in 1 .. Len(s) : Append(s, x)[i] = s[i]
      /\ Append(s, x)[Len(s) + 1] = x
  BY AppendProperties
<1>2. DOMAIN Append(s, x) = 1 .. Len(s) + 1 /\ DOMAIN s = 1 .. Len(s) /\ Len(s) \in Nat
  BY <1>1, LenProperties
<1>3. QED
  BY <1>1, <1>2 DEF ToSet

\* A sequence has finitely many members.
LEMMA FiniteMembers ==
  ASSUME NEW S, NEW s \in Seq(S)
  PROVE  IsFiniteSet(ToSet(s))
<1>1. Len(s) \in Nat /\ DOMAIN s = 1 .. Len(s)
  BY LenProperties
<1>2. IsFiniteSet(1 .. Len(s))
  BY <1>1, FS_Interval
<1>3. PICK f : f = [n \in 1 .. Len(s) |-> s[n]]
  OBVIOUS
<1>4. f \in Surjection(1 .. Len(s), ToSet(s))
  BY <1>1, <1>3 DEF Surjection, ToSet
<1>5. QED
  BY <1>2, <1>4, FS_Surjection
-----------------------------------------------------------------------------
(***************************************************************************)
(* Candidates and their keys                                               *)
(***************************************************************************)

\* A place of Foursquare has its fields.
LEMMA PlaceFields ==
  ASSUME NEW p \in Places
  PROVE  /\ p \in PlaceRecords
         /\ p.fsq \in Of("fsq") /\ p.email \in Of("email") /\ p.phone \in Of("phone")
         /\ p.weak \in Of("weak") /\ p.cats \in SUBSET AllCats
         /\ p.date \in Of("date") /\ p.place \in Of("place")
BY ResultsAssumption DEF Of, AllCats

\* Dates and places in the list are compared as numbers.
LEMMA DatesAreNumbers == Of("date") \subseteq Nat /\ Of("place") \subseteq Nat
BY ResultsAssumption DEF Of, PlaceRecords

\* A normalized place is a candidate with the place's keys.
LEMMA CandidateOfPlace ==
  ASSUME NEW p \in Places, NEW rank \in Nat
  PROVE  Candidate(p, rank) \in Cands /\ Like(Candidate(p, rank), p)
<1>1. Candidate(p, rank) \in Cands
  BY PlaceFields DEF Candidate, Cands
<1>2. Like(Candidate(p, rank), p)
  BY DEF Candidate, Like, StableKeys
<1>3. QED
  BY <1>1, <1>2

\* What sameCandidate says of a record it says of every record with its keys.
LEMMA LikeSame ==
  ASSUME NEW a, NEW b, Like(a, b)
  PROVE  /\ Like(b, a)
         /\ \A x : SameCandidate(a, x) <=> SameCandidate(b, x)
         /\ \A x : SameCandidate(x, a) <=> SameCandidate(x, b)
         /\ \A x : Like(b, x) => Like(a, x)
<1>1. Keyless(a) <=> Keyless(b)
  BY DEF Like, Keyless
<1>2. \A k \in Keys : a[k] = b[k]
  BY DEF Like, Keys
<1>3. a.weak = b.weak
  BY <1>2 DEF Keys
<1>4. QED
  BY <1>1, <1>2, <1>3 DEF Like, SameCandidate, Keys

\* sameCandidate does not depend on the order of its arguments.
LEMMA SameIsSymmetric ==
  ASSUME NEW a, NEW b, SameCandidate(a, b)
  PROVE  SameCandidate(b, a)
BY DEF SameCandidate

\* A search listing is looked up by each key of its own, and by no other (findExistingSearchListing).
LEMMA LookupsAreKeys ==
  ASSUME NEW c
  PROVE  /\ Lookups(c) \in Seq(Keys)
         /\ \A k \in ToSet(Lookups(c)) : c[k] # None /\ (k = "weak" => Keyless(c))
         /\ \A k \in StableKeys : c[k] # None => k \in ToSet(Lookups(c))
         /\ Keyless(c) /\ c.weak # None => "weak" \in ToSet(Lookups(c))
<1>1. \A k \in Keys : Stage(c, k) \in Seq(Keys) /\ ToSet(Stage(c, k)) = IF c[k] # None THEN {k} ELSE {}
  BY DEF Stage, ToSet
<1>2. ASSUME NEW s \in Seq(Keys), NEW t \in Seq(Keys)
      PROVE  s \o t \in Seq(Keys) /\ ToSet(s \o t) = ToSet(s) \cup ToSet(t)
  <2>1. /\ s \o t \in Seq(Keys) /\ Len(s \o t) = Len(s) + Len(t)
        /\ \A i \in 1 .. Len(s) + Len(t) : (s \o t)[i] = IF i <= Len(s) THEN s[i] ELSE t[i - Len(s)]
    BY ConcatProperties
  <2>2. /\ Len(s) \in Nat /\ Len(t) \in Nat
        /\ DOMAIN s = 1 .. Len(s) /\ DOMAIN t = 1 .. Len(t) /\ DOMAIN (s \o t) = 1 .. Len(s) + Len(t)
    BY <2>1, LenProperties
  <2>3. ASSUME NEW x \in ToSet(s \o t) PROVE x \in ToSet(s) \cup ToSet(t)
    <3>1. PICK i \in 1 .. Len(s) + Len(t) : x = (s \o t)[i]
      BY <2>2 DEF ToSet
    <3>2. CASE i <= Len(s)
      BY <2>1, <2>2, <3>1, <3>2 DEF ToSet
    <3>3. CASE ~(i <= Len(s))
      <4>1. i - Len(s) \in 1 .. Len(t) /\ x = t[i - Len(s)]
        BY <2>1, <2>2, <3>1, <3>3
      <4>2. QED
        BY <2>2, <4>1 DEF ToSet
    <3>4. QED
      BY <3>2, <3>3
  <2>4. ASSUME NEW x \in ToSet(s) PROVE x \in ToSet(s \o t)
    <3>1. PICK i \in 1 .. Len(s) : x = s[i]
      BY <2>2 DEF ToSet
    <3>2. i \in DOMAIN (s \o t) /\ x = (s \o t)[i]
      BY <2>1, <2>2, <3>1
    <3>3. QED
      BY <3>2 DEF ToSet
  <2>5. ASSUME NEW x \in ToSet(t) PROVE x \in ToSet(s \o t)
    <3>1. PICK i \in 1 .. Len(t) : x = t[i]
      BY <2>2 DEF ToSet
    <3>2. i + Len(s) \in DOMAIN (s \o t) /\ x = (s \o t)[i + Len(s)]
      BY <2>1, <2>2, <3>1
    <3>3. QED
      BY <3>2 DEF ToSet
  <2>6. QED
    BY <2>1, <2>3, <2>4, <2>5
<1>3. "fsq" \in Keys /\ "email" \in Keys /\ "phone" \in Keys /\ "weak" \in Keys
  BY DEF Keys, StableKeys
<1>4. CASE Keyless(c)
  <2>1. Lookups(c) = Stage(c, "weak")
    BY <1>4 DEF Lookups
  <2>2. \A k \in StableKeys : c[k] = None
    BY <1>4 DEF Keyless
  <2>3. QED
    BY <1>1, <1>3, <1>4, <2>1, <2>2
<1>5. CASE ~Keyless(c)
  <2> DEFINE a == Stage(c, "fsq")
             b == Stage(c, "email")
             d == Stage(c, "phone")
  <2>1. Lookups(c) = (a \o b) \o d
    BY <1>5 DEF Lookups
  <2>2. a \in Seq(Keys) /\ b \in Seq(Keys) /\ d \in Seq(Keys)
    BY <1>1, <1>3
  <2>3. a \o b \in Seq(Keys) /\ ToSet(a \o b) = ToSet(a) \cup ToSet(b)
    BY <1>2, <2>2
  <2>4. Lookups(c) \in Seq(Keys) /\ ToSet(Lookups(c)) = ToSet(a) \cup ToSet(b) \cup ToSet(d)
    BY <1>2, <2>1, <2>2, <2>3
  <2>5. ToSet(Lookups(c)) = {k \in StableKeys : c[k] # None}
    BY <1>1, <1>3, <2>4 DEF StableKeys
  <2>6. "weak" \notin StableKeys
    BY DEF StableKeys
  <2>7. QED
    BY <1>5, <2>4, <2>5, <2>6
<1>6. QED
  BY <1>4, <1>5
-----------------------------------------------------------------------------
(***************************************************************************)
(* Merging the places of one search                                        *)
(***************************************************************************)

\* With a record, all of S that shares a key with it.
Closed(C, S) == \A a \in C, b \in S : SameCandidate(a, b) => b \in C

\* One of X has the keys of one of C.
Stands(X, C) == \E q \in C, x \in X : Like(x, q)

\* What d, the candidates merged so far, says of the first n places of a search.
Deduped(d, res, n) ==
  /\ d \in Seq(Cands)
  /\ \A x \in ToSet(d) : \E p \in ToSet(res) : Like(x, p)
  /\ \A C \in SUBSET ToSet(res) : Closed(C, ToSet(res)) /\ (\E i \in 1 .. n : res[i] \in C) =>
       Stands(ToSet(d), C)

\* Of two candidates one is kept, with the categories of both.
LEMMA MergedCandidate ==
  ASSUME NEW a \in Cands, NEW b \in Cands, NEW m, m = [Prefer(a, b) EXCEPT !.cats = a.cats \cup b.cats]
  PROVE  m \in Cands /\ (Like(m, a) \/ Like(m, b))
<1>1. PICK x \in {a, b} : x = Prefer(a, b)
  BY DEF Prefer
<1>2. x \in Cands /\ a.cats \cup b.cats \in SUBSET AllCats
  BY DEF Cands
<1>3. m = [x EXCEPT !.cats = a.cats \cup b.cats]
  BY <1>1
<1>4. /\ m \in Cands
      /\ m.fsq = x.fsq /\ m.email = x.email /\ m.phone = x.phone /\ m.weak = x.weak
      /\ m.date = x.date /\ m.place = x.place
  BY <1>2, <1>3 DEF Cands
<1>5. Like(m, x)
  BY <1>4 DEF Like, StableKeys
<1>6. QED
  BY <1>1, <1>4, <1>5

\* A candidate is added to those merged so far, or merged with one of them that is the same.
LEMMA Merging ==
  ASSUME NEW d \in Seq(Cands), NEW c \in Cands
  PROVE  /\ Merge(d, c) \in Seq(Cands)
         /\ \/ ToSet(Merge(d, c)) = ToSet(d) \cup {c}
            \/ \E e \in ToSet(d), m \in ToSet(Merge(d, c)) :
                 /\ SameCandidate(e, c)
                 /\ Like(m, e) \/ Like(m, c)
                 /\ \A y \in ToSet(d) : y = e \/ y \in ToSet(Merge(d, c))
                 /\ \A y \in ToSet(Merge(d, c)) : y = m \/ y \in ToSet(d)
<1>1. CASE ~\E i \in 1 .. Len(d) : SameCandidate(d[i], c)
  <2>1. Merge(d, c) = Append(d, c)
    BY <1>1 DEF Merge
  <2>2. QED
    BY <2>1, AppendMembers
<1>2. CASE \E i \in 1 .. Len(d) : SameCandidate(d[i], c)
  <2> DEFINE Same == {n \in 1 .. Len(d) : SameCandidate(d[n], c)}
             First(n) == SameCandidate(d[n], c) /\ \A m \in 1 .. (n - 1) : ~SameCandidate(d[m], c)
  <2>1. Same \subseteq Nat /\ Same # {}
    BY <1>2
  <2>2. PICK k \in Same : \A n \in Same : k <= n
    BY <2>1, LeastNumber
  <2>3. Len(d) \in Nat
    BY LenProperties
  <2>4. k \in 1 .. Len(d) /\ First(k)
    BY <2>2, <2>3
  <2>5. PICK i : i = CHOOSE n \in 1 .. Len(d) : First(n)
    OBVIOUS
  <2>6. i \in 1 .. Len(d) /\ First(i)
    BY <2>4, <2>5
  <2>7. PICK m : m = [Prefer(d[i], c) EXCEPT !.cats = d[i].cats \cup c.cats]
    OBVIOUS
  <2>8. Merge(d, c) = [d EXCEPT ![i] = m]
    BY <1>2, <2>5, <2>7 DEF Merge
  <2>9. d[i] \in Cands /\ d[i] \in ToSet(d)
    BY <2>6, ElementOfSeq, Members
  <2>10. m \in Cands /\ (Like(m, d[i]) \/ Like(m, c))
    BY <2>7, <2>9, MergedCandidate
  <2>11. PICK t : t = Merge(d, c) /\ t = [d EXCEPT ![i] = m]
    BY <2>8
  <2>12. /\ t \in Seq(Cands) /\ m \in ToSet(t)
         /\ \A y \in ToSet(d) : y = d[i] \/ y \in ToSet(t)
         /\ \A y \in ToSet(t) : y = m \/ y \in ToSet(d)
    <3>1. i \in 1 .. Len(d) /\ m \in Cands /\ d \in Seq(Cands) /\ t = [d EXCEPT ![i] = m]
      BY <2>6, <2>10, <2>11
    <3> HIDE DEF First, Same
    <3>2. /\ t \in Seq(Cands) /\ Len(t) = Len(d)
          /\ \A j \in 1 .. Len(d) : t[j] = IF j = i THEN m ELSE d[j]
      BY <3>1, ExceptSeq
    <3>3. DOMAIN t = 1 .. Len(d) /\ DOMAIN d = 1 .. Len(d)
      BY <3>2, LenProperties
    <3>4. QED
      BY <3>1, <3>2, <3>3 DEF ToSet
  <2>13. QED
    BY <2>6, <2>9, <2>10, <2>11, <2>12
<1>3. QED
  BY <1>1, <1>2

\* One round of dedupeCandidates: every set closed under shared keys keeps a candidate.
LEMMA MergeKeeps ==
  ASSUME NEW res \in Seq(Places), NEW n \in 0 .. Len(res) - 1, NEW d, Deduped(d, res, n),
         NEW c \in Cands, Like(c, res[n + 1])
  PROVE  Deduped(Merge(d, c), res, n + 1)
<1> DEFINE p == res[n + 1]
<1>1. p \in ToSet(res) /\ Like(c, p)
  BY Members, LenProperties
<1>2. PICK t : t = Merge(d, c)
  OBVIOUS
<1>3. /\ t \in Seq(Cands)
      /\ \/ ToSet(t) = ToSet(d) \cup {c}
         \/ \E e \in ToSet(d), m \in ToSet(t) :
              /\ SameCandidate(e, c)
              /\ Like(m, e) \/ Like(m, c)
              /\ \A y \in ToSet(d) : y = e \/ y \in ToSet(t)
              /\ \A y \in ToSet(t) : y = m \/ y \in ToSet(d)
  BY <1>2, Merging DEF Deduped
<1> HIDE DEF p
<1>4. ASSUME NEW x \in ToSet(t) PROVE \E q \in ToSet(res) : Like(x, q)
  <2>1. \/ x \in ToSet(d) \/ x = c
        \/ \E e \in ToSet(d) : Like(x, e) \/ Like(x, c)
    BY <1>3
  <2>2. \A e \in ToSet(d) : \E q \in ToSet(res) : Like(e, q)
    BY DEF Deduped
  <2>3. QED
    BY <1>1, <2>1, <2>2, LikeSame
<1>5. ASSUME NEW C \in SUBSET ToSet(res), Closed(C, ToSet(res)), NEW i \in 1 .. n + 1, res[i] \in C
      PROVE  Stands(ToSet(t), C)
  <2>1. CASE ToSet(t) = ToSet(d) \cup {c}
    <3>1. CASE i \in 1 .. n
      <4>1. Stands(ToSet(d), C)
        BY <1>5, <3>1 DEF Deduped
      <4>2. QED
        BY <2>1, <4>1 DEF Stands
    <3>2. CASE i = n + 1
      BY <1>1, <1>5, <2>1, <3>2 DEF Stands, p
    <3>3. QED
      BY <3>1, <3>2
  <2>2. CASE \E e \in ToSet(d), m \in ToSet(t) :
               /\ SameCandidate(e, c)
               /\ Like(m, e) \/ Like(m, c)
               /\ \A y \in ToSet(d) : y = e \/ y \in ToSet(t)
    <3>1. PICK e \in ToSet(d), m \in ToSet(t) :
            /\ SameCandidate(e, c)
            /\ Like(m, e) \/ Like(m, c)
            /\ \A y \in ToSet(d) : y = e \/ y \in ToSet(t)
      BY <2>2
    <3>2. PICK q \in ToSet(res) : Like(e, q)
      BY DEF Deduped
    <3>3. SameCandidate(q, p) /\ SameCandidate(p, q)
      BY <1>1, <3>1, <3>2, LikeSame, SameIsSymmetric
    <3>4. p \in C <=> q \in C
      BY <1>1, <1>5, <3>2, <3>3 DEF Closed
    <3>5. CASE p \in C
      <4>1. Like(m, q) \/ Like(m, p)
        BY <1>1, <3>1, <3>2, LikeSame
      <4>2. QED
        BY <3>1, <3>4, <3>5, <4>1 DEF Stands
    <3>6. CASE p \notin C
      <4>1. i \in 1 .. n
        BY <1>5, <3>6 DEF p
      <4>2. PICK z \in C, y \in ToSet(d) : Like(y, z)
        BY <1>5, <4>1 DEF Deduped, Stands
      <4>3. CASE y = e
        <5>1. Like(q, e) /\ Like(e, z)
          BY <3>2, <4>2, <4>3, LikeSame
        <5>2. Like(q, z)
          BY <5>1, LikeSame
        <5>3. SameCandidate(z, p)
          BY <3>3, <5>2, LikeSame
        <5>4. p \in C
          BY <1>1, <1>5, <4>2, <5>3 DEF Closed
        <5>5. QED
          BY <3>6, <5>4
      <4>4. CASE y # e
        BY <3>1, <4>2, <4>4 DEF Stands
      <4>5. QED
        BY <4>3, <4>4
    <3>7. QED
      BY <3>5, <3>6
  <2>3. QED
    BY <1>3, <2>1, <2>2
<1>6. Deduped(t, res, n + 1)
  BY <1>3, <1>4, <1>5 DEF Deduped
<1>7. QED
  BY <1>2, <1>6

\* The recursion of dedupeCandidates.
LEMMA DedupeRounds ==
  ASSUME NEW cands, Len(cands) \in Nat
  PROVE  \E d : /\ d[0] = <<>>
                /\ \A n \in 0 .. Len(cands) - 1 : d[n + 1] = Merge(d[n], cands[n + 1])
                /\ Dedupe(cands) = d[Len(cands)]
<1> DEFINE N == Len(cands)
           Def(f, n) == [m \in 0 .. n |-> IF m = 0 THEN <<>> ELSE Merge(f[m - 1], cands[m])]
           Begun == {n \in 0 .. N : \E f : f = Def(f, n)}
           d == CHOOSE f : f = Def(f, N)
<1>1. 0 \in Begun
  <2>1. PICK f : f = [m \in 0 .. 0 |-> <<>>]
    OBVIOUS
  <2>2. f = Def(f, 0)
    BY <2>1
  <2>3. QED
    BY <2>2
<1>2. ASSUME NEW n \in 0 .. N - 1, n \in Begun PROVE n + 1 \in Begun
  <2>1. PICK f : f = Def(f, n)
    BY <1>2
  <2>2. PICK g : g = [m \in 0 .. n + 1 |-> IF m = n + 1 THEN Merge(f[n], cands[n + 1]) ELSE f[m]]
    OBVIOUS
  <2>3. \A m \in 0 .. n + 1 : g[m] = IF m = 0 THEN <<>> ELSE Merge(g[m - 1], cands[m])
    BY <2>1, <2>2
  <2>4. g = Def(g, n + 1)
    BY <2>2, <2>3
  <2>5. n + 1 \in 0 .. N
    OBVIOUS
  <2>6. QED
    BY <2>4, <2>5
<1>3. N \in Begun
  <2> HIDE DEF Begun
  <2>1. \A n \in 0 .. N : n \in Begun
    BY <1>1, <1>2, SetInduction
  <2>2. QED
    BY <2>1
<1>4. d = Def(d, N)
  BY <1>3
<1>5. Dedupe(cands) = d[N]
  BY DEF Dedupe
<1>6. d[0] = <<>> /\ \A n \in 0 .. N - 1 : d[n + 1] = Merge(d[n], cands[n + 1])
  <2> HIDE DEF d
  <2>1. \A m \in 0 .. N : d[m] = IF m = 0 THEN <<>> ELSE Merge(d[m - 1], cands[m])
    BY <1>4
  <2>2. QED
    BY <2>1
<1>7. QED
  BY <1>5, <1>6

\* However the candidates of a search are merged, every chain of shared keys among its places keeps
\* a candidate.
LEMMA DedupeKeeps ==
  ASSUME NEW res \in Seq(Places), NEW rank \in Nat
  PROVE  Deduped(Dedupe(Candidates(res, rank)), res, Len(res))
<1> DEFINE cands == Candidates(res, rank)
<1>1. Len(res) \in Nat /\ \A n \in 1 .. Len(res) : res[n] \in Places
  BY LenProperties, ElementOfSeq
<1>2. Len(cands) = Len(res)
  BY <1>1 DEF Candidates
<1>3. \A n \in 1 .. Len(res) : cands[n] \in Cands /\ Like(cands[n], res[n])
  <2> SUFFICES ASSUME NEW n \in 1 .. Len(res)
               PROVE  cands[n] \in Cands /\ Like(cands[n], res[n])
    OBVIOUS
  <2>1. cands[n] = Candidate(res[n], rank + n - 1) /\ rank + n - 1 \in Nat /\ res[n] \in Places
    BY <1>1 DEF Candidates
  <2>2. QED
    BY <2>1, CandidateOfPlace
<1> HIDE DEF cands
<1>4. PICK d : /\ d[0] = <<>>
               /\ \A n \in 0 .. Len(cands) - 1 : d[n + 1] = Merge(d[n], cands[n + 1])
               /\ Dedupe(cands) = d[Len(cands)]
  BY <1>1, <1>2, DedupeRounds
<1> DEFINE Good == {n \in 0 .. Len(res) : Deduped(d[n], res, n)}
<1>5. 0 \in Good
  <2>1. ToSet(<<>>) = {} /\ <<>> \in Seq(Cands)
    BY DEF ToSet
  <2>2. Deduped(<<>>, res, 0)
    BY <2>1 DEF Deduped
  <2>3. QED
    BY <1>1, <1>4, <2>2
<1>6. ASSUME NEW n \in 0 .. Len(res) - 1, n \in Good PROVE n + 1 \in Good
  <2>1. Deduped(d[n], res, n) /\ n + 1 \in 1 .. Len(res)
    BY <1>1, <1>6
  <2>2. cands[n + 1] \in Cands /\ Like(cands[n + 1], res[n + 1])
    BY <1>3, <2>1
  <2>3. Deduped(Merge(d[n], cands[n + 1]), res, n + 1)
    BY <2>1, <2>2, MergeKeeps
  <2>4. d[n + 1] = Merge(d[n], cands[n + 1])
    BY <1>2, <1>4
  <2>5. QED
    BY <2>1, <2>3, <2>4
<1>7. \A n \in 0 .. Len(res) : n \in Good
  <2> HIDE DEF Good
  <2>1. QED
    BY <1>1, <1>5, <1>6, SetInduction
<1>8. Deduped(d[Len(res)], res, Len(res))
  BY <1>1, <1>7
<1>9. QED
  BY <1>2, <1>4, <1>8 DEF cands
-----------------------------------------------------------------------------
(***************************************************************************)
(* Ranking                                                                 *)
(***************************************************************************)

\* Recommendations of rows there are in l.
FoundOK(l, found) == found \subseteq Finds /\ IsFiniteSet(found) /\ \A c \in found : c.at \in 1 .. Len(l)

\* An answer: no row twice, as many as there are up to the limit, and known ones first.
AnswerOK(found, answer) ==
  LET rows  == {c.at : c \in found}
      shown == {answer[n].at : n \in 1 .. Len(answer)} IN
  /\ answer \in Seq(Finds)
  /\ \A m, n \in 1 .. Len(answer) : m # n => answer[m].at # answer[n].at
  /\ Cardinality(shown) = IF Cardinality(rows) < Keep THEN Cardinality(rows) ELSE Keep
  /\ (\E c \in found : c.known /\ c.at \notin shown) => \A n \in 1 .. Len(answer) : answer[n].known

\* The dates and places of rows can be compared.
LEMMA RowNumbers ==
  ASSUME NEW row \in Rows
  PROVE  row.date \in Nat /\ row.place \in Nat
<1>1. \A p \in Places : p.date \in Nat /\ p.place \in Nat
  BY ResultsAssumption DEF PlaceRecords
<1>2. QED
  BY <1>1 DEF Rows

\* rankPersistedListings sorts by a strict order, which is total on recommendations of distinct rows.
LEMMA RankingIsStrict ==
  ASSUME NEW B, FoundOK(listing, B)
  PROVE  /\ \A c \in B : ~RanksBefore(c, c)
         /\ \A c, d, e \in B : RanksBefore(c, d) /\ RanksBefore(d, e) => RanksBefore(c, e)
         /\ \A c, d \in B : c.at # d.at => RanksBefore(c, d) \/ RanksBefore(d, c)
<1>1. /\ B \subseteq Finds
      /\ \A c \in B : c.read.date \in Nat /\ c.read.place \in Nat
  BY RowNumbers DEF FoundOK, Finds
<1>2. \A c \in B : c.at \in Nat /\ c.rank \in Nat /\ c.known \in BOOLEAN
  BY <1>1 DEF Finds
<1>3. ASSUME NEW c \in B PROVE ~RanksBefore(c, c)
  BY <1>1, <1>2 DEF RanksBefore
<1>4. ASSUME NEW c \in B, NEW d \in B, c.at # d.at PROVE RanksBefore(c, d) \/ RanksBefore(d, c)
  BY <1>1, <1>2, <1>4 DEF RanksBefore, HasEmail
<1>5. ASSUME NEW c \in B, NEW d \in B, NEW e \in B, RanksBefore(c, d), RanksBefore(d, e)
      PROVE  RanksBefore(c, e)
  BY <1>1, <1>2, <1>5 DEF RanksBefore, HasEmail
<1>6. QED
  BY <1>3, <1>4, <1>5

\* One recommendation stays for each row that is found, a known one if there is one.
LEMMA BestOfEach ==
  ASSUME NEW found, FoundOK(listing, found)
  PROVE  /\ FoundOK(listing, Best(found)) /\ Best(found) \subseteq found
         /\ \A c, d \in Best(found) : c.at = d.at => c = d
         /\ \A c \in found : \E d \in Best(found) : d.at = c.at /\ (c.known => d.known)
<1> DEFINE Kept(i) == CHOOSE c \in found : c.at = i /\ \A d \in found : d.at = i => GoesFirst(c, d)
           best == Best(found)
<1>1. found \subseteq Finds /\ IsFiniteSet(found) /\ best = {Kept(i) : i \in {c.at : c \in found}}
  BY DEF FoundOK, Best
<1>2. ASSUME NEW x \in found
      PROVE  \E c \in found : c.at = x.at /\ \A d \in found : d.at = x.at => GoesFirst(c, d)
  <2> DEFINE same == {d \in found : d.at = x.at}
  <2>1. PICK k \in BOOLEAN : k = \E d \in same : d.known
    OBVIOUS
  <2> DEFINE ranks == {d.rank : d \in {e \in same : e.known = k}}
  <2>2. \A d \in found : d.rank \in Nat /\ d.known \in BOOLEAN
    BY <1>1 DEF Finds
  <2>3. ranks \subseteq Nat /\ ranks # {}
    <3>1. \E d \in same : d.known = k
      BY <2>1, <2>2
    <3>2. QED
      BY <2>2, <3>1
  <2>4. PICK n \in ranks : \A m \in ranks : n <= m
    <3> HIDE DEF ranks
    <3>1. QED
      BY <2>3, LeastNumber
  <2>5. PICK c \in same : /\ c.known = k /\ c.rank = n
                          /\ \A d \in same : d.known = k /\ d.rank = n /\ HasEmail(c) => HasEmail(d)
    <3>1. PICK d \in same : d.known = k /\ d.rank = n
      BY <2>4
    <3>2. CASE \E e \in same : e.known = k /\ e.rank = n /\ ~HasEmail(e)
      BY <3>2
    <3>3. CASE ~\E e \in same : e.known = k /\ e.rank = n /\ ~HasEmail(e)
      BY <3>1, <3>3
    <3>4. QED
      BY <3>2, <3>3
  <2>6. ASSUME NEW e \in found, e.at = x.at PROVE GoesFirst(c, e)
    <3>1. e \in same /\ c.known = k /\ c.rank = n /\ n \in Nat
      BY <2>3, <2>4, <2>5, <2>6
    <3>2. CASE e.known = k
      <4>1. e.rank \in ranks
        BY <3>1, <3>2
      <4>2. n <= e.rank /\ e.rank \in Nat
        BY <2>2, <2>4, <4>1
      <4>3. CASE e.rank = n
        BY <2>5, <3>1, <3>2, <4>3 DEF GoesFirst
      <4>4. CASE e.rank # n
        BY <3>1, <3>2, <4>2, <4>4 DEF GoesFirst
      <4>5. QED
        BY <4>3, <4>4
    <3>3. CASE e.known # k
      <4>1. k = TRUE /\ e.known = FALSE
        BY <2>1, <2>2, <3>1, <3>3
      <4>2. QED
        BY <3>1, <4>1 DEF GoesFirst
    <3>4. QED
      BY <3>2, <3>3
  <2>7. QED
    BY <2>5, <2>6
<1>3. ASSUME NEW x \in found
      PROVE  /\ Kept(x.at) \in found /\ Kept(x.at).at = x.at
             /\ \A d \in found : d.at = x.at => GoesFirst(Kept(x.at), d)
  BY <1>2
<1> HIDE DEF Kept
<1>4. best \subseteq found
  BY <1>1, <1>3
<1>5. FoundOK(listing, best)
  <2>1. IsFiniteSet(best)
    BY <1>1, <1>4, FS_Subset
  <2>2. QED
    BY <1>4, <2>1 DEF FoundOK
<1>6. ASSUME NEW c \in best, NEW d \in best, c.at = d.at PROVE c = d
  <2>1. c = Kept(c.at) /\ d = Kept(d.at)
    BY <1>1, <1>3
  <2>2. QED
    BY <1>6, <2>1
<1>7. ASSUME NEW c \in found PROVE \E d \in best : d.at = c.at /\ (c.known => d.known)
  <2>1. PICK d : d = Kept(c.at)
    OBVIOUS
  <2>2. d \in best /\ d.at = c.at /\ GoesFirst(d, c)
    BY <1>1, <1>3, <2>1
  <2>3. c.known \in BOOLEAN /\ d.known \in BOOLEAN
    BY <1>1, <1>4, <2>2 DEF Finds
  <2>4. QED
    BY <2>2, <2>3 DEF GoesFirst
<1>8. QED
  BY <1>4, <1>5, <1>6, <1>7

\* Who ranks before c.
Above(c, B) == {d \in B : RanksBefore(d, c)}

\* How many of B rank before each of them: every number below Cardinality(B), each once.
LEMMA Positions ==
  ASSUME NEW B, FoundOK(listing, B), \A c, d \in B : c.at = d.at => c = d,
         NEW f, f = [c \in B |-> Cardinality(Above(c, B))]
  PROVE  /\ \A c, d \in B : RanksBefore(c, d) => f[c] < f[d]
         /\ f \in [B -> 0 .. Cardinality(B) - 1]
         /\ \A c, d \in B : f[c] = f[d] => c = d
         /\ \A n \in 0 .. Cardinality(B) - 1 : \E c \in B : f[c] = n
<1> DEFINE N == Cardinality(B)
<1>1. IsFiniteSet(B) /\ N \in Nat
  BY FS_CardinalityType DEF FoundOK
<1>2. /\ \A c \in B : ~RanksBefore(c, c)
      /\ \A c, d, e \in B : RanksBefore(c, d) /\ RanksBefore(d, e) => RanksBefore(c, e)
      /\ \A c, d \in B : c # d => RanksBefore(c, d) \/ RanksBefore(d, c)
  BY RankingIsStrict
<1>3. \A c \in B : /\ f[c] = Cardinality(Above(c, B))
                   /\ IsFiniteSet(Above(c, B)) /\ Cardinality(Above(c, B)) \in Nat
  <2> SUFFICES ASSUME NEW c \in B
               PROVE  /\ f[c] = Cardinality(Above(c, B))
                      /\ IsFiniteSet(Above(c, B)) /\ Cardinality(Above(c, B)) \in Nat
    OBVIOUS
  <2>1. Above(c, B) \in SUBSET B
    BY DEF Above
  <2>2. IsFiniteSet(Above(c, B))
    BY <1>1, <2>1, FS_Subset
  <2>3. QED
    BY <2>2, FS_CardinalityType
<1>4. ASSUME NEW c \in B, NEW d \in B, RanksBefore(c, d) PROVE f[c] < f[d]
  <2>1. c \in Above(d, B) /\ Above(c, B) \in SUBSET (Above(d, B) \ {c})
    BY <1>2, <1>4 DEF Above
  <2>2. /\ IsFiniteSet(Above(d, B) \ {c})
        /\ Cardinality(Above(d, B) \ {c}) = Cardinality(Above(d, B)) - 1
    BY <1>3, <2>1, FS_RemoveElement
  <2>3. Cardinality(Above(c, B)) <= Cardinality(Above(d, B) \ {c})
    BY <2>1, <2>2, FS_Subset
  <2>4. /\ f[c] = Cardinality(Above(c, B)) /\ Cardinality(Above(c, B)) \in Nat
        /\ f[d] = Cardinality(Above(d, B)) /\ Cardinality(Above(d, B)) \in Nat
    BY <1>3
  <2>5. QED
    BY <2>2, <2>3, <2>4
<1>5. \A c \in B : f[c] \in 0 .. N - 1
  <2> SUFFICES ASSUME NEW c \in B PROVE f[c] \in 0 .. N - 1
    OBVIOUS
  <2>1. Above(c, B) \in SUBSET (B \ {c})
    BY <1>2 DEF Above
  <2>2. IsFiniteSet(B \ {c}) /\ Cardinality(B \ {c}) = N - 1
    BY <1>1, FS_RemoveElement
  <2>3. Cardinality(Above(c, B)) <= Cardinality(B \ {c})
    BY <2>1, <2>2, FS_Subset
  <2>4. f[c] = Cardinality(Above(c, B)) /\ Cardinality(Above(c, B)) \in Nat
    BY <1>3
  <2>5. QED
    BY <1>1, <2>2, <2>3, <2>4
<1>6. ASSUME NEW c \in B, NEW d \in B, f[c] = f[d] PROVE c = d
  <2>1. f[c] \in Int /\ f[d] \in Int
    BY <1>5
  <2>2. ASSUME RanksBefore(c, d) PROVE FALSE
    <3>1. f[c] < f[d]
      BY <1>4, <2>2
    <3>2. QED
      BY <1>6, <2>1, <3>1
  <2>3. ASSUME RanksBefore(d, c) PROVE FALSE
    <3>1. f[d] < f[c]
      BY <1>4, <2>3
    <3>2. QED
      BY <1>6, <2>1, <3>1
  <2>4. QED
    BY <1>2, <2>2, <2>3
<1>7. f \in [B -> 0 .. N - 1]
  BY <1>5
<1>8. ASSUME NEW n \in 0 .. N - 1 PROVE \E c \in B : f[c] = n
  <2>1. f \in Injection(B, 0 .. N - 1)
    <3> HIDE DEF N
    <3>1. QED
      BY <1>6, <1>7 DEF Injection, IsInjective
  <2>2. IsFiniteSet(0 .. N - 1) /\ Cardinality(0 .. N - 1) = N
    BY <1>1, FS_Interval
  <2>3. f \in Surjection(B, 0 .. N - 1)
    <3>1. QED
      BY <2>1, <2>2, FS_Injection
  <2>4. QED
    BY <1>8, <2>3 DEF Surjection
<1>9. QED
  BY <1>4, <1>6, <1>7, <1>8

\* The list has each of the best once, in the order of their ranks.
LEMMA RankedInOrder ==
  ASSUME NEW found, FoundOK(listing, found),
         NEW best, best = Best(found), NEW list, list = Ranked(found)
  PROVE  /\ Cardinality(best) \in Nat /\ list \in Seq(best) /\ Len(list) = Cardinality(best)
         /\ \A m, n \in 1 .. Len(list) : m < n => RanksBefore(list[m], list[n])
         /\ \A c \in best : \E n \in 1 .. Len(list) : list[n] = c
<1> DEFINE N == Cardinality(best)
<1>1. FoundOK(listing, best) /\ \A c, d \in best : c.at = d.at => c = d
  BY BestOfEach
<1>2. IsFiniteSet(best) /\ N \in Nat
  BY <1>1, FS_CardinalityType DEF FoundOK
<1>3. PICK f : f = [c \in best |-> Cardinality(Above(c, best))]
  OBVIOUS
<1>4. /\ \A c, d \in best : RanksBefore(c, d) => f[c] < f[d]
      /\ f \in [best -> 0 .. N - 1]
      /\ \A c, d \in best : f[c] = f[d] => c = d
      /\ \A n \in 0 .. N - 1 : \E c \in best : f[c] = n
  BY <1>1, <1>3, Positions
<1>5. list = [n \in 1 .. N |-> CHOOSE c \in best : Cardinality({d \in best : RanksBefore(d, c)}) = n - 1]
  BY DEF Ranked
<1> HIDE DEF N
<1>6. \A n \in 1 .. N : list[n] \in best /\ f[list[n]] = n - 1
  <2> SUFFICES ASSUME NEW n \in 1 .. N PROVE list[n] \in best /\ f[list[n]] = n - 1
    OBVIOUS
  <2>1. \E c \in best : Cardinality({d \in best : RanksBefore(d, c)}) = n - 1
    <3>1. n - 1 \in 0 .. N - 1
      BY <1>2
    <3>2. PICK c \in best : f[c] = n - 1
      BY <1>4, <3>1
    <3>3. QED
      BY <1>3, <3>2 DEF Above
  <2>2. list[n] \in best /\ Cardinality({d \in best : RanksBefore(d, list[n])}) = n - 1
    BY <1>5, <2>1
  <2>3. QED
    BY <1>3, <2>2 DEF Above
<1>7. list \in Seq(best) /\ Len(list) = N
  <2>1. list = [n \in 1 .. N |-> list[n]]
    BY <1>5
  <2>2. QED
    BY <1>2, <1>6, <2>1
<1>8. ASSUME NEW m \in 1 .. N, NEW n \in 1 .. N, m < n PROVE RanksBefore(list[m], list[n])
  <2>1. /\ list[m] \in best /\ f[list[m]] = m - 1
        /\ list[n] \in best /\ f[list[n]] = n - 1
    BY <1>6
  <2>2. list[m] # list[n] /\ ~RanksBefore(list[n], list[m])
    BY <1>2, <1>4, <1>8, <2>1
  <2>3. list[m].at # list[n].at
    BY <1>1, <2>1, <2>2
  <2>4. QED
    BY <1>1, <2>1, <2>2, <2>3, RankingIsStrict
<1>9. ASSUME NEW c \in best PROVE \E n \in 1 .. N : list[n] = c
  <2>1. f[c] \in 0 .. N - 1
    BY <1>4
  <2>2. f[c] + 1 \in 1 .. N /\ (f[c] + 1) - 1 = f[c]
    BY <1>2, <2>1
  <2>3. list[f[c] + 1] \in best /\ f[list[f[c] + 1]] = f[c]
    BY <1>6, <2>2
  <2>4. QED
    BY <1>4, <2>2, <2>3
<1>10. QED
  BY <1>2, <1>7, <1>8, <1>9 DEF N

\* What discover returns of what it found.
LEMMA AnswerIsComplete ==
  ASSUME NEW found, FoundOK(listing, found), NEW answer,
         NEW list, list = Ranked(found),
         answer = SubSeq(list, 1, IF Len(list) < Keep THEN Len(list) ELSE Keep)
  PROVE  AnswerOK(found, answer)
<1> DEFINE best  == Best(found)
           N     == Cardinality(best)
           rows  == {c.at : c \in found}
           shown == {answer[n].at : n \in 1 .. Len(answer)}
<1>1. /\ N \in Nat /\ list \in Seq(best) /\ Len(list) = N
      /\ \A m, n \in 1 .. N : m < n => RanksBefore(list[m], list[n])
      /\ \A c \in best : \E n \in 1 .. N : list[n] = c
  BY RankedInOrder
<1>2. /\ FoundOK(listing, best) /\ best \subseteq found
      /\ \A c, d \in best : c.at = d.at => c = d
      /\ \A c \in found : \E d \in best : d.at = c.at /\ (c.known => d.known)
  BY BestOfEach
<1> HIDE DEF best, N
<1>3. PICK K \in Nat : K = (IF N < Keep THEN N ELSE Keep) /\ K <= N
  BY <1>1, SearchAssumption
<1>4. \A n \in 1 .. N : list[n] \in best
  BY <1>1, ElementOfSeq
<1>5. /\ answer \in Seq(best) /\ Len(answer) = K
      /\ \A n \in 1 .. K : answer[n] = list[n]
  <2>1. answer = SubSeq(list, 1, K) /\ \A n \in 1 .. K : list[n] \in best
    BY <1>1, <1>3, <1>4
  <2>2. /\ SubSeq(list, 1, K) \in Seq(best)
        /\ Len(SubSeq(list, 1, K)) = IF 1 <= K THEN K - 1 + 1 ELSE 0
        /\ \A i \in 1 .. K - 1 + 1 : SubSeq(list, 1, K)[i] = list[1 + i - 1]
    BY <2>1, SubSeqProperties
  <2>3. Len(answer) = K
    <3>1. (IF 1 <= K THEN K - 1 + 1 ELSE 0) = K
      OBVIOUS
    <3>2. QED
      BY <2>1, <2>2, <3>1
  <2>4. ASSUME NEW n \in 1 .. K PROVE answer[n] = list[n]
    <3>1. n \in 1 .. K - 1 + 1 /\ 1 + n - 1 = n
      BY <1>3
    <3>2. SubSeq(list, 1, K)[n] = list[1 + n - 1]
      BY <2>2, <3>1
    <3>3. QED
      BY <2>1, <3>1, <3>2
  <2>5. QED
    BY <2>1, <2>2, <2>3, <2>4
<1>6. best \subseteq Finds
  BY <1>2 DEF FoundOK
<1>7. ASSUME NEW m \in 1 .. N, NEW n \in 1 .. N, m # n PROVE list[m].at # list[n].at
  <2>1. RanksBefore(list[m], list[n]) \/ RanksBefore(list[n], list[m])
    BY <1>1, <1>7
  <2>2. list[m] # list[n]
    BY <1>2, <1>4, <2>1, RankingIsStrict
  <2>3. QED
    BY <1>2, <1>4, <2>2
<1>8. \A m, n \in 1 .. Len(answer) : m # n => answer[m].at # answer[n].at
  BY <1>3, <1>5, <1>7
<1>9. Cardinality(shown) = K
  <2>1. PICK f : f = [n \in 1 .. K |-> answer[n].at]
    OBVIOUS
  <2>2. f \in Bijection(1 .. K, shown)
    <3>1. f \in [1 .. K -> shown] /\ \A x \in shown : \E n \in 1 .. K : f[n] = x
      BY <1>5, <2>1
    <3>2. \A m, n \in 1 .. K : f[m] = f[n] => m = n
      BY <1>5, <1>8, <2>1
    <3> HIDE DEF shown
    <3>3. QED
      BY <3>1, <3>2 DEF Bijection, Injection, IsInjective, Surjection
  <2>3. ExistsBijection(1 .. K, shown)
    BY <2>2 DEF ExistsBijection
  <2>4. IsFiniteSet(1 .. K) /\ Cardinality(1 .. K) = K
    BY FS_Interval
  <2> HIDE DEF shown
  <2>5. IsFiniteSet(shown) /\ Cardinality(1 .. K) = Cardinality(shown)
    BY <2>3, <2>4, FS_Bijection
  <2>6. QED
    BY <2>4, <2>5
<1>10. Cardinality(rows) = N
  <2>1. PICK f : f = [c \in best |-> c.at]
    OBVIOUS
  <2>2. f \in Bijection(best, rows)
    BY <1>2, <2>1 DEF Bijection, Injection, IsInjective, Surjection
  <2>3. ExistsBijection(best, rows)
    BY <2>2 DEF ExistsBijection
  <2>4. IsFiniteSet(best)
    BY <1>2 DEF FoundOK
  <2>5. QED
    BY <2>3, <2>4, FS_Bijection DEF N
<1>11. ASSUME NEW c \in found, c.known, c.at \notin shown, NEW n \in 1 .. Len(answer)
       PROVE  answer[n].known
  <2>1. PICK d \in best : d.at = c.at /\ d.known
    BY <1>2, <1>11
  <2>2. PICK m \in 1 .. N : list[m] = d
    BY <1>1, <2>1
  <2>3. m \notin 1 .. K
    <3>1. \A i \in 1 .. K : list[i].at \in shown
      BY <1>5
    <3>2. QED
      BY <1>11, <2>1, <2>2, <3>1
  <2>4. n \in 1 .. N /\ n < m /\ answer[n] = list[n]
    BY <1>1, <1>3, <1>5, <2>3
  <2>5. RanksBefore(list[n], d)
    BY <1>1, <2>2, <2>4
  <2>6. list[n].known
    BY <2>1, <2>5 DEF RanksBefore
  <2>7. QED
    BY <2>4, <2>6
<1>12. answer \in Seq(Finds)
  BY <1>5, <1>6, SeqMonotonic
<1>13. QED
  BY <1>3, <1>8, <1>9, <1>10, <1>11, <1>12 DEF AnswerOK
-----------------------------------------------------------------------------
(***************************************************************************)
(* Chains of shared keys                                                   *)
(***************************************************************************)

\* One round of Connected.
Reach(R, S) == R \cup {b \in S : \E a \in R : SameCandidate(a, b)}

\* The recursion of Connected.
LEMMA ConnectedRounds ==
  ASSUME NEW x, NEW S, Cardinality(S) \in Nat
  PROVE  \E d : /\ d[0] = {x}
                /\ \A n \in 0 .. Cardinality(S) - 1 : d[n + 1] = Reach(d[n], S)
                /\ Connected(x, S) = d[Cardinality(S)]
<1> DEFINE N == Cardinality(S)
           Def(f, n) == [m \in 0 .. n |-> IF m = 0 THEN {x} ELSE Reach(f[m - 1], S)]
           Begun == {n \in 0 .. N : \E f : f = Def(f, n)}
           d == CHOOSE f : f = Def(f, N)
<1>1. 0 \in Begun
  <2>1. PICK f : f = [m \in 0 .. 0 |-> {x}]
    OBVIOUS
  <2>2. f = Def(f, 0)
    BY <2>1
  <2>3. QED
    BY <2>2
<1>2. ASSUME NEW n \in 0 .. N - 1, n \in Begun PROVE n + 1 \in Begun
  <2>1. PICK f : f = Def(f, n)
    BY <1>2
  <2>2. PICK g : g = [m \in 0 .. n + 1 |-> IF m = n + 1 THEN Reach(f[n], S) ELSE f[m]]
    OBVIOUS
  <2>3. ASSUME NEW m \in 0 .. n + 1 PROVE g[m] = IF m = 0 THEN {x} ELSE Reach(g[m - 1], S)
    <3>1. CASE m = n + 1
      BY <2>2, <3>1
    <3>2. CASE m # n + 1
      <4>1. m \in 0 .. n /\ g[m] = f[m]
        BY <2>2, <3>2
      <4>2. f[m] = IF m = 0 THEN {x} ELSE Reach(f[m - 1], S)
        BY <2>1, <4>1
      <4>3. m # 0 => g[m - 1] = f[m - 1]
        BY <2>2, <4>1
      <4>4. QED
        BY <4>1, <4>2, <4>3
    <3>3. QED
      BY <3>1, <3>2
  <2>4. g = Def(g, n + 1)
    BY <2>2, <2>3
  <2>5. n + 1 \in 0 .. N
    OBVIOUS
  <2>6. QED
    BY <2>4, <2>5
<1>3. N \in Begun
  <2> HIDE DEF Begun
  <2>1. \A n \in 0 .. N : n \in Begun
    BY <1>1, <1>2, SetInduction
  <2>2. QED
    BY <2>1
<1>4. d = Def(d, N)
  BY <1>3
<1>5. Connected(x, S) = d[N]
  BY DEF Connected, Reach
<1>6. d[0] = {x} /\ \A n \in 0 .. N - 1 : d[n + 1] = Reach(d[n], S)
  <2> HIDE DEF d
  <2>1. \A m \in 0 .. N : d[m] = IF m = 0 THEN {x} ELSE Reach(d[m - 1], S)
    BY <1>4
  <2>2. QED
    BY <2>1
<1>7. QED
  BY <1>5, <1>6

\* As many rounds as there are records find all that is connected: a round that finds nothing new
\* ends the search, and every other one finds a record more.
LEMMA ConnectedIsClosed ==
  ASSUME NEW S, IsFiniteSet(S), NEW x \in S
  PROVE  /\ x \in Connected(x, S) /\ Connected(x, S) \subseteq S
         /\ Closed(Connected(x, S), S)
         /\ \A y \in Connected(x, S) : y = x \/ \E a \in S : SameCandidate(a, y)
<1> DEFINE N == Cardinality(S)
<1>1. N \in Nat
  BY FS_CardinalityType
<1>2. PICK d : /\ d[0] = {x}
               /\ \A n \in 0 .. N - 1 : d[n + 1] = Reach(d[n], S)
               /\ Connected(x, S) = d[N]
  BY <1>1, ConnectedRounds
<1> DEFINE Round(R, n) ==
             /\ x \in R /\ R \subseteq S
             /\ \A y \in R : y = x \/ \E a \in S : SameCandidate(a, y)
             /\ Closed(R, S) \/ Cardinality(R) >= n + 1
           Good == {n \in 0 .. N : Round(d[n], n)}
<1>3. 0 \in Good
  <2>1. Cardinality({x}) = 1
    BY FS_Singleton
  <2>2. Round({x}, 0)
    BY <2>1
  <2>3. QED
    BY <1>1, <1>2, <2>2
<1>4. ASSUME NEW n \in 0 .. N - 1, n \in Good PROVE n + 1 \in Good
  <2>1. PICK R : R = d[n] /\ Round(R, n)
    BY <1>4
  <2>2. d[n + 1] = Reach(R, S)
    BY <1>2, <2>1
  <2>3. PICK T : T = Reach(R, S)
    OBVIOUS
  <2>4. /\ x \in T /\ T \subseteq S /\ R \subseteq T
        /\ \A y \in T : y = x \/ \E a \in S : SameCandidate(a, y)
    BY <2>1, <2>3 DEF Reach
  <2>5. ASSUME Closed(R, S) PROVE Round(T, n + 1)
    <3>1. T = R
      BY <2>3, <2>5 DEF Reach, Closed
    <3>2. QED
      BY <2>1, <2>5, <3>1
  <2>6. ASSUME ~Closed(R, S) PROVE Round(T, n + 1)
    <3>1. PICK b \in S : b \notin R /\ b \in T
      BY <2>3, <2>6 DEF Reach, Closed
    <3>2. Cardinality(R) >= n + 1
      BY <2>1, <2>6
    <3>3. IsFiniteSet(R) /\ IsFiniteSet(T)
      BY <2>1, <2>4, FS_Subset
    <3>4. IsFiniteSet(R \cup {b}) /\ Cardinality(R \cup {b}) = Cardinality(R) + 1
      BY <3>1, <3>3, FS_AddElement
    <3>5. R \cup {b} \in SUBSET T
      BY <2>4, <3>1
    <3>6. Cardinality(R \cup {b}) <= Cardinality(T)
      BY <3>3, <3>5, FS_Subset
    <3>7. Cardinality(R) \in Nat /\ Cardinality(T) \in Nat
      BY <3>3, FS_CardinalityType
    <3>8. Cardinality(T) >= (n + 1) + 1
      BY <3>2, <3>4, <3>6, <3>7
    <3>9. QED
      BY <2>4, <3>8
  <2>7. Round(d[n + 1], n + 1)
    BY <2>2, <2>3, <2>5, <2>6
  <2> HIDE DEF Round
  <2>8. QED
    BY <1>1, <2>7
<1>5. \A n \in 0 .. N : n \in Good
  <2> HIDE DEF Good
  <2>1. QED
    BY <1>1, <1>3, <1>4, SetInduction
<1>6. Round(d[N], N)
  BY <1>1, <1>5
<1>7. Closed(d[N], S)
  <2>1. Cardinality(d[N]) <= N
    BY <1>6, FS_Subset
  <2>2. IsFiniteSet(d[N]) /\ Cardinality(d[N]) \in Nat
    BY <1>6, FS_Subset, FS_CardinalityType
  <2>3. QED
    BY <1>1, <1>6, <2>1, <2>2
<1>8. QED
  BY <1>2, <1>6, <1>7
-----------------------------------------------------------------------------
(***************************************************************************)
(* What a search knows of the listings                                     *)
(***************************************************************************)

\* a[j] are rows before row j of l; none of them shares what its insertion has looked for, and none
\* before it has its place id.
RowOK(l, a, j) ==
  /\ a[j] \subseteq 1 .. j - 1
  /\ \A i \in a[j] : ~SameCandidate(l[i], l[j])
  /\ \A i \in 1 .. j - 1 : l[j].fsq # None => l[i].fsq # l[j].fsq

RowsOK(l, a) ==
  /\ l \in Seq(Rows) /\ a \in Seq(SUBSET Nat) /\ Len(a) = Len(l)
  /\ \A j \in 1 .. Len(l) : RowOK(l, a, j)

\* Row i of l answers a query for the key k of c.
Matches(l, i, c, k) == l[i][k] = c[k] /\ (k = "weak" => Keyless(l[i]))

\* A key of c that is not still to be looked up by was in none of the old rows, which nobody has edited
\* since.
LookedOK(l, c, look, old) ==
  /\ ToSet(look) \subseteq ToSet(Lookups(c))
  /\ old # NotBegun => old \subseteq 1 .. Len(l)
  /\ \A k \in ToSet(Lookups(c)) :
       k \in ToSet(look) \/ (old # NotBegun /\ \A i \in old : ~Matches(l, i, c, k))

Reads(found) == {c.read : c \in found}

\* With each of these places, every set closed under shared keys has one that a row, or a candidate
\* still to be persisted, has the keys of.
RepresentedIn(got, rows, todo) ==
  \A p \in got : \A C \in SUBSET (got \cup rows) :
    p \in C /\ Closed(C, got \cup rows) => Stands(rows \cup todo, C)

SearchOK(l, s) ==
  /\ s \in SearchTypes
  /\ s.pc = "persist" <=> s.todo # <<>>
  /\ FoundOK(l, s.found) /\ IsFiniteSet(s.got)
  /\ s.todo # <<>> => LookedOK(l, Head(s.todo), s.look, s.apart)
  /\ RepresentedIn(s.got, Reads(s.found), ToSet(s.todo))
  /\ IF s.pc = "answered" THEN AnswerOK(s.found, s.answer) ELSE s.answer = <<>>

\* Rows are only added.
Extended(l, m) == Len(l) <= Len(m) /\ \A i \in 1 .. Len(l) : m[i] = l[i]
-----------------------------------------------------------------------------
(***************************************************************************)
(* Sets of records that stay represented                                   *)
(***************************************************************************)

\* What was represented is so among more records.
LEMMA RepresentedOn ==
  ASSUME NEW got, NEW rows, NEW todo, RepresentedIn(got, rows, todo),
         NEW S, got \cup rows \subseteq S,
         NEW p \in got, NEW C \in SUBSET S, p \in C, Closed(C, S)
  PROVE  \E q \in C, z \in rows \cup todo : Like(z, q)
<1> DEFINE D == C \cap (got \cup rows)
<1>1. D \in SUBSET (got \cup rows) /\ p \in D
  OBVIOUS
<1>2. Closed(D, got \cup rows)
  BY DEF Closed
<1>3. Stands(rows \cup todo, D)
  BY <1>1, <1>2 DEF RepresentedIn
<1>4. QED
  BY <1>3 DEF Stands

\* More rows represent no less.
LEMMA RepresentedGrows ==
  ASSUME NEW got, NEW rows, NEW todo, RepresentedIn(got, rows, todo), NEW more, rows \subseteq more
  PROVE  RepresentedIn(got, more, todo)
<1> SUFFICES ASSUME NEW p \in got, NEW C \in SUBSET (got \cup more), p \in C, Closed(C, got \cup more)
             PROVE  Stands(more \cup todo, C)
  BY DEF RepresentedIn
<1>1. PICK q \in C, z \in rows \cup todo : Like(z, q)
  BY RepresentedOn
<1>2. QED
  BY <1>1 DEF Stands

\* A candidate gives way to a row that has its keys, or one of them.
LEMMA RepresentedTaken ==
  ASSUME NEW got, NEW rows, NEW todo, RepresentedIn(got, rows, todo),
         NEW c, NEW rest, todo \subseteq rest \cup {c},
         NEW row, Like(row, c) \/ SameCandidate(c, row)
  PROVE  RepresentedIn(got, rows \cup {row}, rest)
<1> DEFINE more == rows \cup {row}
<1> SUFFICES ASSUME NEW p \in got, NEW C \in SUBSET (got \cup more), p \in C, Closed(C, got \cup more)
             PROVE  Stands(more \cup rest, C)
  BY DEF RepresentedIn
<1>1. PICK q \in C, z \in rows \cup todo : Like(z, q)
  BY RepresentedOn
<1>2. CASE z \in rows \cup rest
  BY <1>1, <1>2 DEF Stands
<1>3. CASE z = c /\ Like(row, c)
  <2>1. Like(row, q)
    BY <1>1, <1>3, LikeSame
  <2>2. QED
    BY <2>1 DEF Stands
<1>4. CASE z = c /\ SameCandidate(c, row)
  <2>1. SameCandidate(q, row)
    BY <1>1, <1>4, LikeSame
  <2>2. row \in C
    BY <2>1 DEF Closed
  <2>3. Like(row, row)
    BY DEF Like
  <2>4. QED
    BY <2>2, <2>3 DEF Stands
<1>5. QED
  BY <1>1, <1>2, <1>3, <1>4

\* The places of a search are represented by the candidates they are merged to.
LEMMA RepresentedSearched ==
  ASSUME NEW got, NEW rows, RepresentedIn(got, rows, {}),
         NEW res \in Seq(Places), NEW d, Deduped(d, res, Len(res)),
         NEW more, rows \subseteq more
  PROVE  RepresentedIn(got \cup ToSet(res), more, ToSet(d))
<1> DEFINE S == (got \cup ToSet(res)) \cup more
<1> SUFFICES ASSUME NEW p \in got \cup ToSet(res), NEW C \in SUBSET S, p \in C, Closed(C, S)
             PROVE  Stands(more \cup ToSet(d), C)
  BY DEF RepresentedIn
<1>1. CASE p \in got
  <2>1. got \cup rows \subseteq S
    OBVIOUS
  <2>2. PICK q \in C, z \in rows \cup {} : Like(z, q)
    <3> HIDE DEF S
    <3>1. QED
      BY <1>1, <2>1, RepresentedOn
  <2>3. QED
    BY <2>2 DEF Stands
<1>2. CASE p \in ToSet(res)
  <2> DEFINE D == C \cap ToSet(res)
  <2>1. PICK i \in 1 .. Len(res) : res[i] = p
    BY <1>2, Members
  <2>2. D \in SUBSET ToSet(res) /\ res[i] \in D
    BY <1>2, <2>1
  <2>3. Closed(D, ToSet(res))
    BY DEF Closed
  <2>4. Stands(ToSet(d), D)
    BY <2>2, <2>3 DEF Deduped
  <2>5. QED
    BY <2>4 DEF Stands
<1>3. QED
  BY <1>1, <1>2
-----------------------------------------------------------------------------
(***************************************************************************)
(* Rows and searches                                                       *)
(***************************************************************************)

\* Rows that are added leave those there are as they were.
LEMMA RowsAppended ==
  ASSUME NEW l, NEW a, RowsOK(l, a),
         NEW x \in Rows, NEW old \in SUBSET Nat, old \subseteq 1 .. Len(l),
         \A i \in old : ~SameCandidate(l[i], x),
         \A i \in 1 .. Len(l) : x.fsq # None => l[i].fsq # x.fsq,
         NEW m, m = Append(l, x), NEW b, b = Append(a, old)
  PROVE  /\ RowsOK(m, b) /\ Extended(l, m)
         /\ Len(l) \in Nat /\ Len(m) = Len(l) + 1 /\ m[Len(l) + 1] = x
<1>1. l \in Seq(Rows) /\ a \in Seq(SUBSET Nat) /\ Len(a) = Len(l) /\ Len(l) \in Nat
  BY LenProperties DEF RowsOK
<1>2. /\ m \in Seq(Rows) /\ Len(m) = Len(l) + 1
      /\ \A i \in 1 .. Len(l) : m[i] = l[i]
      /\ m[Len(l) + 1] = x
  BY <1>1, AppendProperties
<1>3. /\ b \in Seq(SUBSET Nat) /\ Len(b) = Len(l) + 1
      /\ \A i \in 1 .. Len(l) : b[i] = a[i]
      /\ b[Len(l) + 1] = old
  BY <1>1, AppendProperties
<1>4. ASSUME NEW j \in 1 .. Len(m) PROVE RowOK(m, b, j)
  <2>1. CASE j \in 1 .. Len(l)
    <3>1. m[j] = l[j] /\ b[j] = a[j] /\ RowOK(l, a, j)
      BY <1>2, <1>3, <2>1 DEF RowsOK
    <3>2. \A i \in 1 .. j - 1 : m[i] = l[i]
      BY <1>1, <1>2, <2>1
    <3>3. QED
      BY <3>1, <3>2 DEF RowOK
  <2>2. CASE j = Len(l) + 1
    <3>1. m[j] = x /\ b[j] = old /\ 1 .. j - 1 = 1 .. Len(l)
      BY <1>1, <1>2, <1>3, <2>2
    <3>2. \A i \in 1 .. j - 1 : m[i] = l[i]
      BY <1>2, <3>1
    <3>3. QED
      BY <3>1, <3>2 DEF RowOK
  <2>3. QED
    BY <1>1, <1>2, <2>1, <2>2
<1>5. QED
  BY <1>1, <1>2, <1>3, <1>4 DEF RowsOK, Extended

\* What a search knows is not touched by new rows.
LEMMA SearchStays ==
  ASSUME NEW l, NEW m, Len(l) \in Nat, Len(m) \in Nat, Extended(l, m), NEW s, SearchOK(l, s)
  PROVE  SearchOK(m, s)
<1>1. FoundOK(m, s.found)
  BY DEF SearchOK, FoundOK, Extended
<1>2. ASSUME s.todo # <<>> PROVE LookedOK(m, Head(s.todo), s.look, s.apart)
  <2>1. LookedOK(l, Head(s.todo), s.look, s.apart)
    BY <1>2 DEF SearchOK
  <2>2. s.apart # NotBegun => s.apart \subseteq 1 .. Len(m) /\ \A i \in s.apart : m[i] = l[i]
    BY <2>1 DEF LookedOK, Extended
  <2>3. ASSUME NEW k \in ToSet(Lookups(Head(s.todo))), k \notin ToSet(s.look)
        PROVE  s.apart # NotBegun /\ \A i \in s.apart : ~Matches(m, i, Head(s.todo), k)
    <3>1. s.apart # NotBegun /\ \A i \in s.apart : ~Matches(l, i, Head(s.todo), k)
      BY <2>1, <2>3 DEF LookedOK
    <3>2. QED
      BY <2>2, <3>1 DEF Matches
  <2>4. QED
    BY <2>1, <2>2, <2>3 DEF LookedOK
<1>3. QED
  BY <1>1, <1>2 DEF SearchOK

\* A row that is edited leaves the sets of the rows that were looked at and stayed as they were.
LEMMA RowsEdited ==
  ASSUME NEW l, NEW a, RowsOK(l, a), NEW i \in 1 .. Len(l),
         NEW row \in Rows, row.fsq = l[i].fsq,
         NEW b
  PROVE  b = [j \in DOMAIN a |-> IF j = i THEN {} ELSE a[j] \ {i}] => RowsOK([l EXCEPT ![i] = row], b)
<1> DEFINE m == [l EXCEPT ![i] = row]
<1> HAVE b = [j \in DOMAIN a |-> IF j = i THEN {} ELSE a[j] \ {i}]
<1>1. l \in Seq(Rows) /\ a \in Seq(SUBSET Nat) /\ Len(a) = Len(l) /\ Len(l) \in Nat
  BY LenProperties DEF RowsOK
<1>2. /\ m \in Seq(Rows) /\ Len(m) = Len(l) /\ m[i] = row
      /\ \A j \in 1 .. Len(l) : j # i => m[j] = l[j]
  BY <1>1, ExceptSeq
<1> HIDE DEF m
<1>3. DOMAIN a = 1 .. Len(l)
  BY <1>1, LenProperties
<1>4. ASSUME NEW j \in 1 .. Len(l)
      PROVE  b[j] = (IF j = i THEN {} ELSE a[j] \ {i}) /\ b[j] \in SUBSET Nat
  <2>1. a[j] \in SUBSET Nat
    BY <1>1, <1>3, ElementOfSeq
  <2>2. QED
    BY <1>3, <2>1
<1>5. b \in Seq(SUBSET Nat) /\ Len(b) = Len(l)
  <2>1. b = [j \in 1 .. Len(l) |-> b[j]]
    BY <1>3
  <2>2. QED
    BY <1>1, <1>4, <2>1
<1>6. \A j \in 1 .. Len(l) : m[j].fsq = l[j].fsq
  BY <1>2
<1>7. ASSUME NEW j \in 1 .. Len(l) PROVE RowOK(m, b, j)
  <2>1. RowOK(l, a, j)
    BY DEF RowsOK
  <2>2. \A n \in 1 .. j - 1 : n \in 1 .. Len(l)
    BY <1>1
  <2>3. \A n \in 1 .. j - 1 : m[j].fsq # None => m[n].fsq # m[j].fsq
    BY <1>6, <2>1, <2>2 DEF RowOK
  <2>4. b[j] \subseteq a[j] /\ i \notin b[j] /\ (j = i => b[j] = {})
    <3>1. PICK x : x = b[j]
      OBVIOUS
    <3>2. PICK y : y = a[j]
      OBVIOUS
    <3>3. x = IF j = i THEN {} ELSE y \ {i}
      BY <1>4, <3>1, <3>2
    <3>4. x \subseteq y /\ i \notin x /\ (j = i => x = {})
      BY <3>3
    <3>5. QED
      BY <3>1, <3>2, <3>4
  <2>5. ASSUME NEW n \in b[j] PROVE ~SameCandidate(m[n], m[j])
    <3>1. n \in a[j] /\ n # i /\ j # i
      BY <2>4, <2>5
    <3>2. m[n] = l[n] /\ m[j] = l[j]
      BY <1>2, <2>1, <2>2, <3>1 DEF RowOK
    <3>3. QED
      BY <2>1, <3>1, <3>2 DEF RowOK
  <2>6. QED
    BY <2>1, <2>3, <2>4, <2>5 DEF RowOK
<1>8. RowsOK(m, b)
  BY <1>1, <1>2, <1>5, <1>7 DEF RowsOK
<1>9. QED
  BY <1>8 DEF m

\* What a search knows of the other rows, and of what it has read, is not touched by an edit.
LEMMA SearchEdited ==
  ASSUME NEW l, NEW m, NEW i \in 1 .. Len(l), Len(m) = Len(l),
         \A j \in 1 .. Len(l) : j # i => m[j] = l[j],
         NEW s, SearchOK(l, s),
         NEW t, t = [s EXCEPT !.apart = @ \ {i}]
  PROVE  SearchOK(m, t)
<1>1. PICK old : old = s.apart \ {i}
  OBVIOUS
<1>2. s \in SearchTypes /\ s.apart \in SUBSET Nat /\ old \in SUBSET Nat
  BY <1>1 DEF SearchOK, SearchTypes
<1>3. t = [s EXCEPT !.apart = old]
  BY <1>1, <1>2 DEF SearchTypes
<1>4. /\ t \in SearchTypes /\ t.apart = old /\ t.pc = s.pc /\ t.look = s.look
      /\ t.todo = s.todo /\ t.found = s.found /\ t.got = s.got /\ t.answer = s.answer
  BY <1>2, <1>3 DEF SearchTypes
<1>5. FoundOK(m, t.found)
  BY <1>4 DEF SearchOK, FoundOK
<1>6. ASSUME t.todo # <<>> PROVE LookedOK(m, Head(t.todo), t.look, t.apart)
  <2>1. LookedOK(l, Head(s.todo), s.look, s.apart)
    BY <1>4, <1>6 DEF SearchOK
  <2>2. old = s.apart \ {i} /\ (s.apart # NotBegun <=> old # NotBegun)
    <3>1. s.apart # NotBegun => 0 \notin s.apart
      BY <2>1 DEF LookedOK
    <3>2. QED
      BY <1>1, <3>1 DEF NotBegun
  <2>3. old # NotBegun => old \subseteq 1 .. Len(m) /\ \A j \in old : m[j] = l[j]
    BY <2>1, <2>2 DEF LookedOK
  <2>4. ASSUME NEW k \in ToSet(Lookups(Head(s.todo))), k \notin ToSet(s.look)
        PROVE  old # NotBegun /\ \A j \in old : ~Matches(m, j, Head(s.todo), k)
    <3>1. s.apart # NotBegun /\ \A j \in s.apart : ~Matches(l, j, Head(s.todo), k)
      BY <2>1, <2>4 DEF LookedOK
    <3>2. QED
      BY <2>2, <2>3, <3>1 DEF Matches
  <2>5. QED
    BY <1>4, <2>1, <2>3, <2>4 DEF LookedOK
<1>7. QED
  BY <1>4, <1>5, <1>6 DEF SearchOK

\* A search that has not begun, or ended without an answer.
LEMMA NoSearchOK ==
  ASSUME NEW l
  PROVE  SearchOK(l, NoSearch) /\ SearchOK(l, Failed)
<1>1. NoSearch \in SearchTypes /\ Failed \in SearchTypes
  <2>1. \A S : <<>> \in Seq(S)
    BY EmptySeq
  <2>2. NoSearch \in SearchTypes
    <3>1. NotBegun \in SUBSET Nat
      BY DEF NotBegun
    <3>2. QED
      BY <2>1, <3>1 DEF NoSearch, SearchTypes
  <2>3. QED
    BY <2>2 DEF Failed, SearchTypes
<1>2. FoundOK(l, {}) /\ IsFiniteSet({})
  BY FS_EmptySet DEF FoundOK
<1>3. RepresentedIn({}, Reads({}), ToSet(<<>>))
  BY DEF RepresentedIn
<1>4. QED
  BY <1>1, <1>2, <1>3 DEF SearchOK, NoSearch, Failed
-----------------------------------------------------------------------------
(***************************************************************************)
(* One request's steps                                                     *)
(***************************************************************************)

\* The next candidate is taken up: none of its keys has been looked up by.
LEMMA OnwardOK ==
  ASSUME NEW l, NEW t \in SearchTypes, NEW todo \in Seq(Cands),
         FoundOK(l, t.found), IsFiniteSet(t.got), t.answer = <<>>,
         RepresentedIn(t.got, Reads(t.found), ToSet(todo))
  PROVE  SearchOK(l, Onward(t, todo))
<1> DEFINE look == IF todo = <<>> THEN <<>> ELSE Lookups(Head(todo))
           stage == IF todo = <<>> THEN "search" ELSE "persist"
<1>1. PICK s : s = Onward(t, todo)
  OBVIOUS
<1>2. look \in Seq(Keys)
  <2>1. <<>> \in Seq(Keys)
    BY EmptySeq
  <2>2. QED
    BY <2>1, LookupsAreKeys
<1>3. s = [t EXCEPT !.todo = todo, !.apart = NotBegun, !.look = look, !.pc = stage]
  BY <1>1 DEF Onward
<1>4. stage \in {"search", "persist"} /\ (stage = "persist" <=> todo # <<>>)
  OBVIOUS
<1>5. todo # <<>> => look = Lookups(Head(todo))
  OBVIOUS
<1> HIDE DEF look, stage
<1>6. /\ s \in SearchTypes
      /\ s.todo = todo /\ s.apart = NotBegun /\ s.look = look /\ s.pc = stage
      /\ s.found = t.found /\ s.got = t.got /\ s.answer = t.answer
  <2>1. NotBegun \in SUBSET Nat
    BY DEF NotBegun
  <2>2. QED
    BY <1>2, <1>3, <1>4, <2>1 DEF SearchTypes
<1>7. ASSUME todo # <<>> PROVE LookedOK(l, Head(todo), look, NotBegun)
  BY <1>5, <1>7 DEF LookedOK
<1>8. QED
  BY <1>1, <1>4, <1>6, <1>7 DEF SearchOK

\* getRelevantVendorListings finds rows there are.
LEMMA RelevantOK ==
  ASSUME listing \in Seq(Rows), NEW cats
  PROVE  FoundOK(listing, Relevant(cats))
<1> DEFINE near == {i \in 1 .. Len(listing) : listing[i].cats \cap cats # {}}
           Shared(i) == Cardinality(listing[i].cats \cap cats)
           Before(i, j) == \/ Shared(i) > Shared(j)
                           \/ Shared(i) = Shared(j) /\ listing[i].place < listing[j].place
                           \/ Shared(i) = Shared(j) /\ listing[i].place = listing[j].place /\ i < j
           Index(i) == Cardinality({j \in near : Before(j, i)})
           kept == {j \in near : Index(j) < Keep}
<1>1. Relevant(cats) = {[at |-> i, rank |-> Index(i), known |-> TRUE, read |-> listing[i]] : i \in kept}
  BY DEF Relevant
<1>2. Len(listing) \in Nat /\ near \in SUBSET (1 .. Len(listing)) /\ kept \in SUBSET near
  BY LenProperties
<1> HIDE DEF Before, Shared, kept
<1>3. IsFiniteSet(near)
  <2>1. IsFiniteSet(1 .. Len(listing))
    BY <1>2, FS_Interval
  <2> HIDE DEF near
  <2>2. QED
    BY <1>2, <2>1, FS_Subset
<1>4. IsFiniteSet(kept)
  BY <1>2, <1>3, FS_Subset
<1>5. ASSUME NEW i PROVE Index(i) \in Nat
  <2>1. {j \in near : Before(j, i)} \in SUBSET near
    OBVIOUS
  <2>2. IsFiniteSet({j \in near : Before(j, i)})
    BY <1>3, <2>1, FS_Subset
  <2>3. QED
    BY <2>2, FS_CardinalityType
<1> HIDE DEF Index, near
<1>6. ASSUME NEW c \in Relevant(cats) PROVE c \in Finds /\ c.at \in 1 .. Len(listing)
  <2>1. PICK i \in kept : c = [at |-> i, rank |-> Index(i), known |-> TRUE, read |-> listing[i]]
    BY <1>1
  <2>2. i \in 1 .. Len(listing) /\ i \in Nat /\ listing[i] \in Rows
    BY <1>2, ElementOfSeq
  <2>3. PICK n \in Nat : n = Index(i)
    BY <1>5
  <2>4. PICK row \in Rows : row = listing[i]
    BY <2>2
  <2>5. c = [at |-> i, rank |-> n, known |-> TRUE, read |-> row]
    BY <2>1, <2>3, <2>4
  <2>6. QED
    BY <2>2, <2>5 DEF Finds
<1>7. IsFiniteSet(Relevant(cats))
  <2>1. PICK f : f = [i \in kept |-> [at |-> i, rank |-> Index(i), known |-> TRUE, read |-> listing[i]]]
    OBVIOUS
  <2>2. f \in Surjection(kept, Relevant(cats))
    BY <1>1, <2>1 DEF Surjection
  <2>3. QED
    BY <1>4, <2>2, FS_Surjection
<1>8. QED
  BY <1>6, <1>7 DEF FoundOK

\* Known listings are added to what is recommended.
LEMMA MoreFound ==
  ASSUME NEW l, NEW found, FoundOK(l, found), NEW more, FoundOK(l, more)
  PROVE  FoundOK(l, found \cup more) /\ Reads(found) \subseteq Reads(found \cup more)
<1>1. IsFiniteSet(found \cup more)
  BY FS_Union DEF FoundOK
<1>2. QED
  BY <1>1 DEF FoundOK, Reads

\* One more recommendation.
LEMMA OneFound ==
  ASSUME NEW l, NEW found, FoundOK(l, found), NEW c \in Finds, c.at \in 1 .. Len(l)
  PROVE  FoundOK(l, found \cup {c}) /\ Reads(found \cup {c}) = Reads(found) \cup {c.read}
<1>1. IsFiniteSet(found \cup {c})
  BY FS_AddElement DEF FoundOK
<1>2. QED
  BY <1>1 DEF FoundOK, Reads

\* The engine answers, or fails.
LEMMA PlanOK ==
  ASSUME NEW r \in Requests, SearchOK(listing, search[r]), Plan(r),
         search = [x \in Requests |-> search[x]]
  PROVE  SearchOK(listing, search'[r])
<1>1. PICK s : s = search[r]
  OBVIOUS
<1>2. CASE search'[r] = Failed
  BY <1>2, NoSearchOK
<1>3. ASSUME NEW p \in Plans, search'[r] = [s EXCEPT !.pc = "search", !.plan = p]
      PROVE  SearchOK(listing, search'[r])
  <2>1. s \in SearchTypes /\ p \in Seq(DOMAIN Results) /\ s.pc = "new"
    BY <1>1, ResultsAssumption DEF Plan, SearchOK
  <2>2. PICK t : t = search'[r]
    OBVIOUS
  <2>3. /\ t \in SearchTypes /\ t.pc = "search"
        /\ t.todo = s.todo /\ t.found = s.found /\ t.got = s.got /\ t.answer = s.answer
    BY <1>3, <2>1, <2>2 DEF SearchTypes
  <2>4. s.todo = <<>> /\ s.answer = <<>>
    BY <1>1, <2>1 DEF SearchOK
  <2>5. QED
    BY <1>1, <2>2, <2>3, <2>4 DEF SearchOK
<1>4. QED
  BY <1>1, <1>2, <1>3 DEF Plan, Set

\* One round of discover: what Foursquare returns is represented by what it is merged to.
LEMMA SearchStepOK ==
  ASSUME listing \in Seq(Rows), NEW r \in Requests, SearchOK(listing, search[r]), Search(r),
         search = [x \in Requests |-> search[x]]
  PROVE  SearchOK(listing, search'[r])
<1>1. PICK s : s = search[r]
  OBVIOUS
<1>2. PICK cats : cats = Head(s.plan)
  OBVIOUS
<1>3. PICK t : t = [s EXCEPT !.plan = Tail(@), !.found = @ \cup Relevant(cats)]
  OBVIOUS
<1>4. s \in SearchTypes /\ s.pc = "search" /\ s.todo = <<>> /\ s.answer = <<>> /\ s.plan # <<>>
  BY <1>1 DEF Search, SearchOK
<1>5. cats \in DOMAIN Results /\ Tail(s.plan) \in Seq(DOMAIN Results)
  <2>1. s.plan \in Seq(DOMAIN Results)
    BY <1>4 DEF SearchTypes
  <2>2. QED
    BY <1>2, <1>4, <2>1, HeadTailProperties
<1>6. FoundOK(listing, s.found) /\ FoundOK(listing, Relevant(cats))
  BY <1>1, RelevantOK DEF SearchOK
<1>7. PICK found : found = s.found \cup Relevant(cats)
  OBVIOUS
<1>8. FoundOK(listing, found) /\ Reads(s.found) \subseteq Reads(found)
  BY <1>6, <1>7, MoreFound
<1>9. /\ t \in SearchTypes
      /\ t.pc = s.pc /\ t.todo = s.todo /\ t.found = found /\ t.got = s.got /\ t.answer = s.answer
      /\ t.rank = s.rank
  <2>1. found \in SUBSET Finds
    BY <1>8 DEF FoundOK
  <2>2. QED
    BY <1>3, <1>4, <1>5, <1>7, <2>1 DEF SearchTypes
<1>10. RepresentedIn(s.got, Reads(s.found), {}) /\ IsFiniteSet(s.got)
  <2>1. ToSet(s.todo) = {}
    BY <1>4 DEF ToSet
  <2>2. QED
    BY <1>1, <2>1 DEF SearchOK
<1>11. \/ search'[r] = [t EXCEPT !.broken = TRUE]
       \/ \E res \in Results[cats] :
            search'[r] = Onward([t EXCEPT !.rank = @ + Len(res), !.got = @ \cup ToSet(res)],
                                Dedupe(Candidates(res, s.rank)))
  BY <1>1, <1>2, <1>3 DEF Search, Set
<1>12. CASE search'[r] = [t EXCEPT !.broken = TRUE]
  <2>1. PICK u : u = search'[r]
    OBVIOUS
  <2>2. /\ u \in SearchTypes
        /\ u.pc = t.pc /\ u.todo = t.todo /\ u.found = t.found /\ u.got = t.got /\ u.answer = t.answer
    BY <1>9, <1>12, <2>1 DEF SearchTypes
  <2>3. RepresentedIn(s.got, Reads(found), {})
    BY <1>8, <1>10, RepresentedGrows
  <2>4. ToSet(u.todo) = {}
    BY <1>4, <1>9, <2>2 DEF ToSet
  <2>5. QED
    BY <1>4, <1>8, <1>9, <1>10, <2>1, <2>2, <2>3, <2>4 DEF SearchOK
<1>13. ASSUME NEW res \in Results[cats],
              search'[r] = Onward([t EXCEPT !.rank = @ + Len(res), !.got = @ \cup ToSet(res)],
                                  Dedupe(Candidates(res, s.rank)))
       PROVE  SearchOK(listing, search'[r])
  <2>1. res \in Seq(Places) /\ s.rank \in Nat
    BY <1>4, <1>5, ResultsAssumption DEF SearchTypes
  <2>2. PICK d : d = Dedupe(Candidates(res, s.rank))
    OBVIOUS
  <2>3. Deduped(d, res, Len(res)) /\ d \in Seq(Cands)
    BY <2>1, <2>2, DedupeKeeps DEF Deduped
  <2>4. PICK got : got = s.got \cup ToSet(res)
    OBVIOUS
  <2>5. PICK rank : rank = s.rank + Len(res)
    OBVIOUS
  <2>6. PICK u : u = [t EXCEPT !.rank = @ + Len(res), !.got = @ \cup ToSet(res)]
    OBVIOUS
  <2>7. IsFiniteSet(got) /\ got \in SUBSET Places /\ rank \in Nat
    <3>1. IsFiniteSet(ToSet(res)) /\ ToSet(res) \subseteq Places /\ Len(res) \in Nat
      BY <2>1, FiniteMembers, Members, LenProperties
    <3>2. s.got \in SUBSET Places
      BY <1>4 DEF SearchTypes
    <3>3. IsFiniteSet(s.got \cup ToSet(res))
      BY <1>10, <3>1, FS_Union
    <3>4. QED
      BY <2>1, <2>4, <2>5, <3>1, <3>2, <3>3
  <2>8. u = [t EXCEPT !.rank = rank, !.got = got]
    BY <1>9, <2>4, <2>5, <2>6 DEF SearchTypes
  <2>9. u \in SearchTypes /\ u.found = found /\ u.got = got /\ u.answer = <<>>
    BY <1>4, <1>9, <2>7, <2>8 DEF SearchTypes
  <2>10. RepresentedIn(got, Reads(found), ToSet(d))
    BY <1>8, <1>10, <2>1, <2>3, <2>4, RepresentedSearched
  <2>11. SearchOK(listing, Onward(u, d))
    BY <1>8, <2>3, <2>7, <2>9, <2>10, OnwardOK
  <2>12. QED
    BY <1>13, <2>2, <2>6, <2>11
<1>14. QED
  BY <1>11, <1>12, <1>13

\* One query of findExistingSearchListing: it finds a row that is the same, or there was none.
LEMMA LookOK ==
  ASSUME listing \in Seq(Rows), NEW r \in Requests, SearchOK(listing, search[r]), Look(r),
         search = [x \in Requests |-> search[x]]
  PROVE  SearchOK(listing, search'[r])
<1>1. PICK s : s = search[r]
  OBVIOUS
<1>2. PICK c : c = Head(s.todo)
  OBVIOUS
<1>3. PICK k : k = Head(s.look)
  OBVIOUS
<1>4. s \in SearchTypes /\ s.pc = "persist" /\ s.todo # <<>> /\ s.look # <<>> /\ s.answer = <<>>
  BY <1>1 DEF Look, SearchOK
<1>5. /\ c \in Cands /\ Tail(s.todo) \in Seq(Cands)
      /\ ToSet(s.todo) = {c} \cup ToSet(Tail(s.todo))
  BY <1>2, <1>4, Members DEF SearchTypes
<1>6. /\ k \in Keys /\ Tail(s.look) \in Seq(Keys)
      /\ ToSet(s.look) = {k} \cup ToSet(Tail(s.look))
  BY <1>3, <1>4, Members DEF SearchTypes
<1>7. LookedOK(listing, c, s.look, s.apart) /\ Len(listing) \in Nat
  BY <1>1, <1>2, <1>4, LenProperties DEF SearchOK
<1>8. Matching(c, k) = {i \in 1 .. Len(listing) : Matches(listing, i, c, k)}
  BY DEF Matching, Matches
<1>9. ASSUME NEW i \in Matching(c, k),
             search'[r] = Onward([s EXCEPT !.found = @ \cup {[at |-> i, rank |-> c.rank, known |-> FALSE,
                                                                read |-> listing[i]]}],
                                 Tail(s.todo))
      PROVE  SearchOK(listing, search'[r])
  <2>1. PICK f : f = [at |-> i, rank |-> c.rank, known |-> FALSE, read |-> listing[i]]
    OBVIOUS
  <2>2. /\ i \in 1 .. Len(listing) /\ f \in Finds /\ f.at = i /\ f.read = listing[i]
        /\ FoundOK(listing, s.found)
    <3>1. i \in 1 .. Len(listing) /\ i \in Nat
      BY <1>7, <1>8, <1>9
    <3>2. c.rank \in Nat /\ listing[i] \in Rows
      BY <1>5, <3>1, ElementOfSeq DEF Cands
    <3>3. f \in Finds /\ f.at = i /\ f.read = listing[i]
      BY <2>1, <3>1, <3>2 DEF Finds
    <3>4. QED
      BY <1>1, <3>1, <3>3 DEF SearchOK
  <2>3. PICK found : found = s.found \cup {f}
    OBVIOUS
  <2>4. FoundOK(listing, found) /\ Reads(found) = Reads(s.found) \cup {listing[i]}
    <3>1. PICK old : old = s.found
      OBVIOUS
    <3>2. FoundOK(listing, old) /\ f \in Finds /\ f.at \in 1 .. Len(listing)
      BY <2>2, <3>1
    <3>3. FoundOK(listing, old \cup {f})
      BY <3>2, OneFound
    <3>4. Reads(old \cup {f}) = Reads(old) \cup {f.read}
      BY <3>2, OneFound
    <3>5. QED
      BY <2>2, <2>3, <3>1, <3>3, <3>4
  <2>5. SameCandidate(c, listing[i])
    <3>1. k \in ToSet(Lookups(c))
      BY <1>6, <1>7 DEF LookedOK
    <3>2. c[k] # None /\ (k = "weak" => Keyless(c)) /\ Matches(listing, i, c, k)
      BY <1>8, <1>9, <3>1, LookupsAreKeys
    <3>3. CASE k \in StableKeys
      BY <3>2, <3>3 DEF SameCandidate, Matches
    <3>4. CASE k = "weak"
      BY <3>2, <3>4 DEF SameCandidate, Matches
    <3>5. QED
      BY <1>6, <3>3, <3>4 DEF Keys
  <2>6. RepresentedIn(s.got, Reads(found), ToSet(Tail(s.todo)))
    <3>1. RepresentedIn(s.got, Reads(s.found), ToSet(s.todo))
      BY <1>1 DEF SearchOK
    <3>2. ToSet(s.todo) \subseteq ToSet(Tail(s.todo)) \cup {c}
      BY <1>5
    <3>3. PICK row : row = listing[i]
      OBVIOUS
    <3>4. PICK rows : rows = Reads(s.found)
      OBVIOUS
    <3>5. RepresentedIn(s.got, rows \cup {row}, ToSet(Tail(s.todo)))
      BY <2>5, <3>1, <3>2, <3>3, <3>4, RepresentedTaken
    <3>6. QED
      BY <2>4, <3>3, <3>4, <3>5
  <2>7. PICK t : t = [s EXCEPT !.found = found]
    OBVIOUS
  <2>8. t \in SearchTypes /\ t.found = found /\ t.got = s.got /\ t.answer = <<>>
    <3>1. found \in SUBSET Finds
      BY <2>4 DEF FoundOK
    <3>2. QED
      BY <1>4, <2>7, <3>1 DEF SearchTypes
  <2>9. SearchOK(listing, Onward(t, Tail(s.todo)))
    <3>1. IsFiniteSet(t.got)
      BY <1>1, <2>8 DEF SearchOK
    <3>2. QED
      BY <1>5, <2>4, <2>6, <2>8, <3>1, OnwardOK
  <2>10. t = [s EXCEPT !.found = @ \cup {[at |-> i, rank |-> c.rank, known |-> FALSE, read |-> listing[i]]}]
    BY <1>4, <2>1, <2>3, <2>7 DEF SearchTypes
  <2>11. QED
    BY <1>9, <2>9, <2>10
<1>10. ASSUME Matching(c, k) = {},
              search'[r] = [s EXCEPT !.look = Tail(@),
                                     !.apart = IF @ = NotBegun THEN DOMAIN listing ELSE @]
       PROVE  SearchOK(listing, search'[r])
  <2>1. PICK old : old = IF s.apart = NotBegun THEN DOMAIN listing ELSE s.apart
    OBVIOUS
  <2>2. DOMAIN listing = 1 .. Len(listing) /\ DOMAIN listing \in SUBSET Nat
    BY <1>7, LenProperties
  <2>3. old \in SUBSET Nat /\ old \subseteq 1 .. Len(listing) /\ (s.apart # NotBegun => old = s.apart)
    BY <1>4, <1>7, <2>1, <2>2 DEF SearchTypes, LookedOK
  <2>4. old # NotBegun
    <3>1. 0 \notin old
      BY <1>7, <2>3
    <3>2. QED
      BY <3>1 DEF NotBegun
  <2>5. PICK t : t = search'[r]
    OBVIOUS
  <2>6. t = [s EXCEPT !.look = Tail(s.look), !.apart = old]
    BY <1>4, <1>10, <2>1, <2>5 DEF SearchTypes
  <2>7. /\ t \in SearchTypes /\ t.look = Tail(s.look) /\ t.apart = old /\ t.pc = s.pc
        /\ t.todo = s.todo /\ t.found = s.found /\ t.got = s.got /\ t.answer = s.answer
    BY <1>4, <1>6, <2>3, <2>6 DEF SearchTypes
  <2>8. LookedOK(listing, c, Tail(s.look), old)
    <3>1. ASSUME NEW j \in ToSet(Lookups(c)), j \notin ToSet(Tail(s.look))
          PROVE  \A i \in old : ~Matches(listing, i, c, j)
      <4>1. CASE j = k
        BY <1>8, <1>10, <2>3, <4>1
      <4>2. CASE j # k
        BY <1>6, <1>7, <2>3, <3>1, <4>2 DEF LookedOK
      <4>3. QED
        BY <4>1, <4>2
    <3>2. QED
      BY <1>6, <1>7, <2>3, <2>4, <3>1 DEF LookedOK
  <2>9. QED
    BY <1>1, <1>2, <1>4, <2>5, <2>7, <2>8 DEF SearchOK
<1>11. QED
  BY <1>1, <1>2, <1>3, <1>9, <1>10 DEF Look, Set

\* A row that is inserted has a candidate's keys, and none of the rows there were when its lookup
\* began is the same.
LEMMA InsertOK ==
  ASSUME RowsOK(listing, apart), NEW r \in Requests, SearchOK(listing, search[r]), Insert(r),
         search = [x \in Requests |-> search[x]]
  PROVE  /\ RowsOK(listing', apart') /\ Extended(listing, listing') /\ Len(listing') \in Nat
         /\ SearchOK(listing', search'[r])
<1>1. PICK s : s = search[r]
  OBVIOUS
<1>2. PICK c : c = Head(s.todo)
  OBVIOUS
<1>3. s \in SearchTypes /\ s.pc = "persist" /\ s.todo # <<>> /\ s.look = <<>> /\ s.answer = <<>>
  BY <1>1 DEF Insert, SearchOK
<1>4. /\ c \in Cands /\ Tail(s.todo) \in Seq(Cands)
      /\ ToSet(s.todo) = {c} \cup ToSet(Tail(s.todo))
  BY <1>2, <1>3, Members DEF SearchTypes
<1>5. LookedOK(listing, c, s.look, s.apart) /\ Len(listing) \in Nat /\ listing \in Seq(Rows)
  BY <1>1, <1>2, <1>3, LenProperties DEF SearchOK, RowsOK
<1>6. CASE Conflicts(c)
  <2>1. listing' = listing /\ apart' = apart /\ search'[r] = [s EXCEPT !.look = Lookups(c)]
    BY <1>1, <1>2, <1>6 DEF Insert, Set
  <2>2. PICK t : t = search'[r]
    OBVIOUS
  <2>3. /\ t \in SearchTypes /\ t.look = Lookups(c) /\ t.apart = s.apart /\ t.pc = s.pc
        /\ t.todo = s.todo /\ t.found = s.found /\ t.got = s.got /\ t.answer = s.answer
    <3>1. PICK look \in Seq(Keys) : look = Lookups(c)
      BY LookupsAreKeys
    <3>2. t = [s EXCEPT !.look = look]
      BY <2>1, <2>2, <3>1
    <3>3. QED
      BY <1>3, <3>1, <3>2 DEF SearchTypes
  <2>4. LookedOK(listing, c, Lookups(c), s.apart)
    BY <1>5 DEF LookedOK
  <2>5. SearchOK(listing, t)
    BY <1>1, <1>2, <1>3, <2>3, <2>4 DEF SearchOK
  <2>6. QED
    BY <1>5, <2>1, <2>2, <2>5 DEF Extended
<1>7. CASE ~Conflicts(c)
  <2>1. PICK x : x = Row(c)
    OBVIOUS
  <2>2. PICK f : f = [at |-> Len(listing) + 1, rank |-> c.rank, known |-> FALSE, read |-> x]
    OBVIOUS
  <2>3. PICK old : old = IF s.apart = NotBegun THEN DOMAIN listing ELSE s.apart
    OBVIOUS
  <2>4. /\ listing' = Append(listing, x) /\ apart' = Append(apart, old)
        /\ search'[r] = Onward([s EXCEPT !.found = @ \cup {f}], Tail(s.todo))
    BY <1>1, <1>2, <1>7, <2>1, <2>2, <2>3 DEF Insert, Set
  <2>5. /\ old \in SUBSET Nat /\ old \subseteq 1 .. Len(listing)
    <3>1. DOMAIN listing = 1 .. Len(listing) /\ DOMAIN listing \in SUBSET Nat
      BY <1>5, LenProperties
    <3>2. QED
      BY <1>3, <1>5, <2>3, <3>1 DEF SearchTypes, LookedOK
  <2>6. x = [fsq |-> c.fsq, email |-> c.email, phone |-> c.phone, weak |-> c.weak, cats |-> c.cats,
             date |-> c.date, place |-> c.place, searched |-> TRUE, owned |-> FALSE]
    BY <2>1 DEF Row
  <2>7. x \in Rows
    <3>1. c.email \in Values("email") \cup {None} /\ c.weak \in Values("weak") \cup {None}
      BY <1>4 DEF Cands, Of, Values
    <3>2. QED
      BY <1>4, <2>6, <3>1 DEF Rows, Cands, Of, AllCats
  <2>8. Like(x, c)
    BY <2>6 DEF Like, StableKeys
  <2>9. ASSUME NEW i \in old PROVE ~SameCandidate(listing[i], x)
    <3> SUFFICES ASSUME SameCandidate(listing[i], x) PROVE FALSE
      OBVIOUS
    <3>1. SameCandidate(listing[i], c)
      BY <2>8, LikeSame
    <3>3. \A k \in ToSet(Lookups(c)) : ~Matches(listing, i, c, k)
      <4> SUFFICES ASSUME NEW k \in ToSet(Lookups(c)) PROVE ~Matches(listing, i, c, k)
        OBVIOUS
      <4>1. ToSet(s.look) = {}
        BY <1>3 DEF ToSet
      <4>2. s.apart # NotBegun /\ \A n \in s.apart : ~Matches(listing, n, c, k)
        BY <1>5, <4>1 DEF LookedOK
      <4>3. QED
        BY <2>3, <4>2
    <3>4. ASSUME NEW k \in StableKeys, listing[i][k] # None, listing[i][k] = c[k] PROVE FALSE
      <4>1. k \in ToSet(Lookups(c)) /\ k # "weak"
        BY <3>4, LookupsAreKeys DEF StableKeys
      <4>2. QED
        BY <3>3, <3>4, <4>1 DEF Matches
    <3>5. ASSUME Keyless(listing[i]), Keyless(c), listing[i].weak # None, listing[i].weak = c.weak
          PROVE  FALSE
      <4>1. "weak" \in ToSet(Lookups(c))
        BY <3>5, LookupsAreKeys
      <4>2. QED
        BY <3>3, <3>5, <4>1 DEF Matches
    <3>6. QED
      BY <3>1, <3>4, <3>5 DEF SameCandidate
  <2>10. \A i \in 1 .. Len(listing) : x.fsq # None => listing[i].fsq # x.fsq
    BY <1>7, <2>6 DEF Conflicts
  <2>11. PICK m : m = listing'
    OBVIOUS
  <2>12. /\ RowsOK(m, apart') /\ Extended(listing, m) /\ Len(m) \in Nat
         /\ Len(m) = Len(listing) + 1 /\ m[Len(listing) + 1] = x
    <3>1. PICK b : b = apart'
      OBVIOUS
    <3>2. m = Append(listing, x) /\ b = Append(apart, old)
      BY <2>4, <2>5, <2>11, <3>1
    <3>3. /\ old \in SUBSET Nat /\ old \subseteq 1 .. Len(listing)
          /\ RowsOK(listing, apart) /\ x \in Rows
          /\ \A i \in old : ~SameCandidate(listing[i], x)
      BY <2>5, <2>7, <2>9
    <3>4. RowsOK(m, b)
      BY <2>10, <3>2, <3>3, RowsAppended
    <3>5. Extended(listing, m)
      BY <2>10, <3>2, <3>3, RowsAppended
    <3>6. Len(m) = Len(listing) + 1 /\ m[Len(listing) + 1] = x
      BY <1>5, <3>2, AppendProperties
    <3>7. QED
      BY <1>5, <3>1, <3>4, <3>5, <3>6
  <2>13. FoundOK(m, s.found)
    BY <1>1, <1>5, <2>12, SearchStays DEF SearchOK
  <2>14. PICK found : found = s.found \cup {f}
    OBVIOUS
  <2>15. FoundOK(m, found) /\ Reads(found) = Reads(s.found) \cup {x}
    <3>1. Len(listing) + 1 \in 1 .. Len(m) /\ c.rank \in Nat /\ Len(listing) + 1 \in Nat
      BY <1>4, <1>5, <2>12 DEF Cands
    <3>2. f \in Finds /\ f.at = Len(listing) + 1 /\ f.read = x
      BY <2>2, <2>7, <3>1 DEF Finds
    <3>3. f.at \in 1 .. Len(m)
      BY <3>1, <3>2
    <3>4. PICK old1 : old1 = s.found
      OBVIOUS
    <3>5. FoundOK(m, old1)
      BY <2>13, <3>4
    <3>6. FoundOK(m, old1 \cup {f})
      BY <3>2, <3>3, <3>5, OneFound
    <3>7. Reads(old1 \cup {f}) = Reads(old1) \cup {f.read}
      BY DEF Reads
    <3>8. QED
      BY <2>14, <3>2, <3>4, <3>6, <3>7
  <2>16. RepresentedIn(s.got, Reads(found), ToSet(Tail(s.todo)))
    <3>1. RepresentedIn(s.got, Reads(s.found), ToSet(s.todo))
      BY <1>1 DEF SearchOK
    <3>2. ToSet(s.todo) \subseteq ToSet(Tail(s.todo)) \cup {c}
      BY <1>4
    <3>3. QED
      BY <2>8, <2>15, <3>1, <3>2, RepresentedTaken
  <2>17. PICK t : t = [s EXCEPT !.found = found]
    OBVIOUS
  <2>18. t \in SearchTypes /\ t.found = found /\ t.got = s.got /\ t.answer = <<>>
    <3>1. found \in SUBSET Finds
      BY <2>15 DEF FoundOK
    <3>2. QED
      BY <1>3, <2>17, <3>1 DEF SearchTypes
  <2>19. SearchOK(m, Onward(t, Tail(s.todo)))
    <3>1. IsFiniteSet(t.got)
      BY <1>1, <2>18 DEF SearchOK
    <3>2. QED
      BY <1>4, <2>15, <2>16, <2>18, <3>1, OnwardOK
  <2>20. t = [s EXCEPT !.found = @ \cup {f}]
    BY <1>3, <2>14, <2>17 DEF SearchTypes
  <2>21. QED
    BY <2>4, <2>11, <2>12, <2>19, <2>20
<1>8. QED
  BY <1>6, <1>7

\* discover ends with an answer that is complete.
LEMMA FinishOK ==
  ASSUME listing \in Seq(Rows), NEW r \in Requests, SearchOK(listing, search[r]), Finish(r),
         search = [x \in Requests |-> search[x]]
  PROVE  SearchOK(listing, search'[r])
<1>1. PICK s : s = search[r]
  OBVIOUS
<1>2. PICK a : a = Ranked(s.found)
  OBVIOUS
<1>3. PICK answer : answer = SubSeq(a, 1, IF Len(a) < Keep THEN Len(a) ELSE Keep)
  OBVIOUS
<1>4. s \in SearchTypes /\ s.pc = "search" /\ s.todo = <<>>
  BY <1>1 DEF Finish, SearchOK
<1>5. AnswerOK(s.found, answer)
  BY <1>1, <1>2, <1>3, AnswerIsComplete DEF SearchOK
<1>6. \/ search'[r] = Failed
      \/ search'[r] = [s EXCEPT !.pc = "answered", !.answer = answer]
  BY <1>1, <1>2, <1>3 DEF Finish, Set
<1>7. CASE search'[r] = Failed
  BY <1>7, NoSearchOK
<1>8. CASE search'[r] = [s EXCEPT !.pc = "answered", !.answer = answer]
  <2>1. PICK t : t = search'[r]
    OBVIOUS
  <2>2. answer \in Seq(Finds)
    BY <1>5 DEF AnswerOK
  <2>3. /\ t \in SearchTypes /\ t.pc = "answered" /\ t.answer = answer
        /\ t.todo = s.todo /\ t.found = s.found /\ t.got = s.got
    BY <1>4, <1>8, <2>1, <2>2 DEF SearchTypes
  <2>4. QED
    BY <1>1, <1>4, <1>5, <2>1, <2>3 DEF SearchOK
<1>9. QED
  BY <1>6, <1>7, <1>8
-----------------------------------------------------------------------------
(***************************************************************************)
(* The listings and the searches together                                  *)
(***************************************************************************)

ListInv ==
  RowsOK(listing, apart) /\ edits \in 0 .. MaxEdits /\ \A r \in Requests : SearchOK(listing, search[r])

IInv == GateInv /\ ListInv

\* A step of one request, which may add rows, leaves what the others know.
LEMMA OneSearchKeeps ==
  ASSUME ListInv, SearchAdmitted, NEW r \in Requests, NEW s, search' = [search EXCEPT ![r] = s],
         RowsOK(listing', apart'), Extended(listing, listing'), UNCHANGED edits,
         SearchOK(listing', search'[r])
  PROVE  ListInv'
<1>1. PICK m : m = listing'
  OBVIOUS
<1>2. RowsOK(m, apart') /\ Extended(listing, m) /\ Len(m) \in Nat /\ Len(listing) \in Nat
  BY <1>1, LenProperties DEF ListInv, RowsOK
<1>3. ASSUME NEW x \in Requests PROVE SearchOK(m, search'[x])
  <2>1. CASE x = r
    BY <1>1, <2>1
  <2>2. CASE x # r
    <3>1. search'[x] = search[x]
      BY <2>2 DEF SearchAdmitted
    <3>2. SearchOK(listing, search[x])
      BY DEF ListInv
    <3>3. SearchOK(m, search[x])
      BY <1>2, <3>2, SearchStays
    <3>4. QED
      BY <3>1, <3>3
  <2>3. QED
    BY <2>1, <2>2
<1>4. QED
  BY <1>1, <1>2, <1>3 DEF ListInv

\* A step that leaves the listings alone.
LEMMA SameRows ==
  ASSUME ListInv, SearchAdmitted, NEW r \in Requests, NEW s, search' = [search EXCEPT ![r] = s],
         UNCHANGED rowVars, SearchOK(listing, search'[r])
  PROVE  ListInv'
<1> UNCHANGED <<listing, apart, edits>>
  BY DEF rowVars
<1>1. RowsOK(listing', apart') /\ Extended(listing, listing')
  BY LenProperties DEF ListInv, RowsOK, Extended
<1>2. SearchOK(listing', search'[r])
  OBVIOUS
<1>3. QED
  BY <1>1, <1>2, OneSearchKeeps

\* A user's own listing.
LEMMA CreateKeeps ==
  ASSUME ListInv, NEW address \in Values("email"), CreateVendor(address)
  PROVE  ListInv'
<1>1. PICK x : x = [fsq |-> None, email |-> address, phone |-> None, weak |-> None, cats |-> {},
                    date |-> 0, place |-> 0, searched |-> FALSE, owned |-> TRUE]
  OBVIOUS
<1>2. x \in Rows /\ x.fsq = None
  BY <1>1 DEF Rows
<1>3. PICK m : m = listing'
  OBVIOUS
<1>4. m = Append(listing, x) /\ apart' = Append(apart, {}) /\ search' = search
  BY <1>1, <1>3 DEF CreateVendor
<1>5. Len(listing) \in Nat
  BY LenProperties DEF ListInv, RowsOK
<1>6. RowsOK(m, apart') /\ Extended(listing, m) /\ Len(m) \in Nat
  <2>1. PICK old \in SUBSET Nat : old = {}
    OBVIOUS
  <2>2. /\ RowsOK(listing, apart) /\ old \subseteq 1 .. Len(listing)
        /\ \A i \in old : ~SameCandidate(listing[i], x)
        /\ apart' = Append(apart, old)
    BY <1>4, <2>1 DEF ListInv
  <2>3. RowsOK(m, apart') /\ Extended(listing, m) /\ Len(m) = Len(listing) + 1
    <3>1. PICK b : b = apart'
      OBVIOUS
    <3>2. b = Append(apart, old) /\ m = Append(listing, x)
      BY <1>4, <2>2, <3>1
    <3>3. \A n \in 1 .. Len(listing) : x.fsq # None => listing[n].fsq # x.fsq
      BY <1>2
    <3>4. RowsOK(m, b) /\ Extended(listing, m) /\ Len(m) = Len(listing) + 1
      BY <1>2, <2>2, <3>2, <3>3, RowsAppended
    <3>5. QED
      BY <3>1, <3>4
  <2>4. QED
    BY <1>5, <2>3
<1>7. ASSUME NEW r \in Requests PROVE SearchOK(m, search'[r])
  <2>1. SearchOK(listing, search[r])
    BY DEF ListInv
  <2>2. SearchOK(m, search[r])
    BY <1>5, <1>6, <2>1, SearchStays
  <2>3. QED
    BY <1>4, <2>2
<1>8. edits' = edits
  BY DEF CreateVendor
<1>9. QED
  BY <1>3, <1>6, <1>7, <1>8 DEF ListInv

\* A user's change of a listing.
LEMMA EditKeeps ==
  ASSUME ListInv, SearchAdmitted, NEW i \in 1 .. Len(listing), NEW k \in Edited, NEW value \in Values(k),
         EditListing(i, k, value)
  PROVE  ListInv'
<1>1. listing \in Seq(Rows) /\ RowsOK(listing, apart) /\ listing[i] \in Rows
  BY ElementOfSeq DEF ListInv, RowsOK
<1>2. PICK row : row = [listing[i] EXCEPT ![k] = value, !.owned = TRUE]
  OBVIOUS
<1>3. row \in Rows /\ row.fsq = listing[i].fsq
  <2>1. CASE k = "email"
    BY <1>1, <1>2, <2>1 DEF Rows
  <2>2. CASE k = "weak"
    BY <1>1, <1>2, <2>2 DEF Rows
  <2>3. QED
    BY <2>1, <2>2 DEF Edited
<1>4. PICK m : m = listing'
  OBVIOUS
<1>5. PICK b : b = apart'
  OBVIOUS
<1>6. /\ m = [listing EXCEPT ![i] = row]
      /\ b = [j \in DOMAIN apart |-> IF j = i THEN {} ELSE apart[j] \ {i}]
      /\ search' = [r \in Requests |-> [search[r] EXCEPT !.apart = @ \ {i}]]
  BY <1>1, <1>2, <1>4, <1>5 DEF EditListing
<1>7. RowsOK(m, b) /\ Len(m) = Len(listing)
  <2>1. row \in Rows /\ row.fsq = listing[i].fsq /\ i \in 1 .. Len(listing) /\ RowsOK(listing, apart)
    BY <1>1, <1>3
  <2>2. /\ m = [listing EXCEPT ![i] = row]
        /\ b = [j \in DOMAIN apart |-> IF j = i THEN {} ELSE apart[j] \ {i}]
    BY <1>6
  <2>3. RowsOK(m, b)
    BY <2>1, <2>2, RowsEdited
  <2>4. Len(m) = Len(listing)
    BY <1>1, <2>2, ExceptSeq
  <2>5. QED
    BY <2>3, <2>4
<1>8. \A j \in 1 .. Len(listing) : j # i => m[j] = listing[j]
  BY <1>1, <1>6
<1>9. ASSUME NEW r \in Requests PROVE SearchOK(m, search'[r])
  <2>1. PICK s : s = search[r]
    OBVIOUS
  <2>2. SearchOK(listing, s) /\ search'[r] = [s EXCEPT !.apart = @ \ {i}]
    BY <1>6, <2>1 DEF ListInv
  <2>3. QED
    BY <1>7, <1>8, <2>2, SearchEdited
<1>10. edits' \in 0 .. MaxEdits
  <2>1. edits < MaxEdits /\ edits' = edits + 1
    BY DEF EditListing
  <2>2. edits \in 0 .. MaxEdits /\ MaxEdits \in Nat
    BY SearchAssumption DEF ListInv
  <2>3. QED
    BY <2>1, <2>2
<1>11. QED
  BY <1>4, <1>5, <1>7, <1>9, <1>10 DEF ListInv

\* Every step keeps what is known of the listings.
LEMMA ListKeeps == ListInv /\ SearchAdmitted /\ [Next]_vars => ListInv'
<1> SUFFICES ASSUME ListInv, SearchAdmitted, [Next]_vars PROVE ListInv'
  OBVIOUS
<1>1. listing \in Seq(Rows) /\ search = [x \in Requests |-> search[x]]
  BY DEF ListInv, RowsOK, SearchAdmitted
<1>2. ASSUME NEW r \in Requests PROVE SearchOK(listing, search[r])
  BY DEF ListInv
<1>3. ASSUME UNCHANGED <<rowVars, search>> PROVE ListInv'
  BY <1>3 DEF ListInv, rowVars
<1>4. ASSUME NEW r \in Requests, Gate(r) PROVE ListInv'
  BY <1>3, <1>4 DEF Gate
<1>5. ASSUME NEW r \in Requests, Plan(r) PROVE ListInv'
  <2>1. SearchOK(listing, search'[r])
    BY <1>1, <1>2, <1>5, PlanOK
  <2>2. QED
    BY <1>5, <2>1, SameRows DEF Plan, Set
<1>6. ASSUME NEW r \in Requests, Search(r) PROVE ListInv'
  <2>1. SearchOK(listing, search'[r])
    BY <1>1, <1>2, <1>6, SearchStepOK
  <2>2. QED
    BY <1>6, <2>1, SameRows DEF Search, Set
<1>7. ASSUME NEW r \in Requests, Look(r) PROVE ListInv'
  <2>1. SearchOK(listing, search'[r])
    BY <1>1, <1>2, <1>7, LookOK
  <2>2. QED
    BY <1>7, <2>1, SameRows DEF Look, Set
<1>8. ASSUME NEW r \in Requests, Insert(r) PROVE ListInv'
  <2>1. /\ RowsOK(listing', apart') /\ Extended(listing, listing')
        /\ SearchOK(listing', search'[r])
    BY <1>1, <1>2, <1>8, InsertOK DEF ListInv
  <2>2. QED
    BY <1>8, <2>1, OneSearchKeeps DEF Insert, Set
<1>9. ASSUME NEW r \in Requests, Finish(r) PROVE ListInv'
  <2>1. SearchOK(listing, search'[r])
    BY <1>1, <1>2, <1>9, FinishOK
  <2>2. QED
    BY <1>9, <2>1, SameRows DEF Finish, Set
<1>10. ASSUME NEW r \in Requests, Break(r) PROVE ListInv'
  <2>1. SearchOK(listing, search'[r])
    BY <1>1, <1>10, NoSearchOK DEF Break, Set
  <2>2. QED
    BY <1>10, <2>1, SameRows DEF Break, Set
<1>11. ASSUME NEW address \in Values("email"), CreateVendor(address) PROVE ListInv'
  BY <1>11, CreateKeeps
<1>12. ASSUME NEW i \in 1 .. Len(listing), NEW k \in Edited, NEW value \in Values(k),
              EditListing(i, k, value)
       PROVE  ListInv'
  BY <1>12, EditKeeps
<1>13. CASE UNCHANGED vars
  BY <1>3, <1>13 DEF vars
<1>14. QED
  BY <1>3, <1>4, <1>5, <1>6, <1>7, <1>8, <1>9, <1>10, <1>11, <1>12, <1>13 DEF Next

\* Every step keeps the invariant.
LEMMA NextKeeps == IInv /\ [Next]_vars => IInv'
BY AdmittedKeeps, ListKeeps DEF IInv, GateInv, ListInv, SearchOK

LEMMA Initially == Init => IInv
<1> SUFFICES ASSUME Init PROVE IInv
  OBVIOUS
<1>1. RateInv /\ SearchAdmitted
  BY RateInitially DEF Init, SearchAdmitted, NoSearch
<1>2. RowsOK(listing, apart)
  <2>1. /\ listing \in Seq(Rows) /\ DOMAIN listing = 1 .. Len(listing) /\ Len(listing) \in Nat
        /\ \A i, j \in 1 .. Len(listing) : i # j /\ listing[j].fsq # None => listing[i].fsq # listing[j].fsq
    BY KnownAssumption, LenProperties DEF Init
  <2>2. apart = [j \in 1 .. Len(listing) |-> {}]
    BY <2>1 DEF Init
  <2>3. apart \in Seq(SUBSET Nat) /\ Len(apart) = Len(listing)
    BY <2>1, <2>2
  <2>4. ASSUME NEW j \in 1 .. Len(listing) PROVE RowOK(listing, apart, j)
    <3>1. apart[j] = {} /\ \A i \in 1 .. j - 1 : i \in 1 .. Len(listing) /\ i # j
      BY <2>1, <2>2
    <3>2. QED
      BY <2>1, <3>1 DEF RowOK
  <2>5. QED
    BY <2>1, <2>3, <2>4 DEF RowsOK
<1>3. edits \in 0 .. MaxEdits
  BY SearchAssumption DEF Init
<1>4. QED
  BY <1>1, <1>2, <1>3, NoSearchOK DEF Init, IInv, GateInv, ListInv

LEMMA InvariantHolds == Spec => []IInv
BY Initially, NextKeeps, PTL DEF Spec

\* What is recommended are rows there are, and no answer names one twice (discover,
\* rankPersistedListings).
THEOREM TypeCorrect == Spec => []TypeOK
<1>1. IInv => TypeOK
  <2> SUFFICES ASSUME IInv PROVE TypeOK
    OBVIOUS
  <2>1. /\ RateTypeOK /\ listing \in Seq(Rows) /\ edits \in 0 .. MaxEdits
        /\ DOMAIN apart = 1 .. Len(listing) /\ \A j \in 1 .. Len(listing) : apart[j] \subseteq 1 .. (j - 1)
    <3>1. DOMAIN apart = 1 .. Len(listing)
      BY LenProperties DEF IInv, ListInv, RowsOK
    <3>2. \A j \in 1 .. Len(listing) : apart[j] \subseteq 1 .. (j - 1)
      BY DEF IInv, ListInv, RowsOK, RowOK
    <3>3. QED
      BY <3>1, <3>2 DEF IInv, GateInv, RateInv, ListInv, RowsOK
  <2>2. ASSUME NEW r \in Requests, NEW s, s = search[r]
        PROVE  /\ s.pc \in {"new", "search", "persist", "answered", "failed"}
               /\ s.pc = "persist" <=> s.todo # <<>>
               /\ \A c \in s.found : c.at \in 1..Len(listing)
               /\ \A m, n \in 1..Len(s.answer) : m # n => s.answer[m].at # s.answer[n].at
    <3>1. SearchOK(listing, s)
      BY <2>2 DEF IInv, ListInv
    <3>2. s.pc \in {"new", "search", "persist", "answered", "failed"}
      BY <3>1 DEF SearchOK, SearchTypes
    <3>3. \A m, n \in 1..Len(s.answer) : m # n => s.answer[m].at # s.answer[n].at
      <4>1. CASE s.pc = "answered"
        BY <3>1, <4>1 DEF SearchOK, AnswerOK
      <4>2. CASE s.answer = <<>>
        BY <4>2
      <4>3. QED
        BY <3>1, <4>1, <4>2 DEF SearchOK
    <3>4. QED
      BY <3>1, <3>2, <3>3 DEF SearchOK, FoundOK
  <2>3. QED
    BY <2>1, <2>2 DEF TypeOK
<1>2. QED
  BY <1>1, InvariantHolds, PTL

\* insertOrReuseSearchListing: however many searches look up and insert at once, and whatever users
\* enter and change meanwhile, a row a search inserted shares its keys only with rows that came after
\* its own lookup had begun or were edited since, unless it was edited itself, and its place id with
\* none.
THEOREM DuplicatesNeedOverlap == Spec => []DuplicatesOverlap
<1>1. IInv => DuplicatesOverlap
  BY DEF IInv, ListInv, RowsOK, RowOK, DuplicatesOverlap
<1>2. QED
  BY <1>1, InvariantHolds, PTL

\* dedupeCandidates, findExistingSearchListing and rankPersistedListings lose no business, whatever
\* Foursquare returns and whoever inserts meanwhile.
THEOREM PlacesStayRepresented == Spec => []PlacesAreRepresented
<1>1. IInv => PlacesAreRepresented
  <2> SUFFICES ASSUME IInv, NEW r \in Requests, NEW s, s = search[r]
               PROVE  /\ s.pc \in {"search", "answered"} =>
                           LET read == {c.read : c \in s.found} IN
                           \A p \in s.got : \/ Connected(p, s.got \cup read) \cap read # {}
                                             \/ \E l \in read : Like(l, p)
                      /\ s.pc = "answered" =>
                           LET found == {c.at : c \in s.found}
                               shown == {s.answer[n].at : n \in 1..Len(s.answer)} IN
                           /\ Cardinality(shown) = IF Cardinality(found) < Keep THEN Cardinality(found) ELSE Keep
                           /\ (\E c \in s.found : c.known /\ c.at \notin shown) =>
                                \A n \in 1..Len(s.answer) : s.answer[n].known
    BY DEF PlacesAreRepresented
  <2>1. SearchOK(listing, s)
    BY DEF IInv, ListInv
  <2>2. PICK read : read = {c.read : c \in s.found}
    OBVIOUS
  <2>3. ASSUME s.pc \in {"search", "answered"}, NEW p \in s.got
        PROVE  Connected(p, s.got \cup read) \cap read # {} \/ \E l \in read : Like(l, p)
    <3>1. RepresentedIn(s.got, read, {})
      <4>1. s.todo = <<>>
        BY <2>1, <2>3 DEF SearchOK
      <4>2. ToSet(s.todo) = {}
        BY <4>1 DEF ToSet
      <4>3. QED
        BY <2>1, <2>2, <4>2 DEF SearchOK, Reads
    <3>2. IsFiniteSet(read)
      <4>1. PICK f : f = [c \in s.found |-> c.read]
        OBVIOUS
      <4>2. f \in Surjection(s.found, read)
        BY <2>2, <4>1 DEF Surjection
      <4>3. IsFiniteSet(s.found)
        BY <2>1 DEF SearchOK, FoundOK
      <4>4. QED
        BY <4>2, <4>3, FS_Surjection
    <3>3. PICK S : S = s.got \cup read
      OBVIOUS
    <3>4. IsFiniteSet(S) /\ p \in S
      BY <2>1, <2>3, <3>2, <3>3, FS_Union DEF SearchOK
    <3>5. PICK C : C = Connected(p, S)
      OBVIOUS
    <3>6. /\ p \in C /\ C \subseteq S /\ Closed(C, S)
          /\ \A y \in C : y = p \/ \E a \in S : SameCandidate(a, y)
      BY <3>4, <3>5, ConnectedIsClosed
    <3>7. PICK q \in C, l \in read : Like(l, q)
      BY <2>3, <3>1, <3>3, <3>6 DEF RepresentedIn, Stands
    <3>8. CASE q = p
      BY <3>7, <3>8
    <3>9. ASSUME NEW a \in S, SameCandidate(a, q) PROVE l \in C
      <4>1. SameCandidate(q, a)
        BY <3>9, SameIsSymmetric
      <4>2. SameCandidate(l, a)
        BY <3>7, <4>1, LikeSame
      <4>3. a \in C
        BY <3>6, <3>7, <3>9, <4>1 DEF Closed
      <4>4. SameCandidate(a, l)
        BY <4>2, SameIsSymmetric
      <4>5. QED
        BY <3>3, <3>6, <4>3, <4>4 DEF Closed
    <3>10. QED
      BY <3>3, <3>5, <3>6, <3>7, <3>8, <3>9
  <2>4. s.pc = "answered" => AnswerOK(s.found, s.answer)
    BY <2>1 DEF SearchOK
  <2>5. QED
    BY <2>2, <2>3, <2>4 DEF AnswerOK
<1>2. QED
  BY <1>1, InvariantHolds, PTL

\* rateLimitService.enforce: however many requests interleave, and whether or not a window ends
\* meanwhile, no rule lets more than its limit through in a window, and who is turned away finds it spent.
THEOREM LimitsAreKept == Spec => []LimitsHold
<1>1. IInv => LimitsHold
  BY DEF IInv, GateInv, RateInv, BucketsCount, RejectedFindFull, LimitsHold
<1>2. QED
  BY <1>1, InvariantHolds, PTL

\* searchVendors of a signed-in user reaches the engine and Foursquare for no more requests than
\* each rule allows in each window, for any number of requests, rules, limits and windows.
THEOREM PaidSearchesWithinLimits == Spec => []PaidWithinLimits
<1>1. IInv => PaidWithinLimits
  <2> SUFFICES ASSUME IInv PROVE PaidWithinLimits
    OBVIOUS
  <2>1. LimitsHold
    BY DEF IInv, GateInv, RateInv, BucketsCount, RejectedFindFull, LimitsHold
  <2> SUFFICES ASSUME NEW i \in 1..Rules, NEW w \in Times
               PROVE  Cardinality({r \in Requests \ Anonymous :
                                     search[r].pc # "new" /\ WindowOf(i, r) = w}) <= Limit[i]
    BY <2>1 DEF PaidWithinLimits
  <2> DEFINE Paid == {r \in Requests \ Anonymous : search[r].pc # "new" /\ WindowOf(i, r) = w}
  <2>2. Paid \in SUBSET Passed(i, w)
    BY RulesAssumption DEF IInv, GateInv, RateInv, RateTypeOK, GateOrder, SearchAdmitted, Passed
  <2>3. /\ IsFiniteSet(Passed(i, w))
        /\ Cardinality(Passed(i, w)) <= Limit[i]
    BY DEF IInv, GateInv, RateInv, BucketsCount
  <2>4. IsFiniteSet(Paid) /\ Cardinality(Paid) <= Cardinality(Passed(i, w))
    BY <2>2, <2>3, FS_Subset
  <2>5. Cardinality(Paid) \in Nat /\ Cardinality(Passed(i, w)) \in Nat /\ Limit[i] \in Nat
    BY <2>3, <2>4, FS_CardinalityType, RulesAssumption
  <2>6. QED
    BY <2>3, <2>4, <2>5
<1>2. QED
  BY <1>1, InvariantHolds, PTL
-----------------------------------------------------------------------------
(***************************************************************************)
(* The vendors of a project                                                *)
(***************************************************************************)

Serving == {"attach", "complete", "update"}
Saving  == {"select", "remove", "edit"}

Transacting(p) == pc[p] \in {"attaching", "emailing"}
Updating(p)    == pc[p] \in {"deactivating", "reactivating", "creating"}

\* The tables.
DataOK ==
  /\ super \in [Listings -> Listings \cup {Null}]
  /\ owner \in [Listings -> Users \cup {Null}]
  /\ email \in [Listings -> Calls \cup {Null, "own"}]
  /\ contact \in [Users -> VendorRows]
  /\ link \in [Projects -> VendorRows]
  /\ born \subseteq Projects /\ Existing \subseteq born
  /\ holder \in [Listings \cup Projects -> Calls \cup {Null}]
  /\ pc \in [Calls -> Steps]
  /\ call \in [Calls -> Records]

\* A project's vendors are contacts of its user.
LinksOK ==
  \A j \in Projects, l \in Listings : link[j][l] # "none" => j \in born /\ contact[OwnerOf[j]][l] # "none"

\* What a call is, by its place.
PlaceOK(p) ==
  LET c == call[p] IN
  /\ pc[p] = "locking" => c.op = "attach"
  /\ pc[p] = "attaching" => c.op \in {"attach", "complete"}
  /\ pc[p] = "emailing" => c.op = "complete"
  /\ pc[p] = "saving" => c.op \in Saving /\ c.user \in Users /\ \E l \in Listings : c.attached = {l}
  /\ Updating(p) => c.op = "update"
  /\ c.op \in Serving => c.project \in Projects /\ c.user = OwnerOf[c.project]
  /\ c.op = "update" => c.project \in Existing

\* The locks a call has, and their order.
LocksOK(p) ==
  LET c == call[p] IN
  /\ \A x \in Listings \cup Projects : holder[x] = p => Transacting(p)
  /\ \A j \in Projects : holder[j] = p => pc[p] = "attaching"
  /\ ~c.astray => /\ c.chain = Null
                  /\ \A l \in Listings : holder[l] = p => pc[p] = "attaching" /\ \A m \in c.todo : l < m

\* What a transaction is to write is locked and still as it was read.
PromisesOK(p) ==
  LET c == call[p] IN
  /\ pc[p] \in {"locking", "emailing"} => c.attached = {} /\ c.links = {}
  /\ pc[p] = "attaching" => \A l \in c.attached : holder[l] = p /\ super[l] = Null
  /\ \A l \in c.owned : holder[l] = p /\ owner[l] = Null
  /\ \A l \in c.emailed : holder[l] = p /\ email[l] = Null

\* What it has read of rows, unless they were written since.
ReadOK(p) ==
  LET c == call[p] IN
  pc[p] = "attaching" =>
    /\ \A l \in c.links : l \in c.contacts \/ contact[c.user][l] # "none"
    /\ \A l \in c.attached \ c.since :
         /\ l \in c.contacts \/ contact[c.user][l] = "active"
         /\ l \in c.links \/ link[c.project][l] = "active"

\* What an update makes of the rows it has read, at each of its steps.
UpdateOK(p) ==
  LET c == call[p]
      Kept(l)   == IF l \notin c.todo /\ c.seen[l] # "none" /\ pc[p] # "deactivating" THEN "inactive" ELSE c.seen[l]
      Raised(l) == IF l \in c.todo /\ c.seen[l] = "inactive" /\ pc[p] = "creating" THEN "active" ELSE Kept(l)
  IN Updating(p) =>
       /\ \A l \in Listings : l \in c.todo \/ c.seen[l] # "none" => contact[c.user][l] # "none"
       /\ \A l \in Listings \ c.since : link[c.project][l] = Raised(l)

\* A listing that is edited is the user's own, or claimed by him.
EditOK(p) ==
  call[p].op = "edit" => call[p].user \in Users /\ \A l \in call[p].attached : Editor(l) = call[p].user

CallOK(p) == PlaceOK(p) /\ LocksOK(p) /\ PromisesOK(p) /\ ReadOK(p) /\ UpdateOK(p) /\ EditOK(p)

VendorsInv == DataOK /\ LinksOK /\ \A p \in Calls : CallOK(p)

-----------------------------------------------------------------------------
\* A step leaves call q alone: it takes no lock of q, writes nothing q has locked, and tells q of
\* the rows it writes.
Undisturbed(q) ==
  LET c == call[q] IN
  /\ pc'[q] = pc[q]
  /\ \E L \in SUBSET Listings :
       /\ call'[q] = [c EXCEPT !.since = @ \cup L]
       /\ c.user \in Users => \A l \in Listings \ L : contact'[c.user][l] = contact[c.user][l]
       /\ c.project \in Projects /\ c.user = OwnerOf[c.project] =>
            \A l \in Listings \ L : link'[c.project][l] = link[c.project][l]
  /\ \A x \in Listings \cup Projects : holder'[x] = q <=> holder[x] = q
  /\ \A l \in Listings : holder[l] = q => super'[l] = super[l] /\ owner'[l] = owner[l] /\ email'[l] = email[l]
  /\ \A l \in Listings : owner[l] # Null => owner'[l] = owner[l]
  /\ \A u \in Users, l \in Listings : contact[u][l] # "none" => contact'[u][l] # "none"

\* What is true of a call stays so in a step that leaves it alone.
LEMMA UndisturbedKeeps ==
  ASSUME NEW q \in Calls, DataOK, CallOK(q), Undisturbed(q)
  PROVE  CallOK(q)'
<1>1. PICK c : c = call[q]
  OBVIOUS
<1>2. PICK d : d = call'[q]
  OBVIOUS
<1>3. c \in Records
  BY <1>1 DEF DataOK
<1>4. PICK L \in SUBSET Listings :
        /\ d = [c EXCEPT !.since = @ \cup L]
        /\ c.user \in Users => \A l \in Listings \ L : contact'[c.user][l] = contact[c.user][l]
        /\ c.project \in Projects /\ c.user = OwnerOf[c.project] =>
             \A l \in Listings \ L : link'[c.project][l] = link[c.project][l]
  BY <1>1, <1>2 DEF Undisturbed
<1>5. /\ d.op = c.op /\ d.user = c.user /\ d.project = c.project /\ d.chain = c.chain
      /\ d.astray = c.astray /\ d.emails = c.emails /\ d.todo = c.todo /\ d.attached = c.attached
      /\ d.contacts = c.contacts /\ d.links = c.links /\ d.owned = c.owned /\ d.emailed = c.emailed
      /\ d.seen = c.seen /\ d.since = c.since \cup L
  BY <1>3, <1>4 DEF Records
<1>6. /\ c.owned \subseteq Listings /\ c.emailed \subseteq Listings /\ c.attached \subseteq Listings
      /\ c.links \subseteq Listings
  BY <1>3 DEF Records
<1>7. /\ pc'[q] = pc[q]
      /\ \A x \in Listings \cup Projects : holder'[x] = q <=> holder[x] = q
      /\ \A l \in Listings : holder[l] = q => super'[l] = super[l] /\ owner'[l] = owner[l] /\ email'[l] = email[l]
      /\ \A l \in Listings : owner[l] # Null => owner'[l] = owner[l]
      /\ \A u \in Users, l \in Listings : contact[u][l] # "none" => contact'[u][l] # "none"
  BY DEF Undisturbed
<1>8. PlaceOK(q)'
  BY <1>1, <1>2, <1>5, <1>7 DEF CallOK, PlaceOK, Updating
<1>9. LocksOK(q)'
  BY <1>1, <1>2, <1>5, <1>7 DEF CallOK, LocksOK, Transacting
<1>10. PromisesOK(q)'
  BY <1>1, <1>2, <1>5, <1>6, <1>7 DEF CallOK, PromisesOK
<1>11. c.op \in Serving => c.project \in Projects /\ c.user = OwnerOf[c.project] /\ c.user \in Users
  BY <1>1, OwnersAssumption DEF CallOK, PlaceOK
<1>12. ReadOK(q)'
  <2> SUFFICES ASSUME pc[q] = "attaching"
               PROVE  /\ \A l \in d.links : l \in d.contacts \/ contact'[d.user][l] # "none"
                      /\ \A l \in d.attached \ d.since :
                           /\ l \in d.contacts \/ contact'[d.user][l] = "active"
                           /\ l \in d.links \/ link'[d.project][l] = "active"
    BY <1>2, <1>7 DEF ReadOK
  <2>1. c.op \in Serving
    BY <1>1 DEF CallOK, PlaceOK, Serving
  <2>2. /\ \A l \in c.links : l \in c.contacts \/ contact[c.user][l] # "none"
        /\ \A l \in c.attached \ c.since :
             /\ l \in c.contacts \/ contact[c.user][l] = "active"
             /\ l \in c.links \/ link[c.project][l] = "active"
    BY <1>1 DEF CallOK, ReadOK
  <2>3. QED
    BY <1>4, <1>5, <1>6, <1>7, <1>11, <2>1, <2>2
<1>13. UpdateOK(q)'
  <2> SUFFICES ASSUME Updating(q) PROVE UpdateOK(q)'
    BY <1>7 DEF UpdateOK, Updating
  <2>1. c.op \in Serving
    BY <1>1 DEF CallOK, PlaceOK, Serving
  <2>2. QED
    BY <1>1, <1>2, <1>4, <1>5, <1>7, <1>11, <2>1 DEF CallOK, UpdateOK, Updating
<1>14. EditOK(q)'
  <2>1. ASSUME c.op = "edit", NEW l \in c.attached PROVE Editor(l)' = c.user
    <3>1. Editor(l) = c.user /\ l \in Listings /\ c.user # Null
      BY <1>1, <1>6, <2>1, NullAssumption DEF CallOK, EditOK
    <3>2. QED
      BY <1>7, <3>1 DEF Editor
  <2>2. c.op = "edit" => c.user \in Users
    BY <1>1 DEF CallOK, EditOK
  <2>3. QED
    BY <1>2, <1>5, <2>1, <2>2 DEF EditOK
<1>15. QED
  BY <1>8, <1>9, <1>10, <1>12, <1>13, <1>14 DEF CallOK
-----------------------------------------------------------------------------
\* A step that writes no row, and of the locks only p's.
LEMMA PrivateStep ==
  ASSUME VendorsInv, NEW p \in Calls, NEW d \in Records, NEW s \in Steps,
         call' = [call EXCEPT ![p] = d], pc' = [pc EXCEPT ![p] = s],
         UNCHANGED <<super, owner, email, contact, link, born>>,
         holder' \in [Listings \cup Projects -> Calls \cup {Null}],
         \A x \in Listings \cup Projects :
           holder'[x] = holder[x] \/ (holder[x] \in {Null, p} /\ holder'[x] \in {Null, p}),
         CallOK(p)'
  PROVE  VendorsInv'
<1>1. DataOK'
  BY DEF VendorsInv, DataOK
<1>2. LinksOK'
  BY DEF VendorsInv, LinksOK
<1>3. ASSUME NEW q \in Calls, q # p PROVE CallOK(q)'
  <2>1. PICK c \in Records : c = call[q]
    BY DEF VendorsInv, DataOK
  <2>2. c = [c EXCEPT !.since = @ \cup {}]
    BY <2>1 DEF Records
  <2>3. call'[q] = c /\ pc'[q] = pc[q]
    BY <1>3, <2>1 DEF VendorsInv, DataOK
  <2>4. \A x \in Listings \cup Projects : holder'[x] = q <=> holder[x] = q
    BY <1>3, NullAssumption
  <2>5. \E L \in SUBSET Listings :
          /\ call'[q] = [call[q] EXCEPT !.since = @ \cup L]
          /\ call[q].user \in Users => \A l \in Listings \ L : contact'[call[q].user][l] = contact[call[q].user][l]
          /\ call[q].project \in Projects /\ call[q].user = OwnerOf[call[q].project] =>
               \A l \in Listings \ L : link'[call[q].project][l] = link[call[q].project][l]
    <3>1. PICK L \in SUBSET Listings : L = {}
      OBVIOUS
    <3>2. call'[q] = [call[q] EXCEPT !.since = @ \cup L]
      BY <2>1, <2>2, <2>3, <3>1
    <3>3. QED
      BY <3>2
  <2>6. Undisturbed(q)
    BY <2>3, <2>4, <2>5 DEF Undisturbed
  <2>7. QED
    BY <2>6, UndisturbedKeeps DEF VendorsInv
<1>4. QED
  BY <1>1, <1>2, <1>3 DEF VendorsInv

\* A lock that is taken was free, or the own one.
LEMMA Taking ==
  ASSUME DataOK, NEW p \in Calls, NEW x \in Listings \cup Projects, Lock(p, x)
  PROVE  /\ holder' \in [Listings \cup Projects -> Calls \cup {Null}]
         /\ \A y \in Listings \cup Projects :
              /\ holder'[y] = holder[y] \/ (holder[y] \in {Null, p} /\ holder'[y] \in {Null, p})
              /\ holder'[y] = p <=> holder[y] = p \/ y = x
BY DEF DataOK, Lock

\* With a transaction its locks go, and only those.
LEMMA Leaving ==
  ASSUME DataOK, NEW p \in Calls, holder' = Releasing(p)
  PROVE  /\ holder' \in [Listings \cup Projects -> Calls \cup {Null}]
         /\ \A y \in Listings \cup Projects :
              /\ holder'[y] = holder[y] \/ (holder[y] \in {Null, p} /\ holder'[y] \in {Null, p})
              /\ holder'[y] # p
BY NullAssumption DEF DataOK, Releasing

\* A place without a call is empty.
LEMMA NoCallType == NoCall \in Records
<1>1. <<>> \in Seq(Listings)
  BY EmptySeq
<1>2. [l \in Listings |-> "none"] \in VendorRows
  BY DEF VendorRows
<1>3. QED
  BY <1>1, <1>2 DEF NoCall, Records

\* A call that is over.
LEMMA NoCallOK ==
  ASSUME NEW p \in Calls, call'[p] = NoCall, pc'[p] \in {"done", "failed"},
         \A x \in Listings \cup Projects : holder'[x] # p
  PROVE  CallOK(p)'
<1>1. PICK d : d = NoCall
  OBVIOUS
<1>2. /\ d.op = "none" /\ d.chain = Null /\ d.astray = FALSE /\ d.owned = {} /\ d.emailed = {}
  BY <1>1 DEF NoCall
<1>3. PlaceOK(p)'
  BY <1>1, <1>2 DEF PlaceOK, Updating, Serving
<1>4. LocksOK(p)' /\ PromisesOK(p)' /\ ReadOK(p)' /\ UpdateOK(p)' /\ EditOK(p)'
  BY <1>1, <1>2 DEF LocksOK, PromisesOK, ReadOK, UpdateOK, EditOK, Updating
<1>5. QED
  BY <1>3, <1>4 DEF CallOK

\* Statements fail, and deadlocks are broken.
LEMMA FailKeeps ==
  ASSUME VendorsInv, NEW p \in Calls, Fail(p)
  PROVE  VendorsInv'
<1>1. DataOK
  BY DEF VendorsInv
<1>2. /\ call' = [call EXCEPT ![p] = NoCall] /\ pc' = [pc EXCEPT ![p] = "failed"]
      /\ holder' = Releasing(p) /\ UNCHANGED <<super, owner, email, contact, link, born>>
  BY DEF Fail, Goto, listings
<1>3. call'[p] = NoCall /\ pc'[p] = "failed" /\ "failed" \in Steps
  BY <1>1, <1>2 DEF DataOK, Steps
<1>4. CallOK(p)'
  BY <1>1, <1>2, <1>3, Leaving, NoCallOK
<1>5. QED
  BY <1>1, <1>2, <1>3, <1>4, Leaving, NoCallType, PrivateStep

\* A request begins: it has locked nothing and is to write nothing.
LEMMA BeginKeeps ==
  ASSUME VendorsInv, NEW p \in Calls, NEW d \in Records, NEW s \in Steps,
         Begin(p, d, s),
         d.chain = Null, d.astray = FALSE, d.links = {}, d.owned = {}, d.emailed = {},
         s \in {"locking", "emailing", "saving", "deactivating"},
         s = "locking" => d.op = "attach",
         s = "emailing" => d.op = "complete",
         s \in {"locking", "emailing"} => d.attached = {},
         s = "saving" => d.op \in Saving /\ d.user \in Users /\ \E l \in Listings : d.attached = {l},
         d.op \in Serving => d.project \in Projects /\ d.user = OwnerOf[d.project],
         s = "deactivating" <=> d.op = "update",
         d.op = "update" => /\ d.project \in Existing /\ d.seen = link[d.project]
                            /\ \A l \in d.todo : l \in Listings /\ contact[d.user][l] # "none",
         d.op = "edit" => \A l \in d.attached : Editor(l) = d.user,
         d.op = "edit" => s = "saving"
  PROVE  VendorsInv'
<1>1. DataOK /\ LinksOK /\ CallOK(p)
  BY DEF VendorsInv
<1>2. /\ pc[p] = "idle" /\ call' = [call EXCEPT ![p] = d] /\ pc' = [pc EXCEPT ![p] = s]
      /\ UNCHANGED <<super, owner, email, contact, link, born, holder>>
  BY DEF Begin, Goto, listings
<1>3. call'[p] = d /\ pc'[p] = s
  BY <1>1, <1>2 DEF DataOK
<1>4. \A x \in Listings \cup Projects : holder'[x] # p
  BY <1>1, <1>2 DEF CallOK, LocksOK, Transacting
<1>5. PlaceOK(p)'
  BY <1>3 DEF PlaceOK, Updating
<1>6. LocksOK(p)' /\ PromisesOK(p)' /\ ReadOK(p)'
  BY <1>3, <1>4 DEF LocksOK, PromisesOK, ReadOK
<1>7. UpdateOK(p)'
  <2> SUFFICES ASSUME d.op = "update" PROVE UpdateOK(p)'
    BY <1>3 DEF UpdateOK, Updating
  <2>1. s = "deactivating" /\ d.user = OwnerOf[d.project] /\ d.project \in Projects /\ d.seen = link[d.project]
    BY OwnersAssumption DEF Serving
  <2>2. \A l \in Listings : d.seen[l] # "none" => contact[d.user][l] # "none"
    BY <1>1, <2>1 DEF LinksOK
  <2>3. QED
    BY <1>2, <1>3, <2>1, <2>2 DEF UpdateOK, Updating
<1>8. EditOK(p)'
  BY <1>2, <1>3 DEF EditOK, Editor
<1>9. CallOK(p)'
  BY <1>5, <1>6, <1>7, <1>8 DEF CallOK
<1>10. holder' \in [Listings \cup Projects -> Calls \cup {Null}]
  BY <1>1, <1>2 DEF DataOK
<1>11. QED
  BY <1>2, <1>9, <1>10, PrivateStep
-----------------------------------------------------------------------------
\* The chain of a listing, step by step.
LEMMA CanonicalRounds ==
  ASSUME NEW l, IsFiniteSet(Listings)
  PROVE  \E f : /\ f[0] = l
                /\ \A n \in 0 .. Cardinality(Listings) - 1 :
                     f[n + 1] = IF Available(f[n]) THEN f[n] ELSE super[f[n]]
                /\ Canonical(l) = f[Cardinality(Listings)]
<1> DEFINE N == Cardinality(Listings)
           Up(x) == IF Available(x) THEN x ELSE super[x]
           Def(f, n) == [m \in 0 .. n |->
             IF m = 0 THEN l ELSE IF Available(f[m - 1]) THEN f[m - 1] ELSE super[f[m - 1]]]
           Begun == {n \in 0 .. N : \E f : f = Def(f, n)}
           d == CHOOSE f : f = Def(f, N)
<1>1. N \in Nat
  BY FS_CardinalityType
<1>2. 0 \in Begun
  <2>1. PICK f : f = [m \in 0 .. 0 |-> l]
    OBVIOUS
  <2>2. f = Def(f, 0)
    BY <2>1
  <2>3. QED
    BY <1>1, <2>2
<1>3. ASSUME NEW n \in 0 .. N - 1, n \in Begun PROVE n + 1 \in Begun
  <2>1. PICK f : f = Def(f, n)
    BY <1>3
  <2>2. PICK x : x = IF Available(f[n]) THEN f[n] ELSE super[f[n]]
    OBVIOUS
  <2>3. PICK g : g = [m \in 0 .. n + 1 |-> IF m = n + 1 THEN x ELSE f[m]]
    OBVIOUS
  <2>4. ASSUME NEW m \in 0 .. n + 1
        PROVE  g[m] = IF m = 0 THEN l ELSE IF Available(g[m - 1]) THEN g[m - 1] ELSE super[g[m - 1]]
    <3>1. CASE m = n + 1
      <4>1. g[m] = x /\ g[m - 1] = f[n]
        BY <1>1, <2>3, <3>1
      <4>2. QED
        BY <1>1, <2>2, <3>1, <4>1
    <3>2. CASE m # n + 1
      <4>1. m \in 0 .. n /\ g[m] = f[m]
        BY <1>1, <2>3, <3>2
      <4>2. f[m] = IF m = 0 THEN l ELSE IF Available(f[m - 1]) THEN f[m - 1] ELSE super[f[m - 1]]
        BY <2>1, <4>1
      <4>3. m # 0 => g[m - 1] = f[m - 1]
        BY <1>1, <2>3, <4>1
      <4>4. QED
        BY <4>1, <4>2, <4>3
    <3>3. QED
      BY <3>1, <3>2
  <2>5. g = Def(g, n + 1)
    BY <2>3, <2>4
  <2>6. n + 1 \in 0 .. N
    BY <1>1
  <2>7. QED
    BY <2>5, <2>6
<1>4. N \in Begun
  <2> HIDE DEF Begun
  <2>1. \A n \in 0 .. N : n \in Begun
    BY <1>1, <1>2, <1>3, SetInduction
  <2>2. QED
    BY <1>1, <2>1
<1>5. d = Def(d, N)
  BY <1>4
<1>6. Canonical(l) = d[N]
  BY DEF Canonical
<1>7. \A n \in 0 .. N :
        d[n] = IF n = 0 THEN l ELSE IF Available(d[n - 1]) THEN d[n - 1] ELSE super[d[n - 1]]
  <2> HIDE DEF d
  <2>1. QED
    BY <1>5
<1>8. d[0] = l /\ \A n \in 0 .. N - 1 : d[n + 1] = IF Available(d[n]) THEN d[n] ELSE super[d[n]]
  <2> HIDE DEF d
  <2>1. QED
    BY <1>1, <1>7
<1>9. QED
  BY <1>6, <1>8

\* resolveCanonicalListing finds a listing.
LEMMA CanonicalType ==
  ASSUME super \in [Listings -> Listings \cup {Null}], NEW l \in Listings
  PROVE  Canonical(l) \in Listings
<1> DEFINE N == Cardinality(Listings)
<1>1. N \in Nat
  BY ListingsAssumption, FS_CardinalityType
<1>2. PICK f : /\ f[0] = l
               /\ \A n \in 0 .. N - 1 : f[n + 1] = IF Available(f[n]) THEN f[n] ELSE super[f[n]]
               /\ Canonical(l) = f[N]
  BY ListingsAssumption, CanonicalRounds
<1>3. PICK S : S = {n \in 0 .. N : f[n] \in Listings}
  OBVIOUS
<1>4. 0 \in S
  BY <1>1, <1>2, <1>3
<1>5. ASSUME NEW n \in 0 .. N - 1, n \in S PROVE n + 1 \in S
  <2>1. f[n] \in Listings /\ n + 1 \in 0 .. N
    BY <1>1, <1>3, <1>5
  <2>2. f[n + 1] \in Listings
    BY <1>2, <2>1 DEF Available
  <2>3. QED
    BY <1>3, <2>1, <2>2
<1>6. N \in S
  <2>1. \A n \in 0 .. N : n \in S
    BY <1>1, <1>4, <1>5, SetInduction
  <2>2. QED
    BY <1>1, <2>1
<1>7. QED
  BY <1>2, <1>3, <1>6

\* The listing with the least uuid.
LEMMA LeastListing ==
  ASSUME NEW S, S \subseteq Listings, S # {}
  PROVE  Min(S) \in S /\ \A l \in S : Min(S) <= l
<1>1. PICK m \in S : \A k \in S : m <= k
  BY LeastNumber, ListingsAssumption
<1>2. QED
  BY <1>1 DEF Min

\* What is locked next is a listing; for an attachment the least of those left.
LEMMA AimType ==
  ASSUME DataOK, NEW p \in Calls, Asks(p)
  PROVE  /\ Aim(p) \in Listings
         /\ pc[p] = "attaching" => Turn(p) \in call[p].todo /\ \A l \in call[p].todo : Turn(p) <= l
<1>1. PICK c \in Records : c = call[p]
  BY DEF DataOK
<1>2. c.todo \subseteq Listings /\ c.emails \in Seq(Listings) /\ c.chain \in Listings \cup {Null}
  BY <1>1 DEF Records
<1>3. CASE pc[p] = "attaching"
  <2>1. Turn(p) = Min(c.todo) /\ c.todo # {}
    BY <1>1, <1>3 DEF Turn, Asks
  <2>2. Turn(p) \in c.todo /\ \A l \in c.todo : Turn(p) <= l
    BY <1>2, <2>1, LeastListing
  <2>3. QED
    BY <1>1, <1>2, <2>2 DEF Aim
<1>4. CASE pc[p] = "emailing"
  <2>1. Turn(p) = Head(c.emails) /\ c.emails # <<>>
    BY <1>1, <1>4 DEF Turn, Asks
  <2>2. Turn(p) \in Listings
    BY <1>2, <2>1, HeadTailProperties
  <2>3. QED
    BY <1>1, <1>2, <1>4, <2>2 DEF Aim
<1>5. QED
  BY <1>3, <1>4 DEF Asks
-----------------------------------------------------------------------------
\* The request of an attachment.
LEMMA BeginAttachKeeps ==
  ASSUME VendorsInv, NEW p \in Calls, BeginAttach(p)
  PROVE  VendorsInv'
<1>1. PICK j \in Existing, S \in SUBSET Listings :
        Begin(p, [NoCall EXCEPT !.op = "attach", !.user = OwnerOf[j], !.project = j, !.todo = S],
                      "locking")
  BY DEF BeginAttach
<1>2. PICK d : d = [NoCall EXCEPT !.op = "attach", !.user = OwnerOf[j], !.project = j, !.todo = S]
  OBVIOUS
<1>3. /\ d.op = "attach" /\ d.user = OwnerOf[j] /\ d.project = j /\ d.todo = S
      /\ d.chain = Null /\ d.astray = FALSE /\ d.links = {} /\ d.owned = {} /\ d.emailed = {} /\ d.attached = {}
  BY <1>2 DEF NoCall
<1>4. d \in Records
  <2>1. j \in Projects /\ OwnerOf[j] \in Users
    BY OwnersAssumption
  <2>2. QED
    BY <1>2, <2>1, NoCallType DEF Records
<1>5. Begin(p, d, "locking") /\ j \in Projects /\ "locking" \in Steps
  BY <1>1, <1>2, OwnersAssumption DEF Steps
<1>6. QED
  BY <1>3, <1>4, <1>5, BeginKeeps DEF Serving

\* The form of a completion, by what its listings resolve to.
LEMMA BeginCompleteKeeps ==
  ASSUME VendorsInv, NEW p \in Calls, BeginComplete(p)
  PROVE  VendorsInv'
<1>1. PICK j \in Projects \ born, S \in SUBSET Listings, T \in SUBSET Listings, es \in Seq(Listings) :
        Begin(p, [NoCall EXCEPT !.op = "complete", !.user = OwnerOf[j], !.project = j,
                                !.todo = T, !.emails = es], "emailing")
  <2>1. PICK j \in Projects \ born, S \in SUBSET Listings \ {{}} :
          \E E \in SUBSET {Canonical(l) : l \in S} : \E es \in SetToSeqs(E) :
            Begin(p, [NoCall EXCEPT !.op = "complete", !.user = OwnerOf[j], !.project = j,
                                    !.todo = {Canonical(l) : l \in S}, !.emails = es], "emailing")
    BY DEF BeginComplete
  <2>2. PICK T : T = {Canonical(l) : l \in S}
    OBVIOUS
  <2>3. T \in SUBSET Listings
    BY <2>2, CanonicalType DEF VendorsInv, DataOK
  <2>4. PICK E \in SUBSET T : \E es \in SetToSeqs(E) :
          Begin(p, [NoCall EXCEPT !.op = "complete", !.user = OwnerOf[j], !.project = j,
                                  !.todo = T, !.emails = es], "emailing")
    BY <2>1, <2>2
  <2>5. PICK es \in SetToSeqs(E) :
          Begin(p, [NoCall EXCEPT !.op = "complete", !.user = OwnerOf[j], !.project = j,
                                  !.todo = T, !.emails = es], "emailing")
    BY <2>4
  <2>6. es \in Seq(Listings)
    <3>1. IsFiniteSet(E)
      BY <2>3, ListingsAssumption, FS_Subset
    <3>2. Cardinality(E) \in Nat
      BY <3>1, FS_CardinalityType
    <3>3. es \in [1 .. Cardinality(E) -> E]
      BY <2>5 DEF SetToSeqs
    <3>4. es \in [1 .. Cardinality(E) -> Listings]
      BY <2>3, <3>3
    <3>5. QED
      BY <3>2, <3>4, SeqDef
  <2>7. QED
    BY <2>1, <2>3, <2>5, <2>6
<1>2. PICK d : d = [NoCall EXCEPT !.op = "complete", !.user = OwnerOf[j], !.project = j,
                                  !.todo = T, !.emails = es]
  OBVIOUS
<1>3. /\ d.op = "complete" /\ d.user = OwnerOf[j] /\ d.project = j
      /\ d.chain = Null /\ d.astray = FALSE /\ d.links = {} /\ d.owned = {} /\ d.emailed = {} /\ d.attached = {}
  BY <1>2 DEF NoCall
<1>4. d \in Records
  <2>1. OwnerOf[j] \in Users
    BY OwnersAssumption
  <2>2. QED
    BY <1>2, <2>1, NoCallType DEF Records
<1>5. Begin(p, d, "emailing") /\ "emailing" \in Steps
  BY <1>1, <1>2 DEF Steps
<1>6. QED
  BY <1>3, <1>4, <1>5, BeginKeeps DEF Serving

\* A contact form, with what it has read.
LEMMA BeginContactKeeps ==
  ASSUME VendorsInv, NEW p \in Calls, NEW op \in Saving, NEW u \in Users, NEW l \in Listings,
         BeginContact(p, op, u, l), op = "edit" => Editor(l) = u
  PROVE  VendorsInv'
<1>1. PICK d : d = [NoCall EXCEPT !.op = op, !.user = u, !.attached = {l}, !.seen = contact[u]]
  OBVIOUS
<1>2. /\ d.op = op /\ d.user = u /\ d.attached = {l}
      /\ d.chain = Null /\ d.astray = FALSE /\ d.links = {} /\ d.owned = {} /\ d.emailed = {}
  BY <1>1 DEF NoCall
<1>3. d \in Records
  <2>1. contact[u] \in VendorRows
    BY DEF VendorsInv, DataOK
  <2>2. QED
    BY <1>1, <2>1, NoCallType DEF Records, Saving
<1>4. Begin(p, d, "saving") /\ "saving" \in Steps
  BY <1>1 DEF BeginContact, Steps
<1>5. QED
  BY <1>2, <1>3, <1>4, BeginKeeps DEF Serving, Saving

\* A new list for a project, of contacts of its user.
LEMMA BeginUpdateKeeps ==
  ASSUME VendorsInv, NEW p \in Calls, BeginUpdate(p)
  PROVE  VendorsInv'
<1>1. PICK j \in Existing, S \in SUBSET Listings :
        Begin(p, [NoCall EXCEPT !.op = "update", !.user = OwnerOf[j], !.project = j,
                                !.seen = link[j],
                                !.todo = {l \in S : contact[OwnerOf[j]][l] # "none"}], "deactivating")
  BY DEF BeginUpdate
<1>2. PICK T : T = {l \in S : contact[OwnerOf[j]][l] # "none"}
  OBVIOUS
<1>3. PICK d : d = [NoCall EXCEPT !.op = "update", !.user = OwnerOf[j], !.project = j,
                                          !.seen = link[j], !.todo = T]
  OBVIOUS
<1>4. /\ d.op = "update" /\ d.user = OwnerOf[j] /\ d.project = j /\ d.seen = link[j] /\ d.todo = T
      /\ d.chain = Null /\ d.astray = FALSE /\ d.links = {} /\ d.owned = {} /\ d.emailed = {} /\ d.attached = {}
  BY <1>3 DEF NoCall
<1>5. d \in Records /\ j \in Projects
  <2>1. j \in Projects /\ OwnerOf[j] \in Users
    BY OwnersAssumption
  <2>2. link[j] \in VendorRows /\ T \in SUBSET Listings
    BY <1>2, <2>1 DEF VendorsInv, DataOK
  <2>3. QED
    BY <1>3, <2>1, <2>2, NoCallType DEF Records
<1>6. Begin(p, d, "deactivating") /\ "deactivating" \in Steps
  BY <1>1, <1>2, <1>3 DEF Steps
<1>7. \A l \in d.todo : l \in Listings /\ contact[d.user][l] # "none"
  BY <1>2, <1>4
<1>8. QED
  BY <1>4, <1>5, <1>6, <1>7, BeginKeeps DEF Serving
-----------------------------------------------------------------------------
\* The project's lock, and the listings as they are without one.
LEMMA LockProjectKeeps ==
  ASSUME VendorsInv, NEW p \in Calls, LockProject(p)
  PROVE  VendorsInv'
<1>1. PICK c \in Records : c = call[p]
  BY DEF VendorsInv, DataOK
<1>2. PICK T : T = {Canonical(l) : l \in c.todo}
  OBVIOUS
<1>3. PICK d : d = [c EXCEPT !.todo = T]
  OBVIOUS
<1>4. T \in SUBSET Listings
  BY <1>1, <1>2, CanonicalType DEF VendorsInv, DataOK, Records
<1>5. /\ d \in Records
      /\ d.op = c.op /\ d.user = c.user /\ d.project = c.project /\ d.chain = c.chain /\ d.astray = c.astray
      /\ d.attached = c.attached /\ d.links = c.links /\ d.owned = c.owned /\ d.emailed = c.emailed
  BY <1>1, <1>3, <1>4 DEF Records
<1>6. /\ pc[p] = "locking" /\ call' = [call EXCEPT ![p] = d] /\ pc' = [pc EXCEPT ![p] = "attaching"]
      /\ UNCHANGED <<super, owner, email, contact, link, born>>
  BY <1>1, <1>2, <1>3 DEF LockProject, Goto, listings
<1>7. call'[p] = d /\ pc'[p] = "attaching" /\ "attaching" \in Steps
  BY <1>6 DEF VendorsInv, DataOK, Steps
<1>8. PlaceOK(p) /\ LocksOK(p) /\ PromisesOK(p) /\ EditOK(p)
  BY DEF VendorsInv, CallOK
<1>9. c.op = "attach" /\ c.project \in Projects
  BY <1>1, <1>6, <1>8 DEF PlaceOK, Serving
<1>10. /\ holder' \in [Listings \cup Projects -> Calls \cup {Null}]
       /\ \A y \in Listings \cup Projects :
            /\ holder'[y] = holder[y] \/ (holder[y] \in {Null, p} /\ holder'[y] \in {Null, p})
            /\ holder'[y] = p <=> holder[y] = p \/ y = c.project
  <2>1. DataOK /\ c.project \in Listings \cup Projects
    BY <1>9 DEF VendorsInv
  <2>2. Lock(p, c.project)
    BY <1>1 DEF LockProject
  <2>3. QED
    BY <2>1, <2>2, Taking
<1>11. \A l \in Listings : holder'[l] # p
  BY <1>6, <1>8, <1>9, <1>10, ListingsAssumption DEF LocksOK, Transacting
<1>12. c.attached = {} /\ c.links = {} /\ c.owned = {} /\ c.emailed = {}
  <2>1. c.owned \subseteq Listings /\ c.emailed \subseteq Listings
    BY <1>1 DEF Records
  <2>2. \A l \in c.owned \cup c.emailed : holder[l] = p
    BY <1>1, <1>8 DEF PromisesOK
  <2>3. \A l \in Listings : holder[l] # p
    BY <1>10, <1>11
  <2>4. QED
    BY <1>1, <1>6, <1>8, <2>1, <2>2, <2>3 DEF PromisesOK
<1>13. PlaceOK(p)'
  BY <1>1, <1>5, <1>7, <1>8, <1>9 DEF PlaceOK, Updating
<1>14. LocksOK(p)'
  BY <1>1, <1>5, <1>7, <1>8, <1>11 DEF LocksOK, Transacting
<1>15. PromisesOK(p)' /\ ReadOK(p)' /\ UpdateOK(p)' /\ EditOK(p)'
  BY <1>5, <1>7, <1>9, <1>12 DEF PromisesOK, ReadOK, UpdateOK, EditOK, Updating
<1>16. CallOK(p)'
  BY <1>13, <1>14, <1>15 DEF CallOK
<1>17. QED
  BY <1>5, <1>6, <1>7, <1>10, <1>16, PrivateStep

\* A superseded listing leads on, out of the order.
LEMMA FollowChainKeeps ==
  ASSUME VendorsInv, NEW p \in Calls, FollowChain(p)
  PROVE  VendorsInv'
<1>1. PICK c \in Records : c = call[p]
  BY DEF VendorsInv, DataOK
<1>2. PICK a \in Listings : a = Aim(p)
  BY AimType DEF VendorsInv, FollowChain
<1>3. PICK x \in Listings : x = super[a]
  BY <1>2 DEF VendorsInv, DataOK, FollowChain, Available
<1>4. PICK d : d = [c EXCEPT !.chain = x, !.astray = TRUE]
  OBVIOUS
<1>5. /\ d \in Records
      /\ d.op = c.op /\ d.user = c.user /\ d.project = c.project /\ d.astray = TRUE
      /\ d.attached = c.attached /\ d.contacts = c.contacts /\ d.links = c.links
      /\ d.owned = c.owned /\ d.emailed = c.emailed
      /\ d.since = c.since /\ d.todo = c.todo /\ d.seen = c.seen
      /\ c.owned \subseteq Listings /\ c.emailed \subseteq Listings /\ c.attached \subseteq Listings
  BY <1>1, <1>4 DEF Records
<1>6. PICK s \in Steps : s = pc[p]
  BY DEF VendorsInv, DataOK
<1>7. /\ s \in {"attaching", "emailing"} /\ call' = [call EXCEPT ![p] = d] /\ pc' = [pc EXCEPT ![p] = s]
      /\ UNCHANGED <<super, owner, email, contact, link, born>>
  <2>1. call' = [call EXCEPT ![p] = d]
    BY <1>1, <1>2, <1>3, <1>4 DEF FollowChain, VendorsInv, DataOK
  <2>2. QED
    BY <1>6, <2>1 DEF FollowChain, Asks, listings, VendorsInv, DataOK
<1>8. call'[p] = d /\ pc'[p] = s
  BY <1>7 DEF VendorsInv, DataOK
<1>9. /\ holder' \in [Listings \cup Projects -> Calls \cup {Null}]
      /\ \A y \in Listings \cup Projects :
           /\ holder'[y] = holder[y] \/ (holder[y] \in {Null, p} /\ holder'[y] \in {Null, p})
           /\ holder'[y] = p <=> holder[y] = p \/ y = a
  BY <1>2, Taking DEF VendorsInv, FollowChain
<1>10. PlaceOK(p) /\ LocksOK(p) /\ PromisesOK(p) /\ ReadOK(p) /\ EditOK(p)
  BY DEF VendorsInv, CallOK
<1>11. PlaceOK(p)'
  BY <1>1, <1>5, <1>6, <1>7, <1>8, <1>10 DEF PlaceOK, Updating
<1>12. LocksOK(p)'
  BY <1>5, <1>6, <1>7, <1>8, <1>9, <1>10, ListingsAssumption DEF LocksOK, Transacting
<1>13. PromisesOK(p)'
  BY <1>1, <1>5, <1>6, <1>7, <1>8, <1>9, <1>10 DEF PromisesOK
<1>14. ReadOK(p)' /\ UpdateOK(p)' /\ EditOK(p)'
  BY <1>1, <1>5, <1>6, <1>7, <1>8, <1>10 DEF ReadOK, UpdateOK, EditOK, Updating, Editor
<1>15. CallOK(p)'
  BY <1>11, <1>12, <1>13, <1>14 DEF CallOK
<1>16. QED
  BY <1>5, <1>7, <1>9, <1>15, PrivateStep
-----------------------------------------------------------------------------
\* The listing whose turn it is, locked and read.
LEMMA AttachListingKeeps ==
  ASSUME VendorsInv, NEW p \in Calls, AttachListing(p)
  PROVE  VendorsInv'
<1>1. PICK c \in Records : c = call[p]
  BY DEF VendorsInv, DataOK
<1>2. PICK l \in Listings : l = Aim(p)
  BY AimType DEF VendorsInv, AttachListing
<1>3. PICK t \in c.todo : t = Turn(p)
  BY <1>1, AimType DEF VendorsInv, AttachListing
<1>4. PICK O \in SUBSET {l} : O = IF Adoptable(p, l) THEN {l} ELSE {}
  OBVIOUS
<1>5. PICK C \in SUBSET {l} : C = NewIn(contact[c.user], l)
  BY DEF NewIn
<1>6. PICK K \in SUBSET {l} : K = NewIn(link[c.project], l)
  BY DEF NewIn
<1>7. PICK e : e = [c EXCEPT !.chain = Null, !.todo = @ \ {t}]
  OBVIOUS
<1>8. PICK d : d = IF l \in e.attached THEN e ELSE Attached(p, e, l)
  OBVIOUS
<1>9. /\ e \in Records
      /\ e.op = c.op /\ e.user = c.user /\ e.project = c.project /\ e.chain = Null /\ e.astray = c.astray
      /\ e.emails = c.emails /\ e.todo = c.todo \ {t} /\ e.attached = c.attached /\ e.contacts = c.contacts
      /\ e.links = c.links /\ e.owned = c.owned /\ e.emailed = c.emailed /\ e.since = c.since
  BY <1>7 DEF Records
<1>10. Attached(p, e, l) = [e EXCEPT !.attached = @ \cup {l}, !.owned = @ \cup O, !.contacts = @ \cup C,
                                     !.links = @ \cup K, !.since = @ \ {l}]
  BY <1>4, <1>5, <1>6, <1>9 DEF Attached
<1>11. /\ d \in Records
       /\ d.op = c.op /\ d.user = c.user /\ d.project = c.project /\ d.chain = Null /\ d.astray = c.astray
       /\ d.todo = c.todo \ {t} /\ d.attached = c.attached \cup {l} /\ d.emailed = c.emailed
       /\ d.owned = c.owned \/ (d.owned = c.owned \cup O)
       /\ \/ l \in c.attached /\ d.contacts = c.contacts /\ d.links = c.links /\ d.since = c.since
          \/ d.contacts = c.contacts \cup C /\ d.links = c.links \cup K /\ d.since = c.since \ {l}
  <2>1. CASE l \in e.attached
    BY <1>8, <1>9, <2>1
  <2>2. CASE l \notin e.attached
    <3>1. d = [e EXCEPT !.attached = @ \cup {l}, !.owned = @ \cup O, !.contacts = @ \cup C,
                        !.links = @ \cup K, !.since = @ \ {l}]
      BY <1>8, <1>10, <2>2
    <3>2. QED
      BY <1>9, <3>1 DEF Records
  <2>3. QED
    BY <2>1, <2>2
<1>12. /\ c.owned \subseteq Listings /\ c.emailed \subseteq Listings /\ c.attached \subseteq Listings
       /\ c.todo \subseteq Listings /\ Listings \subseteq Nat
  BY ListingsAssumption DEF Records
<1>13. /\ pc[p] = "attaching" /\ call' = [call EXCEPT ![p] = d] /\ UNCHANGED pc
       /\ UNCHANGED <<super, owner, email, contact, link, born>> /\ super[l] = Null
  BY <1>1, <1>2, <1>3, <1>7, <1>8 DEF AttachListing, listings, Available
<1>14. /\ call'[p] = d /\ pc'[p] = "attaching" /\ "attaching" \in Steps
       /\ pc' = [pc EXCEPT ![p] = "attaching"]
  BY <1>13 DEF VendorsInv, DataOK, Steps
<1>15. /\ holder' \in [Listings \cup Projects -> Calls \cup {Null}]
       /\ \A y \in Listings \cup Projects :
            /\ holder'[y] = holder[y] \/ (holder[y] \in {Null, p} /\ holder'[y] \in {Null, p})
            /\ holder'[y] = p <=> holder[y] = p \/ y = l
  <2>1. Lock(p, l) /\ DataOK
    BY <1>2 DEF VendorsInv, AttachListing
  <2>2. QED
    BY <2>1, Taking
<1>16. PlaceOK(p) /\ LocksOK(p) /\ PromisesOK(p) /\ ReadOK(p)
  BY DEF VendorsInv, CallOK
<1>17. PlaceOK(p)'
  BY <1>1, <1>11, <1>13, <1>14, <1>16 DEF PlaceOK, Updating
<1>18. LocksOK(p)'
  <2>1. ASSUME ~c.astray, NEW m \in Listings, holder'[m] = p, NEW n \in d.todo PROVE m < n
    <3>1. c.chain = Null /\ \A k \in Listings : holder[k] = p => \A i \in c.todo : k < i
      BY <1>1, <1>16, <2>1 DEF LocksOK
    <3>2. l = t
      BY <1>1, <1>2, <1>3, <3>1 DEF Aim
    <3>3. \A i \in c.todo : t <= i
      BY <1>1, <1>3, <1>13, AimType DEF VendorsInv, AttachListing
    <3>4. QED
      <4>1. n \in c.todo /\ n # t /\ n \in Nat /\ m \in Nat /\ t \in Nat
        BY <1>3, <1>11, <1>12, <2>1
      <4>2. holder[m] = p \/ m = t
        BY <1>15, <2>1, <3>2
      <4>3. QED
        BY <3>1, <3>3, <4>1, <4>2
  <2>2. QED
    BY <1>1, <1>11, <1>13, <1>14, <1>15, <1>16, <2>1 DEF LocksOK, Transacting
<1>19. PromisesOK(p)'
  <2>1. \A x \in O : owner[x] = Null /\ x = l
    BY <1>4 DEF Adoptable
  <2>2. QED
    BY <1>1, <1>11, <1>12, <1>13, <1>14, <1>15, <1>16, <2>1 DEF PromisesOK
<1>20. ReadOK(p)'
  <2>1. l \in C \/ contact[c.user][l] = "active"
    BY <1>5 DEF NewIn
  <2>2. l \in K \/ link[c.project][l] = "active"
    BY <1>6 DEF NewIn
  <2>3. /\ \A x \in c.links : x \in c.contacts \/ contact[c.user][x] # "none"
        /\ \A x \in c.attached \ c.since :
             /\ x \in c.contacts \/ contact[c.user][x] = "active"
             /\ x \in c.links \/ link[c.project][x] = "active"
    BY <1>1, <1>13, <1>16 DEF ReadOK
  <2>4. CASE d.contacts = c.contacts \cup C /\ d.links = c.links \cup K /\ d.since = c.since \ {l}
    <3>1. \A x \in d.links : x \in d.contacts \/ contact[d.user][x] # "none"
      BY <1>11, <2>1, <2>3, <2>4
    <3>2. \A x \in d.attached \ d.since :
            /\ x \in d.contacts \/ contact[d.user][x] = "active"
            /\ x \in d.links \/ link[d.project][x] = "active"
      BY <1>11, <2>1, <2>2, <2>3, <2>4
    <3>3. QED
      BY <1>13, <1>14, <3>1, <3>2 DEF ReadOK
  <2>5. CASE l \in c.attached /\ d.contacts = c.contacts /\ d.links = c.links /\ d.since = c.since
    BY <1>11, <1>13, <1>14, <2>3, <2>5 DEF ReadOK
  <2>6. QED
    BY <1>11, <2>4, <2>5
<1>21. UpdateOK(p)' /\ EditOK(p)'
  BY <1>1, <1>11, <1>13, <1>14, <1>16 DEF UpdateOK, EditOK, Updating, PlaceOK
<1>22. CallOK(p)'
  BY <1>17, <1>18, <1>19, <1>20, <1>21 DEF CallOK
<1>23. QED
  BY <1>11, <1>13, <1>14, <1>15, <1>22, PrivateStep

\* An address of a form, stored or found.
LEMMA UpdateEmailKeeps ==
  ASSUME VendorsInv, NEW p \in Calls, UpdateEmail(p)
  PROVE  VendorsInv'
<1>1. PICK c \in Records : c = call[p]
  BY DEF VendorsInv, DataOK
<1>2. PICK l \in Listings : l = Aim(p)
  BY AimType DEF VendorsInv, UpdateEmail
<1>3. PICK es : es = Tail(c.emails)
  OBVIOUS
<1>4. PICK E \in SUBSET {l} : E = IF HasAddress(p, l) THEN {} ELSE {l}
  OBVIOUS
<1>5. PICK O \in SUBSET {l} : O = IF HasAddress(p, l) \/ owner[l] # Null THEN {} ELSE {l}
  OBVIOUS
<1>6. PICK d : d = [c EXCEPT !.chain = Null, !.emails = es, !.astray = TRUE,
                             !.emailed = @ \cup E, !.owned = @ \cup O]
  OBVIOUS
<1>7. es \in Seq(Listings)
  <2>1. c.emails # <<>> /\ c.emails \in Seq(Listings)
    BY <1>1 DEF UpdateEmail, Asks, Records
  <2>2. QED
    BY <1>3, <2>1, HeadTailProperties
<1>8. /\ d \in Records
      /\ d.op = c.op /\ d.user = c.user /\ d.project = c.project /\ d.astray = TRUE
      /\ d.attached = c.attached /\ d.contacts = c.contacts /\ d.links = c.links /\ d.since = c.since
      /\ d.emailed = c.emailed \cup E /\ d.owned = c.owned \cup O
      /\ c.owned \subseteq Listings /\ c.emailed \subseteq Listings
  BY <1>1, <1>6, <1>7 DEF Records
<1>9. /\ pc[p] = "emailing" /\ UNCHANGED pc /\ UNCHANGED <<super, owner, email, contact, link, born>>
      /\ call' = [call EXCEPT ![p] = d]
  <2>1. UpdateEmail(p)
    OBVIOUS
  <2>2. call' = [call EXCEPT ![p].chain = Null, ![p].emails = Tail(@), ![p].astray = TRUE,
                   ![p].emailed = @ \cup IF HasAddress(p, l) THEN {} ELSE {l},
                   ![p].owned = @ \cup IF HasAddress(p, l) \/ owner[l] # Null THEN {} ELSE {l}]
    BY <1>2, <2>1 DEF UpdateEmail
  <2>3. call' = [call EXCEPT ![p].chain = Null, ![p].emails = Tail(@), ![p].astray = TRUE,
                   ![p].emailed = @ \cup E, ![p].owned = @ \cup O]
    BY <1>4, <1>5, <2>2
  <2>4. call' = [call EXCEPT ![p] = d]
    BY <1>1, <1>3, <1>6, <2>3 DEF VendorsInv, DataOK, Records
  <2>5. QED
    BY <2>4 DEF UpdateEmail, listings
<1>10. /\ call'[p] = d /\ pc'[p] = "emailing" /\ "emailing" \in Steps
       /\ pc' = [pc EXCEPT ![p] = "emailing"]
  BY <1>9 DEF VendorsInv, DataOK, Steps
<1>11. /\ holder' \in [Listings \cup Projects -> Calls \cup {Null}]
       /\ \A y \in Listings \cup Projects :
            /\ holder'[y] = holder[y] \/ (holder[y] \in {Null, p} /\ holder'[y] \in {Null, p})
            /\ holder'[y] = p <=> holder[y] = p \/ y = l
  <2>1. Lock(p, l) /\ DataOK
    BY <1>2 DEF VendorsInv, UpdateEmail
  <2>2. QED
    BY <2>1, Taking
<1>12. PlaceOK(p) /\ LocksOK(p) /\ PromisesOK(p)
  BY DEF VendorsInv, CallOK
<1>13. PlaceOK(p)'
  BY <1>1, <1>8, <1>9, <1>10, <1>12 DEF PlaceOK, Updating
<1>14. LocksOK(p)'
  BY <1>8, <1>9, <1>10, <1>11, <1>12, ListingsAssumption DEF LocksOK, Transacting
<1>15. PromisesOK(p)'
  <2>1. \A x \in E : email[x] = Null /\ x = l
    BY <1>4 DEF HasAddress
  <2>2. \A x \in O : owner[x] = Null /\ x = l
    BY <1>5
  <2>3. QED
    BY <1>1, <1>8, <1>9, <1>10, <1>11, <1>12, <2>1, <2>2 DEF PromisesOK
<1>16. ReadOK(p)' /\ UpdateOK(p)' /\ EditOK(p)'
  BY <1>1, <1>8, <1>9, <1>10, <1>12 DEF ReadOK, UpdateOK, EditOK, Updating, PlaceOK
<1>17. CallOK(p)'
  BY <1>13, <1>14, <1>15, <1>16 DEF CallOK
<1>18. QED
  BY <1>8, <1>9, <1>10, <1>11, <1>17, PrivateStep

\* The new project's lock.
LEMMA CreateProjectKeeps ==
  ASSUME VendorsInv, NEW p \in Calls, CreateProject(p)
  PROVE  VendorsInv'
<1>1. PICK c \in Records : c = call[p]
  BY DEF VendorsInv, DataOK
<1>2. /\ pc[p] = "emailing" /\ call' = [call EXCEPT ![p] = c] /\ pc' = [pc EXCEPT ![p] = "attaching"]
      /\ UNCHANGED <<super, owner, email, contact, link, born>> /\ Lock(p, c.project)
  BY <1>1 DEF CreateProject, Goto, listings, VendorsInv, DataOK
<1>3. call'[p] = c /\ pc'[p] = "attaching" /\ "attaching" \in Steps
  BY <1>2 DEF VendorsInv, DataOK, Steps
<1>4. PlaceOK(p) /\ LocksOK(p) /\ PromisesOK(p)
  BY DEF VendorsInv, CallOK
<1>5. c.op = "complete" /\ c.project \in Projects
  BY <1>1, <1>2, <1>4 DEF PlaceOK, Serving
<1>6. /\ holder' \in [Listings \cup Projects -> Calls \cup {Null}]
      /\ \A y \in Listings \cup Projects :
           /\ holder'[y] = holder[y] \/ (holder[y] \in {Null, p} /\ holder'[y] \in {Null, p})
           /\ holder'[y] = p <=> holder[y] = p \/ y = c.project
  BY <1>2, <1>5, Taking DEF VendorsInv
<1>7. c.owned \subseteq Listings /\ c.emailed \subseteq Listings
  BY DEF Records
<1>8. PlaceOK(p)'
  BY <1>1, <1>2, <1>3, <1>4, <1>5 DEF PlaceOK, Updating
<1>9. LocksOK(p)'
  BY <1>1, <1>2, <1>3, <1>4, <1>5, <1>6, ListingsAssumption DEF LocksOK, Transacting
<1>10. PromisesOK(p)'
  BY <1>1, <1>2, <1>3, <1>4, <1>6, <1>7 DEF PromisesOK
<1>11. ReadOK(p)' /\ UpdateOK(p)' /\ EditOK(p)'
  BY <1>1, <1>2, <1>3, <1>4, <1>5 DEF ReadOK, UpdateOK, EditOK, Updating, PromisesOK
<1>12. CallOK(p)'
  BY <1>8, <1>9, <1>10, <1>11 DEF CallOK
<1>13. QED
  BY <1>2, <1>3, <1>6, <1>12, PrivateStep
-----------------------------------------------------------------------------
\* A step that writes rows of L for user u, and listings that q has not locked.
LEMMA SharedStep ==
  ASSUME DataOK, NEW q \in Calls, NEW u, NEW L \in SUBSET Listings, pc'[q] = pc[q],
         \/ call'[q] = [call[q] EXCEPT !.since = @ \cup L]
         \/ call'[q] = call[q] /\ (call[q].user # u \/ L = {}),
         \A v \in Users, l \in Listings : v # u \/ l \notin L => contact'[v][l] = contact[v][l],
         \A j \in Projects, l \in Listings : OwnerOf[j] # u \/ l \notin L => link'[j][l] = link[j][l],
         \A x \in Listings \cup Projects : holder'[x] = q <=> holder[x] = q,
         \A l \in Listings : holder[l] = q => super'[l] = super[l] /\ owner'[l] = owner[l] /\ email'[l] = email[l],
         \A l \in Listings : owner[l] # Null => owner'[l] = owner[l],
         \A v \in Users, l \in Listings : contact[v][l] # "none" => contact'[v][l] # "none"
  PROVE  Undisturbed(q)
<1>1. PICK c \in Records : c = call[q]
  BY DEF DataOK
<1>2. CASE call'[q] = [call[q] EXCEPT !.since = @ \cup L]
  <2>1. call[q].user \in Users => \A l \in Listings \ L : contact'[call[q].user][l] = contact[call[q].user][l]
    OBVIOUS
  <2>2. call[q].project \in Projects /\ call[q].user = OwnerOf[call[q].project] =>
          \A l \in Listings \ L : link'[call[q].project][l] = link[call[q].project][l]
    OBVIOUS
  <2>3. QED
    BY <1>2, <2>1, <2>2 DEF Undisturbed
<1>3. CASE call'[q] = call[q] /\ (call[q].user # u \/ L = {})
  <2>1. PICK E \in SUBSET Listings : E = {}
    OBVIOUS
  <2>2. c = [c EXCEPT !.since = @ \cup E]
    BY <1>1, <2>1 DEF Records
  <2>3. call'[q] = [call[q] EXCEPT !.since = @ \cup E]
    BY <1>1, <1>3, <2>2
  <2>4. call[q].user \in Users => \A l \in Listings \ E : contact'[call[q].user][l] = contact[call[q].user][l]
    BY <1>3
  <2>5. call[q].project \in Projects /\ call[q].user = OwnerOf[call[q].project] =>
          \A l \in Listings \ E : link'[call[q].project][l] = link[call[q].project][l]
    BY <1>3
  <2>6. QED
    BY <2>3, <2>4, <2>5 DEF Undisturbed
<1>4. QED
  BY <1>2, <1>3

\* A step of p that leaves all others alone.
LEMMA OthersKeep ==
  ASSUME VendorsInv, DataOK', LinksOK', NEW p, CallOK(p)',
         \A q \in Calls : q # p => Undisturbed(q)
  PROVE  VendorsInv'
<1>1. ASSUME NEW q \in Calls, q # p PROVE CallOK(q)'
  BY <1>1, UndisturbedKeeps DEF VendorsInv
<1>2. QED
  BY <1>1 DEF VendorsInv

\* Who is told of rows that are written.
LEMMA ToldType ==
  ASSUME NEW cs \in [Calls -> Records], NEW p \in Calls, NEW u, NEW L \in SUBSET Listings
  PROVE  /\ Told(cs, p, u, L) \in [Calls -> Records]
         /\ Told(cs, p, u, L)[p] = cs[p]
         /\ \A q \in Calls : q # p =>
              \/ Told(cs, p, u, L)[q] = [cs[q] EXCEPT !.since = @ \cup L]
              \/ Told(cs, p, u, L)[q] = cs[q] /\ cs[q].user # u
<1>1. ASSUME NEW c \in Records PROVE [c EXCEPT !.since = @ \cup L] \in Records
  BY DEF Records
<1>2. QED
  BY <1>1 DEF Told

\* A duplicate is superseded while nobody has locked it.
LEMMA SupersedeKeeps ==
  ASSUME VendorsInv, NEW l \in Listings, NEW c \in Listings, Supersede(l, c)
  PROVE  VendorsInv'
<1>1. /\ super' = [super EXCEPT ![l] = c] /\ holder[l] = Null
      /\ UNCHANGED <<owner, email, contact, link, born, holder, pc, call>>
  BY DEF Supersede, Free
<1>2. DataOK' /\ LinksOK' /\ DataOK
  BY <1>1 DEF VendorsInv, DataOK, LinksOK
<1>3. ASSUME NEW q \in Calls PROVE CallOK(q)'
  <2>1. \A x \in Listings : holder[x] = q => super'[x] = super[x]
    BY <1>1, <1>2, NullAssumption DEF DataOK
  <2>2. PICK L \in SUBSET Listings : L = {}
    OBVIOUS
  <2>3. Undisturbed(q)
    BY <1>1, <1>2, <2>1, <2>2, SharedStep
  <2>4. QED
    BY <1>2, <2>3, UndisturbedKeeps DEF VendorsInv
<1>4. QED
  BY <1>2, <1>3 DEF VendorsInv

\* A contact is saved.
LEMMA SaveContactKeeps ==
  ASSUME VendorsInv, NEW p \in Calls, SaveContact(p)
  PROVE  VendorsInv'
<1>1. PICK c \in Records : c = call[p]
  BY DEF VendorsInv, DataOK
<1>2. DataOK /\ LinksOK /\ PlaceOK(p) /\ LocksOK(p) /\ pc[p] = "saving"
  BY DEF VendorsInv, CallOK, SaveContact
<1>3. c.user \in Users
  BY <1>1, <1>2 DEF PlaceOK
<1>4. PICK l \in Listings : c.attached = {l}
  BY <1>1, <1>2 DEF PlaceOK
<1>5. (CHOOSE x \in c.attached : TRUE) = l
  BY <1>4
<1>6. PICK s \in {"active", "inactive"} : contact' = [contact EXCEPT ![c.user][l] = s]
  <2>1. contact' = [contact EXCEPT ![c.user][l] = IF c.op = "select" THEN "active" ELSE "inactive"]
    BY <1>1, <1>5 DEF SaveContact
  <2>2. QED
    BY <2>1
<1>7. /\ call' = Told([call EXCEPT ![p] = NoCall], p, c.user, {l})
      /\ pc' = [pc EXCEPT ![p] = "done"]
      /\ UNCHANGED <<super, owner, email, link, born, holder>>
  BY <1>1, <1>5 DEF SaveContact, Goto, listings
<1>8. PICK cs \in [Calls -> Records] : cs = [call EXCEPT ![p] = NoCall]
  BY <1>2, NoCallType DEF DataOK
<1>9. /\ call' \in [Calls -> Records] /\ call'[p] = NoCall
      /\ \A q \in Calls : q # p =>
           \/ call'[q] = [call[q] EXCEPT !.since = @ \cup {l}]
           \/ call'[q] = call[q] /\ call[q].user # c.user
  <2>1. PICK L \in SUBSET Listings : L = {l}
    OBVIOUS
  <2>2. cs[p] = NoCall /\ \A q \in Calls : q # p => cs[q] = call[q]
    BY <1>2, <1>8 DEF DataOK
  <2>3. call' = Told(cs, p, c.user, L)
    BY <1>7, <1>8, <2>1
  <2>4. /\ call' \in [Calls -> Records] /\ call'[p] = cs[p]
        /\ \A q \in Calls : q # p =>
             \/ call'[q] = [cs[q] EXCEPT !.since = @ \cup L]
             \/ call'[q] = cs[q] /\ cs[q].user # c.user
    BY <2>3, ToldType
  <2>5. QED
    BY <2>1, <2>2, <2>4
<1>10. \A v \in Users, m \in Listings : contact'[v][m] = IF v = c.user /\ m = l THEN s ELSE contact[v][m]
  BY <1>2, <1>6 DEF DataOK, VendorRows
<1>11. DataOK'
  <2>1. contact' \in [Users -> VendorRows]
    BY <1>2, <1>6 DEF DataOK, VendorRows
  <2>2. pc' \in [Calls -> Steps]
    BY <1>2, <1>7 DEF DataOK, Steps
  <2>3. QED
    BY <1>2, <1>7, <1>9, <2>1, <2>2 DEF DataOK
<1>12. \A v \in Users, m \in Listings : contact[v][m] # "none" => contact'[v][m] # "none"
  BY <1>10
<1>13. LinksOK'
  BY <1>2, <1>7, <1>12, OwnersAssumption DEF LinksOK
<1>14. CallOK(p)'
  <2>1. \A x \in Listings \cup Projects : holder'[x] # p
    BY <1>2, <1>7 DEF LocksOK, Transacting
  <2>2. pc'[p] = "done"
    BY <1>2, <1>7 DEF DataOK
  <2>3. QED
    BY <1>9, <2>1, <2>2, NoCallOK
<1>15. ASSUME NEW q \in Calls, q # p PROVE Undisturbed(q)
  <2>1. pc'[q] = pc[q]
    BY <1>2, <1>7, <1>15 DEF DataOK
  <2>2. PICK L \in SUBSET Listings : L = {l}
    OBVIOUS
  <2>3. \/ call'[q] = [call[q] EXCEPT !.since = @ \cup L]
        \/ call'[q] = call[q] /\ call[q].user # c.user
    BY <1>9, <1>15, <2>2
  <2>4. \A v \in Users, m \in Listings : v # c.user \/ m \notin L => contact'[v][m] = contact[v][m]
    BY <1>10, <2>2
  <2>5. QED
    <3>1. /\ \A j \in Projects, m \in Listings : OwnerOf[j] # c.user \/ m \notin L => link'[j][m] = link[j][m]
          /\ \A x \in Listings \cup Projects : holder'[x] = q <=> holder[x] = q
          /\ \A m \in Listings : holder[m] = q => super'[m] = super[m] /\ owner'[m] = owner[m] /\ email'[m] = email[m]
          /\ \A m \in Listings : owner[m] # Null => owner'[m] = owner[m]
      BY <1>7
    <3>2. \/ call'[q] = [call[q] EXCEPT !.since = @ \cup L]
          \/ call'[q] = call[q] /\ (call[q].user # c.user \/ L = {})
      BY <2>3
    <3>3. QED
      BY <1>2, <1>12, <2>1, <2>4, <3>1, <3>2, SharedStep
<1>16. QED
  BY <1>11, <1>13, <1>14, <1>15, OthersKeep

\* An edited listing is saved while nobody has locked it.
LEMMA SaveListingKeeps ==
  ASSUME VendorsInv, NEW p \in Calls, SaveListing(p)
  PROVE  VendorsInv'
<1>1. PICK c \in Records : c = call[p]
  BY DEF VendorsInv, DataOK
<1>2. DataOK /\ LinksOK /\ LocksOK(p) /\ pc[p] = "saving"
  BY DEF VendorsInv, CallOK, SaveListing
<1>3. /\ \A l \in c.attached : holder[l] = Null
      /\ email' = [l \in Listings |-> IF l \in c.attached THEN p ELSE email[l]]
      /\ call' = [call EXCEPT ![p] = NoCall] /\ pc' = [pc EXCEPT ![p] = "done"]
      /\ UNCHANGED <<super, owner, contact, link, born, holder>>
  BY <1>1 DEF SaveListing, Goto, Free
<1>4. DataOK'
  <2>1. email' \in [Listings -> Calls \cup {Null, "own"}]
    BY <1>2, <1>3 DEF DataOK
  <2>2. pc' \in [Calls -> Steps] /\ call' \in [Calls -> Records]
    BY <1>2, <1>3, NoCallType DEF DataOK, Steps
  <2>3. QED
    BY <1>2, <1>3, <2>1, <2>2 DEF DataOK
<1>5. LinksOK'
  BY <1>2, <1>3 DEF LinksOK
<1>6. CallOK(p)'
  <2>1. \A x \in Listings \cup Projects : holder'[x] # p
    BY <1>2, <1>3 DEF LocksOK, Transacting
  <2>2. pc'[p] = "done" /\ call'[p] = NoCall
    BY <1>2, <1>3 DEF DataOK
  <2>3. QED
    BY <2>1, <2>2, NoCallOK
<1>7. ASSUME NEW q \in Calls, q # p PROVE Undisturbed(q)
  <2>1. pc'[q] = pc[q] /\ call'[q] = call[q]
    BY <1>2, <1>3, <1>7 DEF DataOK
  <2>2. PICK L \in SUBSET Listings : L = {}
    OBVIOUS
  <2>3. \A l \in Listings : holder[l] = q => email'[l] = email[l]
    BY <1>3, NullAssumption
  <2>4. QED
    BY <1>2, <1>3, <2>1, <2>2, <2>3, SharedStep
<1>8. QED
  BY <1>4, <1>5, <1>6, <1>7, OthersKeep
-----------------------------------------------------------------------------
\* A transaction commits what it has promised.
LEMMA CommitKeeps ==
  ASSUME VendorsInv, NEW p \in Calls, Commit(p)
  PROVE  VendorsInv'
<1>1. PICK c \in Records : c = call[p]
  BY DEF VendorsInv, DataOK
<1>2. DataOK /\ LinksOK /\ PlaceOK(p) /\ PromisesOK(p) /\ ReadOK(p) /\ pc[p] = "attaching"
  BY DEF VendorsInv, CallOK, Commit
<1>3. c.project \in Projects /\ c.user = OwnerOf[c.project] /\ c.user \in Users
  BY <1>1, <1>2, OwnersAssumption DEF PlaceOK, Serving
<1>4. /\ c.contacts \subseteq Listings /\ c.links \subseteq Listings
      /\ c.owned \subseteq Listings /\ c.emailed \subseteq Listings
  BY DEF Records
<1>5. PICK L \in SUBSET Listings : L = c.contacts \cup c.links
  BY <1>4
<1>6. /\ owner' = [l \in Listings |-> IF l \in c.owned THEN c.user ELSE owner[l]]
      /\ email' = [l \in Listings |-> IF l \in c.emailed THEN p ELSE email[l]]
      /\ contact' = [contact EXCEPT ![c.user] = Activated(@, c.contacts)]
      /\ link' = [link EXCEPT ![c.project] = Activated(@, c.links)]
      /\ born' = born \cup {c.project} /\ holder' = Releasing(p)
      /\ call' = Told([call EXCEPT ![p] = NoCall], p, c.user, L)
      /\ pc' = [pc EXCEPT ![p] = "done"] /\ super' = super
  BY <1>1, <1>5 DEF Commit, Goto
<1>7. PICK cs \in [Calls -> Records] : cs = [call EXCEPT ![p] = NoCall]
  BY <1>2, NoCallType DEF DataOK
<1>8. /\ call' \in [Calls -> Records] /\ call'[p] = NoCall
      /\ \A q \in Calls : q # p =>
           \/ call'[q] = [call[q] EXCEPT !.since = @ \cup L]
           \/ call'[q] = call[q] /\ call[q].user # c.user
  <2>1. cs[p] = NoCall /\ \A q \in Calls : q # p => cs[q] = call[q]
    BY <1>2, <1>7 DEF DataOK
  <2>2. call' = Told(cs, p, c.user, L)
    BY <1>6, <1>7
  <2>3. /\ call' \in [Calls -> Records] /\ call'[p] = cs[p]
        /\ \A q \in Calls : q # p =>
             \/ call'[q] = [cs[q] EXCEPT !.since = @ \cup L]
             \/ call'[q] = cs[q] /\ cs[q].user # c.user
    BY <2>2, ToldType
  <2>4. QED
    BY <2>1, <2>3
<1>9. /\ contact' \in [Users -> VendorRows]
      /\ \A v \in Users, m \in Listings :
           contact'[v][m] = IF v = c.user /\ m \in c.contacts THEN "active" ELSE contact[v][m]
  BY <1>2, <1>6 DEF DataOK, VendorRows, Activated
<1>10. /\ link' \in [Projects -> VendorRows]
       /\ \A j \in Projects, m \in Listings :
            link'[j][m] = IF j = c.project /\ m \in c.links THEN "active" ELSE link[j][m]
  BY <1>2, <1>6 DEF DataOK, VendorRows, Activated
<1>11. /\ holder' \in [Listings \cup Projects -> Calls \cup {Null}]
       /\ \A y \in Listings \cup Projects :
            /\ holder'[y] = holder[y] \/ (holder[y] \in {Null, p} /\ holder'[y] \in {Null, p})
            /\ holder'[y] # p
  BY <1>2, <1>6, Leaving
<1>12. DataOK'
  <2>1. owner' \in [Listings -> Users \cup {Null}] /\ email' \in [Listings -> Calls \cup {Null, "own"}]
    BY <1>2, <1>3, <1>6 DEF DataOK
  <2>2. pc' \in [Calls -> Steps] /\ born' \subseteq Projects /\ Existing \subseteq born'
    BY <1>2, <1>3, <1>6 DEF DataOK, Steps
  <2>3. super' \in [Listings -> Listings \cup {Null}]
    BY <1>2, <1>6 DEF DataOK
  <2>4. QED
    BY <1>8, <1>9, <1>10, <1>11, <2>1, <2>2, <2>3 DEF DataOK
<1>13. \A v \in Users, m \in Listings : contact[v][m] # "none" => contact'[v][m] # "none"
  BY <1>9
<1>14. LinksOK'
  <2>1. ASSUME NEW j \in Projects, NEW m \in Listings, link'[j][m] # "none"
        PROVE  j \in born' /\ contact'[OwnerOf[j]][m] # "none"
    <3>1. CASE j = c.project /\ m \in c.links
      <4>1. m \in c.contacts \/ contact[c.user][m] # "none"
        BY <1>1, <1>2, <3>1 DEF ReadOK
      <4>2. QED
        BY <1>3, <1>6, <1>9, <1>13, <3>1, <4>1
    <3>2. CASE ~(j = c.project /\ m \in c.links)
      <4>1. j \in born /\ contact[OwnerOf[j]][m] # "none" /\ OwnerOf[j] \in Users
        BY <1>2, <1>10, <2>1, <3>2, OwnersAssumption DEF LinksOK
      <4>2. QED
        BY <1>6, <1>13, <4>1
    <3>3. QED
      BY <3>1, <3>2
  <2>2. QED
    BY <2>1 DEF LinksOK
<1>15. CallOK(p)'
  <2>1. pc'[p] = "done"
    BY <1>2, <1>6 DEF DataOK
  <2>2. QED
    BY <1>8, <1>11, <2>1, NoCallOK
<1>16. ASSUME NEW q \in Calls, q # p PROVE Undisturbed(q)
  <2>1. pc'[q] = pc[q]
    BY <1>2, <1>6, <1>16 DEF DataOK
  <2>2. \/ call'[q] = [call[q] EXCEPT !.since = @ \cup L]
        \/ call'[q] = call[q] /\ (call[q].user # c.user \/ L = {})
    BY <1>8, <1>16
  <2>3. \A v \in Users, m \in Listings : v # c.user \/ m \notin L => contact'[v][m] = contact[v][m]
    BY <1>5, <1>9
  <2>4. \A j \in Projects, m \in Listings : OwnerOf[j] # c.user \/ m \notin L => link'[j][m] = link[j][m]
    BY <1>3, <1>5, <1>10
  <2>5. \A x \in Listings \cup Projects : holder'[x] = q <=> holder[x] = q
    BY <1>11, <1>16, NullAssumption
  <2>6. ASSUME NEW m \in Listings
        PROVE  /\ holder[m] = q => super'[m] = super[m] /\ owner'[m] = owner[m] /\ email'[m] = email[m]
               /\ owner[m] # Null => owner'[m] = owner[m]
    <3>1. (m \in c.owned => holder[m] = p /\ owner[m] = Null) /\ (m \in c.emailed => holder[m] = p)
      BY <1>1, <1>2 DEF PromisesOK
    <3>2. QED
      BY <1>6, <1>16, <3>1
  <2>7. QED
    BY <1>2, <1>13, <2>1, <2>2, <2>3, <2>4, <2>5, <2>6, SharedStep
<1>17. QED
  BY <1>12, <1>14, <1>15, <1>16, OthersKeep

\* An update of a project writes rows of contacts of its user.
LEMMA WriteKeeps ==
  ASSUME VendorsInv, NEW p \in Calls, NEW L \in SUBSET Listings, NEW s \in {"active", "inactive"},
         NEW next \in Steps,
         Updating(p), Write(p, L, s, next), \A l \in L : contact[call[p].user][l] # "none", CallOK(p)'
  PROVE  VendorsInv'
<1>1. PICK c \in Records : c = call[p]
  BY DEF VendorsInv, DataOK
<1>2. DataOK /\ LinksOK /\ PlaceOK(p)
  BY DEF VendorsInv, CallOK
<1>3. c.project \in Projects /\ c.user = OwnerOf[c.project] /\ c.user \in Users /\ c.project \in Existing
  BY <1>1, <1>2, OwnersAssumption DEF PlaceOK, Serving
<1>4. PICK cs \in [Calls -> Records] :
        cs = IF next = "done" THEN [call EXCEPT ![p] = NoCall] ELSE call
  BY <1>2, NoCallType DEF DataOK
<1>5. /\ link' = [link EXCEPT ![c.project] = [l \in Listings |-> IF l \in L THEN s ELSE @[l]]]
      /\ call' = Told(cs, p, c.user, L) /\ pc' = [pc EXCEPT ![p] = next]
      /\ UNCHANGED <<super, owner, email, contact, born, holder>>
  BY <1>1, <1>4 DEF Write, Goto, listings
<1>6. /\ call' \in [Calls -> Records]
      /\ \A q \in Calls : q # p =>
           \/ call'[q] = [call[q] EXCEPT !.since = @ \cup L]
           \/ call'[q] = call[q] /\ call[q].user # c.user
  <2>1. \A q \in Calls : q # p => cs[q] = call[q]
    BY <1>2, <1>4 DEF DataOK
  <2>2. /\ call' \in [Calls -> Records]
        /\ \A q \in Calls : q # p =>
             \/ call'[q] = [cs[q] EXCEPT !.since = @ \cup L]
             \/ call'[q] = cs[q] /\ cs[q].user # c.user
    BY <1>5, ToldType
  <2>3. QED
    BY <2>1, <2>2
<1>7. /\ link' \in [Projects -> VendorRows]
      /\ \A j \in Projects, m \in Listings : link'[j][m] = IF j = c.project /\ m \in L THEN s ELSE link[j][m]
  BY <1>2, <1>5 DEF DataOK, VendorRows
<1>8. DataOK'
  <2>1. pc' \in [Calls -> Steps]
    BY <1>2, <1>5 DEF DataOK
  <2>2. QED
    BY <1>2, <1>5, <1>6, <1>7, <2>1 DEF DataOK
<1>9. LinksOK'
  BY <1>1, <1>2, <1>3, <1>5, <1>7 DEF DataOK, LinksOK
<1>10. ASSUME NEW q \in Calls, q # p PROVE Undisturbed(q)
  <2>1. pc'[q] = pc[q]
    BY <1>2, <1>5, <1>10 DEF DataOK
  <2>2. \/ call'[q] = [call[q] EXCEPT !.since = @ \cup L]
        \/ call'[q] = call[q] /\ (call[q].user # c.user \/ L = {})
    BY <1>6, <1>10
  <2>3. \A j \in Projects, m \in Listings : OwnerOf[j] # c.user \/ m \notin L => link'[j][m] = link[j][m]
    BY <1>3, <1>7
  <2>4. /\ \A v \in Users, m \in Listings : v # c.user \/ m \notin L => contact'[v][m] = contact[v][m]
        /\ \A x \in Listings \cup Projects : holder'[x] = q <=> holder[x] = q
        /\ \A m \in Listings : holder[m] = q => super'[m] = super[m] /\ owner'[m] = owner[m] /\ email'[m] = email[m]
        /\ \A m \in Listings : owner[m] # Null => owner'[m] = owner[m]
        /\ \A v \in Users, m \in Listings : contact[v][m] # "none" => contact'[v][m] # "none"
    BY <1>5
  <2>5. QED
    BY <1>2, <2>1, <2>2, <2>3, <2>4, SharedStep
<1>11. QED
  BY <1>8, <1>9, <1>10, OthersKeep
-----------------------------------------------------------------------------
\* An update under way has locked nothing, and what it wrote or is to write is of contacts of its user.
LEMMA UpdateRows ==
  ASSUME NEW p \in Calls, CallOK(p), Updating(p)
  PROVE  /\ call[p].op = "update"
         /\ \A x \in Listings \cup Projects : holder[x] # p
         /\ call[p].owned \subseteq Listings => call[p].owned = {}
         /\ call[p].emailed \subseteq Listings => call[p].emailed = {}
         /\ \A l \in Listings : l \in call[p].todo \/ call[p].seen[l] # "none" => contact[call[p].user][l] # "none"
<1>1. call[p].op = "update" /\ \A x \in Listings \cup Projects : holder[x] # p
  BY DEF CallOK, PlaceOK, LocksOK, Updating, Transacting
<1>2. \A l \in call[p].owned \cup call[p].emailed : holder[l] = p
  BY DEF CallOK, PromisesOK
<1>3. \A l \in Listings : l \in call[p].todo \/ call[p].seen[l] # "none" => contact[call[p].user][l] # "none"
  BY DEF CallOK, UpdateOK
<1>4. QED
  BY <1>1, <1>2, <1>3

\* From one step of an update to the next.
LEMMA UpdateGoesOn ==
  ASSUME VendorsInv, NEW p \in Calls, NEW L \in SUBSET Listings, NEW s \in {"active", "inactive"},
         NEW next \in {"reactivating", "creating"}, Updating(p), Write(p, L, s, next),
         \A l \in L : l \in call[p].todo \/ call[p].seen[l] # "none",
         \A l \in Listings \ call[p].since :
           (IF l \in L THEN s ELSE link[call[p].project][l]) =
             IF l \in call[p].todo /\ call[p].seen[l] = "inactive" /\ next = "creating" THEN "active"
             ELSE IF l \notin call[p].todo /\ call[p].seen[l] # "none" THEN "inactive" ELSE call[p].seen[l]
  PROVE  VendorsInv'
<1>1. PICK c \in Records : c = call[p]
  BY DEF VendorsInv, DataOK
<1>2. DataOK /\ CallOK(p)
  BY DEF VendorsInv
<1>3. /\ c.op = "update" /\ \A x \in Listings \cup Projects : holder[x] # p
      /\ c.owned = {} /\ c.emailed = {}
      /\ \A l \in Listings : l \in c.todo \/ c.seen[l] # "none" => contact[c.user][l] # "none"
  BY <1>1, <1>2, UpdateRows DEF Records
<1>4. c.project \in Projects
  BY <1>1, <1>2, <1>3 DEF CallOK, PlaceOK, Serving
<1>5. /\ link' = [link EXCEPT ![c.project] = [l \in Listings |-> IF l \in L THEN s ELSE @[l]]]
      /\ call' = Told(call, p, c.user, L) /\ pc' = [pc EXCEPT ![p] = next]
      /\ UNCHANGED <<super, owner, email, contact, born, holder>>
  BY <1>1 DEF Write, Goto, listings
<1>6. pc'[p] = next /\ call'[p] = c
  <2>1. call \in [Calls -> Records]
    BY <1>2 DEF DataOK
  <2>2. call'[p] = call[p]
    BY <1>5, <2>1, ToldType
  <2>3. QED
    BY <1>1, <1>2, <1>5, <2>2 DEF DataOK
<1>7. \A l \in Listings : link'[c.project][l] = IF l \in L THEN s ELSE link[c.project][l]
  BY <1>2, <1>4, <1>5 DEF DataOK, VendorRows
<1>8. UpdateOK(p)'
  BY <1>1, <1>3, <1>5, <1>6, <1>7 DEF UpdateOK, Updating
<1>9. PlaceOK(p)'
  BY <1>1, <1>2, <1>3, <1>6 DEF CallOK, PlaceOK, Updating
<1>10. LocksOK(p)' /\ PromisesOK(p)'
  BY <1>1, <1>2, <1>3, <1>5, <1>6 DEF CallOK, LocksOK, PromisesOK
<1>11. ReadOK(p)' /\ EditOK(p)'
  BY <1>3, <1>6 DEF ReadOK, EditOK
<1>12. CallOK(p)'
  BY <1>8, <1>9, <1>10, <1>11 DEF CallOK
<1>13. \A l \in L : contact[call[p].user][l] # "none"
  BY <1>1, <1>3
<1>14. QED
  BY <1>12, <1>13, WriteKeeps DEF Steps

\* The rows that are not in the list.
LEMMA DeactivateKeeps ==
  ASSUME VendorsInv, NEW p \in Calls, Deactivate(p)
  PROVE  VendorsInv'
<1>1. PICK L \in SUBSET Listings : L = {l \in Listings \ call[p].todo : call[p].seen[l] # "none"}
  OBVIOUS
<1>2. pc[p] = "deactivating" /\ Write(p, L, "inactive", "reactivating")
  BY <1>1 DEF Deactivate
<1>3. UpdateOK(p) /\ Updating(p)
  BY <1>2 DEF VendorsInv, CallOK, Updating
<1>4. \A l \in Listings \ call[p].since : link[call[p].project][l] = call[p].seen[l]
  BY <1>2, <1>3 DEF UpdateOK
<1>5. \A l \in Listings \ call[p].since :
        (IF l \in L THEN "inactive" ELSE link[call[p].project][l]) =
          IF l \in call[p].todo /\ call[p].seen[l] = "inactive" /\ "reactivating" = "creating" THEN "active"
          ELSE IF l \notin call[p].todo /\ call[p].seen[l] # "none" THEN "inactive" ELSE call[p].seen[l]
  BY <1>1, <1>4
<1>6. \A l \in L : l \in call[p].todo \/ call[p].seen[l] # "none"
  BY <1>1
<1>7. QED
  BY <1>2, <1>3, <1>5, <1>6, UpdateGoesOn

\* The rows that are, and were inactive.
LEMMA ReactivateKeeps ==
  ASSUME VendorsInv, NEW p \in Calls, Reactivate(p)
  PROVE  VendorsInv'
<1>1. PICK c \in Records : c = call[p]
  BY DEF VendorsInv, DataOK
<1>2. PICK L \in SUBSET Listings : L = {l \in c.todo : c.seen[l] = "inactive"}
  BY DEF Records
<1>3. pc[p] = "reactivating" /\ Write(p, L, "active", "creating")
  BY <1>1, <1>2 DEF Reactivate
<1>4. UpdateOK(p) /\ Updating(p)
  BY <1>3 DEF VendorsInv, CallOK, Updating
<1>5. \A l \in Listings \ c.since :
        link[c.project][l] = IF l \notin c.todo /\ c.seen[l] # "none" THEN "inactive" ELSE c.seen[l]
  BY <1>1, <1>3, <1>4 DEF UpdateOK
<1>6. \A l \in Listings \ call[p].since :
        (IF l \in L THEN "active" ELSE link[call[p].project][l]) =
          IF l \in call[p].todo /\ call[p].seen[l] = "inactive" /\ "creating" = "creating" THEN "active"
          ELSE IF l \notin call[p].todo /\ call[p].seen[l] # "none" THEN "inactive" ELSE call[p].seen[l]
  BY <1>1, <1>2, <1>5
<1>7. \A l \in L : l \in call[p].todo \/ call[p].seen[l] # "none"
  BY <1>1, <1>2
<1>8. QED
  BY <1>3, <1>4, <1>6, <1>7, UpdateGoesOn

\* The rows there were not, and the answer.
LEMMA CreateLinksKeeps ==
  ASSUME VendorsInv, NEW p \in Calls, CreateLinks(p)
  PROVE  VendorsInv'
<1>1. PICK c \in Records : c = call[p]
  BY DEF VendorsInv, DataOK
<1>2. PICK L \in SUBSET Listings : L = {l \in c.todo : c.seen[l] = "none"}
  BY DEF Records
<1>3. pc[p] = "creating" /\ Write(p, L, "active", "done") /\ Updating(p) /\ "done" \in Steps
  BY <1>1, <1>2 DEF CreateLinks, Updating, Steps
<1>4. DataOK /\ CallOK(p)
  BY DEF VendorsInv
<1>5. PICK cs \in [Calls -> Records] : cs = [call EXCEPT ![p] = NoCall]
  BY <1>4, NoCallType DEF DataOK
<1>6. call' = Told(cs, p, c.user, L) /\ pc' = [pc EXCEPT ![p] = "done"] /\ holder' = holder
  BY <1>1, <1>3, <1>5 DEF Write, Goto
<1>7. call'[p] = NoCall /\ pc'[p] = "done"
  <2>1. call'[p] = cs[p]
    BY <1>6, ToldType
  <2>2. QED
    BY <1>4, <1>5, <1>6, <2>1 DEF DataOK
<1>8. /\ \A x \in Listings \cup Projects : holder[x] # p
      /\ \A l \in Listings : l \in c.todo => contact[c.user][l] # "none"
  BY <1>1, <1>3, <1>4, UpdateRows
<1>9. CallOK(p)'
  BY <1>6, <1>7, <1>8, NoCallOK
<1>10. \A l \in L : contact[call[p].user][l] # "none"
  BY <1>1, <1>2, <1>8
<1>11. QED
  BY <1>3, <1>9, <1>10, WriteKeeps
-----------------------------------------------------------------------------
\* Every step keeps the invariant.
LEMMA VendorsKeep ==
  ASSUME VendorsInv, [VendorsNext]_vendorVars
  PROVE  VendorsInv'
<1>1. ASSUME NEW p \in Calls, Step(p) PROVE VendorsInv'
  <2>1. CASE BeginAttach(p)
    BY <2>1, BeginAttachKeeps
  <2>2. CASE BeginComplete(p)
    BY <2>2, BeginCompleteKeeps
  <2>3. CASE BeginSelect(p)
    <3>1. PICK u \in Users, l \in Listings : BeginContact(p, "select", u, Canonical(l))
      BY <2>3 DEF BeginSelect
    <3>2. Canonical(l) \in Listings /\ "select" \in Saving
      BY CanonicalType DEF VendorsInv, DataOK, Saving
    <3>3. QED
      BY <3>1, <3>2, BeginContactKeeps
  <2>4. CASE BeginRemove(p)
    <3>1. PICK u \in Users, l \in Listings : BeginContact(p, "remove", u, l)
      BY <2>4 DEF BeginRemove
    <3>2. QED
      BY <3>1, BeginContactKeeps DEF Saving
  <2>5. CASE BeginEdit(p)
    <3>1. PICK u \in Users, l \in Listings : Editor(l) = u /\ BeginContact(p, "edit", u, l)
      BY <2>5 DEF BeginEdit
    <3>2. QED
      BY <3>1, BeginContactKeeps DEF Saving
  <2>6. CASE BeginUpdate(p)
    BY <2>6, BeginUpdateKeeps
  <2>7. CASE LockProject(p)
    BY <2>7, LockProjectKeeps
  <2>8. CASE FollowChain(p)
    BY <2>8, FollowChainKeeps
  <2>9. CASE AttachListing(p)
    BY <2>9, AttachListingKeeps
  <2>10. CASE Commit(p)
    BY <2>10, CommitKeeps
  <2>11. CASE UpdateEmail(p)
    BY <2>11, UpdateEmailKeeps
  <2>12. CASE CreateProject(p)
    BY <2>12, CreateProjectKeeps
  <2>13. CASE SaveContact(p)
    BY <2>13, SaveContactKeeps
  <2>14. CASE SaveListing(p)
    BY <2>14, SaveListingKeeps
  <2>15. CASE Deactivate(p)
    BY <2>15, DeactivateKeeps
  <2>16. CASE Reactivate(p)
    BY <2>16, ReactivateKeeps
  <2>17. CASE CreateLinks(p)
    BY <2>17, CreateLinksKeeps
  <2>18. CASE Fail(p)
    BY <2>18, FailKeeps
  <2>19. QED
    BY <1>1, <2>1, <2>2, <2>3, <2>4, <2>5, <2>6, <2>7, <2>8, <2>9, <2>10, <2>11, <2>12, <2>13, <2>14, <2>15,
       <2>16, <2>17, <2>18
      DEF Step
<1>2. ASSUME NEW l \in Listings, NEW c \in Listings, Supersede(l, c) PROVE VendorsInv'
  BY <1>2, SupersedeKeeps
<1>3. CASE UNCHANGED vendorVars
  <2>1. UNCHANGED <<super, owner, email, contact, link, born, holder, pc, call>>
    BY <1>3 DEF vendorVars, listings
  <2>2. DataOK' /\ LinksOK' /\ DataOK
    BY <2>1 DEF VendorsInv, DataOK, LinksOK
  <2>3. ASSUME NEW q \in Calls PROVE CallOK(q)'
    <3>1. PICK L \in SUBSET Listings : L = {}
      OBVIOUS
    <3>2. Undisturbed(q)
      BY <2>1, <2>2, <3>1, SharedStep
    <3>3. QED
      BY <2>2, <3>2, UndisturbedKeeps DEF VendorsInv
  <2>4. QED
    BY <2>2, <2>3 DEF VendorsInv
<1>4. QED
  BY <1>1, <1>2, <1>3 DEF VendorsNext

\* No call has begun, nothing is locked.
LEMMA VendorsInitially ==
  ASSUME VendorsInit
  PROVE  VendorsInv
<1>1. PICK had \in {"none", "active", "inactive"}, linked \in {"none", "active", "inactive"} :
        /\ \A l \in Listings : linked # "none" => had # "none"
        /\ contact = [u \in Users |-> [l \in Listings |-> had]]
        /\ link = [j \in Projects |-> IF j \in Existing THEN [l \in Listings |-> linked]
                                      ELSE [l \in Listings |-> "none"]]
  BY DEF VendorsInit, Uniform
<1>2. contact \in [Users -> VendorRows] /\ link \in [Projects -> VendorRows]
  BY <1>1 DEF VendorRows
<1>3. DataOK
  <2>1. super \in [Listings -> Listings \cup {Null}] /\ owner \in [Listings -> Users \cup {Null}]
        /\ email \in [Listings -> Calls \cup {Null, "own"}]
    BY DEF VendorsInit
  <2>2. born \subseteq Projects /\ Existing \subseteq born /\ pc \in [Calls -> Steps]
        /\ holder \in [Listings \cup Projects -> Calls \cup {Null}]
    BY OwnersAssumption DEF VendorsInit, Steps
  <2>3. call \in [Calls -> Records]
    BY NoCallType DEF VendorsInit
  <2>4. QED
    BY <1>2, <2>1, <2>2, <2>3 DEF DataOK
<1>4. LinksOK
  BY <1>1, OwnersAssumption DEF LinksOK, VendorsInit
<1>5. ASSUME NEW p \in Calls PROVE CallOK(p)
  <2>1. PICK d : d = NoCall
    OBVIOUS
  <2>2. /\ d.op = "none" /\ d.chain = Null /\ d.astray = FALSE /\ d.owned = {} /\ d.emailed = {}
    BY <2>1 DEF NoCall
  <2>3. call[p] = d /\ pc[p] = "idle" /\ \A x \in Listings \cup Projects : holder[x] # p
    BY <2>1, NullAssumption DEF VendorsInit
  <2>4. PlaceOK(p)
    BY <2>2, <2>3 DEF PlaceOK, Updating, Serving
  <2>5. LocksOK(p) /\ PromisesOK(p) /\ ReadOK(p) /\ UpdateOK(p) /\ EditOK(p)
    BY <2>2, <2>3 DEF LocksOK, PromisesOK, ReadOK, UpdateOK, EditOK, Updating
  <2>6. QED
    BY <2>4, <2>5 DEF CallOK
<1>6. QED
  BY <1>3, <1>4, <1>5 DEF VendorsInv

\* The invariant holds throughout.
LEMMA VendorsInvariant == VendorsSpec => []VendorsInv
<1>1. VendorsInit => VendorsInv
  BY VendorsInitially
<1>2. VendorsInv /\ [VendorsNext]_vendorVars => VendorsInv'
  BY VendorsKeep
<1>3. QED
  BY <1>1, <1>2, PTL DEF VendorsSpec
-----------------------------------------------------------------------------
\* Every variable of ProjectVendors keeps its type, a project's vendors are contacts of its user, and
\* only projects that exist have any.
THEOREM VendorsTypeCorrect == VendorsSpec => []VendorsTypeOK
<1>1. VendorsInv => VendorsTypeOK
  BY DEF VendorsInv, DataOK, LinksOK, VendorsTypeOK
<1>2. QED
  BY <1>1, VendorsInvariant, PTL
-----------------------------------------------------------------------------
\* The listing with the greatest uuid.
LEMMA GreatestListing ==
  ASSUME NEW S, S \subseteq Listings, S # {}
  PROVE  \E m \in S : \A k \in S : k <= m
<1> DEFINE Higher(l) == {b \in Listings : b > l}
<1>1. \A l \in Listings : IsFiniteSet(Higher(l)) /\ Cardinality(Higher(l)) \in Nat
  <2>1. \A l \in Listings : Higher(l) \in SUBSET Listings
    OBVIOUS
  <2>2. QED
    BY <2>1, ListingsAssumption, FS_Subset, FS_CardinalityType
<1>2. PICK N : N = {Cardinality(Higher(l)) : l \in S}
  OBVIOUS
<1>3. N \subseteq Nat /\ N # {}
  BY <1>1, <1>2
<1>4. PICK n \in N : \A k \in N : n <= k
  BY <1>3, LeastNumber
<1>5. PICK m \in S : n = Cardinality(Higher(m))
  BY <1>2, <1>4
<1>6. ASSUME NEW k \in S, ~(k <= m) PROVE FALSE
  <2>1. k \in Nat /\ m \in Nat /\ k \in Listings /\ m \in Listings /\ k > m
    BY <1>6, ListingsAssumption
  <2>2. Higher(k) \in SUBSET Higher(m) /\ k \in Higher(m) /\ k \notin Higher(k)
    <3>1. ASSUME NEW b \in Listings, b > k PROVE b > m
      BY <2>1, <3>1, ListingsAssumption
    <3>2. Higher(k) \in SUBSET Higher(m)
      BY <3>1
    <3>3. k \in Higher(m)
      BY <2>1
    <3>4. k \notin Higher(k)
      BY <2>1
    <3>5. QED
      BY <3>2, <3>3, <3>4
  <2>3. PICK A : A = Higher(m)
    OBVIOUS
  <2>4. PICK B : B = Higher(k)
    OBVIOUS
  <2>5. IsFiniteSet(A) /\ B \in SUBSET A /\ B # A
    BY <1>1, <2>1, <2>2, <2>3, <2>4
  <2>6. Cardinality(B) <= Cardinality(A) /\ Cardinality(B) # Cardinality(A)
    BY <2>5, FS_Subset
  <2>7. Cardinality(A) \in Nat /\ Cardinality(B) \in Nat
    BY <1>1, <2>1, <2>3, <2>4
  <2>8. Cardinality(A) <= Cardinality(B)
    BY <1>2, <1>4, <1>5, <2>3, <2>4
  <2>9. QED
    BY <2>6, <2>7, <2>8
<1>7. QED
  BY <1>6

\* Who is waited for has locked in order: its next lock is above the one that is asked for.
LEMMA WaitsUpwards ==
  ASSUME VendorsInv, NEW p \in Calls, NEW q \in Calls,
         ~call[p].astray, ~call[q].astray, Waits(p, q)
  PROVE  /\ pc[q] = "attaching"
         /\ Asks(p) /\ Asks(q) => Aim(q) \in Listings /\ Aim(p) < Aim(q)
<1>1. DataOK /\ PlaceOK(p) /\ LocksOK(q)
  BY DEF VendorsInv, CallOK
<1>2. CASE pc[p] = "locking"
  <2>1. holder[call[p].project] = q /\ call[p].project \in Projects
    BY <1>1, <1>2 DEF Waits, Asks, PlaceOK, Serving
  <2>2. QED
    BY <1>1, <1>2, <2>1 DEF LocksOK, Asks
<1>3. CASE Asks(p) /\ holder[Aim(p)] = q
  <2>1. Aim(p) \in Listings
    BY <1>1, <1>3, AimType
  <2>2. pc[q] = "attaching" /\ call[q].chain = Null /\ \A m \in call[q].todo : Aim(p) < m
    BY <1>1, <1>3, <2>1 DEF LocksOK
  <2>3. ASSUME Asks(q) PROVE Aim(q) \in Listings /\ Aim(q) \in call[q].todo
    <3>1. Aim(q) = Turn(q)
      BY <2>2 DEF Aim
    <3>2. QED
      BY <1>1, <2>2, <2>3, <3>1, AimType
  <2>4. QED
    BY <2>2, <2>3
<1>4. QED
  BY <1>2, <1>3 DEF Waits

\* Attachments lock their project and then listings in the order of their uuids, and never wait for
\* each other in a circle, however many there are: of the locks that are asked for in a circle the
\* greatest is held by a call that asks for a greater one.
THEOREM LocksAreOrdered == VendorsSpec => []OrderedLocksDoNotDeadlock
<1>1. ASSUME VendorsInv PROVE OrderedLocksDoNotDeadlock
  <2> SUFFICES ASSUME NEW S \in SUBSET {p \in Calls : ~call[p].astray}, S # {},
                      \A p \in S : \E q \in S : Waits(p, q)
               PROVE  FALSE
    BY DEF OrderedLocksDoNotDeadlock
  <2>1. PICK A : A = {p \in S : Asks(p)}
    OBVIOUS
  <2>2. \A p \in S : \E q \in A : Waits(p, q)
    <3> SUFFICES ASSUME NEW p \in S PROVE \E q \in A : Waits(p, q)
      OBVIOUS
    <3>1. PICK q \in S : Waits(p, q)
      OBVIOUS
    <3>2. pc[q] = "attaching"
      BY <1>1, <3>1, WaitsUpwards
    <3>3. \E r \in S : Waits(q, r)
      OBVIOUS
    <3>4. Asks(q)
      BY <3>2, <3>3 DEF Waits
    <3>5. QED
      BY <2>1, <3>1, <3>4
  <2>3. PICK V : V = {Aim(p) : p \in A}
    OBVIOUS
  <2>4. V \subseteq Listings /\ V # {}
    BY <1>1, <2>1, <2>2, <2>3, AimType DEF VendorsInv
  <2>5. PICK m \in V : \A k \in V : k <= m
    BY <2>4, GreatestListing
  <2>6. PICK p \in A : m = Aim(p)
    BY <2>3
  <2>7. PICK q \in A : Waits(p, q)
    BY <2>1, <2>2
  <2>8. Aim(p) < Aim(q)
    BY <1>1, <2>1, <2>7, WaitsUpwards
  <2>9. Aim(q) <= Aim(p) /\ Aim(p) \in Nat /\ Aim(q) \in Nat
    BY <2>3, <2>4, <2>5, <2>6, ListingsAssumption
  <2>10. QED
    BY <2>8, <2>9
<1>2. QED
  BY <1>1, VendorsInvariant, PTL
-----------------------------------------------------------------------------
\* What answers a call.
LEMMA Answering ==
  ASSUME VendorsInv, VendorsNext, NEW p \in Calls, pc[p] # "done", pc'[p] = "done"
  PROVE  Commit(p) \/ SaveContact(p) \/ SaveListing(p) \/ CreateLinks(p)
<1>1. pc \in [Calls -> Steps]
  BY DEF VendorsInv, DataOK
<1>2. ~\E l, c \in Listings : Supersede(l, c)
  BY DEF Supersede
<1>3. PICK q \in Calls : Step(q)
  BY <1>2 DEF VendorsNext
<1>4. ASSUME NEW s, s # "done", Goto(q, s) PROVE FALSE
  BY <1>1, <1>4 DEF Goto
<1>5. ASSUME NEW c, NEW s, s # "done", Begin(q, c, s) PROVE FALSE
  BY <1>4, <1>5 DEF Begin
<1>6. ~BeginAttach(q) /\ ~BeginComplete(q) /\ ~BeginUpdate(q)
  BY <1>5 DEF BeginAttach, BeginComplete, BeginUpdate
<1>7. ~BeginSelect(q) /\ ~BeginRemove(q) /\ ~BeginEdit(q)
  BY <1>5 DEF BeginSelect, BeginRemove, BeginEdit, BeginContact
<1>8. ~LockProject(q) /\ ~CreateProject(q) /\ ~Fail(q)
  BY <1>4 DEF LockProject, CreateProject, Fail
<1>9. ~FollowChain(q) /\ ~AttachListing(q) /\ ~UpdateEmail(q)
  BY DEF FollowChain, AttachListing, UpdateEmail
<1>10. ~Deactivate(q) /\ ~Reactivate(q)
  BY <1>4 DEF Deactivate, Reactivate, Write
<1>11. Commit(q) \/ SaveContact(q) \/ SaveListing(q) \/ CreateLinks(q)
  BY <1>3, <1>6, <1>7, <1>8, <1>9, <1>10 DEF Step
<1>12. Goto(q, "done")
  BY <1>11 DEF Commit, SaveContact, SaveListing, CreateLinks, Write
<1>13. q = p
  BY <1>1, <1>12 DEF Goto
<1>14. QED
  BY <1>11, <1>13

\* What a commit writes.
LEMMA Committed ==
  ASSUME VendorsInv, NEW p \in Calls, Commit(p)
  PROVE  /\ super' = super
         /\ \A l \in call[p].attached : l \in Listings /\ super[l] = Null
         /\ \A l \in call[p].attached \ call[p].since :
              link'[call[p].project][l] = "active" /\ contact'[call[p].user][l] = "active"
<1>1. PICK c \in Records : c = call[p]
  BY DEF VendorsInv, DataOK
<1>2. DataOK /\ PlaceOK(p) /\ PromisesOK(p) /\ ReadOK(p) /\ pc[p] = "attaching"
  BY DEF VendorsInv, CallOK, Commit
<1>3. c.project \in Projects /\ c.user = OwnerOf[c.project] /\ c.user \in Users
  BY <1>1, <1>2, OwnersAssumption DEF PlaceOK, Serving
<1>4. c.attached \subseteq Listings
  BY DEF Records
<1>5. /\ contact' = [contact EXCEPT ![c.user] = Activated(@, c.contacts)]
      /\ link' = [link EXCEPT ![c.project] = Activated(@, c.links)] /\ super' = super
  BY <1>1 DEF Commit
<1>6. \A l \in Listings : contact'[c.user][l] = IF l \in c.contacts THEN "active" ELSE contact[c.user][l]
  BY <1>2, <1>3, <1>5 DEF DataOK, Activated
<1>7. \A l \in Listings : link'[c.project][l] = IF l \in c.links THEN "active" ELSE link[c.project][l]
  BY <1>2, <1>3, <1>5 DEF DataOK, Activated
<1>8. \A l \in c.attached : super[l] = Null
  BY <1>1, <1>2 DEF PromisesOK
<1>9. \A l \in c.attached \ c.since : /\ l \in c.contacts \/ contact[c.user][l] = "active"
                                      /\ l \in c.links \/ link[c.project][l] = "active"
  BY <1>1, <1>2 DEF ReadOK
<1>10. QED
  BY <1>1, <1>4, <1>5, <1>6, <1>7, <1>8, <1>9

\* What an attachment answers it has attached is canonical at its commit, and a vendor of its project
\* and a contact of its user, but for rows that others wrote after it had read them.
THEOREM AttachmentsAreTrue == VendorsSpec => AttachedIsTrue
<1> DEFINE Canon == \A p \in Calls : Succeeds(p, "attaching") =>
                      \A l \in call[p].attached : Available(l) /\ super'[l] = Null
           Linked == \A p \in Calls : Succeeds(p, "attaching") =>
                       \A l \in call[p].attached \ call[p].since :
                         /\ link'[call[p].project][l] = "active"
                         /\ contact'[call[p].user][l] = "active"
<1>1. ASSUME VendorsInv, VendorsNext, NEW p \in Calls, Succeeds(p, "attaching") PROVE Commit(p)
  <2>1. pc[p] = "attaching" /\ pc'[p] = "done"
    BY <1>1 DEF Succeeds
  <2>2. Commit(p) \/ SaveContact(p) \/ SaveListing(p) \/ CreateLinks(p)
    BY <1>1, <2>1, Answering
  <2>3. QED
    BY <2>1, <2>2 DEF SaveContact, SaveListing, CreateLinks
<1>2. VendorsInv /\ [VendorsNext]_vendorVars => [Canon]_vendorVars
  BY <1>1, Committed DEF Available
<1>3. VendorsInv /\ [VendorsNext]_vendorVars => [Linked]_vendorVars
  BY <1>1, Committed
<1>4. VendorsSpec => [][Canon]_vendorVars
  <2> HIDE DEF Canon
  <2>1. QED
    BY <1>2, VendorsInvariant, PTL DEF VendorsSpec
<1>5. VendorsSpec => [][Linked]_vendorVars
  <2> HIDE DEF Linked
  <2>1. QED
    BY <1>3, VendorsInvariant, PTL DEF VendorsSpec
<1>6. QED
  BY <1>4, <1>5 DEF AttachedIsTrue, AttachedAreCanonical, AttachedAreLinked

\* What an update has written when it is answered.
LEMMA Updated ==
  ASSUME VendorsInv, NEW p \in Calls, CreateLinks(p), NEW l \in Listings \ call[p].since
  PROVE  link'[call[p].project][l] = "active" <=> l \in call[p].todo
<1>1. PICK c \in Records : c = call[p]
  BY DEF VendorsInv, DataOK
<1>2. DataOK /\ CallOK(p) /\ pc[p] = "creating" /\ Updating(p)
  BY DEF VendorsInv, CreateLinks, Updating
<1>3. c.project \in Projects /\ c.seen[l] \in {"none", "active", "inactive"}
  BY <1>1, <1>2 DEF CallOK, PlaceOK, Serving, Records, VendorRows
<1>4. link' = [link EXCEPT ![c.project] = [m \in Listings |->
                 IF m \in {k \in c.todo : c.seen[k] = "none"} THEN "active" ELSE @[m]]]
  BY <1>1 DEF CreateLinks, Write
<1>5. link'[c.project][l] = IF l \in c.todo /\ c.seen[l] = "none" THEN "active" ELSE link[c.project][l]
  BY <1>2, <1>3, <1>4 DEF DataOK
<1>6. link[c.project][l] = IF l \in c.todo /\ c.seen[l] = "inactive" THEN "active"
                           ELSE IF l \notin c.todo /\ c.seen[l] # "none" THEN "inactive" ELSE c.seen[l]
  BY <1>1, <1>2 DEF CallOK, UpdateOK
<1>7. QED
  BY <1>1, <1>3, <1>5, <1>6

\* An update of a project that is answered has left the vendors of its list and no others, but for rows
\* that others wrote meanwhile.
THEOREM UpdatesAreExact == VendorsSpec => UpdateIsExact
<1> DEFINE Exact == \A p \in Calls : Succeeds(p, "creating") =>
                      \A l \in Listings \ call[p].since :
                        link'[call[p].project][l] = "active" <=> l \in call[p].todo
<1>1. ASSUME VendorsInv, VendorsNext, NEW p \in Calls, Succeeds(p, "creating")
      PROVE  CreateLinks(p)
  <2>1. pc[p] = "creating" /\ pc'[p] = "done"
    BY <1>1 DEF Succeeds
  <2>2. Commit(p) \/ SaveContact(p) \/ SaveListing(p) \/ CreateLinks(p)
    BY <1>1, <2>1, Answering
  <2>3. QED
    BY <2>1, <2>2 DEF Commit, SaveContact, SaveListing
<1>2. VendorsInv /\ [VendorsNext]_vendorVars => [Exact]_vendorVars
  BY <1>1, Updated
<1>3. QED
  <2>1. VendorsSpec => [][Exact]_vendorVars
    <3> HIDE DEF Exact
    <3>1. QED
      BY <1>2, VendorsInvariant, PTL DEF VendorsSpec
  <2>2. QED
    BY <2>1 DEF UpdateIsExact
-----------------------------------------------------------------------------
\* Owners and addresses are written by commits and editors only.
LEMMA Writing ==
  ASSUME VendorsNext, ~(UNCHANGED <<owner, email>>)
  PROVE  \E p \in Calls : Commit(p) \/ SaveListing(p)
<1>1. ~\E l, c \in Listings : Supersede(l, c)
  BY DEF Supersede
<1>2. PICK q \in Calls : Step(q)
  BY <1>1 DEF VendorsNext
<1>3. ASSUME NEW c, NEW s, Begin(q, c, s) PROVE FALSE
  BY <1>3 DEF Begin, listings
<1>4. ~BeginAttach(q) /\ ~BeginComplete(q) /\ ~BeginUpdate(q)
  BY <1>3 DEF BeginAttach, BeginComplete, BeginUpdate
<1>5. ~BeginSelect(q) /\ ~BeginRemove(q) /\ ~BeginEdit(q)
  BY <1>3 DEF BeginSelect, BeginRemove, BeginEdit, BeginContact
<1>6. ~LockProject(q) /\ ~CreateProject(q) /\ ~Fail(q)
  BY DEF LockProject, CreateProject, Fail, listings
<1>7. ~FollowChain(q) /\ ~AttachListing(q) /\ ~UpdateEmail(q)
  BY DEF FollowChain, AttachListing, UpdateEmail, listings
<1>8. ~Deactivate(q) /\ ~Reactivate(q) /\ ~CreateLinks(q)
  BY DEF Deactivate, Reactivate, CreateLinks, Write, listings
<1>9. ~SaveContact(q)
  BY DEF SaveContact, listings
<1>10. QED
  BY <1>2, <1>4, <1>5, <1>6, <1>7, <1>8, <1>9 DEF Step

\* An owner of a listing stays, and an address is replaced only by its owner, or by the vendor who has
\* claimed it, in a form of his own.
THEOREM OwnersAndAddressesLast == VendorsSpec => FirstComeFirstServed
<1> DEFINE First == \A l \in Listings :
                      /\ owner[l] # Null => owner'[l] = owner[l]
                      /\ email[l] # Null /\ email'[l] # email[l] =>
                        \E p \in Calls :
                          Succeeds(p, "saving") /\ call[p].op = "edit" /\ call[p].user = Editor(l)
<1>1. ASSUME VendorsInv, NEW p \in Calls, Commit(p) PROVE First
  <2>1. /\ owner' = [l \in Listings |-> IF l \in call[p].owned THEN call[p].user ELSE owner[l]]
        /\ email' = [l \in Listings |-> IF l \in call[p].emailed THEN p ELSE email[l]]
    BY <1>1 DEF Commit
  <2>2. /\ \A l \in call[p].owned : owner[l] = Null
        /\ \A l \in call[p].emailed : email[l] = Null
    BY <1>1 DEF VendorsInv, CallOK, PromisesOK
  <2>3. QED
    BY <2>1, <2>2
<1>2. ASSUME VendorsInv, NEW p \in Calls, SaveListing(p) PROVE First
  <2>1. /\ email' = [l \in Listings |-> IF l \in call[p].attached THEN p ELSE email[l]]
        /\ owner' = owner /\ pc[p] = "saving" /\ call[p].op = "edit" /\ pc' = [pc EXCEPT ![p] = "done"]
    BY <1>2 DEF SaveListing, Goto
  <2>2. \A l \in call[p].attached : Editor(l) = call[p].user
    BY <1>2, <2>1 DEF VendorsInv, CallOK, EditOK
  <2>3. Succeeds(p, "saving")
    BY <1>2, <2>1 DEF Succeeds, VendorsInv, DataOK
  <2>4. QED
    BY <2>1, <2>2, <2>3
<1>3. ASSUME UNCHANGED <<owner, email>> PROVE First
  BY <1>3
<1>4. VendorsInv /\ [VendorsNext]_vendorVars => [First]_vendorVars
  <2> HIDE DEF First
  <2>1. QED
    BY <1>1, <1>2, <1>3, Writing
<1>5. QED
  <2>1. VendorsSpec => [][First]_vendorVars
    <3> HIDE DEF First
    <3>1. QED
      BY <1>4, VendorsInvariant, PTL DEF VendorsSpec
  <2>2. QED
    BY <2>1 DEF FirstComeFirstServed
==============================================================================
