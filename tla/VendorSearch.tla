---------------------------- MODULE VendorSearch ----------------------------
(***************************************************************************)
(* A search for vendors: vendor_discovery_service.ts and the listings that *)
(* vendor_service.ts keeps for it, on the two routes that start one.       *)
(*                                                                         *)
(* A signed-in user passes the counters of RateLimit first; the anonymous  *)
(* route does not ask them.  The reasoning engine plans some searches; for *)
(* each one the listings that are already known are read, Foursquare is    *)
(* asked, its places are merged, and each is looked up by one key after    *)
(* the other and inserted if nothing was found.  Nothing is locked, and    *)
(* meanwhile users enter listings and change those they may edit.          *)
(***************************************************************************)
EXTENDS RateLimit, SequencesExt

CONSTANTS
  Anonymous,   \* the requests that come by the onboarding route
  Known,       \* what vendor_listings may hold at the start
  Plans,       \* what the engine may plan: sequences of sets of categories (bound)
  Results,     \* what Foursquare may return to a search of some categories: sequences of places (bound)
  Keep,        \* MAX_RECOMMENDATIONS_PER_CATEGORY
  MaxCreated,  \* listings that users enter themselves (bound)
  MaxEdits,    \* changes that users make to listings (bound)
  Other,       \* an address, or a name and postcode, that no place has
  None         \* null

ASSUME SearchAssumption ==
  Anonymous \subseteq Requests /\ Keep \in Nat \ {0} /\ MaxCreated \in Nat /\ MaxEdits \in Nat

VARIABLES
  listing,  \* the rows, in the order of their insertion
  edits,    \* how many changes users have made to them
  apart,    \* apart[j], a history: the rows there were when the lookup of row j began, but for those
            \* that were edited since; none if j was not inserted by a search, or was edited itself
  search    \* search[r]: the state of discover for r

rowVars == <<listing, edits, apart>>
vars == <<rateVars, rowVars, search>>

Places     == UNION {ToSet(res) : res \in UNION {Results[cats] : cats \in DOMAIN Results}}
StableKeys == {"fsq", "email", "phone"}
Edited     == {"email", "weak"}
Values(k)  == ({p[k] : p \in Places} \cup {Other}) \ {None}
Keyless(x) == \A k \in StableKeys : x[k] = None

PlaceRecords == [fsq : {p.fsq : p \in Places}, email : {p.email : p \in Places},
                 phone : {p.phone : p \in Places}, weak : {p.weak : p \in Places},
                 cats : {p.cats : p \in Places}, date : Nat, place : Nat]

\* The engine plans searches that Foursquare knows, which returns places.
ASSUME ResultsAssumption ==
  /\ Plans \subseteq Seq(DOMAIN Results)
  /\ \A cats \in DOMAIN Results : Results[cats] \subseteq Seq(Places)
  /\ Places \subseteq PlaceRecords

\* The rows; owned: whether a user may edit it, who has entered, adopted or claimed it.
Rows == [fsq : {p.fsq : p \in Places} \cup {None}, email : Values("email") \cup {None},
         phone : {p.phone : p \in Places} \cup {None}, weak : Values("weak") \cup {None},
         cats : SUBSET UNION {p.cats : p \in Places}, date : {p.date : p \in Places} \cup {0},
         place : {p.place : p \in Places} \cup {0}, searched : BOOLEAN, owned : BOOLEAN]

\* The rows there are at the start are under vendor_listings_fsq_place_id_unique.
ASSUME KnownAssumption ==
  \A known \in Known :
    /\ known \in Seq(Rows)
    /\ \A i, j \in DOMAIN known : i # j /\ known[j].fsq # None => known[i].fsq # known[j].fsq

\* pc; plan: the searches to come; todo: candidates to persist; look: the keys the first of them is
\* still to be looked up by; rank: of the next place; found: the recommendations, with their rows as
\* they were read; broken: whether Foursquare failed once; answer: what is returned.  Histories:
\* apart: the rows there were when the lookup began, but for those edited since; got: the places
\* whose search is over.
NotBegun == {0}
NoSearch == [pc |-> "new", plan |-> <<>>, todo |-> <<>>, look |-> <<>>, apart |-> NotBegun, rank |-> 0,
             found |-> {}, broken |-> FALSE, answer |-> <<>>, got |-> {}]
Failed   == [NoSearch EXCEPT !.pc = "failed"]

Init == /\ RateInit
        /\ listing \in Known
        /\ edits = 0
        /\ apart = [j \in DOMAIN listing |-> {}]
        /\ search = [r \in Requests |-> NoSearch]
-----------------------------------------------------------------------------
(***************************************************************************)
(* Merging the places of one search                                        *)
(***************************************************************************)

SameCandidate(a, b) ==
  \/ \E k \in StableKeys : a[k] # None /\ a[k] = b[k]
  \/ Keyless(a) /\ Keyless(b) /\ a.weak # None /\ a.weak = b.weak

\* The websites and addresses of streets that the code counts too are left out.
Richness(c) == Cardinality({k \in {"email", "phone"} : c[k] # None})

\* preferCandidate.
Prefer(a, b) ==
  IF \/ a.date > b.date
     \/ a.date = b.date /\ Richness(a) > Richness(b)
     \/ a.date = b.date /\ Richness(a) = Richness(b) /\ a.rank <= b.rank
  THEN a ELSE b

\* One round of dedupeCandidates: the first that is the same gives way to the better of the two.
Merge(done, c) ==
  IF \E i \in 1..Len(done) : SameCandidate(done[i], c)
  THEN LET i == CHOOSE n \in 1..Len(done) :
                  SameCandidate(done[n], c) /\ \A m \in 1..(n - 1) : ~SameCandidate(done[m], c)
       IN [done EXCEPT ![i] = [Prefer(done[i], c) EXCEPT !.cats = done[i].cats \cup c.cats]]
  ELSE Append(done, c)

Dedupe(cands) ==
  LET done[n \in 0 .. Len(cands)] == IF n = 0 THEN <<>> ELSE Merge(done[n - 1], cands[n])
  IN  done[Len(cands)]

\* normalizeFoursquarePlace: the places with their ranks, counted over all searches of the request.
Candidate(p, rank) == [fsq |-> p.fsq, email |-> p.email, phone |-> p.phone, weak |-> p.weak,
                       cats |-> p.cats, date |-> p.date, place |-> p.place, rank |-> rank]
Candidates(res, rank) == [i \in 1..Len(res) |-> Candidate(res[i], rank + i - 1)]
-----------------------------------------------------------------------------
(***************************************************************************)
(* Ranking                                                                 *)
(***************************************************************************)

\* getRelevantVendorListings: by shared categories, then by distance and name.
Relevant(cats) ==
  LET near == {i \in 1..Len(listing) : listing[i].cats \cap cats # {}}
      Shared(i) == Cardinality(listing[i].cats \cap cats)
      Before(i, j) == \/ Shared(i) > Shared(j)
                      \/ Shared(i) = Shared(j) /\ listing[i].place < listing[j].place
                      \/ Shared(i) = Shared(j) /\ listing[i].place = listing[j].place /\ i < j
      Index(i) == Cardinality({j \in near : Before(j, i)})
  IN {[at |-> i, rank |-> Index(i), known |-> TRUE, read |-> listing[i]] : i \in {j \in near : Index(j) < Keep}}

HasEmail(c) == c.read.email # None

\* Mutant of Best: a listing found by two ways stays twice.
BestEachWay(found) == found

\* Of two readings of one row the known one goes first, then the one of lower rank, then the earlier:
\* it has no address if the other has none, because no address is ever taken away.
GoesFirst(c, d) ==
  \/ c.known /\ ~d.known
  \/ c.known = d.known /\ c.rank < d.rank
  \/ c.known = d.known /\ c.rank = d.rank /\ (HasEmail(c) => HasEmail(d))

\* rankPersistedListings keeps one recommendation for each listing ...
Best(found) ==
  {CHOOSE c \in found : c.at = i /\ \A d \in found : d.at = i => GoesFirst(c, d) : i \in {c.at : c \in found}}

RanksBefore(c, d) ==
  IF c.known # d.known THEN c.known
  ELSE IF HasEmail(c) # HasEmail(d) THEN HasEmail(c)
  ELSE IF c.read.date # d.read.date THEN c.read.date > d.read.date
  ELSE IF c.rank # d.rank THEN c.rank < d.rank
  ELSE IF c.read.place # d.read.place THEN c.read.place < d.read.place
  ELSE c.at < d.at

\* ... and sorts them.
Ranked(found) ==
  LET best == Best(found)
  IN [n \in 1..Cardinality(best) |->
        CHOOSE c \in best : Cardinality({d \in best : RanksBefore(d, c)}) = n - 1]
-----------------------------------------------------------------------------
(***************************************************************************)
(* One request                                                             *)
(***************************************************************************)
Set(r, s) == search' = [search EXCEPT ![r] = s]

\* Of a request of a signed-in user: rejectWhenRateLimited.
Gate(r) ==
  /\ r \notin Anonymous
  /\ Arrive(r) \/ Count(r) \/ CountFails(r)
  /\ UNCHANGED <<rowVars, search>>

\* Mutant of Admitted: the verdict is not awaited.
AdmittedUnasked(r) == r \in Anonymous \/ gate[r].verdict # "outside"

Admitted(r) == r \in Anonymous \/ gate[r].verdict = "admitted"

\* requestVendorDiscovery and validateVendorSearches.
Plan(r) ==
  /\ search[r].pc = "new" /\ Admitted(r)
  /\ \/ \E p \in Plans : Set(r, [search[r] EXCEPT !.pc = "search", !.plan = p])
     \/ Set(r, Failed)
  /\ UNCHANGED <<rateVars, rowVars>>

\* Stages of findExistingSearchListing: where a candidate has a key of its own, its name and
\* postcode are not looked at.
Stage(c, k) == IF c[k] # None THEN <<k>> ELSE <<>>
Lookups(c) ==
  IF ~Keyless(c) THEN Stage(c, "fsq") \o Stage(c, "email") \o Stage(c, "phone") ELSE Stage(c, "weak")

\* The next candidate is taken up.
Onward(s, todo) ==
  [s EXCEPT !.todo = todo, !.apart = NotBegun,
            !.look = IF todo = <<>> THEN <<>> ELSE Lookups(Head(todo)),
            !.pc = IF todo = <<>> THEN "search" ELSE "persist"]

\* One round of the loop of discover, up to its candidates: known listings are kept whether or not
\* Foursquare answers.
Search(r) ==
  LET s    == search[r]
      cats == Head(s.plan)
      t    == [s EXCEPT !.plan = Tail(@), !.found = @ \cup Relevant(cats)]
  IN /\ s.pc = "search" /\ s.plan # <<>>
     /\ \/ Set(r, [t EXCEPT !.broken = TRUE])
        \/ \E res \in Results[cats] :
             Set(r, Onward([t EXCEPT !.rank = @ + Len(res), !.got = @ \cup ToSet(res)],
                           Dedupe(Candidates(res, s.rank))))
     /\ UNCHANGED <<rateVars, rowVars>>

\* Mutant of Matching: users' own listings are not looked at.
MatchingSearched(c, k) == {i \in 1..Len(listing) : listing[i].searched /\ listing[i][k] = c[k]}

\* Mutant of Matching: a name and postcode are compared with those of every row.
MatchingNames(c, k) == {i \in 1..Len(listing) : listing[i][k] = c[k]}

Matching(c, k) ==
  {i \in 1..Len(listing) : listing[i][k] = c[k] /\ (k = "weak" => Keyless(listing[i]))}

\* One query of findExistingSearchListing.
Look(r) ==
  LET s == search[r]
      c == Head(s.todo) IN
  /\ s.pc = "persist" /\ s.look # <<>>
  /\ \/ \E i \in Matching(c, Head(s.look)) :
          Set(r, Onward([s EXCEPT !.found = @ \cup {[at |-> i, rank |-> c.rank, known |-> FALSE,
                                                      read |-> listing[i]]}],
                        Tail(s.todo)))
     \/ /\ Matching(c, Head(s.look)) = {}
        /\ Set(r, [s EXCEPT !.look = Tail(@),
                            !.apart = IF @ = NotBegun THEN DOMAIN listing ELSE @])
  /\ UNCHANGED <<rateVars, rowVars>>

\* The row: rank is of the request only.
Row(c) == [fsq |-> c.fsq, email |-> c.email, phone |-> c.phone, weak |-> c.weak, cats |-> c.cats,
           date |-> c.date, place |-> c.place, searched |-> TRUE, owned |-> FALSE]

\* vendor_listings_fsq_place_id_unique.
Conflicts(c) == c.fsq # None /\ \E i \in 1..Len(listing) : listing[i].fsq = c.fsq

\* VendorListing.create in insertOrReuseSearchListing; after a conflict the lookup is repeated.
Insert(r) ==
  LET s == search[r]
      c == Head(s.todo) IN
  /\ s.pc = "persist" /\ s.look = <<>>
  /\ IF Conflicts(c)
     THEN Set(r, [s EXCEPT !.look = Lookups(c)]) /\ UNCHANGED <<listing, apart>>
     ELSE /\ listing' = Append(listing, Row(c))
          /\ apart' = Append(apart, IF s.apart = NotBegun THEN DOMAIN listing ELSE s.apart)
          /\ Set(r, Onward([s EXCEPT !.found = @ \cup {[at |-> Len(listing) + 1, rank |-> c.rank,
                                                        known |-> FALSE, read |-> Row(c)]}],
                           Tail(s.todo)))
  /\ UNCHANGED <<rateVars, edits>>

\* The end of discover.
Finish(r) ==
  LET s == search[r]
      a == Ranked(s.found) IN
  /\ s.pc = "search" /\ s.plan = <<>>
  /\ Set(r, IF a = <<>> /\ s.broken THEN Failed
            ELSE [s EXCEPT !.pc = "answered", !.answer = SubSeq(a, 1, IF Len(a) < Keep THEN Len(a) ELSE Keep)])
  /\ UNCHANGED <<rateVars, rowVars>>

\* A statement fails, or the process dies: what was inserted stays.
Break(r) ==
  /\ search[r].pc \in {"search", "persist"}
  /\ Set(r, Failed)
  /\ UNCHANGED <<rateVars, rowVars>>

\* createVendor: a user enters a listing with an address, without a look at those there are.
CreateVendor(address) ==
  /\ Cardinality({i \in 1..Len(listing) : ~listing[i].searched}) < MaxCreated
  /\ listing' = Append(listing, [fsq |-> None, email |-> address, phone |-> None, weak |-> None, cats |-> {},
                                 date |-> 0, place |-> 0, searched |-> FALSE, owned |-> TRUE])
  /\ apart' = Append(apart, {})
  /\ UNCHANGED <<rateVars, edits, search>>

\* updateVendor and applyVendorEmailUpdates: a user changes the address or the name of a listing, for
\* which he has adopted it if nobody may edit it yet and it has no address.  Nobody asks whether
\* another listing has the address.
EditListing(i, k, value) ==
  /\ edits < MaxEdits
  /\ listing[i].owned \/ listing[i].email = None
  /\ k = "weak" => listing[i].weak # None
  /\ listing[i][k] # value
  /\ listing' = [listing EXCEPT ![i] = [@ EXCEPT ![k] = value, !.owned = TRUE]]
  /\ edits' = edits + 1
  /\ apart' = [j \in DOMAIN apart |-> IF j = i THEN {} ELSE apart[j] \ {i}]
  /\ search' = [r \in Requests |-> [search[r] EXCEPT !.apart = @ \ {i}]]
  /\ UNCHANGED rateVars

Next ==
  \/ \E r \in Requests : Gate(r) \/ Plan(r) \/ Search(r) \/ Look(r) \/ Insert(r) \/ Finish(r) \/ Break(r)
  \/ \E address \in Values("email") : CreateVendor(address)
  \/ \E i \in 1..Len(listing), k \in Edited : \E value \in Values(k) : EditListing(i, k, value)
  \/ (\E i \in 1..Rules : Elsewhere(i)) /\ UNCHANGED <<rowVars, search>>

Spec == Init /\ [][Next]_vars
-----------------------------------------------------------------------------
(***************************************************************************)
(* Properties                                                              *)
(***************************************************************************)
\* Recommendations name rows there are, and no row twice in an answer.
TypeOK ==
  /\ RateTypeOK
  /\ listing \in Seq(Rows) /\ edits \in 0..MaxEdits
  /\ DOMAIN apart = 1..Len(listing) /\ \A j \in 1..Len(listing) : apart[j] \subseteq 1..(j - 1)
  /\ \A r \in Requests : LET s == search[r] IN
       /\ s.pc \in {"new", "search", "persist", "answered", "failed"}
       /\ s.pc = "persist" <=> s.todo # <<>>
       /\ \A c \in s.found : c.at \in 1..Len(listing)
       /\ \A m, n \in 1..Len(s.answer) : m # n => s.answer[m].at # s.answer[n].at

\* The engine and Foursquare are called for no more requests of signed-in users than each rule
\* allows in each of its windows, however the requests interleave and whenever a window ends; and
\* who is turned away finds the limit spent.
PaidWithinLimits ==
  /\ LimitsHold
  /\ \A i \in 1..Rules, w \in Times :
       Cardinality({r \in Requests \ Anonymous : search[r].pc # "new" /\ WindowOf(i, r) = w}) <= Limit[i]

\* Searches that do not overlap make no duplicates: a row that a search inserted shares its place id,
\* its address, its number, or without any of them its name and postcode, with no row there was when
\* its own lookup began, unless a user has changed one of the two since.  No overlap and no change
\* makes two rows with one place id.
DuplicatesOverlap ==
  \A j \in 1..Len(listing) :
    /\ \A i \in apart[j] : ~SameCandidate(listing[i], listing[j])
    /\ \A i \in 1..(j - 1) : listing[j].fsq # None => listing[i].fsq # listing[j].fsq

\* The records of S that a chain of shared keys connects with x.
Connected(x, S) ==
  LET f[n \in 0..Cardinality(S)] ==
        IF n = 0 THEN {x}
        ELSE LET reached == f[n - 1]
             IN reached \cup {b \in S : \E a \in reached : SameCandidate(a, b)}
  IN f[Cardinality(S)]

\* Records with the same keys, date and place.
Like(a, b) == \A k \in StableKeys \cup {"weak", "date", "place"} : a[k] = b[k]

\* No business is lost in the merging and the lookups: once the places of a search are persisted,
\* each of them is connected by shared keys with a recommended listing as it was read, or, where it
\* has no key at all, has a listing of its own that is recommended, whatever users change meanwhile.
\* An answer is cut to its limit and no shorter, and a listing that was known is left out of it only
\* for others that were.
PlacesAreRepresented ==
  \A r \in Requests : LET s == search[r] IN
    /\ s.pc \in {"search", "answered"} =>
         LET read == {c.read : c \in s.found} IN
         \A p \in s.got : \/ Connected(p, s.got \cup read) \cap read # {}
                           \/ \E l \in read : Like(l, p)
    /\ s.pc = "answered" =>
         LET found == {c.at : c \in s.found}
             shown == {s.answer[n].at : n \in 1..Len(s.answer)} IN
         /\ Cardinality(shown) = IF Cardinality(found) < Keep THEN Cardinality(found) ELSE Keep
         /\ (\E c \in s.found : c.known /\ c.at \notin shown) =>
              \A n \in 1..Len(s.answer) : s.answer[n].known
=============================================================================
