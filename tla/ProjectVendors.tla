--------------------------- MODULE ProjectVendors ---------------------------
(***************************************************************************)
(* Listings of vendors, the contacts of a user that point at them, and the *)
(* vendors of a project: project_vendor_attachment_service.ts, the end of  *)
(* onboarding_project_completion_service.ts, vendor_service.ts and the     *)
(* update of a project's vendors in project_service.ts.                    *)
(*                                                                         *)
(* An attachment is one transaction that locks its project and then, in    *)
(* the order of their uuids, its listings.  A completion locks listings in *)
(* the order of a form before it attaches them.  Contacts and updates of a *)
(* project take no lock: they read, and write what they found missing.     *)
(***************************************************************************)
EXTENDS Naturals, FiniteSets, Sequences, SequencesExt

CONSTANTS
  Calls,     \* requests (bound)
  Users,
  Projects,  \* (bound)
  Existing,  \* the projects there are from the start
  OwnerOf,   \* the user of each project
  Listings,  \* numbered in the order of their uuids (bound)
  Searched,  \* those a search has found (originator SEARCH); the others are of consumers
  Claimed,   \* those their vendor has claimed
  ClaimedBy, \* the user who is this vendor
  Null       \* null

\* There are finitely many listings, and what a number numbers is no project.
ASSUME ListingsAssumption ==
  /\ IsFiniteSet(Listings) /\ Listings \subseteq Nat /\ Searched \subseteq Listings /\ Claimed \subseteq Listings
  /\ Listings \cap Projects = {}
ASSUME ClaimsAssumption   == ClaimedBy \in [Claimed -> Users]
ASSUME OwnersAssumption   == OwnerOf \in [Projects -> Users] /\ Existing \subseteq Projects
ASSUME NullAssumption     == Null \notin Listings \cup Projects \cup Users \cup Calls

VARIABLES
  super,    \* superseded_by_vendor_listing_uuid
  owner,    \* owner_user_uuid
  email,    \* the call that stored the e-mail address, Null where there is none, "own" where it came along
  contact,  \* contact[u][l]: the row of vendors
  link,     \* link[j][l]: the row of project_vendors for the contact of j's user
  born,     \* the projects there are
  holder,   \* the transaction that holds the lock of a listing or a project
  pc, call

listings   == <<super, owner, email>>
vendorVars == <<listings, contact, link, born, holder, pc, call>>

\* chain: the listing to lock after a superseded one; astray: a lock was taken out of the order of the
\* uuids; todo and attached: listings to attach and those done; emails: those to be given an address.
\* contacts, links, owned, emailed: what the transaction writes.  seen: the rows an update or a contact
\* has read; since: the listings whose rows others have written meanwhile.
NoCall == [op |-> "none", user |-> Null, project |-> Null, chain |-> Null, astray |-> FALSE,
           emails |-> <<>>, todo |-> {}, attached |-> {}, contacts |-> {}, links |-> {},
           owned |-> {}, emailed |-> {}, seen |-> [l \in Listings |-> "none"], since |-> {}]

Available(l) == super[l] = Null

\* resolveCanonicalListing.
Canonical(l) ==
  LET f[n \in 0..Cardinality(Listings)] ==
        IF n = 0 THEN l ELSE IF Available(f[n - 1]) THEN f[n - 1] ELSE super[f[n - 1]]
  IN f[Cardinality(Listings)]

Goto(p, l) == pc' = [pc EXCEPT ![p] = l]
Free(x)    == holder[x] = Null

\* Mutant of Lock: the row is read without FOR UPDATE.
LookAt(p, x) == holder[x] \in {Null, p} /\ UNCHANGED holder

Lock(p, x) == holder[x] \in {Null, p} /\ holder' = [holder EXCEPT ![x] = p]

Releasing(p) == [x \in Listings \cup Projects |-> IF holder[x] = p THEN Null ELSE holder[x]]

\* The calls c, those of user u being told that p writes rows of L.
Told(c, p, u, L) ==
  [q \in Calls |-> IF q # p /\ c[q].user = u THEN [c[q] EXCEPT !.since = @ \cup L] ELSE c[q]]

Begin(p, c, l) ==
  /\ pc[p] = "idle"
  /\ call' = [call EXCEPT ![p] = c]
  /\ Goto(p, l)
  /\ UNCHANGED <<listings, contact, link, born, holder>>

\* A refusal, a statement that fails, a deadlock that is broken, a lost connection: of a transaction
\* nothing is left.
Fail(p) ==
  /\ pc[p] \notin {"idle", "done", "failed"}
  /\ holder' = Releasing(p)
  /\ call' = [call EXCEPT ![p] = NoCall]
  /\ Goto(p, "failed")
  /\ UNCHANGED <<listings, contact, link, born>>
-----------------------------------------------------------------------------
Uniform(S) == {[l \in Listings |-> s] : s \in S}

\* Consumers own what no search has found, and a search finds no address; users have all listings as
\* contacts, or had them, or none, and so have projects their vendors.
VendorsInit ==
  /\ super = [l \in Listings |-> Null]
  /\ owner \in [Listings -> Users \cup {Null}]
  /\ \A l \in Listings : l \in Searched <=> owner[l] = Null
  /\ email = [l \in Listings |-> IF l \in Searched \ Claimed THEN Null ELSE "own"]
  /\ \E had \in Uniform({"none", "active", "inactive"}), linked \in Uniform({"none", "active", "inactive"}) :
       /\ \A l \in Listings : linked[l] # "none" => had[l] # "none"
       /\ contact = [u \in Users |-> had]
       /\ link = [j \in Projects |-> IF j \in Existing THEN linked ELSE [l \in Listings |-> "none"]]
  /\ born = Existing
  /\ holder = [x \in Listings \cup Projects |-> Null]
  /\ pc = [p \in Calls |-> "idle"]
  /\ call = [p \in Calls |-> NoCall]

\* supersedeConsumerDuplicatesForClaim, for one duplicate of a listing that is not superseded itself:
\* the update waits for a lock of its row.
Supersede(l, c) ==
  /\ l \notin Searched /\ Available(l)
  /\ c \in Claimed \ {l} /\ Available(c)
  /\ Free(l)
  /\ super' = [super EXCEPT ![l] = c]
  /\ UNCHANGED <<owner, email, contact, link, born, holder, pc, call>>
-----------------------------------------------------------------------------
(***************************************************************************)
(* attachListingsInTransaction.                                            *)
(***************************************************************************)

BeginAttach(p) ==
  \E j \in Existing, S \in SUBSET Listings \ {{}} :
    Begin(p, [NoCall EXCEPT !.op = "attach", !.user = OwnerOf[j], !.project = j, !.todo = S], "locking")

\* The project's lock, and the canonical listings as they are without a lock.
LockProject(p) ==
  /\ pc[p] = "locking"
  /\ Lock(p, call[p].project)
  /\ call' = [call EXCEPT ![p].todo = {Canonical(l) : l \in @}]
  /\ Goto(p, "attaching")
  /\ UNCHANGED <<listings, contact, link, born>>

\* Mutant of Turn: the order of the request, here the last listing first for an attachment.
TurnUnsorted(p) ==
  IF pc[p] = "emailing" THEN Head(call[p].emails)
  ELSE IF call[p].op = "attach" THEN Max(call[p].todo) ELSE Min(call[p].todo)

\* The listing whose turn it is, and the one whose lock p asks for.
Turn(p) == IF pc[p] = "emailing" THEN Head(call[p].emails) ELSE Min(call[p].todo)
Aim(p)  == IF call[p].chain # Null THEN call[p].chain ELSE Turn(p)

Asks(p) == (pc[p] = "attaching" /\ call[p].todo # {}) \/ (pc[p] = "emailing" /\ call[p].emails # <<>>)

\* resolveCanonicalListing with a lock: a row that was superseded leads on to the next.
FollowChain(p) ==
  /\ Asks(p)
  /\ Lock(p, Aim(p))
  /\ ~Available(Aim(p))
  /\ call' = [call EXCEPT ![p].chain = super[Aim(p)], ![p].astray = TRUE]
  /\ UNCHANGED <<listings, contact, link, born, pc>>

HasAddress(p, l) == email[l] # Null \/ l \in call[p].emailed

\* Mutant of Adoptable: an owner is no obstacle.
AdoptableByAnyone(p, l) == l \in Searched \ Claimed /\ ~HasAddress(p, l)

Adoptable(p, l) == l \in Searched \ Claimed /\ ~HasAddress(p, l) /\ owner[l] = Null

NewIn(rows, l) == IF rows[l] # "active" THEN {l} ELSE {}

\* What becomes of call c when l is locked: adopted where nobody owns it, its rows read, those missing
\* or inactive to be written.  A row that is active is not locked by being read.
Attached(p, c, l) ==
  [c EXCEPT !.attached = @ \cup {l},
            !.owned    = @ \cup IF Adoptable(p, l) THEN {l} ELSE {},
            !.contacts = @ \cup NewIn(contact[c.user], l),
            !.links    = @ \cup NewIn(link[c.project], l),
            !.since    = @ \ {l}]

AttachListing(p) ==
  LET l == Aim(p)
      c == [call[p] EXCEPT !.chain = Null, !.todo = @ \ {Turn(p)}]
  IN /\ pc[p] = "attaching"
     /\ Asks(p)
     /\ Lock(p, l)
     /\ Available(l)
     /\ call' = [call EXCEPT ![p] = IF l \in c.attached THEN c ELSE Attached(p, c, l)]
     /\ UNCHANGED <<listings, contact, link, born, pc>>

Activated(rows, L) == [l \in Listings |-> IF l \in L THEN "active" ELSE rows[l]]

Commit(p) ==
  LET c == call[p] IN
  /\ pc[p] = "attaching"
  /\ c.todo = {}
  /\ owner' = [l \in Listings |-> IF l \in c.owned THEN c.user ELSE owner[l]]
  /\ email' = [l \in Listings |-> IF l \in c.emailed THEN p ELSE email[l]]
  /\ contact' = [contact EXCEPT ![c.user] = Activated(@, c.contacts)]
  /\ link' = [link EXCEPT ![c.project] = Activated(@, c.links)]
  /\ born' = born \cup {c.project}
  /\ holder' = Releasing(p)
  /\ call' = Told([call EXCEPT ![p] = NoCall], p, c.user, c.contacts \cup c.links)
  /\ Goto(p, "done")
  /\ UNCHANGED super
-----------------------------------------------------------------------------
(***************************************************************************)
(* completeProject, from the selection of the draft on.                    *)
(***************************************************************************)

\* The listings of a form are told apart by what they resolve to; es is the order of its addresses.
BeginComplete(p) ==
  \E j \in Projects \ born, S \in SUBSET Listings \ {{}} :
    LET T == {Canonical(l) : l \in S} IN
    /\ Cardinality(T) = Cardinality(S)
    /\ \A q \in Calls : call[q].project # j
    /\ \E E \in SUBSET T : \E es \in SetToSeqs(E) :
         Begin(p, [NoCall EXCEPT !.op = "complete", !.user = OwnerOf[j], !.project = j,
                                 !.todo = T, !.emails = es], "emailing")

\* applyVendorEmailUpdates, for one listing: an address there is stays, and one's own or nobody's
\* search result is given the one of the form.
UpdateEmail(p) ==
  LET l == Aim(p) IN
  /\ pc[p] = "emailing"
  /\ Asks(p)
  /\ Lock(p, l)
  /\ Available(l) /\ l \in call[p].todo
  /\ HasAddress(p, l) \/ (l \in Searched \ Claimed /\ owner[l] \in {Null, call[p].user})
  /\ call' = [call EXCEPT ![p].chain = Null, ![p].emails = Tail(@), ![p].astray = TRUE,
                ![p].emailed = @ \cup IF HasAddress(p, l) THEN {} ELSE {l},
                ![p].owned = @ \cup IF HasAddress(p, l) \/ owner[l] # Null THEN {} ELSE {l}]
  /\ UNCHANGED <<listings, contact, link, born, pc>>

\* assertSelectedVendorsHaveEmail, and the project is created.
CreateProject(p) ==
  /\ pc[p] = "emailing"
  /\ call[p].emails = <<>>
  /\ \A l \in call[p].todo : HasAddress(p, Canonical(l))
  /\ Lock(p, call[p].project)
  /\ Goto(p, "attaching")
  /\ UNCHANGED <<listings, contact, link, born, call>>
-----------------------------------------------------------------------------
(***************************************************************************)
(* Contacts: selectAvailable, destroy and update of a listing.             *)
(***************************************************************************)

BeginContact(p, op, u, l) ==
  Begin(p, [NoCall EXCEPT !.op = op, !.user = u, !.attached = {l}, !.seen = contact[u]], "saving")

\* ensureUserVendorMapping finds no active contact.
BeginSelect(p) ==
  \E u \in Users, l \in Listings :
    contact[u][Canonical(l)] # "active" /\ BeginContact(p, "select", u, Canonical(l))

BeginRemove(p) ==
  \E u \in Users, l \in Listings : contact[u][l] = "active" /\ BeginContact(p, "remove", u, l)

\* Whom canEditListing lets edit l.
Editor(l) == IF l \in Claimed THEN ClaimedBy[l] ELSE owner[l]

\* updateVendor, of what was read.
BeginEdit(p) ==
  \E u \in Users, l \in Listings :
    /\ contact[u][l] = "active"
    /\ Available(l) /\ Editor(l) = u
    /\ BeginContact(p, "edit", u, l)

\* The row is waited for while a transaction is to write it; a new one also needs the listing's key,
\* and is refused by the unique key when another was first.
SaveContact(p) ==
  LET c == call[p]
      l == CHOOSE x \in c.attached : TRUE
  IN /\ pc[p] = "saving" /\ c.op \in {"select", "remove"}
     /\ \A q \in Calls \ {p} : call[q].user = c.user => l \notin call[q].contacts
     /\ c.seen[l] = "none" => Free(l) /\ contact[c.user][l] = "none"
     /\ contact' = [contact EXCEPT ![c.user][l] = IF c.op = "select" THEN "active" ELSE "inactive"]
     /\ call' = Told([call EXCEPT ![p] = NoCall], p, c.user, {l})
     /\ Goto(p, "done")
     /\ UNCHANGED <<listings, link, born, holder>>

SaveListing(p) ==
  /\ pc[p] = "saving" /\ call[p].op = "edit"
  /\ \A l \in call[p].attached : Free(l)
  /\ email' = [l \in Listings |-> IF l \in call[p].attached THEN p ELSE email[l]]
  /\ call' = [call EXCEPT ![p] = NoCall]
  /\ Goto(p, "done")
  /\ UNCHANGED <<super, owner, contact, link, born, holder>>
-----------------------------------------------------------------------------
(***************************************************************************)
(* handleVendorUpdates: a project is given a new list of vendors.          *)
(***************************************************************************)

\* Mutant of BeginUpdate: contacts of others are taken for the user's.
BeginUpdateOfAny(p) ==
  \E j \in Existing, S \in SUBSET Listings :
    Begin(p, [NoCall EXCEPT !.op = "update", !.user = OwnerOf[j], !.project = j, !.seen = link[j],
                            !.todo = S], "deactivating")

\* The contacts that are the user's own, and the project's rows.
BeginUpdate(p) ==
  \E j \in Existing, S \in SUBSET Listings :
    Begin(p, [NoCall EXCEPT !.op = "update", !.user = OwnerOf[j], !.project = j, !.seen = link[j],
                            !.todo = {l \in S : contact[OwnerOf[j]][l] # "none"}], "deactivating")

\* p writes s into the rows of L, which it waits for while a transaction is to write one of them.
Write(p, L, s, next) ==
  LET c == call[p] IN
  /\ \A q \in Calls \ {p} : call[q].project = c.project => L \cap call[q].links = {}
  /\ link' = [link EXCEPT ![c.project] = [l \in Listings |-> IF l \in L THEN s ELSE @[l]]]
  /\ call' = Told(IF next = "done" THEN [call EXCEPT ![p] = NoCall] ELSE call, p, c.user, L)
  /\ Goto(p, next)
  /\ UNCHANGED <<listings, contact, born, holder>>

Deactivate(p) ==
  /\ pc[p] = "deactivating"
  /\ Write(p, {l \in Listings \ call[p].todo : call[p].seen[l] # "none"}, "inactive", "reactivating")

\* Mutant of Reactivate: a row that was removed once stays so.
ReactivateNone(p) ==
  /\ pc[p] = "reactivating"
  /\ Write(p, {}, "active", "creating")

Reactivate(p) ==
  /\ pc[p] = "reactivating"
  /\ Write(p, {l \in call[p].todo : call[p].seen[l] = "inactive"}, "active", "creating")

\* createMany, all rows or none: the unique key refuses a row there is, the project's key is waited for.
CreateLinks(p) ==
  LET L == {l \in call[p].todo : call[p].seen[l] = "none"} IN
  /\ pc[p] = "creating"
  /\ L # {} => Free(call[p].project)
  /\ \A l \in L : link[call[p].project][l] = "none"
  /\ Write(p, L, "active", "done")
-----------------------------------------------------------------------------
Step(p) ==
  \/ BeginAttach(p) \/ BeginComplete(p) \/ BeginSelect(p) \/ BeginRemove(p) \/ BeginEdit(p) \/ BeginUpdate(p)
  \/ LockProject(p) \/ FollowChain(p) \/ AttachListing(p) \/ Commit(p)
  \/ UpdateEmail(p) \/ CreateProject(p)
  \/ SaveContact(p) \/ SaveListing(p)
  \/ Deactivate(p) \/ Reactivate(p) \/ CreateLinks(p)
  \/ Fail(p)

VendorsNext == (\E p \in Calls : Step(p)) \/ (\E l, c \in Listings : Supersede(l, c))

VendorsSpec == VendorsInit /\ [][VendorsNext]_vendorVars
-----------------------------------------------------------------------------
(***************************************************************************)
(* Properties.                                                             *)
(***************************************************************************)

Steps == {"idle", "locking", "attaching", "emailing", "saving", "deactivating", "reactivating",
          "creating", "done", "failed"}
VendorRows == [Listings -> {"none", "active", "inactive"}]
Records ==
  [op : {"none", "attach", "complete", "select", "remove", "edit", "update"}, user : Users \cup {Null},
   project : Projects \cup {Null}, chain : Listings \cup {Null}, astray : BOOLEAN,
   emails : Seq(Listings), todo : SUBSET Listings, attached : SUBSET Listings,
   contacts : SUBSET Listings, links : SUBSET Listings, owned : SUBSET Listings,
   emailed : SUBSET Listings, seen : VendorRows, since : SUBSET Listings]

\* Every variable keeps its type, a project's rows are of contacts its user has, and only projects that
\* exist have any.
VendorsTypeOK ==
  /\ super \in [Listings -> Listings \cup {Null}]
  /\ owner \in [Listings -> Users \cup {Null}]
  /\ email \in [Listings -> Calls \cup {Null, "own"}]
  /\ contact \in [Users -> VendorRows]
  /\ link \in [Projects -> VendorRows]
  /\ born \subseteq Projects
  /\ holder \in [Listings \cup Projects -> Calls \cup {Null}]
  /\ pc \in [Calls -> Steps]
  /\ call \in [Calls -> Records]
  /\ \A j \in Projects, l \in Listings :
       link[j][l] # "none" => j \in born /\ contact[OwnerOf[j]][l] # "none"

Waits(p, q) ==
  /\ p # q
  /\ \/ Asks(p) /\ holder[Aim(p)] = q
     \/ pc[p] = "locking" /\ holder[call[p].project] = q

\* Attachments lock a project and then listings in the order of their uuids: among themselves they
\* never wait in a circle.  Only a completion that stores addresses, or who met a listing superseded
\* under its hands, can be part of one.
OrderedLocksDoNotDeadlock ==
  ~\E S \in SUBSET {p \in Calls : ~call[p].astray} :
     S # {} /\ \A p \in S : \E q \in S : Waits(p, q)

Succeeds(p, l) == pc[p] = l /\ pc'[p] = "done"

\* attachListingsInTransaction: what an attachment answers it has attached is canonical at its commit,
\* however long it waited for locks after it looked.
AttachedAreCanonical ==
  [][\A p \in Calls : Succeeds(p, "attaching") =>
       \A l \in call[p].attached : Available(l) /\ super'[l] = Null]_vendorVars

\* What an attachment answers it has attached is a vendor of the project and a contact of its user,
\* unless the rows it had found were written by another request before it committed.
AttachedAreLinked ==
  [][\A p \in Calls : Succeeds(p, "attaching") =>
       \A l \in call[p].attached \ call[p].since :
         /\ link'[call[p].project][l] = "active"
         /\ contact'[call[p].user][l] = "active"]_vendorVars

\* The answer of an attachment is true at its commit: the two statements above together.
AttachedIsTrue == AttachedAreCanonical /\ AttachedAreLinked

\* handleVendorUpdates: when the update of a project is answered, the project has the vendors of the
\* list and no others, except where another request wrote after the rows were read.
UpdateIsExact ==
  [][\A p \in Calls : Succeeds(p, "creating") =>
       \A l \in Listings \ call[p].since :
         link'[call[p].project][l] = "active" <=> l \in call[p].todo]_vendorVars

\* adoptOwnerlessNoEmailSearchListing and applyVendorEmailUpdates, by several users at once: who owns a
\* listing is settled once, and an address is replaced by nobody but the listing's owner, or the
\* vendor who has claimed it.
FirstComeFirstServed ==
  [][\A l \in Listings :
       /\ owner[l] # Null => owner'[l] = owner[l]
       /\ email[l] # Null /\ email'[l] # email[l] =>
            \E p \in Calls : Succeeds(p, "saving") /\ call[p].op = "edit" /\ call[p].user = Editor(l)]_vendorVars
=============================================================================
