----------------------------- MODULE Marketplace -----------------------------
(***************************************************************************)
(* Second-hand listings, their reservations and their trade orders.        *)
(*                                                                         *)
(*   internal/modules/marketplace   listings, reservations, moderation     *)
(*   internal/modules/trade         orders and their transition ledger     *)
(*                                                                         *)
(* An operation is one MySQL transaction whose rows are locked before they *)
(* are changed, so it is one step. Two operations first read rows without  *)
(* a lock and lock them later: Remove looks for an active reservation and  *)
(* ExpireReservations collects the overdue ones. What they saw may be      *)
(* stale by the time they hold the locks, so each is two steps.            *)
(*                                                                         *)
(* A request names the version it was based on. Operations of one step     *)
(* succeed only with the current one, so their version is left implicit;   *)
(* the version a Remove carries was read at or before its first step.      *)
(***************************************************************************)
EXTENDS Integers, FiniteSets

CONSTANTS
    Listings,       \* marketplace_listings.id values
    Users,          \* members
    Owner,          \* Owner[l]: the member who creates listing l
    Keys,           \* Idempotency-Key values
    Orders,         \* trade_orders.id values, handed out in increasing order
    Admins,         \* concurrent Remove requests
    Workers,        \* processes that run ExpireReservations
    ExpireLimit,    \* store.go: Limit(100)
    MaxEdits        \* bound: no edit or submission at or above this version

None == 0           \* no order

ASSUME OrdersAssumption == Orders \subseteq Nat \ {None}
ASSUME OwnerAssumption == Owner \in [Listings -> Users] /\ None \notin Listings
ASSUME LimitsAssumption == ExpireLimit \in Nat \ {0} /\ MaxEdits \in Nat

VARIABLES
    listing,        \* listing[l]: status and version
    order,          \* order[o]: status, listing, buyer and idempotency key
    reservation,    \* reservation[o]: status of the reservation made with order o
    transitions,    \* trade_order_transitions, as <<order, from, to>>
    events,         \* domain events written, as <<type, id>>
    overdue,        \* orders whose expires_at has passed
    removing,       \* removing[a]: a Remove between its unlocked read and its locks
    expiring        \* expiring[w]: reservations a worker read as overdue

rowVars == <<listing, order, reservation, transitions, events>>
vars == <<listing, order, reservation, transitions, events, overdue, removing, expiring>>

ListingStatuses ==
    {"absent", "draft", "pending_review", "published", "reserved", "sold",
     "rejected", "withdrawn", "removed"}
OrderStatuses == {"absent", "confirmed", "completed", "cancelled", "expired"}
ReservationStatuses == {"absent", "active", "completed", "cancelled", "expired"}
Closed == {"sold", "withdrawn", "removed"}

-----------------------------------------------------------------------------
(* Rules of the two domain packages.                                       *)

\* Mutant: the rule forgets that an order may expire.
NeverExpires(from, to) == from = "confirmed" /\ to \in {"completed", "cancelled"}

\* trade/domain: CanTransition
CanTransition(from, to) ==
    from = "confirmed" /\ to \in {"completed", "cancelled", "expired"}

reservationStatus(tradeStatus) ==
    IF tradeStatus \in {"completed", "expired"} THEN tradeStatus ELSE "cancelled"

\* Mutants: a state forgotten, and states too many.
SubmitOnlyDrafts == {"draft"}
\* The states each store operation accepts.
Editable == {"draft", "rejected"}
Submittable == {"draft", "rejected"}
Withdrawable == {"draft", "pending_review", "published", "rejected"}
Removable == {"pending_review", "published", "reserved"}

\* Mutant: any order of the viewer counts, also one that has ended.
HadOrder(l, u) == \E o \in Orders : order[o].listing = l /\ order[o].buyer = u

\* Orders the viewer holds on the listing (ActiveBuyerListings).
HasActiveOrder(l, u) ==
    \E o \in Orders : order[o].listing = l /\ order[o].buyer = u /\ order[o].status = "confirmed"

ViewerRelation(l, u) ==
    IF u = Owner[l] THEN "owner" ELSE IF HasActiveOrder(l, u) THEN "buyer" ELSE "none"

AvailableActions(l, u) ==
    LET s == listing[l].status
        r == ViewerRelation(l, u) IN
    CASE r = "owner" /\ s \in {"draft", "rejected"} -> {"edit", "submit_review", "withdraw"}
      [] r = "owner" /\ s \in {"pending_review", "published"} -> {"withdraw"}
      [] r = "none" /\ s = "published" -> {"purchase"}
      [] OTHER -> {}

\* contactWithAccess: the viewer is shown the contact, not its mask.
SeesContact(l, u) ==
    /\ listing[l].status \notin Closed \cup {"absent"}
    /\ u = Owner[l] \/ HasActiveOrder(l, u)

-----------------------------------------------------------------------------
Idle == [listing |-> None, version |-> 0, order |-> None]

Init ==
    /\ listing = [l \in Listings |-> [status |-> "absent", version |-> 0]]
    /\ order = [o \in Orders |-> [status |-> "absent", listing |-> None,
                                  buyer |-> None, key |-> None]]
    /\ reservation = [o \in Orders |-> "absent"]
    /\ transitions = {}
    /\ events = {}
    /\ overdue = {}
    /\ removing = [a \in Admins |-> Idle]
    /\ expiring = [w \in Workers |-> {}]

\* The listing's row gets a new status and the next version.
SetStatus(l, s) ==
    listing' = [listing EXCEPT ![l] = [status |-> s, version |-> @.version + 1]]

OrdersUnchanged == UNCHANGED <<order, reservation, transitions, overdue, removing, expiring>>

CreateListing(l) ==
    /\ listing[l].status = "absent"
    /\ SetStatus(l, "draft")
    /\ UNCHANGED events /\ OrdersUnchanged

UpdateListing(l) ==
    /\ listing[l].status \in Editable
    /\ listing[l].version < MaxEdits
    /\ SetStatus(l, "draft")
    /\ UNCHANGED events /\ OrdersUnchanged

Submit(l) ==
    /\ listing[l].status \in Submittable
    /\ listing[l].version < MaxEdits
    /\ SetStatus(l, "pending_review")
    /\ UNCHANGED events /\ OrdersUnchanged

Withdraw(l) ==
    /\ listing[l].status \in Withdrawable
    /\ SetStatus(l, "withdrawn")
    /\ UNCHANGED events /\ OrdersUnchanged

Review(l, approved) ==
    /\ listing[l].status = "pending_review"
    /\ SetStatus(l, IF approved THEN "published" ELSE "rejected")
    /\ events' = events \cup {<<"listing.reviewed", l>>}
    /\ OrdersUnchanged

-----------------------------------------------------------------------------
Existing == {o \in Orders : order[o].status # "absent"}

\* An order id is the next value of the table's counter.
NextId(o) == o \notin Existing /\ \A p \in Orders \ Existing : o <= p

\* The key is unused by this buyer, or Reserve returns the order it made before;
\* and the ledger's unique key "order.created:" + key is free.
KeyIsFree(b, k) == \A o \in Existing : order[o].key # k

Reserve(l, b, k, o) ==
    /\ KeyIsFree(b, k)
    /\ Owner[l] # b
    /\ listing[l].status = "published"
    /\ NextId(o)
    /\ SetStatus(l, "reserved")
    /\ order' = [order EXCEPT ![o] = [status |-> "confirmed", listing |-> l,
                                      buyer |-> b, key |-> k]]
    /\ reservation' = [reservation EXCEPT ![o] = "active"]
    /\ transitions' = transitions \cup {<<o, "", "confirmed">>}
    /\ events' = events \cup {<<"order.created", o>>}
    /\ UNCHANGED <<overdue, removing, expiring>>

\* The event that tells of an order's new status.
OrderEvent(o, target) ==
    << CASE target = "completed" -> "order.completed"
         [] target = "expired" -> "order.expired"
         [] OTHER -> "order.cancelled", o >>

\* finishOrder: a party of the order cancels it, or its seller completes it.
finishOrder(o, actor, target) ==
    LET l == order[o].listing IN
    /\ order[o].status # "absent"
    /\ target = "completed" => actor = Owner[l]
    /\ target = "cancelled" => actor \in {order[o].buyer, Owner[l]}
    /\ CanTransition(order[o].status, target)
    /\ reservation[o] = "active"
    /\ order' = [order EXCEPT ![o] = [@ EXCEPT !.status = target]]
    /\ reservation' = [reservation EXCEPT ![o] = reservationStatus(target)]
    /\ IF listing[l].status = "reserved"
       THEN SetStatus(l, IF target = "cancelled" THEN "published" ELSE "sold")
       ELSE UNCHANGED listing
    /\ transitions' = transitions \cup {<<o, order[o].status, target>>}
    /\ events' = events \cup {OrderEvent(o, target)}
    /\ UNCHANGED <<overdue, removing, expiring>>

Cancel(o, actor) == finishOrder(o, actor, "cancelled")
Complete(o, actor) == finishOrder(o, actor, "completed")

-----------------------------------------------------------------------------
ActiveOrders(l) == {o \in Orders : order[o].listing = l /\ reservation[o] = "active"}

\* First: the active reservation with the lowest id, if there is one.
Lowest(os) == IF os = {} THEN None ELSE CHOOSE o \in os : \A p \in os : o <= p
FirstActive(l) == Lowest(ActiveOrders(l))

\* Remove's unlocked read. The request carries a version seen before.
BeginRemove(a, l, v) ==
    /\ removing[a] = Idle
    /\ v \in 1..listing[l].version
    /\ removing' = [removing EXCEPT ![a] = [listing |-> l, version |-> v,
                                            order |-> FirstActive(l)]]
    /\ UNCHANGED <<rowVars, overdue, expiring>>

\* closeReservationWithOrder acts on these of the orders it is given.
Closes(os, target) == {o \in os : CanTransition(order[o].status, target)}

\* Mutant: the transition is not recorded.
CloseWithoutTransition(os, target) ==
    /\ order' = [o \in Orders |->
                   IF o \in os THEN [order[o] EXCEPT !.status = target] ELSE order[o]]
    /\ reservation' = [o \in Orders |->
                         IF o \in os THEN reservationStatus(target) ELSE reservation[o]]
    /\ UNCHANGED transitions

closeReservationWithOrder(os, target) ==
    /\ order' = [o \in Orders |->
                   IF o \in os THEN [order[o] EXCEPT !.status = target] ELSE order[o]]
    /\ reservation' = [o \in Orders |->
                         IF o \in os THEN reservationStatus(target) ELSE reservation[o]]
    /\ transitions' = transitions \cup {<<o, order[o].status, target>> : o \in os}

\* Mutant: the listing's version is not checked again under the lock.
RemoveAnyVersion(a) ==
    LET l == removing[a].listing
        os == Closes({removing[a].order} \cap {o \in Orders : reservation[o] = "active"},
                     "cancelled") IN
    /\ removing[a] # Idle
    /\ listing[l].status \in Removable
    /\ SetStatus(l, "removed")
    /\ closeReservationWithOrder(os, "cancelled")
    /\ events' = events \cup {<<"order.cancelled", o>> : o \in os} \cup {<<"listing.removed", l>>}
    /\ removing' = [removing EXCEPT ![a] = Idle]
    /\ UNCHANGED <<overdue, expiring>>

\* Remove takes its locks, checks again, and commits; or an error rolls it back.
Remove(a) ==
    LET l == removing[a].listing
        os == Closes({removing[a].order} \cap {o \in Orders : reservation[o] = "active"},
                     "cancelled") IN
    /\ removing[a] # Idle
    /\ listing[l].version = removing[a].version
    /\ listing[l].status \in Removable
    /\ SetStatus(l, "removed")
    /\ closeReservationWithOrder(os, "cancelled")
    /\ events' = events \cup {<<"order.cancelled", o>> : o \in os} \cup {<<"listing.removed", l>>}
    /\ removing' = [removing EXCEPT ![a] = Idle]
    /\ UNCHANGED <<overdue, expiring>>

RollbackRemove(a) ==
    /\ removing[a] # Idle
    /\ removing' = [removing EXCEPT ![a] = Idle]
    /\ UNCHANGED <<rowVars, overdue, expiring>>

-----------------------------------------------------------------------------
\* 48 hours after it was reserved, an order is overdue.
DeadlinePasses(o) ==
    /\ o \in Existing \ overdue
    /\ overdue' = overdue \cup {o}
    /\ UNCHANGED <<rowVars, removing, expiring>>

ActiveOverdue == {o \in overdue : reservation[o] = "active"}

\* ExpireReservations' unlocked read: ORDER BY id LIMIT 100.
BeginExpire(w) ==
    /\ expiring[w] = {}
    /\ ActiveOverdue # {}
    /\ expiring' = [expiring EXCEPT ![w] =
         {o \in ActiveOverdue :
            Cardinality({p \in ActiveOverdue : p < o}) < ExpireLimit}]
    /\ UNCHANGED <<rowVars, overdue, removing>>

\* Every reservation read is locked and checked again before it is closed.
StillActive(os) == {o \in os : reservation[o] = "active"}

ExpireReservations(w) ==
    LET os == Closes(StillActive(expiring[w]), "expired") IN
    /\ expiring[w] # {}
    /\ closeReservationWithOrder(os, "expired")
    /\ listing' = [l \in Listings |->
                     IF listing[l].status = "reserved" /\ \E o \in os : order[o].listing = l
                     THEN [status |-> "published", version |-> listing[l].version + 1]
                     ELSE listing[l]]
    /\ events' = events \cup {OrderEvent(o, "expired") : o \in os}
    /\ expiring' = [expiring EXCEPT ![w] = {}]
    /\ UNCHANGED <<overdue, removing>>

\* One failing reservation, or a crash, rolls back the whole batch.
RollbackExpire(w) ==
    /\ expiring[w] # {}
    /\ expiring' = [expiring EXCEPT ![w] = {}]
    /\ UNCHANGED <<rowVars, overdue, removing>>

-----------------------------------------------------------------------------
OwnerStep(l) ==
    \/ CreateListing(l)
    \/ UpdateListing(l)
    \/ Submit(l)
    \/ Withdraw(l)

AdminStep ==
    \/ \E l \in Listings, approved \in BOOLEAN : Review(l, approved)
    \/ \E a \in Admins : \/ \E l \in Listings : \E v \in 1..listing[l].version : BeginRemove(a, l, v)
                         \/ Remove(a)
                         \/ RollbackRemove(a)

TradeStep ==
    \/ \E l \in Listings, b \in Users, k \in Keys, o \in Orders : Reserve(l, b, k, o)
    \/ \E o \in Orders, u \in Users : Cancel(o, u) \/ Complete(o, u)

WorkerStep(w) == BeginExpire(w) \/ ExpireReservations(w) \/ RollbackExpire(w)

Next ==
    \/ \E l \in Listings : OwnerStep(l)
    \/ AdminStep
    \/ TradeStep
    \/ \E o \in Orders : DeadlinePasses(o)
    \/ \E w \in Workers : WorkerStep(w)

Spec == Init /\ [][Next]_vars

\* The worker runs ExpireReservations periodically, and a batch does not fail
\* for ever: deadlocks and lost connections are transient.
LiveSpec ==
    /\ Spec
    /\ \A w \in Workers : WF_vars(BeginExpire(w)) /\ SF_vars(ExpireReservations(w))

-----------------------------------------------------------------------------
\* Types of the rows and of the two pending reads.
TypeOK ==
    /\ listing \in [Listings -> [status : ListingStatuses, version : Nat]]
    /\ order \in [Orders -> [status : OrderStatuses, listing : Listings \cup {None},
                             buyer : Users \cup {None}, key : Keys \cup {None}]]
    /\ reservation \in [Orders -> ReservationStatuses]
    /\ transitions \subseteq Orders \X (OrderStatuses \cup {""}) \X OrderStatuses
    /\ overdue \subseteq Orders
    /\ removing \in [Admins -> [listing : Listings \cup {None}, version : Nat,
                                order : Orders \cup {None}]]
    /\ expiring \in [Workers -> SUBSET Orders]

\* Three tables, one truth: an order is confirmed exactly while its reservation
\* is active, and a listing is reserved exactly while one order holds it. No
\* sale goes to two buyers, no listing stays blocked without an order, and no
\* order lives on without its listing, whatever a stale Remove or expiry saw.
HeldByOneOrder ==
    /\ \A o \in Orders : order[o].status = "confirmed" <=> reservation[o] = "active"
    /\ \A l \in Listings : listing[l].status = "reserved" <=> ActiveOrders(l) # {}
    /\ \A o, p \in Orders : /\ reservation[o] = "active" /\ reservation[p] = "active"
                            /\ order[o].listing = order[p].listing
                            => o = p

\* Events about a listing; ids of listings and of orders may coincide.
ListingEvents == {"listing.reviewed", "listing.removed"}

\* The ledger and the event stream tell the order's whole story: created once,
\* then the one transition that ended it, each with its domain event; and they
\* show exactly one sale of every listing that is sold, and none of the others.
LedgerComplete ==
    /\ \A o \in Existing :
          LET ended == IF order[o].status = "confirmed" THEN {} ELSE {order[o].status} IN
          /\ {t \in transitions : t[1] = o} =
               {<<o, "", "confirmed">>} \cup {<<o, "confirmed", s>> : s \in ended}
          /\ {e \in events : e[2] = o /\ e[1] \notin ListingEvents} =
               {<<"order.created", o>>} \cup {OrderEvent(o, s) : s \in ended}
    /\ \A l \in Listings :
          LET sales == {t \in transitions : t[3] = "completed" /\ order[t[1]].listing = l} IN
          Cardinality(sales) = IF listing[l].status = "sold" THEN 1 ELSE 0

\* What a Remove saw under no lock is still true when the version it carries is
\* still current: reserving and releasing a listing always moves its version.
RemoveSawTruth ==
    \A a \in Admins :
        LET r == removing[a] IN
        r # Idle => /\ r.version <= listing[r.listing].version
                    /\ r.version = listing[r.listing].version => r.order = FirstActive(r.listing)

\* The seller's contact is disclosed to the owner until the listing is sold,
\* withdrawn or removed, to the buyer whose order alone holds it while it is
\* reserved, and to nobody else: not to whoever held it before, and once it is
\* closed not even to its owner.
ContactOnlyForHolder ==
    \A l \in Listings, u \in Users : SeesContact(l, u) <=>
        \/ u = Owner[l] /\ listing[l].status \in ListingStatuses \ (Closed \cup {"absent"})
        \/ listing[l].status = "reserved" /\ \E o \in Orders : ActiveOrders(l) = {o} /\ order[o].buyer = u

\* The actions offered to a viewer are the ones the store accepts from that
\* viewer: rule.go's AvailableActions against the guards of store.go.
ActionsOffered ==
    \A l \in Listings, u \in Users :
        LET s == listing[l].status
            own == u = Owner[l] IN
        /\ "edit" \in AvailableActions(l, u) <=> own /\ s \in Editable
        /\ "submit_review" \in AvailableActions(l, u) <=> own /\ s \in Submittable
        /\ "withdraw" \in AvailableActions(l, u) <=> own /\ s \in Withdrawable
        /\ "purchase" \in AvailableActions(l, u) <=> ~own /\ s = "published"

\* Sold, withdrawn and removed listings and ended orders never change again,
\* and a listing's version never goes back or skips a change.
ClosedIsFinal ==
    [][/\ \A l \in Listings : listing'[l] # listing[l] =>
            /\ listing[l].status \notin Closed
            /\ listing'[l].version = listing[l].version + 1
       /\ \A o \in Existing : order'[o] # order[o] => order[o].status = "confirmed"]_vars

\* A reservation nobody completes or cancels is released by the worker.
OverdueReleased ==
    \A o \in Orders : o \in overdue ~> order[o].status # "confirmed"

\* docs/trade-payment-architecture.md scopes an order's idempotency key to its
\* buyer: a key that this buyer has not used cannot stand in the way.
KeyScopedToBuyer ==
    \A b \in Users, k \in Keys :
        (\A o \in Existing : order[o].buyer = b => order[o].key # k) => KeyIsFree(b, k)
=============================================================================
