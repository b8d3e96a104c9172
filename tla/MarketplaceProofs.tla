-------------------------- MODULE MarketplaceProofs --------------------------
(* Proofs about Marketplace, for any set of listings, members, orders and  *)
(* workers and any values of the bounds.                                   *)
EXTENDS Marketplace, FiniteSetTheorems, TLAPS

ListingRow == [status : ListingStatuses, version : Nat]
OrderRow == [status : OrderStatuses, listing : Listings \cup {None},
             buyer : Users \cup {None}, key : Keys \cup {None}]
RemoveRead == [listing : Listings \cup {None}, version : Nat, order : Orders \cup {None}]

\* A new status and the next version keep the listings' type.
LEMMA SetStatusType ==
    ASSUME TypeOK, NEW l \in Listings, NEW s \in ListingStatuses, SetStatus(l, s)
    PROVE  listing' \in [Listings -> ListingRow]
<1>0. listing[l] \in ListingRow
  BY DEF TypeOK, ListingRow
<1>1. listing[l].version + 1 \in Nat
  BY <1>0 DEF ListingRow
<1>2. [status |-> s, version |-> listing[l].version + 1] \in ListingRow
  BY <1>1 DEF ListingRow
<1> QED
  BY <1>2 DEF TypeOK, SetStatus, ListingRow

\* What SetStatus does to the one listing and not to the others.
LEMMA SetStatusEffect ==
    ASSUME TypeOK, NEW l \in Listings, NEW s, SetStatus(l, s)
    PROVE  /\ listing'[l].status = s /\ listing'[l].version = listing[l].version + 1
           /\ \A k \in Listings \ {l} : listing'[k] = listing[k]
BY DEF TypeOK, SetStatus

\* reservationStatus maps an ended order to an ended reservation.
LEMMA ReservationStatusType ==
    ASSUME NEW t \in {"completed", "cancelled", "expired"}
    PROVE  reservationStatus(t) = t
BY DEF reservationStatus

\* Remove's and ExpireReservations' candidates are orders.
LEMMA ClosesType ==
    ASSUME NEW os, NEW t
    PROVE  /\ Closes(os \cap {o \in Orders : reservation[o] = "active"}, t) \in SUBSET Orders
           /\ os \subseteq Orders => Closes(StillActive(os), t) \in SUBSET Orders
BY DEF Closes, StillActive

\* What ExpireReservations does to the listings.
LEMMA ExpireListings ==
    ASSUME TypeOK, NEW w \in Workers, ExpireReservations(w)
    PROVE  LET os == Closes(StillActive(expiring[w]), "expired") IN
           /\ os \in SUBSET Orders
           /\ listing' \in [Listings -> ListingRow]
           /\ \A l \in Listings :
                IF listing[l].status = "reserved" /\ \E o \in os : order[o].listing = l
                THEN listing'[l].status = "published" /\ listing'[l].version = listing[l].version + 1
                ELSE listing'[l] = listing[l]
<1> DEFINE os == Closes(StillActive(expiring[w]), "expired")
<1>1. os \in SUBSET Orders
  BY ClosesType DEF TypeOK
<1>2. listing' = [l \in Listings |->
                    IF listing[l].status = "reserved" /\ \E o \in os : order[o].listing = l
                    THEN [status |-> "published", version |-> listing[l].version + 1]
                    ELSE listing[l]]
  BY DEF ExpireReservations
<1> HIDE DEF os
<1>3. \A l \in Listings : listing[l] \in ListingRow
  BY DEF TypeOK, ListingRow
<1>4. \A l \in Listings : [status |-> "published", version |-> listing[l].version + 1] \in ListingRow
  BY <1>3 DEF ListingRow, ListingStatuses
<1>5. listing' \in [Listings -> ListingRow]
  BY <1>2, <1>3, <1>4
<1>6. \A l \in Listings :
        IF listing[l].status = "reserved" /\ \E o \in os : order[o].listing = l
        THEN listing'[l].status = "published" /\ listing'[l].version = listing[l].version + 1
        ELSE listing'[l] = listing[l]
  BY <1>2
<1> QED
  BY <1>1, <1>5, <1>6 DEF os

-----------------------------------------------------------------------------
\* What links the tables: an order that exists names its listing, and so does a
\* pending Remove.
LinkInv ==
    /\ \A o \in Orders : order[o].status # "absent" => order[o].listing \in Listings
    /\ \A a \in Admins : removing[a] # Idle => removing[a].listing \in Listings

\* The inductive invariant.
IInv == TypeOK /\ LinkInv /\ HeldByOneOrder /\ RemoveSawTruth

\* With at most one active order on a listing, the first one is the only one.
LEMMA FirstActiveOnly ==
    ASSUME TypeOK, HeldByOneOrder, NEW l \in Listings
    PROVE  /\ FirstActive(l) \in Orders \cup {None}
           /\ ActiveOrders(l) = {FirstActive(l)} \cap Orders
<1>1. ActiveOrders(l) \subseteq Orders /\ None \notin Orders
  BY OrdersAssumption DEF ActiveOrders
<1>2. \A o, p \in ActiveOrders(l) : o = p
  BY DEF HeldByOneOrder, ActiveOrders
<1>3. CASE ActiveOrders(l) = {}
  BY <1>1, <1>3 DEF FirstActive, Lowest
<1>4. CASE ActiveOrders(l) # {}
  <2>1. PICK o \in Orders : ActiveOrders(l) = {o}
    BY <1>1, <1>2, <1>4
  <2>2. \E p \in {o} : \A q \in {o} : p <= q
    BY OrdersAssumption
  <2>3. Lowest({o}) = o
    BY <2>2 DEF Lowest
  <2> QED
    BY <2>1, <2>3 DEF FirstActive
<1> QED
  BY <1>3, <1>4

\* A step after which every listing either is as it was, with the same active
\* orders, or has the next version and is reserved exactly if an order is active
\* on it, keeps the agreement of the tables and what pending Removes saw.
LEMMA ListingFrame ==
    ASSUME IInv, TypeOK',
           \A l \in Listings :
              \/ listing'[l] = listing[l] /\ ActiveOrders(l)' = ActiveOrders(l)
              \/ /\ listing'[l].version = listing[l].version + 1
                 /\ listing'[l].status = "reserved" <=> ActiveOrders(l)' # {},
           \A a \in Admins : removing'[a] = removing[a] \/ removing'[a] = Idle
    PROVE  /\ \A l \in Listings : listing'[l].status = "reserved" <=> ActiveOrders(l)' # {}
           /\ RemoveSawTruth'
<1>1. \A l \in Listings : listing'[l].status = "reserved" <=> ActiveOrders(l)' # {}
  BY DEF IInv, HeldByOneOrder
<1>2. ASSUME NEW a \in Admins, NEW l \in Listings,
             removing'[a] # Idle, removing'[a].listing = l
      PROVE  /\ removing'[a].version <= listing'[l].version
             /\ removing'[a].version = listing'[l].version => removing'[a].order = FirstActive(l)'
  <2>1. removing'[a] = removing[a] /\ removing[a] # Idle /\ removing[a].listing = l
    BY <1>2
  <2>2. /\ removing[a].version <= listing[l].version
        /\ removing[a].version = listing[l].version => removing[a].order = FirstActive(l)
    BY <2>1 DEF IInv, RemoveSawTruth
  <2>3. removing[a] \in RemoveRead /\ listing[l] \in ListingRow
    BY DEF IInv, TypeOK, RemoveRead, ListingRow
  <2>4. removing[a].version \in Nat /\ listing[l].version \in Nat
    BY <2>3 DEF RemoveRead, ListingRow
  <2>5. CASE listing'[l] = listing[l] /\ ActiveOrders(l)' = ActiveOrders(l)
    <3>1. FirstActive(l)' = FirstActive(l)
      BY <2>5 DEF FirstActive
    <3> QED
      BY <2>1, <2>2, <2>5, <3>1
  <2>6. CASE listing'[l].version = listing[l].version + 1
    BY <2>1, <2>2, <2>4, <2>6
  <2> QED
    BY <2>5, <2>6
<1>3. ASSUME NEW a \in Admins, removing'[a] # Idle
      PROVE  removing'[a].listing \in Listings
  BY <1>3 DEF IInv, LinkInv
<1>4. RemoveSawTruth'
  BY <1>2, <1>3 DEF RemoveSawTruth, FirstActive, ActiveOrders
<1> QED
  BY <1>1, <1>4

-----------------------------------------------------------------------------
\* Initially there is nothing to disagree about.
LEMMA InitIInv == Init => IInv
<1> SUFFICES ASSUME Init PROVE IInv
  OBVIOUS
<1>1. TypeOK
  BY DEF Init, TypeOK, Idle, ListingStatuses, OrderStatuses, ReservationStatuses
<1>2. LinkInv
  BY DEF Init, LinkInv
<1>3. \A o \in Orders : order[o].status = "absent" /\ reservation[o] = "absent"
  BY DEF Init
<1>4. \A l \in Listings : listing[l].status = "absent" /\ ActiveOrders(l) = {}
  BY <1>3 DEF Init, ActiveOrders
<1>5. HeldByOneOrder
  BY <1>3, <1>4 DEF HeldByOneOrder
<1>6. RemoveSawTruth
  BY DEF Init, RemoveSawTruth
<1> QED
  BY <1>1, <1>2, <1>5, <1>6 DEF IInv

\* The invariant depends on neither the events nor the clock.
LEMMA TablesFrame ==
    ASSUME IInv, TypeOK', UNCHANGED <<listing, order, reservation>>,
           \A a \in Admins : removing'[a] = removing[a] \/ removing'[a] = Idle
    PROVE  IInv'
<1>1. \A l \in Listings : ActiveOrders(l)' = ActiveOrders(l)
  BY DEF ActiveOrders
<1>2. RemoveSawTruth'
  BY <1>1, ListingFrame
<1>3. LinkInv'
  BY DEF IInv, LinkInv
<1>4. HeldByOneOrder'
  BY <1>1 DEF IInv, HeldByOneOrder
<1> QED
  BY <1>2, <1>3, <1>4 DEF IInv

\* An owner or a reviewer moves a listing that no order holds.
LEMMA ListingOnly ==
    ASSUME IInv, NEW l \in Listings, NEW s \in ListingStatuses \ {"reserved"},
           listing[l].status # "reserved", SetStatus(l, s), OrdersUnchanged
    PROVE  IInv'
<1>1. TypeOK'
  BY SetStatusType DEF IInv, TypeOK, OrdersUnchanged, ListingRow
<1>2. \A k \in Listings : ActiveOrders(k)' = ActiveOrders(k)
  BY DEF ActiveOrders, OrdersUnchanged
<1>3. ActiveOrders(l) = {}
  BY DEF IInv, HeldByOneOrder
<1>4. /\ listing'[l].status = s /\ listing'[l].version = listing[l].version + 1
      /\ \A k \in Listings \ {l} : listing'[k] = listing[k]
  BY SetStatusEffect DEF IInv
<1>5. \A k \in Listings :
        \/ listing'[k] = listing[k] /\ ActiveOrders(k)' = ActiveOrders(k)
        \/ /\ listing'[k].version = listing[k].version + 1
           /\ listing'[k].status = "reserved" <=> ActiveOrders(k)' # {}
  BY <1>2, <1>3, <1>4
<1>6. /\ \A k \in Listings : listing'[k].status = "reserved" <=> ActiveOrders(k)' # {}
      /\ RemoveSawTruth'
  <2>1. \A a \in Admins : removing'[a] = removing[a]
    BY DEF OrdersUnchanged
  <2> QED
    BY <1>1, <1>5, <2>1, ListingFrame
<1>7. HeldByOneOrder'
  BY <1>6 DEF IInv, HeldByOneOrder, OrdersUnchanged
<1>8. LinkInv'
  BY DEF IInv, LinkInv, OrdersUnchanged
<1> QED
  BY <1>1, <1>6, <1>7, <1>8 DEF IInv

\* Reserve: the listing was published, so no order held it, and now one does.
LEMMA ReserveStep ==
    ASSUME IInv, NEW l \in Listings, NEW b \in Users, NEW k \in Keys, NEW o \in Orders,
           Reserve(l, b, k, o)
    PROVE  IInv'
<1>0. TypeOK /\ LinkInv /\ HeldByOneOrder
  BY DEF IInv
<1>1. /\ order' \in [Orders -> OrderRow]
      /\ reservation' \in [Orders -> ReservationStatuses]
      /\ transitions' \subseteq Orders \X (OrderStatuses \cup {""}) \X OrderStatuses
      /\ order[o].status = "absent"
      /\ order'[o].status = "confirmed" /\ order'[o].listing = l
      /\ reservation'[o] = "active"
      /\ \A p \in Orders \ {o} : order'[p] = order[p] /\ reservation'[p] = reservation[p]
  <2>1. order \in [Orders -> OrderRow]
    BY <1>0 DEF TypeOK, OrderRow
  <2>2. [status |-> "confirmed", listing |-> l, buyer |-> b, key |-> k] \in OrderRow
    BY DEF OrderRow, OrderStatuses
  <2>3. /\ order' \in [Orders -> OrderRow]
        /\ order'[o] = [status |-> "confirmed", listing |-> l, buyer |-> b, key |-> k]
        /\ \A p \in Orders \ {o} : order'[p] = order[p]
    BY <2>1, <2>2 DEF Reserve
  <2>4. /\ reservation' \in [Orders -> ReservationStatuses]
        /\ reservation'[o] = "active"
        /\ \A p \in Orders \ {o} : reservation'[p] = reservation[p]
    BY <1>0 DEF Reserve, TypeOK, ReservationStatuses
  <2>5. transitions' \subseteq Orders \X (OrderStatuses \cup {""}) \X OrderStatuses
    <3>1. <<o, "", "confirmed">> \in Orders \X (OrderStatuses \cup {""}) \X OrderStatuses
      BY DEF OrderStatuses
    <3> QED
      BY <1>0, <3>1 DEF Reserve, TypeOK
  <2>6. order[o].status = "absent"
    BY DEF Reserve, NextId, Existing
  <2>7. order'[o].status = "confirmed" /\ order'[o].listing = l
    BY <2>3
  <2> QED
    BY <2>3, <2>4, <2>5, <2>6, <2>7
<1>2. SetStatus(l, "reserved") /\ listing[l].status = "published"
      /\ UNCHANGED <<overdue, removing, expiring>>
  BY DEF Reserve
<1>3. TypeOK'
  <2>1. listing' \in [Listings -> ListingRow]
    BY <1>0, <1>2, SetStatusType DEF ListingStatuses
  <2> QED
    BY <1>0, <1>1, <1>2, <2>1 DEF TypeOK, ListingRow, OrderRow
<1>4. ActiveOrders(l) = {} /\ reservation[o] # "active"
  BY <1>0, <1>1, <1>2 DEF HeldByOneOrder
<1>5. ActiveOrders(l)' = {o}
  BY <1>1, <1>4 DEF ActiveOrders
<1>6. \A j \in Listings \ {l} : ActiveOrders(j)' = ActiveOrders(j)
  BY <1>1, <1>4 DEF ActiveOrders
<1>7. /\ listing'[l].status = "reserved" /\ listing'[l].version = listing[l].version + 1
      /\ \A j \in Listings \ {l} : listing'[j] = listing[j]
  BY <1>0, <1>2, SetStatusEffect
<1>8. /\ \A j \in Listings : listing'[j].status = "reserved" <=> ActiveOrders(j)' # {}
      /\ RemoveSawTruth'
  <2>1. \A j \in Listings :
          \/ listing'[j] = listing[j] /\ ActiveOrders(j)' = ActiveOrders(j)
          \/ /\ listing'[j].version = listing[j].version + 1
             /\ listing'[j].status = "reserved" <=> ActiveOrders(j)' # {}
    BY <1>5, <1>6, <1>7
  <2>2. \A a \in Admins : removing'[a] = removing[a]
    BY <1>2
  <2> QED
    BY <1>3, <2>1, <2>2, ListingFrame
<1>9. \A p \in Orders : order'[p].status = "confirmed" <=> reservation'[p] = "active"
  BY <1>0, <1>1 DEF HeldByOneOrder
<1>10. \A p, q \in Orders : /\ reservation'[p] = "active" /\ reservation'[q] = "active"
                            /\ order'[p].listing = order'[q].listing
                            => p = q
  <2>1. \A p \in Orders \ {o} : reservation'[p] = "active" => order'[p].listing # l
    BY <1>1, <1>4 DEF ActiveOrders
  <2>2. \A p, q \in Orders \ {o} : /\ reservation[p] = "active" /\ reservation[q] = "active"
                                   /\ order[p].listing = order[q].listing
                                   => p = q
    BY <1>0 DEF HeldByOneOrder
  <2>3. \A p, q \in Orders \ {o} : /\ reservation'[p] = "active" /\ reservation'[q] = "active"
                                   /\ order'[p].listing = order'[q].listing
                                   => p = q
    BY <1>1, <2>2
  <2> QED
    BY <1>1, <2>1, <2>3
<1>11. HeldByOneOrder'
  BY <1>8, <1>9, <1>10 DEF HeldByOneOrder
<1>12. LinkInv'
  BY <1>0, <1>1, <1>2 DEF LinkInv
<1> QED
  BY <1>3, <1>8, <1>11, <1>12 DEF IInv

\* finishOrder: the order was the only one that held its listing, which is
\* reserved, so the listing is released or sold in the same step.
LEMMA FinishStep ==
    ASSUME IInv, NEW o \in Orders, NEW u \in Users, NEW t \in {"completed", "cancelled"},
           finishOrder(o, u, t)
    PROVE  IInv'
<1>0. TypeOK /\ LinkInv /\ HeldByOneOrder
  BY DEF IInv
<1>1. /\ order' \in [Orders -> OrderRow]
      /\ reservation' \in [Orders -> ReservationStatuses]
      /\ transitions' \subseteq Orders \X (OrderStatuses \cup {""}) \X OrderStatuses
      /\ order[o].status = "confirmed" /\ reservation[o] = "active"
      /\ order'[o].status = t /\ order'[o].listing = order[o].listing
      /\ reservation'[o] = t
      /\ \A p \in Orders \ {o} : order'[p] = order[p] /\ reservation'[p] = reservation[p]
  <2>1. order \in [Orders -> OrderRow]
    BY <1>0 DEF TypeOK, OrderRow
  <2>2. [order[o] EXCEPT !.status = t] \in OrderRow
    BY <2>1 DEF OrderRow, OrderStatuses
  <2>3. order' = [order EXCEPT ![o] = [order[o] EXCEPT !.status = t]]
    BY DEF finishOrder
  <2>4. /\ order' \in [Orders -> OrderRow]
        /\ order'[o] = [order[o] EXCEPT !.status = t]
        /\ \A p \in Orders \ {o} : order'[p] = order[p]
    BY <2>1, <2>2, <2>3
  <2>5. order'[o].status = t /\ order'[o].listing = order[o].listing
    BY <2>1, <2>4 DEF OrderRow
  <2>6. /\ reservation' \in [Orders -> ReservationStatuses]
        /\ reservation'[o] = t
        /\ \A p \in Orders \ {o} : reservation'[p] = reservation[p]
    BY <1>0, ReservationStatusType DEF finishOrder, TypeOK, ReservationStatuses
  <2>7. transitions' \subseteq Orders \X (OrderStatuses \cup {""}) \X OrderStatuses
    <3>1. <<o, order[o].status, t>> \in Orders \X (OrderStatuses \cup {""}) \X OrderStatuses
      BY <2>1 DEF OrderRow, OrderStatuses
    <3> QED
      BY <1>0, <3>1 DEF finishOrder, TypeOK
  <2>8. order[o].status = "confirmed" /\ reservation[o] = "active"
    BY DEF finishOrder, CanTransition
  <2> QED
    BY <2>4, <2>5, <2>6, <2>7, <2>8
<1>2. PICK l \in Listings : l = order[o].listing
  BY <1>0, <1>1 DEF LinkInv
<1>3. o \in ActiveOrders(l) /\ listing[l].status = "reserved"
  BY <1>0, <1>1, <1>2 DEF ActiveOrders, HeldByOneOrder
<1>4. PICK s \in {"published", "sold"} : SetStatus(l, s)
  BY <1>2, <1>3 DEF finishOrder
<1>5. UNCHANGED <<overdue, removing, expiring>>
  BY DEF finishOrder
<1>6. TypeOK'
  <2>1. listing' \in [Listings -> ListingRow]
    BY <1>0, <1>4, SetStatusType DEF ListingStatuses
  <2> QED
    BY <1>0, <1>1, <1>5, <2>1 DEF TypeOK, ListingRow, OrderRow
<1>7. \A p \in Orders : reservation[p] = "active" /\ order[p].listing = l => p = o
  BY <1>0, <1>1, <1>2 DEF HeldByOneOrder
<1>8. ActiveOrders(l)' = {}
  BY <1>1, <1>7 DEF ActiveOrders
<1>9. \A j \in Listings \ {l} : ActiveOrders(j)' = ActiveOrders(j)
  BY <1>1, <1>2 DEF ActiveOrders
<1>10. /\ listing'[l].status = s /\ listing'[l].version = listing[l].version + 1
       /\ \A j \in Listings \ {l} : listing'[j] = listing[j]
  BY <1>0, <1>4, SetStatusEffect
<1>11. /\ \A j \in Listings : listing'[j].status = "reserved" <=> ActiveOrders(j)' # {}
       /\ RemoveSawTruth'
  <2>1. \A j \in Listings :
          \/ listing'[j] = listing[j] /\ ActiveOrders(j)' = ActiveOrders(j)
          \/ /\ listing'[j].version = listing[j].version + 1
             /\ listing'[j].status = "reserved" <=> ActiveOrders(j)' # {}
    BY <1>8, <1>9, <1>10
  <2>2. \A a \in Admins : removing'[a] = removing[a]
    BY <1>5
  <2> QED
    BY <1>6, <2>1, <2>2, ListingFrame
<1>12. \A p \in Orders : order'[p].status = "confirmed" <=> reservation'[p] = "active"
  BY <1>0, <1>1 DEF HeldByOneOrder
<1>13. \A p, q \in Orders : /\ reservation'[p] = "active" /\ reservation'[q] = "active"
                            /\ order'[p].listing = order'[q].listing
                            => p = q
  <2>1. \A p \in Orders : reservation'[p] = "active" =>
                            reservation[p] = "active" /\ order'[p].listing = order[p].listing
    BY <1>1
  <2> QED
    BY <1>0, <2>1 DEF HeldByOneOrder
<1>14. HeldByOneOrder'
  BY <1>11, <1>12, <1>13 DEF HeldByOneOrder
<1>15. LinkInv'
  <2>1. \A p \in Orders : order'[p].status # "absent" =>
                            order[p].status # "absent" /\ order'[p].listing = order[p].listing
    BY <1>1
  <2> QED
    BY <1>0, <1>5, <2>1 DEF LinkInv
<1> QED
  BY <1>6, <1>11, <1>14, <1>15 DEF IInv

\* Closing a set of orders, all active, with the listings they hold moved on.
LEMMA CloseStep ==
    ASSUME IInv, NEW os \in SUBSET Orders, NEW t \in {"completed", "cancelled", "expired"},
           closeReservationWithOrder(os, t),
           \A o \in os : reservation[o] = "active",
           listing' \in [Listings -> ListingRow],
           \A l \in Listings :
              \/ listing'[l] = listing[l] /\ \A o \in os : order[o].listing # l
              \/ /\ listing'[l].version = listing[l].version + 1
                 /\ listing'[l].status # "reserved"
                 /\ ActiveOrders(l) \subseteq os,
           UNCHANGED <<overdue>>,
           expiring' \in [Workers -> SUBSET Orders],
           removing' \in [Admins -> RemoveRead],
           \A a \in Admins : removing'[a] = removing[a] \/ removing'[a] = Idle
    PROVE  IInv'
<1>0. TypeOK /\ LinkInv /\ HeldByOneOrder
  BY DEF IInv
<1>1. /\ order' \in [Orders -> OrderRow]
      /\ reservation' \in [Orders -> ReservationStatuses]
      /\ transitions' \subseteq Orders \X (OrderStatuses \cup {""}) \X OrderStatuses
      /\ \A o \in os : /\ order'[o].status = t /\ order'[o].listing = order[o].listing
                       /\ reservation'[o] = t
      /\ \A o \in Orders \ os : order'[o] = order[o] /\ reservation'[o] = reservation[o]
  <2>1. \A o \in Orders : order[o] \in OrderRow
    BY <1>0 DEF TypeOK, OrderRow
  <2>2. \A o \in Orders : [order[o] EXCEPT !.status = t] \in OrderRow
    BY <2>1 DEF OrderRow, OrderStatuses
  <2>3. order' = [o \in Orders |-> IF o \in os THEN [order[o] EXCEPT !.status = t] ELSE order[o]]
    BY DEF closeReservationWithOrder
  <2>4. order' \in [Orders -> OrderRow]
    BY <2>1, <2>2, <2>3
  <2>5. \A o \in os : order'[o].status = t /\ order'[o].listing = order[o].listing
    BY <2>1, <2>3 DEF OrderRow
  <2>6. \A o \in Orders \ os : order'[o] = order[o]
    BY <2>3
  <2>7. /\ reservation' \in [Orders -> ReservationStatuses]
        /\ \A o \in os : reservation'[o] = t
        /\ \A o \in Orders \ os : reservation'[o] = reservation[o]
    BY <1>0, ReservationStatusType DEF closeReservationWithOrder, TypeOK, ReservationStatuses
  <2>8. transitions' \subseteq Orders \X (OrderStatuses \cup {""}) \X OrderStatuses
    <3>1. \A o \in os : <<o, order[o].status, t>> \in Orders \X (OrderStatuses \cup {""}) \X OrderStatuses
      BY <2>1 DEF OrderRow, OrderStatuses
    <3>2. transitions' = transitions \cup {<<o, order[o].status, t>> : o \in os}
      BY DEF closeReservationWithOrder
    <3>3. transitions \subseteq Orders \X (OrderStatuses \cup {""}) \X OrderStatuses
      BY <1>0 DEF TypeOK
    <3> QED
      BY <3>1, <3>2, <3>3
  <2> QED
    BY <2>4, <2>5, <2>6, <2>7, <2>8
<1>2. TypeOK'
  BY <1>0, <1>1 DEF TypeOK, ListingRow, OrderRow, RemoveRead
<1>3. \A o \in Orders : reservation'[o] = "active" =>
        /\ o \notin os /\ reservation[o] = "active" /\ order'[o] = order[o]
  BY <1>1
<1>4. \A l \in Listings :
        \/ listing'[l] = listing[l] /\ ActiveOrders(l)' = ActiveOrders(l)
        \/ /\ listing'[l].version = listing[l].version + 1
           /\ listing'[l].status = "reserved" <=> ActiveOrders(l)' # {}
  <2> TAKE l \in Listings
  <2>1. CASE listing'[l] = listing[l] /\ \A o \in os : order[o].listing # l
    <3>1. \A o \in Orders : order'[o].listing = l => o \notin os
      BY <1>1, <2>1
    <3>2. \A o \in Orders : order'[o].listing = l /\ reservation'[o] = "active"
                           <=> order[o].listing = l /\ reservation[o] = "active"
      BY <1>1, <2>1, <3>1
    <3>3. ActiveOrders(l)' = ActiveOrders(l)
      BY <3>2 DEF ActiveOrders
    <3> QED
      BY <2>1, <3>3
  <2>2. CASE /\ listing'[l].version = listing[l].version + 1
             /\ listing'[l].status # "reserved"
             /\ ActiveOrders(l) \subseteq os
    <3>1. ActiveOrders(l)' = {}
      BY <1>3, <2>2 DEF ActiveOrders
    <3> QED
      BY <2>2, <3>1
  <2> QED
    BY <2>1, <2>2
<1>5. /\ \A l \in Listings : listing'[l].status = "reserved" <=> ActiveOrders(l)' # {}
      /\ RemoveSawTruth'
  BY <1>2, <1>4, ListingFrame
<1>6. \A o \in Orders : order'[o].status = "confirmed" <=> reservation'[o] = "active"
  BY <1>0, <1>1 DEF HeldByOneOrder
<1>7. \A p, q \in Orders : /\ reservation'[p] = "active" /\ reservation'[q] = "active"
                           /\ order'[p].listing = order'[q].listing
                           => p = q
  BY <1>0, <1>3 DEF HeldByOneOrder
<1>8. HeldByOneOrder'
  BY <1>5, <1>6, <1>7 DEF HeldByOneOrder
<1>9. LinkInv'
  <2>1. \A o \in os : order[o].status # "absent"
    BY <1>0 DEF HeldByOneOrder
  <2>2. \A o \in Orders : order'[o].status # "absent" =>
                            order[o].status # "absent" /\ order'[o].listing = order[o].listing
    BY <1>1, <2>1
  <2> QED
    BY <1>0, <2>2 DEF LinkInv
<1> QED
  BY <1>2, <1>5, <1>8, <1>9 DEF IInv

\* Remove: the version did not move since its read, so what it read is true and
\* the order it closes is the one that holds the listing.
LEMMA RemoveStep ==
    ASSUME IInv, NEW a \in Admins, Remove(a)
    PROVE  IInv'
<1>0. TypeOK /\ LinkInv /\ HeldByOneOrder /\ RemoveSawTruth
  BY DEF IInv
<1>1. removing[a] # Idle /\ removing[a].listing \in Listings
  BY <1>0 DEF Remove, LinkInv
<1>2. PICK l \in Listings : l = removing[a].listing
  BY <1>1
<1> DEFINE os == Closes({removing[a].order} \cap {o \in Orders : reservation[o] = "active"},
                        "cancelled")
<1>3. /\ listing[l].version = removing[a].version
      /\ SetStatus(l, "removed")
      /\ closeReservationWithOrder(os, "cancelled")
      /\ removing' = [removing EXCEPT ![a] = Idle]
      /\ UNCHANGED <<overdue, expiring>>
  BY <1>2 DEF Remove
<1>4. removing[a].order = FirstActive(l)
  BY <1>0, <1>1, <1>2, <1>3 DEF RemoveSawTruth
<1>5. ActiveOrders(l) = {removing[a].order} \cap Orders
  BY <1>0, <1>4, FirstActiveOnly
<1>6. os = ActiveOrders(l)
  <2>1. {removing[a].order} \cap {o \in Orders : reservation[o] = "active"} = ActiveOrders(l)
    BY <1>5 DEF ActiveOrders
  <2>2. \A o \in ActiveOrders(l) : order[o].status = "confirmed"
    BY <1>0 DEF ActiveOrders, HeldByOneOrder
  <2> QED
    BY <2>1, <2>2 DEF Closes, CanTransition
<1> HIDE DEF os
<1>7. /\ os \in SUBSET Orders
      /\ \A o \in os : reservation[o] = "active" /\ order[o].listing = l
  BY <1>6 DEF ActiveOrders
<1>8. listing' \in [Listings -> ListingRow]
  BY <1>0, <1>3, SetStatusType DEF ListingStatuses
<1>9. /\ listing'[l].status = "removed" /\ listing'[l].version = listing[l].version + 1
      /\ \A k \in Listings \ {l} : listing'[k] = listing[k]
  BY <1>0, <1>3, SetStatusEffect
<1>10. \A k \in Listings :
         \/ listing'[k] = listing[k] /\ \A o \in os : order[o].listing # k
         \/ /\ listing'[k].version = listing[k].version + 1
            /\ listing'[k].status # "reserved"
            /\ ActiveOrders(k) \subseteq os
  BY <1>6, <1>7, <1>9
<1>11. /\ expiring' \in [Workers -> SUBSET Orders]
       /\ removing' \in [Admins -> RemoveRead]
       /\ \A b \in Admins : removing'[b] = removing[b] \/ removing'[b] = Idle
  <2>1. Idle \in RemoveRead
    BY DEF Idle, RemoveRead
  <2> QED
    BY <1>0, <1>3, <2>1 DEF TypeOK, RemoveRead
<1> QED
  BY <1>3, <1>7, <1>8, <1>10, <1>11, CloseStep

\* ExpireReservations: an order it closes held its listing alone, and the
\* listing was reserved, so the listing is released with it.
LEMMA ExpireStep ==
    ASSUME IInv, NEW w \in Workers, ExpireReservations(w)
    PROVE  IInv'
<1>0. TypeOK /\ LinkInv /\ HeldByOneOrder
  BY DEF IInv
<1> DEFINE os == Closes(StillActive(expiring[w]), "expired")
<1>1. /\ os \in SUBSET Orders
      /\ listing' \in [Listings -> ListingRow]
      /\ \A l \in Listings :
           IF listing[l].status = "reserved" /\ \E o \in os : order[o].listing = l
           THEN listing'[l].status = "published" /\ listing'[l].version = listing[l].version + 1
           ELSE listing'[l] = listing[l]
  BY <1>0, ExpireListings
<1>2. \A o \in os : reservation[o] = "active"
  BY DEF Closes, StillActive
<1>3. /\ closeReservationWithOrder(os, "expired")
      /\ expiring' = [expiring EXCEPT ![w] = {}]
      /\ UNCHANGED <<overdue, removing>>
  BY DEF ExpireReservations
<1> HIDE DEF os
<1>4. \A l \in Listings :
        \/ listing'[l] = listing[l] /\ \A o \in os : order[o].listing # l
        \/ /\ listing'[l].version = listing[l].version + 1
           /\ listing'[l].status # "reserved"
           /\ ActiveOrders(l) \subseteq os
  <2> TAKE l \in Listings
  <2>1. CASE \A o \in os : order[o].listing # l
    BY <1>1, <2>1
  <2>2. CASE \E o \in os : order[o].listing = l
    <3>1. PICK o \in os : order[o].listing = l
      BY <2>2
    <3>2. o \in ActiveOrders(l)
      BY <1>1, <1>2, <3>1 DEF ActiveOrders
    <3>3. listing[l].status = "reserved"
      BY <1>0, <3>2 DEF HeldByOneOrder
    <3>4. ActiveOrders(l) \subseteq os
      BY <1>0, <3>2 DEF HeldByOneOrder, ActiveOrders
    <3> QED
      BY <1>1, <2>2, <3>3, <3>4
  <2> QED
    BY <2>1, <2>2
<1>5. /\ expiring' \in [Workers -> SUBSET Orders]
      /\ removing' \in [Admins -> RemoveRead]
      /\ \A b \in Admins : removing'[b] = removing[b]
  BY <1>0, <1>3 DEF TypeOK, RemoveRead
<1> QED
  BY <1>1, <1>2, <1>3, <1>4, <1>5, CloseStep

\* BeginRemove: what it reads is true of the version it reads it at.
LEMMA BeginRemoveStep ==
    ASSUME IInv, NEW a \in Admins, NEW l \in Listings, NEW v \in 1..listing[l].version,
           BeginRemove(a, l, v)
    PROVE  IInv'
<1>0. TypeOK /\ LinkInv /\ HeldByOneOrder /\ RemoveSawTruth
  BY DEF IInv
<1>1. /\ removing' = [removing EXCEPT ![a] = [listing |-> l, version |-> v,
                                               order |-> FirstActive(l)]]
      /\ UNCHANGED <<listing, order, reservation, transitions, overdue, expiring>>
  BY DEF BeginRemove, rowVars
<1>2. listing[l].version \in Nat
  BY <1>0 DEF TypeOK
<1>3. v \in Nat /\ v <= listing[l].version
  BY <1>2
<1>4. [listing |-> l, version |-> v, order |-> FirstActive(l)] \in RemoveRead
  BY <1>0, <1>3, FirstActiveOnly DEF RemoveRead
<1>5. /\ removing' \in [Admins -> RemoveRead]
      /\ removing'[a] = [listing |-> l, version |-> v, order |-> FirstActive(l)]
      /\ \A b \in Admins \ {a} : removing'[b] = removing[b]
  BY <1>0, <1>1, <1>4 DEF TypeOK, RemoveRead
<1>6. TypeOK'
  BY <1>0, <1>1, <1>5 DEF TypeOK, RemoveRead
<1>7. \A k \in Listings : ActiveOrders(k)' = ActiveOrders(k) /\ FirstActive(k)' = FirstActive(k)
  BY <1>1 DEF ActiveOrders, FirstActive
<1>8. HeldByOneOrder'
  BY <1>0, <1>1, <1>7 DEF HeldByOneOrder
<1>9. LinkInv'
  BY <1>0, <1>1, <1>5 DEF LinkInv
<1>10. RemoveSawTruth'
  <2>1. ASSUME NEW b \in Admins, NEW k \in Listings, removing'[b] # Idle, removing'[b].listing = k
        PROVE  /\ removing'[b].version <= listing'[k].version
               /\ removing'[b].version = listing'[k].version => removing'[b].order = FirstActive(k)'
    <3>1. CASE b = a
      BY <1>1, <1>3, <1>5, <1>7, <2>1, <3>1
    <3>2. CASE b # a
      BY <1>0, <1>1, <1>5, <1>7, <2>1, <3>2 DEF RemoveSawTruth
    <3> QED
      BY <3>1, <3>2
  <2>2. \A b \in Admins : removing'[b] # Idle => removing'[b].listing \in Listings
    BY <1>9 DEF LinkInv
  <2> QED
    BY <2>1, <2>2 DEF RemoveSawTruth, FirstActive, ActiveOrders
<1> QED
  BY <1>6, <1>8, <1>9, <1>10 DEF IInv

\* Every step keeps the invariant.
LEMMA NextIInv == IInv /\ [Next]_vars => IInv'
<1> SUFFICES ASSUME IInv, [Next]_vars PROVE IInv'
  OBVIOUS
<1>0. TypeOK /\ Idle \in RemoveRead
  BY DEF IInv, Idle, RemoveRead
<1>1. ASSUME NEW l \in Listings, OwnerStep(l)
      PROVE  IInv'
  <2>1. listing[l].status # "reserved" /\ OrdersUnchanged
    BY <1>1 DEF OwnerStep, CreateListing, UpdateListing, Submit, Withdraw,
                Editable, Submittable, Withdrawable
  <2>2. PICK s \in ListingStatuses \ {"reserved"} : SetStatus(l, s)
    BY <1>1 DEF OwnerStep, CreateListing, UpdateListing, Submit, Withdraw, ListingStatuses
  <2> QED
    BY <2>1, <2>2, ListingOnly
<1>2. ASSUME NEW l \in Listings, NEW approved \in BOOLEAN, Review(l, approved)
      PROVE  IInv'
  <2>1. listing[l].status # "reserved" /\ OrdersUnchanged
    BY <1>2 DEF Review
  <2>2. PICK s \in ListingStatuses \ {"reserved"} : SetStatus(l, s)
    BY <1>2 DEF Review, ListingStatuses
  <2> QED
    BY <2>1, <2>2, ListingOnly
<1>3. ASSUME NEW a \in Admins, RollbackRemove(a)
      PROVE  IInv'
  <2>1. TypeOK'
    BY <1>0, <1>3 DEF TypeOK, RollbackRemove, rowVars, RemoveRead
  <2>2. /\ UNCHANGED <<listing, order, reservation>>
        /\ \A b \in Admins : removing'[b] = removing[b] \/ removing'[b] = Idle
    BY <1>0, <1>3 DEF RollbackRemove, rowVars, TypeOK
  <2> QED
    BY <2>1, <2>2, TablesFrame
<1>4. ASSUME NEW o \in Orders, DeadlinePasses(o)
      PROVE  IInv'
  <2>1. TypeOK'
    BY <1>0, <1>4 DEF TypeOK, DeadlinePasses, rowVars
  <2>2. /\ UNCHANGED <<listing, order, reservation>>
        /\ \A b \in Admins : removing'[b] = removing[b]
    BY <1>4 DEF DeadlinePasses, rowVars
  <2> QED
    BY <2>1, <2>2, TablesFrame
<1>5. ASSUME NEW w \in Workers, BeginExpire(w) \/ RollbackExpire(w)
      PROVE  IInv'
  <2>1. expiring' \in [Workers -> SUBSET Orders]
    BY <1>0, <1>5 DEF TypeOK, BeginExpire, RollbackExpire, ActiveOverdue
  <2>2. /\ UNCHANGED <<listing, order, reservation, transitions, overdue, removing>>
    BY <1>5 DEF BeginExpire, RollbackExpire, rowVars
  <2>3. TypeOK'
    BY <1>0, <2>1, <2>2 DEF TypeOK
  <2> QED
    BY <2>2, <2>3, TablesFrame
<1>6. CASE UNCHANGED vars
  <2>1. TypeOK' /\ UNCHANGED <<listing, order, reservation, removing>>
    BY <1>0, <1>6 DEF TypeOK, vars
  <2> QED
    BY <2>1, TablesFrame
<1>7. CASE AdminStep
  BY <1>2, <1>3, <1>7, BeginRemoveStep, RemoveStep DEF AdminStep
<1>8. CASE TradeStep
  BY <1>8, ReserveStep, FinishStep DEF TradeStep, Cancel, Complete
<1>9. ASSUME NEW w \in Workers, WorkerStep(w)
      PROVE  IInv'
  BY <1>5, <1>9, ExpireStep DEF WorkerStep
<1> QED
  BY <1>1, <1>4, <1>6, <1>7, <1>8, <1>9 DEF Next

\* The inductive invariant holds in every state.
LEMMA SpecIInv == Spec => []IInv
BY InitIInv, NextIInv, PTL DEF Spec

-----------------------------------------------------------------------------
\* Rows keep their types through every store operation.
THEOREM TypeCorrect == Spec => []TypeOK
<1>1. IInv => TypeOK
  BY DEF IInv
<1> QED
  BY <1>1, SpecIInv, PTL

\* marketplace_listings, marketplace_reservations and trade_orders agree: an
\* order is confirmed exactly while its reservation is active, and a listing is
\* reserved exactly while one order holds it, through any interleaving of
\* purchases, cancellations, stale removals and expiries.
THEOREM OneOrderHolds == Spec => []HeldByOneOrder
<1>1. IInv => HeldByOneOrder
  BY DEF IInv
<1> QED
  BY <1>1, SpecIInv, PTL

\* Remove may trust its unlocked read whenever the version it carries is still
\* current under the lock: every reservation and release moves the version.
THEOREM RemoveReadHolds == Spec => []RemoveSawTruth
<1>1. IInv => RemoveSawTruth
  BY DEF IInv
<1> QED
  BY <1>1, SpecIInv, PTL

\* The listing of a confirmed order is reserved, so it is not closed.
LEMMA HeldIsReserved ==
    ASSUME IInv, NEW o \in Orders, reservation[o] = "active"
    PROVE  /\ order[o].listing \in Listings
           /\ listing[order[o].listing].status = "reserved"
<1>1. order[o].listing \in Listings
  BY DEF IInv, HeldByOneOrder, LinkInv
<1>2. PICK l \in Listings : l = order[o].listing
  BY <1>1
<1>3. o \in ActiveOrders(l)
  BY <1>2 DEF ActiveOrders
<1> QED
  BY <1>2, <1>3 DEF IInv, HeldByOneOrder

\* A step moves a listing only from an open state, and by one version.
LEMMA ListingMoves ==
    ASSUME IInv, Next, NEW k \in Listings, listing'[k] # listing[k]
    PROVE  listing[k].status \notin Closed /\ listing'[k].version = listing[k].version + 1
<1>0. TypeOK
  BY DEF IInv
<1>1. ASSUME NEW l \in Listings, NEW s, SetStatus(l, s), listing[l].status \notin Closed
      PROVE  listing[k].status \notin Closed /\ listing'[k].version = listing[k].version + 1
  BY <1>0, <1>1, SetStatusEffect
<1>2. ASSUME NEW l \in Listings, OwnerStep(l)
      PROVE  \E s : SetStatus(l, s) /\ listing[l].status \notin Closed
  BY <1>2 DEF OwnerStep, CreateListing, UpdateListing, Submit, Withdraw,
              Editable, Submittable, Withdrawable, Closed
<1>3. ASSUME NEW l \in Listings, NEW approved \in BOOLEAN, Review(l, approved)
      PROVE  \E s : SetStatus(l, s) /\ listing[l].status \notin Closed
  BY <1>3 DEF Review, Closed
<1>4. ASSUME NEW a \in Admins, Remove(a)
      PROVE  \E l \in Listings : SetStatus(l, "removed") /\ listing[l].status \notin Closed
  <2>1. removing[a].listing \in Listings
    BY <1>4 DEF IInv, LinkInv, Remove
  <2>2. SetStatus(removing[a].listing, "removed")
    BY <1>4 DEF Remove
  <2>3. listing[removing[a].listing].status \notin Closed
    BY <1>4 DEF Remove, Removable, Closed
  <2> QED
    BY <2>1, <2>2, <2>3 DEF SetStatus
<1>5. ASSUME NEW a \in Admins, RollbackRemove(a) \/ \E l \in Listings : \E v \in 1..listing[l].version : BeginRemove(a, l, v)
      PROVE  FALSE
  BY <1>5 DEF RollbackRemove, BeginRemove, rowVars
<1>6. ASSUME NEW l \in Listings, NEW b \in Users, NEW c \in Keys, NEW o \in Orders, Reserve(l, b, c, o)
      PROVE  SetStatus(l, "reserved") /\ listing[l].status \notin Closed
  BY <1>6 DEF Reserve, Closed
<1>7. ASSUME NEW o \in Orders, NEW u \in Users, NEW t \in {"completed", "cancelled"},
             finishOrder(o, u, t)
      PROVE  \E l \in Listings : \E s : SetStatus(l, s) /\ listing[l].status \notin Closed
  <2>1. PICK l \in Listings : l = order[o].listing /\ listing[l].status = "reserved"
    BY <1>7, HeldIsReserved DEF finishOrder
  <2>2. \E s : SetStatus(l, s)
    BY <1>7, <2>1 DEF finishOrder
  <2> QED
    BY <2>1, <2>2 DEF Closed
<1>8. ASSUME NEW w \in Workers, ExpireReservations(w)
      PROVE  listing[k].status \notin Closed /\ listing'[k].version = listing[k].version + 1
  <2>1. listing[k].status = "reserved" /\ listing'[k].version = listing[k].version + 1
    BY <1>0, <1>8, ExpireListings
  <2> QED
    BY <2>1 DEF Closed
<1>9. ASSUME \/ \E o \in Orders : DeadlinePasses(o)
             \/ \E w \in Workers : BeginExpire(w) \/ RollbackExpire(w)
      PROVE  FALSE
  BY <1>9 DEF DeadlinePasses, BeginExpire, RollbackExpire, rowVars
<1>10. CASE AdminStep
  BY <1>1, <1>3, <1>4, <1>5, <1>10 DEF AdminStep
<1>11. CASE TradeStep
  BY <1>1, <1>6, <1>7, <1>11 DEF TradeStep, Cancel, Complete
<1> QED
  BY <1>1, <1>2, <1>8, <1>9, <1>10, <1>11 DEF Next, WorkerStep

\* A step changes an existing order only while it is confirmed.
LEMMA OrderMoves ==
    ASSUME IInv, Next, NEW p \in Existing, order'[p] # order[p]
    PROVE  order[p].status = "confirmed"
<1>0. TypeOK /\ p \in Orders /\ order[p].status # "absent"
  BY DEF IInv, Existing
<1>1. ASSUME NEW os, NEW t, closeReservationWithOrder(Closes(os, t), t)
      PROVE  order[p].status = "confirmed"
  BY <1>0, <1>1 DEF closeReservationWithOrder, Closes, CanTransition
<1>2. ASSUME NEW l \in Listings, OwnerStep(l) \/ \E approved \in BOOLEAN : Review(l, approved)
      PROVE  FALSE
  BY <1>2 DEF OwnerStep, CreateListing, UpdateListing, Submit, Withdraw, Review, OrdersUnchanged
<1>3. ASSUME NEW a \in Admins, Remove(a)
      PROVE  order[p].status = "confirmed"
  BY <1>1, <1>3 DEF Remove
<1>4. ASSUME NEW a \in Admins, RollbackRemove(a) \/ \E l \in Listings : \E v \in 1..listing[l].version : BeginRemove(a, l, v)
      PROVE  FALSE
  BY <1>4 DEF RollbackRemove, BeginRemove, rowVars
<1>5. ASSUME NEW l \in Listings, NEW b \in Users, NEW c \in Keys, NEW o \in Orders, Reserve(l, b, c, o)
      PROVE  FALSE
  <2>1. o # p
    BY <1>5 DEF Reserve, NextId
  <2> QED
    BY <1>0, <1>5, <2>1 DEF Reserve, TypeOK
<1>6. ASSUME NEW o \in Orders, NEW u \in Users, NEW t, finishOrder(o, u, t)
      PROVE  order[p].status = "confirmed"
  BY <1>0, <1>6 DEF finishOrder, CanTransition, TypeOK
<1>7. ASSUME NEW w \in Workers, ExpireReservations(w)
      PROVE  order[p].status = "confirmed"
  BY <1>1, <1>7 DEF ExpireReservations
<1>8. ASSUME \/ \E o \in Orders : DeadlinePasses(o)
             \/ \E w \in Workers : BeginExpire(w) \/ RollbackExpire(w)
      PROVE  FALSE
  BY <1>8 DEF DeadlinePasses, BeginExpire, RollbackExpire, rowVars
<1>9. CASE AdminStep
  BY <1>2, <1>3, <1>4, <1>9 DEF AdminStep
<1>10. CASE TradeStep
  BY <1>5, <1>6, <1>10 DEF TradeStep, Cancel, Complete
<1> QED
  BY <1>2, <1>7, <1>8, <1>9, <1>10 DEF Next, WorkerStep

\* Sold, withdrawn and removed listings and ended orders never change again,
\* and every change of a listing is one step of its optimistic-lock version.
THEOREM ClosedStaysFinal == Spec => ClosedIsFinal
<1>1. IInv /\ [Next]_vars =>
        [/\ \A l \in Listings : listing'[l] # listing[l] =>
              /\ listing[l].status \notin Closed
              /\ listing'[l].version = listing[l].version + 1
         /\ \A o \in Existing : order'[o] # order[o] => order[o].status = "confirmed"]_vars
  BY ListingMoves, OrderMoves
<1> QED
  BY <1>1, SpecIInv, PTL DEF Spec, ClosedIsFinal

-----------------------------------------------------------------------------
\* contactWithAccess: the owner of an open listing, and the buyer whose order alone
\* holds a reserved one, are shown the contact; nobody else is, and a closed
\* listing's is shown to nobody.
THEOREM ContactIsForHolders == Spec => []ContactOnlyForHolder
<1>1. ASSUME IInv, NEW l \in Listings, NEW u \in Users
      PROVE  HasActiveOrder(l, u) <=>
                /\ listing[l].status = "reserved"
                /\ \E o \in Orders : ActiveOrders(l) = {o} /\ order[o].buyer = u
  <2>1. ASSUME NEW o \in Orders, order[o].listing = l, order[o].buyer = u, order[o].status = "confirmed"
        PROVE  listing[l].status = "reserved" /\ ActiveOrders(l) = {o}
    <3>1. o \in ActiveOrders(l)
      BY <1>1, <2>1 DEF IInv, HeldByOneOrder, ActiveOrders
    <3>2. \A p \in ActiveOrders(l) : p = o
      BY <1>1, <2>1, <3>1 DEF IInv, HeldByOneOrder, ActiveOrders
    <3>3. listing[l].status = "reserved"
      BY <1>1, <3>1 DEF IInv, HeldByOneOrder
    <3> QED
      BY <3>1, <3>2, <3>3
  <2>2. ASSUME NEW o \in Orders, ActiveOrders(l) = {o}
        PROVE  order[o].listing = l /\ order[o].status = "confirmed"
    <3>1. o \in ActiveOrders(l)
      BY <2>2
    <3> QED
      BY <1>1, <3>1 DEF IInv, HeldByOneOrder, ActiveOrders
  <2> QED
    BY <2>1, <2>2 DEF HasActiveOrder
<1>2. ASSUME IInv PROVE ContactOnlyForHolder
  <2> SUFFICES ASSUME NEW l \in Listings, NEW u \in Users
               PROVE  SeesContact(l, u) <=>
                        \/ u = Owner[l] /\ listing[l].status \in ListingStatuses \ (Closed \cup {"absent"})
                        \/ /\ listing[l].status = "reserved"
                           /\ \E o \in Orders : ActiveOrders(l) = {o} /\ order[o].buyer = u
    BY DEF ContactOnlyForHolder
  <2>1. listing[l].status \in ListingStatuses
    BY <1>2 DEF IInv, TypeOK
  <2>2. listing[l].status = "reserved" => listing[l].status \notin Closed \cup {"absent"}
    BY DEF Closed
  <2> QED
    BY <1>1, <1>2, <2>1, <2>2 DEF SeesContact
<1> QED
  BY <1>2, SpecIInv, PTL

\* AvailableActions offers a viewer what the store accepts from that viewer: a
\* published listing has no buyer, so to purchase it is offered to all others.
THEOREM OfferedIsAccepted == Spec => []ActionsOffered
<1>1. IInv => ActionsOffered
  <2> SUFFICES ASSUME IInv, NEW l \in Listings, NEW u \in Users
               PROVE  LET s == listing[l].status
                          own == u = Owner[l] IN
                      /\ "edit" \in AvailableActions(l, u) <=> own /\ s \in Editable
                      /\ "submit_review" \in AvailableActions(l, u) <=> own /\ s \in Submittable
                      /\ "withdraw" \in AvailableActions(l, u) <=> own /\ s \in Withdrawable
                      /\ "purchase" \in AvailableActions(l, u) <=> ~own /\ s = "published"
    BY DEF ActionsOffered
  <2> DEFINE s == listing[l].status
  <2>1. s = "published" => ~HasActiveOrder(l, u)
    BY DEF IInv, HeldByOneOrder, HasActiveOrder, ActiveOrders
  <2>2. CASE u = Owner[l]
    <3>1. ViewerRelation(l, u) = "owner"
      BY <2>2 DEF ViewerRelation
    <3> QED
      BY <2>2, <3>1 DEF AvailableActions, Editable, Submittable, Withdrawable
  <2>3. CASE u # Owner[l]
    <3>1. ViewerRelation(l, u) \in {"buyer", "none"} /\ (s = "published" => ViewerRelation(l, u) = "none")
      BY <2>1, <2>3 DEF ViewerRelation
    <3> QED
      BY <2>3, <3>1 DEF AvailableActions
  <2> QED
    BY <2>2, <2>3
<1> QED
  BY <1>1, SpecIInv, PTL

-----------------------------------------------------------------------------
(* The ledger.                                                               *)

\* What the ledger and the event stream say of order o.
EntriesOf(o) == {t \in transitions : t[1] = o}
EventsOf(o) == {e \in events : e[2] = o /\ e[1] \notin ListingEvents}
Ended(o) == IF order[o].status \in {"absent", "confirmed"} THEN {} ELSE {order[o].status}

\* They say nothing before the order is made, and then its whole story.
Told(o) ==
    IF order[o].status = "absent"
    THEN EntriesOf(o) = {} /\ EventsOf(o) = {}
    ELSE /\ EntriesOf(o) = {<<o, "", "confirmed">>} \cup {<<o, "confirmed", s>> : s \in Ended(o)}
         /\ EventsOf(o) = {<<"order.created", o>>} \cup {OrderEvent(o, s) : s \in Ended(o)}

\* A listing is sold exactly if an order on it was completed, and then by one.
SoldInv ==
    /\ \A o \in Orders : order[o].status = "completed" => listing[order[o].listing].status = "sold"
    /\ \A o, p \in Orders : /\ order[o].status = "completed" /\ order[p].status = "completed"
                            /\ order[o].listing = order[p].listing
                            => o = p
    /\ \A l \in Listings : listing[l].status = "sold" =>
          \E o \in Orders : order[o].status = "completed" /\ order[o].listing = l

\* Inductive, together with IInv.
LedgerInv == (\A o \in Orders : Told(o)) /\ SoldInv

\* An order's event is none about a listing, and names the order.
LEMMA OrderEventShape ==
    ASSUME NEW o, NEW t
    PROVE  OrderEvent(o, t)[2] = o /\ OrderEvent(o, t)[1] \notin ListingEvents
BY DEF OrderEvent, ListingEvents

\* A step that ends the orders in os and records each with its event.
LEMMA EndingIsTold ==
    ASSUME LedgerInv, NEW os \in SUBSET Orders, NEW target \in {"completed", "cancelled", "expired"},
           \A o \in os : order[o].status = "confirmed" /\ order'[o].status = target,
           \A o \in Orders \ os : order'[o].status = order[o].status,
           transitions' = transitions \cup {<<o, "confirmed", target>> : o \in os},
           NEW more, \A e \in more : e[1] \in ListingEvents,
           events' = events \cup {OrderEvent(o, target) : o \in os} \cup more
    PROVE  \A o \in Orders : Told(o)'
<1> SUFFICES ASSUME NEW o \in Orders PROVE Told(o)'
  OBVIOUS
<1>0. Told(o)
  BY DEF LedgerInv
<1>1. CASE o \notin os
  <2>1. EntriesOf(o)' = EntriesOf(o)
    BY <1>1 DEF EntriesOf
  <2>2. EventsOf(o)' = EventsOf(o)
    <3>1. \A p \in os : OrderEvent(p, target)[2] # o
      BY <1>1, OrderEventShape
    <3> QED
      BY <3>1 DEF EventsOf
  <2>3. Ended(o)' = Ended(o) /\ order'[o].status = order[o].status
    BY <1>1 DEF Ended
  <2> QED
    BY <1>0, <2>1, <2>2, <2>3 DEF Told, OrderEvent
<1>2. CASE o \in os
  <2>1. EntriesOf(o) = {<<o, "", "confirmed">>} /\ EventsOf(o) = {<<"order.created", o>>}
    BY <1>0, <1>2 DEF Told, Ended
  <2>2. EntriesOf(o)' = EntriesOf(o) \cup {<<o, "confirmed", target>>}
    BY <1>2 DEF EntriesOf
  <2>3. EventsOf(o)' = EventsOf(o) \cup {OrderEvent(o, target)}
    <3>1. \A p \in os : OrderEvent(p, target)[2] = p /\ OrderEvent(p, target)[1] \notin ListingEvents
      BY OrderEventShape
    <3>2. \A e : e \in EventsOf(o)' <=> e \in EventsOf(o) \/ e = OrderEvent(o, target)
      BY <1>2, <3>1 DEF EventsOf
    <3> QED
      BY <3>2
  <2>4. Ended(o)' = {target} /\ order'[o].status = target /\ target # "absent"
    BY <1>2 DEF Ended
  <2>5. EntriesOf(o)' = {<<o, "", "confirmed">>} \cup {<<o, "confirmed", s>> : s \in Ended(o)'}
    BY <2>1, <2>2, <2>4
  <2>6. EventsOf(o)' = {<<"order.created", o>>} \cup {OrderEvent(o, s) : s \in Ended(o)'}
    BY <2>1, <2>3, <2>4
  <2> QED
    BY <2>4, <2>5, <2>6 DEF Told, OrderEvent
<1> QED
  BY <1>1, <1>2

\* SoldInv looks at what is sold and completed only.
LEMMA SoldFrame ==
    ASSUME IInv, SoldInv,
           \A l \in Listings : listing'[l].status = "sold" <=> listing[l].status = "sold",
           \A o \in Orders : order'[o].status = "completed" <=> order[o].status = "completed",
           \A o \in Orders : order[o].status = "completed" => order'[o].listing = order[o].listing
    PROVE  SoldInv'
<1>1. \A o \in Orders : order[o].status = "completed" => order[o].listing \in Listings
  BY DEF IInv, LinkInv
<1>2. \A o \in Orders : order'[o].status = "completed" => listing'[order'[o].listing].status = "sold"
  BY <1>1 DEF SoldInv
<1>3. \A o, p \in Orders : /\ order'[o].status = "completed" /\ order'[p].status = "completed"
                           /\ order'[o].listing = order'[p].listing
                           => o = p
  BY DEF SoldInv
<1>4. ASSUME NEW l \in Listings, listing'[l].status = "sold"
      PROVE  \E o \in Orders : order'[o].status = "completed" /\ order'[o].listing = l
  <2>1. PICK o \in Orders : order[o].status = "completed" /\ order[o].listing = l
    BY <1>4 DEF SoldInv
  <2> QED
    BY <2>1
<1> QED
  BY <1>2, <1>3, <1>4 DEF SoldInv

\* Steps that end no order, whatever they tell about listings.
LEMMA NothingEnds ==
    ASSUME IInv, LedgerInv, UNCHANGED <<order, transitions>>,
           NEW more, \A e \in more : e[1] \in ListingEvents, events' = events \cup more,
           \A l \in Listings : listing'[l].status = "sold" <=> listing[l].status = "sold"
    PROVE  LedgerInv'
<1>1. \A o \in Orders : Told(o)'
  <2> SUFFICES ASSUME NEW o \in Orders PROVE Told(o)'
    OBVIOUS
  <2>1. Told(o)
    BY DEF LedgerInv
  <2>2. EventsOf(o)' = EventsOf(o) /\ EntriesOf(o)' = EntriesOf(o) /\ Ended(o)' = Ended(o)
    BY DEF EventsOf, EntriesOf, Ended
  <2> QED
    BY <2>1, <2>2 DEF Told, OrderEvent
<1>2. SoldInv'
  BY SoldFrame DEF LedgerInv
<1> QED
  BY <1>1, <1>2 DEF LedgerInv

\* An owner or a reviewer moves a listing: it was not sold and is not.
LEMMA ListingIsTold ==
    ASSUME IInv, LedgerInv, NEW l \in Listings,
           OwnerStep(l) \/ \E approved \in BOOLEAN : Review(l, approved)
    PROVE  LedgerInv'
<1>0. TypeOK
  BY DEF IInv
<1>1. listing[l].status # "sold" /\ UNCHANGED <<order, transitions>>
  BY DEF OwnerStep, CreateListing, UpdateListing, Submit, Withdraw, Review,
         Editable, Submittable, Withdrawable, OrdersUnchanged
<1>2. PICK s : SetStatus(l, s) /\ s # "sold"
  BY DEF OwnerStep, CreateListing, UpdateListing, Submit, Withdraw, Review
<1>3. listing'[l].status = s /\ \A k \in Listings \ {l} : listing'[k] = listing[k]
  BY <1>0, <1>2, SetStatusEffect
<1>4. \A k \in Listings : listing'[k].status = "sold" <=> listing[k].status = "sold"
  BY <1>1, <1>2, <1>3
<1>5. PICK more \in {{}, {<<"listing.reviewed", l>>}} : events' = events \cup more
  BY DEF OwnerStep, CreateListing, UpdateListing, Submit, Withdraw, Review
<1>6. \A e \in more : e[1] \in ListingEvents
  BY <1>5 DEF ListingEvents
<1> QED
  BY <1>1, <1>4, <1>5, <1>6, NothingEnds

\* Reserve: the order is new, so its creation is all there is to tell of it.
LEMMA ReserveIsTold ==
    ASSUME IInv, LedgerInv, NEW l \in Listings, NEW b \in Users, NEW k \in Keys, NEW o \in Orders,
           Reserve(l, b, k, o)
    PROVE  LedgerInv'
<1>0. TypeOK
  BY DEF IInv
<1>1. /\ order' = [order EXCEPT ![o] = [status |-> "confirmed", listing |-> l, buyer |-> b, key |-> k]]
      /\ transitions' = transitions \cup {<<o, "", "confirmed">>}
      /\ events' = events \cup {<<"order.created", o>>}
      /\ listing[l].status = "published" /\ SetStatus(l, "reserved") /\ order[o].status = "absent"
  BY DEF Reserve, NextId, Existing
<1>2. order'[o].status = "confirmed" /\ \A p \in Orders \ {o} : order'[p] = order[p]
  BY <1>0, <1>1 DEF TypeOK
<1>e. \A p \in Orders : EntriesOf(p)' = IF p = o THEN EntriesOf(p) \cup {<<o, "", "confirmed">>} ELSE EntriesOf(p)
  <2>1. transitions' = transitions \cup {<<o, "", "confirmed">>}
    BY <1>1
  <2> DEFINE entry == <<o, "", "confirmed">>
  <2>2. entry[1] = o /\ transitions' = transitions \cup {entry}
    BY <2>1
  <2> HIDE DEF entry
  <2>3. \A p \in Orders : EntriesOf(p)' = IF p = o THEN EntriesOf(p) \cup {entry} ELSE EntriesOf(p)
    BY <2>2 DEF EntriesOf
  <2> QED
    BY <2>3 DEF entry
<1>v. \A p \in Orders : EventsOf(p)' = IF p = o THEN EventsOf(p) \cup {<<"order.created", o>>} ELSE EventsOf(p)
  <2>1. events' = events \cup {<<"order.created", o>>}
    BY <1>1
  <2> DEFINE event == <<"order.created", o>>
  <2>2. event[2] = o /\ event[1] \notin ListingEvents /\ events' = events \cup {event}
    BY <2>1 DEF ListingEvents
  <2> HIDE DEF event
  <2>3. \A p \in Orders : EventsOf(p)' = IF p = o THEN EventsOf(p) \cup {event} ELSE EventsOf(p)
    BY <2>2 DEF EventsOf
  <2> QED
    BY <2>3 DEF event
<1>3. ASSUME NEW p \in Orders PROVE Told(p)'
  <2>1. Told(p)
    BY DEF LedgerInv
  <2>2. CASE p # o
    <3>1. EntriesOf(p)' = EntriesOf(p) /\ EventsOf(p)' = EventsOf(p)
      BY <1>e, <1>v, <2>2
    <3>2. Ended(p)' = Ended(p) /\ order'[p].status = order[p].status
      BY <1>2, <2>2 DEF Ended
    <3> QED
      BY <2>1, <3>1, <3>2 DEF Told, OrderEvent
  <2>3. CASE p = o
    <3>1. EntriesOf(p) = {} /\ EventsOf(p) = {}
      BY <1>1, <2>1, <2>3 DEF Told
    <3>2. EntriesOf(p)' = {<<p, "", "confirmed">>}
      BY <1>e, <2>3, <3>1
    <3>3. EventsOf(p)' = {<<"order.created", p>>}
      BY <1>v, <2>3, <3>1
    <3>4. Ended(p)' = {} /\ order'[p].status # "absent"
      BY <1>2, <2>3 DEF Ended
    <3> QED
      BY <3>2, <3>3, <3>4 DEF Told, OrderEvent
  <2> QED
    BY <2>2, <2>3
<1>4. SoldInv'
  <2>1. \A j \in Listings : listing'[j].status = "sold" <=> listing[j].status = "sold"
    <3>1. listing'[l].status = "reserved" /\ \A j \in Listings \ {l} : listing'[j] = listing[j]
      BY <1>0, <1>1, SetStatusEffect
    <3> QED
      BY <1>1, <3>1
  <2>2. \A p \in Orders : order'[p].status = "completed" <=> order[p].status = "completed"
    BY <1>1, <1>2
  <2>3. \A p \in Orders : order[p].status = "completed" => order'[p].listing = order[p].listing
    BY <1>1, <1>2
  <2> QED
    BY <2>1, <2>2, <2>3, SoldFrame DEF LedgerInv
<1> QED
  BY <1>3, <1>4 DEF LedgerInv

\* finishOrder: a completed order is the first on its listing, which was reserved.
LEMMA FinishIsTold ==
    ASSUME IInv, LedgerInv, NEW o \in Orders, NEW u \in Users, NEW t \in {"completed", "cancelled"},
           finishOrder(o, u, t)
    PROVE  LedgerInv'
<1>0. TypeOK /\ SoldInv /\ order \in [Orders -> OrderRow]
  BY DEF IInv, TypeOK, OrderRow, LedgerInv
<1>1. /\ order[o].status = "confirmed" /\ reservation[o] = "active"
      /\ order' = [order EXCEPT ![o] = [order[o] EXCEPT !.status = t]]
      /\ transitions' = transitions \cup {<<o, "confirmed", t>>}
      /\ events' = events \cup {OrderEvent(o, t)}
  BY DEF finishOrder, CanTransition
<1>2. order[o] \in OrderRow
  BY <1>0
<1>3. /\ order'[o].status = t /\ order'[o].listing = order[o].listing
      /\ \A p \in Orders \ {o} : order'[p] = order[p]
  BY <1>0, <1>1, <1>2 DEF OrderRow
<1>4. \A p \in Orders : Told(p)'
  <2> DEFINE os == {o}
             more == {}
  <2>1. transitions' = transitions \cup {<<p, "confirmed", t>> : p \in os}
    BY <1>1
  <2>2. events' = events \cup {OrderEvent(p, t) : p \in os} \cup more
    BY <1>1
  <2>3. /\ \A p \in os : order[p].status = "confirmed" /\ order'[p].status = t
        /\ \A p \in Orders \ os : order'[p].status = order[p].status
        /\ os \in SUBSET Orders /\ t \in {"completed", "cancelled", "expired"}
        /\ \A e \in more : e[1] \in ListingEvents
    BY <1>1, <1>3
  <2> HIDE DEF os, more
  <2> QED
    BY <2>1, <2>2, <2>3, EndingIsTold
<1>5. PICK l \in Listings : l = order[o].listing /\ listing[l].status = "reserved"
  BY <1>1, HeldIsReserved
<1>6. /\ listing'[l].status = IF t = "cancelled" THEN "published" ELSE "sold"
      /\ \A k \in Listings \ {l} : listing'[k] = listing[k]
  <2>1. SetStatus(l, IF t = "cancelled" THEN "published" ELSE "sold")
    BY <1>5 DEF finishOrder
  <2> QED
    BY <1>0, <2>1, SetStatusEffect
<1>7. CASE t = "cancelled"
  <2>1. SoldInv'
    BY <1>0, <1>1, <1>3, <1>5, <1>6, <1>7, SoldFrame
  <2> QED
    BY <1>4, <2>1 DEF LedgerInv
<1>8. CASE t = "completed"
  <2>1. \A p \in Orders : order[p].status = "completed" => order[p].listing # l /\ order[p].listing \in Listings /\ p # o
    BY <1>0, <1>1, <1>5 DEF SoldInv, IInv, LinkInv
  <2>2. \A p \in Orders : order'[p].status = "completed" => p = o \/ (order[p].status = "completed" /\ order'[p] = order[p])
    BY <1>3
  <2>3. \A p \in Orders : order'[p].status = "completed" => listing'[order'[p].listing].status = "sold"
    BY <1>0, <1>3, <1>5, <1>6, <1>8, <2>1, <2>2 DEF SoldInv
  <2>4. \A p, q \in Orders : /\ order'[p].status = "completed" /\ order'[q].status = "completed"
                             /\ order'[p].listing = order'[q].listing
                             => p = q
    BY <1>0, <1>3, <1>5, <2>1, <2>2 DEF SoldInv
  <2>5. ASSUME NEW k \in Listings, listing'[k].status = "sold"
        PROVE  \E p \in Orders : order'[p].status = "completed" /\ order'[p].listing = k
    <3>1. CASE k = l
      BY <1>3, <1>5, <1>8, <3>1
    <3>2. CASE k # l
      <4>1. PICK p \in Orders : order[p].status = "completed" /\ order[p].listing = k
        BY <1>0, <1>6, <2>5, <3>2 DEF SoldInv
      <4>2. p # o
        BY <1>1, <4>1
      <4> QED
        BY <1>3, <4>1, <4>2
    <3> QED
      BY <3>1, <3>2
  <2>6. SoldInv'
    BY <2>3, <2>4, <2>5 DEF SoldInv
  <2> QED
    BY <1>4, <2>6 DEF LedgerInv
<1> QED
  BY <1>7, <1>8

\* closeReservationWithOrder, of Remove and of ExpireReservations: no sale.
LEMMA CloseIsTold ==
    ASSUME IInv, LedgerInv, NEW os \in SUBSET Orders, NEW t \in {"cancelled", "expired"},
           closeReservationWithOrder(os, t), \A o \in os : order[o].status = "confirmed",
           NEW more, \A e \in more : e[1] \in ListingEvents,
           events' = events \cup {OrderEvent(o, t) : o \in os} \cup more,
           \A l \in Listings : listing'[l].status = "sold" <=> listing[l].status = "sold"
    PROVE  LedgerInv'
<1>0. order \in [Orders -> OrderRow]
  BY DEF IInv, TypeOK, OrderRow
<1>1. /\ order' = [o \in Orders |-> IF o \in os THEN [order[o] EXCEPT !.status = t] ELSE order[o]]
      /\ transitions' = transitions \cup {<<o, order[o].status, t>> : o \in os}
  BY DEF closeReservationWithOrder
<1>2. \A o \in os : order'[o].status = t
  BY <1>0, <1>1 DEF OrderRow
<1>3. \A o \in Orders \ os : order'[o] = order[o]
  BY <1>1
<1>4. transitions' = transitions \cup {<<o, "confirmed", t>> : o \in os}
  BY <1>1
<1>5. \A o \in Orders : Told(o)'
  <2>1. \A o \in os : order[o].status = "confirmed" /\ order'[o].status = t
    BY <1>2
  <2>2. \A o \in Orders \ os : order'[o].status = order[o].status
    BY <1>3
  <2>3. t \in {"completed", "cancelled", "expired"}
    OBVIOUS
  <2> QED
    BY <1>4, <2>1, <2>2, <2>3, EndingIsTold, Zenon
<1>6. SoldInv'
  <2>1. \A o \in Orders : order'[o].status = "completed" <=> order[o].status = "completed"
    BY <1>2, <1>3
  <2>2. \A o \in Orders : order[o].status = "completed" => order'[o].listing = order[o].listing
    BY <1>3
  <2> QED
    BY <2>1, <2>2, SoldFrame DEF LedgerInv
<1> QED
  BY <1>5, <1>6 DEF LedgerInv

\* Remove: a listing that can be removed is not sold.
LEMMA RemoveIsTold ==
    ASSUME IInv, LedgerInv, NEW a \in Admins, Remove(a)
    PROVE  LedgerInv'
<1>0. TypeOK /\ LinkInv
  BY DEF IInv
<1>1. PICK l \in Listings : l = removing[a].listing
  BY <1>0 DEF Remove, LinkInv
<1> DEFINE os == Closes({removing[a].order} \cap {o \in Orders : reservation[o] = "active"},
                        "cancelled")
           more == {<<"listing.removed", l>>}
<1>2. /\ listing[l].status \in Removable /\ SetStatus(l, "removed")
      /\ closeReservationWithOrder(os, "cancelled")
      /\ events' = events \cup {<<"order.cancelled", o>> : o \in os} \cup more
  BY <1>1 DEF Remove
<1>3. os \in SUBSET Orders
  BY ClosesType
<1>4. \A o \in os : order[o].status = "confirmed"
  BY DEF Closes, CanTransition
<1>5. \A e \in more : e[1] \in ListingEvents
  BY DEF ListingEvents
<1> HIDE DEF os, more
<1>6. {<<"order.cancelled", o>> : o \in os} = {OrderEvent(o, "cancelled") : o \in os}
  BY DEF OrderEvent
<1>7. \A k \in Listings : listing'[k].status = "sold" <=> listing[k].status = "sold"
  <2>1. listing'[l].status = "removed" /\ \A k \in Listings \ {l} : listing'[k] = listing[k]
    BY <1>0, <1>2, SetStatusEffect
  <2>2. listing[l].status # "sold"
    BY <1>2 DEF Removable
  <2> QED
    BY <2>1, <2>2
<1>8. events' = events \cup {OrderEvent(o, "cancelled") : o \in os} \cup more
  BY <1>2, <1>6
<1>9. closeReservationWithOrder(os, "cancelled") /\ "cancelled" \in {"cancelled", "expired"}
  BY <1>2
<1> QED
  BY <1>3, <1>4, <1>5, <1>7, <1>8, <1>9, CloseIsTold, Zenon

\* ExpireReservations: reserved listings are published again, none is sold.
LEMMA ExpireIsTold ==
    ASSUME IInv, LedgerInv, NEW w \in Workers, ExpireReservations(w)
    PROVE  LedgerInv'
<1>0. TypeOK
  BY DEF IInv
<1> DEFINE os == Closes(StillActive(expiring[w]), "expired")
           more == {}
<1>1. /\ os \in SUBSET Orders
      /\ \A l \in Listings :
           IF listing[l].status = "reserved" /\ \E o \in os : order[o].listing = l
           THEN listing'[l].status = "published" /\ listing'[l].version = listing[l].version + 1
           ELSE listing'[l] = listing[l]
  BY <1>0, ExpireListings
<1>2. /\ closeReservationWithOrder(os, "expired")
      /\ events' = events \cup {OrderEvent(o, "expired") : o \in os} \cup more
  BY DEF ExpireReservations
<1>3. \A o \in os : order[o].status = "confirmed"
  BY DEF Closes, CanTransition
<1>4. (\A e \in more : e[1] \in ListingEvents) /\ "expired" \in {"cancelled", "expired"}
  OBVIOUS
<1> HIDE DEF os, more
<1>5. \A l \in Listings : listing'[l].status = "sold" <=> listing[l].status = "sold"
  BY <1>1
<1>6. os \in SUBSET Orders
  BY <1>1
<1> QED
  BY <1>2, <1>3, <1>4, <1>5, <1>6, CloseIsTold, Zenon

\* Every step keeps the ledger complete.
LEMMA NextLedger == IInv /\ LedgerInv /\ [Next]_vars => LedgerInv'
<1> SUFFICES ASSUME IInv, LedgerInv, [Next]_vars PROVE LedgerInv'
  OBVIOUS
<1>1. CASE UNCHANGED rowVars
  <2> DEFINE more == {}
  <2>1. /\ UNCHANGED <<order, transitions>> /\ events' = events \cup more
        /\ \A e \in more : e[1] \in ListingEvents
        /\ \A l \in Listings : listing'[l].status = "sold" <=> listing[l].status = "sold"
    BY <1>1 DEF rowVars
  <2> HIDE DEF more
  <2> QED
    BY <2>1, NothingEnds
<1>2. CASE AdminStep
  BY <1>1, <1>2, ListingIsTold, RemoveIsTold DEF AdminStep, BeginRemove, RollbackRemove
<1>3. CASE TradeStep
  BY <1>3, ReserveIsTold, FinishIsTold DEF TradeStep, Cancel, Complete
<1>4. ASSUME NEW o \in Orders, DeadlinePasses(o) PROVE LedgerInv'
  BY <1>1, <1>4 DEF DeadlinePasses
<1>5. ASSUME NEW w \in Workers, WorkerStep(w) PROVE LedgerInv'
  BY <1>1, <1>5, ExpireIsTold DEF WorkerStep, BeginExpire, RollbackExpire
<1>6. CASE UNCHANGED vars
  BY <1>1, <1>6 DEF vars, rowVars
<1> QED
  BY <1>2, <1>3, <1>4, <1>5, <1>6, ListingIsTold DEF Next

\* The ledger is complete in every state.
LEMMA SpecLedger == Spec => [](IInv /\ LedgerInv)
<1>1. Init => LedgerInv
  <2> SUFFICES ASSUME Init PROVE LedgerInv
    OBVIOUS
  <2>1. \A o \in Orders : order[o].status = "absent"
    BY DEF Init
  <2>2. \A l \in Listings : listing[l].status = "absent"
    BY DEF Init
  <2>3. transitions = {} /\ events = {}
    BY DEF Init
  <2>4. \A o \in Orders : Told(o)
    BY <2>1, <2>3 DEF Told, EntriesOf, EventsOf
  <2> QED
    BY <2>1, <2>2, <2>4 DEF LedgerInv, SoldInv
<1> QED
  BY <1>1, InitIInv, NextIInv, NextLedger, PTL DEF Spec

\* trade_order_transitions and domain_events: of every order they tell its
\* creation and the one transition that ended it, and nothing else, and exactly
\* one sale of every sold listing, whoever raced to cancel, remove or expire it.
THEOREM LedgerIsComplete == Spec => []LedgerComplete
<1>1. IInv /\ LedgerInv => LedgerComplete
  <2> SUFFICES ASSUME IInv, LedgerInv PROVE LedgerComplete
    OBVIOUS
  <2>1. ASSUME NEW o \in Existing
        PROVE  LET ended == IF order[o].status = "confirmed" THEN {} ELSE {order[o].status} IN
               /\ {t \in transitions : t[1] = o} =
                    {<<o, "", "confirmed">>} \cup {<<o, "confirmed", s>> : s \in ended}
               /\ {e \in events : e[2] = o /\ e[1] \notin ListingEvents} =
                    {<<"order.created", o>>} \cup {OrderEvent(o, s) : s \in ended}
    <3>1. Told(o) /\ order[o].status # "absent"
      BY DEF LedgerInv, Existing
    <3>2. Ended(o) = IF order[o].status = "confirmed" THEN {} ELSE {order[o].status}
      BY <3>1 DEF Ended
    <3> QED
      BY <3>1, <3>2 DEF Told, EntriesOf, EventsOf
  <2>2. ASSUME NEW l \in Listings
        PROVE  Cardinality({t \in transitions : t[3] = "completed" /\ order[t[1]].listing = l})
                 = IF listing[l].status = "sold" THEN 1 ELSE 0
    <3> DEFINE sales == {t \in transitions : t[3] = "completed" /\ order[t[1]].listing = l}
    <3>1. ASSUME NEW t \in sales
          PROVE  t[1] \in Orders /\ order[t[1]].status = "completed" /\ t = <<t[1], "confirmed", "completed">>
      <4>1. t \in transitions /\ t[3] = "completed"
        OBVIOUS
      <4>2. t[1] \in Orders
        BY <4>1 DEF IInv, TypeOK
      <4>3. PICK o \in Orders : o = t[1]
        BY <4>2
      <4>4. Told(o) /\ t \in EntriesOf(o)
        BY <4>1, <4>3 DEF LedgerInv, EntriesOf
      <4>5. \E s \in Ended(o) : t = <<o, "confirmed", s>>
        <5>1. t \in {<<o, "", "confirmed">>} \cup {<<o, "confirmed", s>> : s \in Ended(o)}
          BY <4>4 DEF Told
        <5>2. t # <<o, "", "confirmed">>
          <6>1. SUFFICES ASSUME t = <<o, "", "confirmed">>
                         PROVE  FALSE
            OBVIOUS
          <6>2. <<o, "", "confirmed">>[3] = "confirmed"
            OBVIOUS
          <6>3. t[3] = "confirmed" /\ t[3] = "completed"
            BY <4>1, <6>1, <6>2, Zenon
          <6>4. "confirmed" # "completed"
            OBVIOUS
          <6> QED
            BY <6>3, <6>4, Zenon
        <5> QED
          BY <5>1, <5>2
      <4>6. Ended(o) \subseteq {order[o].status}
        BY DEF Ended
      <4> QED
        BY <4>1, <4>3, <4>5, <4>6
    <3>2. ASSUME NEW o \in Orders, order[o].status = "completed", order[o].listing = l
          PROVE  <<o, "confirmed", "completed">> \in sales
      <4>1. Told(o) /\ Ended(o) = {"completed"}
        BY <3>2 DEF LedgerInv, Ended
      <4>2. <<o, "confirmed", "completed">> \in EntriesOf(o)
        BY <3>2, <4>1 DEF Told
      <4> QED
        BY <3>2, <4>2 DEF EntriesOf
    <3>3. \A t \in sales : order[t[1]].listing = l
      OBVIOUS
    <3> HIDE DEF sales
    <3>4. CASE listing[l].status = "sold"
      <4>1. PICK o \in Orders : order[o].status = "completed" /\ order[o].listing = l
        BY <3>4 DEF LedgerInv, SoldInv
      <4>2. \A t \in sales : t[1] = o
        BY <3>1, <3>3, <4>1 DEF LedgerInv, SoldInv
      <4>3. \A t \in sales : t = <<o, "confirmed", "completed">>
        BY <3>1, <4>2
      <4>4. sales = {<<o, "confirmed", "completed">>}
        BY <3>2, <4>1, <4>3
      <4> QED
        BY <3>4, <4>4, FS_Singleton DEF sales
    <3>5. CASE listing[l].status # "sold"
      <4>1. sales = {}
        BY <3>1, <3>3, <3>5 DEF LedgerInv, SoldInv
      <4> QED
        BY <3>5, <4>1, FS_EmptySet DEF sales
    <3> QED
      BY <3>4, <3>5
  <2> QED
    BY <2>1, <2>2 DEF LedgerComplete
<1> QED
  BY <1>1, SpecLedger, PTL
=============================================================================
