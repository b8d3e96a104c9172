------------------------ MODULE DomainEventRelayProofs ------------------------
(* Proofs about DomainEventRelay, for any number of events and relays, any *)
(* clock skew and any values of the bounds.                                *)
EXTENDS DomainEventRelay, TLAPS

\* The locals of the relays when a tick ends or goes on keep their types.
LEMMA EndTickType ==
    ASSUME NEW r \in Relays, TypeOK, EndTick(r)
    PROVE  /\ pc' \in [Relays -> PCs]
           /\ tickNow' \in [Relays -> Nat]
           /\ batch' \in [Relays -> SUBSET Events]
           /\ attempts' \in [Relays -> [Events -> Nat]]
<1>1. NoAttempts \in [Events -> Nat]
  BY DEF NoAttempts
<1>2. pc' \in [Relays -> PCs]
  BY DEF TypeOK, EndTick, PCs
<1>3. tickNow' \in [Relays -> Nat]
  BY DEF TypeOK, EndTick
<1>4. batch' \in [Relays -> SUBSET Events]
  BY DEF TypeOK, EndTick
<1>5. attempts' \in [Relays -> [Events -> Nat]]
  BY <1>1 DEF TypeOK, EndTick
<1> QED
  BY <1>2, <1>3, <1>4, <1>5

\* The same when the loop goes on with the rest of its batch.
LEMMA ContinueType ==
    ASSUME NEW r \in Relays, NEW e \in Events, TypeOK, Continue(r, e)
    PROVE  /\ pc' \in [Relays -> PCs]
           /\ tickNow' \in [Relays -> Nat]
           /\ batch' \in [Relays -> SUBSET Events]
           /\ attempts' \in [Relays -> [Events -> Nat]]
<1>1. CASE batch[r] = {e}
  BY <1>1, EndTickType DEF Continue
<1>2. CASE batch[r] # {e}
  <2>1. pc' \in [Relays -> PCs]
    BY <1>2 DEF TypeOK, Continue, PCs
  <2>2. batch' \in [Relays -> SUBSET Events]
    BY <1>2 DEF TypeOK, Continue
  <2> QED
    BY <1>2, <2>1, <2>2 DEF TypeOK, Continue
<1> QED
  BY <1>1, <1>2

\* A record update of one row keeps the table's type.
LEMMA RowUpdateType ==
    ASSUME NEW e \in Events, row \in [Events -> Row], NEW new \in Row,
           row' = [row EXCEPT ![e] = new]
    PROVE  row' \in [Events -> Row]
OBVIOUS

\* Record updates that the settling and leasing transactions make.
LEMMA SettledRowType ==
    ASSUME NEW x \in Row, NEW s \in Statuses, NEW l \in Nat \cup {Null}, NEW a \in Nat
    PROVE  /\ [x EXCEPT !.status = s, !.lockedAt = l] \in Row
           /\ [x EXCEPT !.status = s, !.lockedAt = l, !.availableAt = a] \in Row
BY DEF Row

\* The record update that leases a row: a new token and one more attempt.
LEMMA LeasedRowType ==
    ASSUME NEW x \in Row, NEW l \in Nat
    PROVE  [x EXCEPT !.status = "leased", !.lockedAt = l, !.attempts = @ + 1] \in Row
<1>1. x.attempts + 1 \in Nat
  BY DEF Row
<1> QED
  BY <1>1 DEF Row, Statuses

\* The type invariant of the outbox: every action keeps the columns and the
\* relays' locals in their ranges.
THEOREM TypeCorrect == Spec => []TypeOK
<1>1. Init => TypeOK
  <2>1. NoAttempts \in [Events -> Nat]
    BY DEF NoAttempts
  <2> QED
    BY <2>1 DEF Init, TypeOK, Row, Statuses, PCs, Null
<1>2. TypeOK /\ [Next]_vars => TypeOK'
  <2> SUFFICES ASSUME TypeOK, [Next]_vars PROVE TypeOK'
    OBVIOUS
  <2>1. CASE TimePasses
    BY <2>1 DEF TypeOK, TimePasses, noticeVars, relayVars
  <2>2. ASSUME NEW e \in Events, Write(e) PROVE TypeOK'
    <3>1. row' \in [Events -> Row]
      BY <2>2 DEF TypeOK, Write, Row, Statuses
    <3> QED
      BY <2>2, <3>1 DEF TypeOK, Write, noticeVars, relayVars
  <2>3. ASSUME NEW r \in Relays, BeginTick(r) PROVE TypeOK'
    <3>0. Now(r) \in Nat
      BY SkewAssumption DEF TypeOK, Now
    <3>1. tickNow' \in [Relays -> Nat]
      BY <2>3, <3>0 DEF TypeOK, BeginTick
    <3>2. pc' \in [Relays -> PCs]
      BY <2>3 DEF TypeOK, BeginTick, PCs
    <3> QED
      BY <2>3, <3>1, <3>2 DEF TypeOK, BeginTick, noticeVars
  <2>4. ASSUME NEW r \in Relays, Lease(r) PROVE TypeOK'
    <3> DEFINE events == FirstDue(tickNow[r])
    <3>1. CASE events = {}
      BY <2>4, <3>1, EndTickType DEF TypeOK, Lease, noticeVars
    <3>2. CASE events # {}
      <4>1. events \subseteq Events
        BY DEF FirstDue
      <4>2. /\ row' = [e \in Events |->
                         IF e \in events
                         THEN [row[e] EXCEPT !.status = "leased", !.lockedAt = tickNow[r],
                                             !.attempts = @ + 1]
                         ELSE row[e]]
            /\ attempts' = [attempts EXCEPT ![r] =
                              [e \in Events |->
                                 IF e \in events THEN row[e].attempts + 1 ELSE 0]]
            /\ batch' = [batch EXCEPT ![r] = events]
            /\ pc' = [pc EXCEPT ![r] = "publish"]
            /\ UNCHANGED <<tickNow, clock, noticeVars, crashes>>
        BY <2>4, <3>2 DEF Lease
      <4> HIDE DEF events
      <4>3. \A e \in Events : row[e] \in Row /\ row[e].attempts + 1 \in Nat
        BY DEF TypeOK, Row
      <4>4. row' \in [Events -> Row]
        BY <4>2, <4>3, LeasedRowType DEF TypeOK
      <4>5. attempts' \in [Relays -> [Events -> Nat]]
        <5>1. [e \in Events |-> IF e \in events THEN row[e].attempts + 1 ELSE 0] \in [Events -> Nat]
          BY <4>3
        <5> QED
          BY <4>2, <5>1 DEF TypeOK
      <4>6. pc' \in [Relays -> PCs]
        BY <4>2 DEF TypeOK, PCs
      <4> QED
        BY <4>1, <4>2, <4>4, <4>5, <4>6 DEF TypeOK, noticeVars
    <3> QED
      BY <3>1, <3>2
  <2>5. ASSUME NEW r \in Relays, PublishFails(r) PROVE TypeOK'
    BY <2>5 DEF TypeOK, PublishFails, noticeVars, PCs
  <2>6. ASSUME NEW r \in Relays, NEW e \in Events, PublishNotice(r, e) PROVE TypeOK'
    <3>1. Recipients(e) \in SUBSET Users
      BY DEF Users
    <3>2. inbox' \in [Events -> SUBSET Users]
      BY <2>6, <3>1 DEF TypeOK, PublishNotice
    <3>3. notice' \in [Events -> Nat]
      <4>1. notice[e] + 1 \in Nat
        BY DEF TypeOK
      <4> QED
        BY <2>6, <4>1 DEF TypeOK, PublishNotice
    <3>4. pc' \in [Relays -> PCs]
      BY <2>6 DEF TypeOK, PublishNotice, PCs
    <3> QED
      BY <2>6, <3>2, <3>3, <3>4 DEF TypeOK, PublishNotice
  <2>7. ASSUME NEW r \in Relays, NEW e \in Events, PublishAudit(r, e) PROVE TypeOK'
    BY <2>7 DEF TypeOK, PublishAudit, PCs
  <2>8. ASSUME NEW r \in Relays, NEW e \in Events, markDispatched(r, e) PROVE TypeOK'
    <3>1. [row[e] EXCEPT !.status = "dispatched", !.lockedAt = Null] \in Row
      BY SettledRowType DEF TypeOK, Statuses
    <3>2. row' \in [Events -> Row]
      BY <2>8, <3>1, RowUpdateType DEF TypeOK, markDispatched
    <3> QED
      BY <2>8, <3>2, ContinueType, EndTickType DEF TypeOK, markDispatched, noticeVars
  <2>9. ASSUME NEW r \in Relays, NEW e \in Events, release(r, e) PROVE TypeOK'
    <3> DEFINE exhausted == attempts[r][e] >= MaxAttempts
               new == [row[e] EXCEPT
                         !.status = IF exhausted THEN "failed" ELSE "pending",
                         !.lockedAt = Null,
                         !.availableAt = IF exhausted THEN tickNow[r]
                                         ELSE tickNow[r] + attempts[r][e]]
    <3>1. tickNow[r] \in Nat /\ attempts[r][e] \in Nat /\ row[e] \in Row
      BY DEF TypeOK
    <3>a. (IF exhausted THEN "failed" ELSE "pending") \in Statuses
      BY DEF Statuses
    <3>b. (IF exhausted THEN tickNow[r] ELSE tickNow[r] + attempts[r][e]) \in Nat
      BY <3>1
    <3>2. new \in Row
      BY <3>1, <3>a, <3>b, SettledRowType
    <3>3. row' \in [Events -> Row]
      BY <2>9, <3>2, RowUpdateType DEF TypeOK, release, Exhausted, RetryAt
    <3> QED
      BY <2>9, <3>3, ContinueType, EndTickType DEF TypeOK, release, noticeVars
  <2>10. ASSUME NEW r \in Relays, Abandon(r) PROVE TypeOK'
    BY <2>10, EndTickType DEF TypeOK, Abandon, noticeVars
  <2>11. CASE UNCHANGED vars
    BY <2>11 DEF TypeOK, vars
  <2> QED
    BY <2>1, <2>2, <2>3, <2>4, <2>5, <2>6, <2>7, <2>8, <2>9, <2>10, <2>11 DEF Next, RelayStep
<1> QED
  BY <1>1, <1>2, PTL DEF Spec

-----------------------------------------------------------------------------
\* A tick that ends takes its batch with it and disturbs no other relay.
LEMMA EndTickEffect ==
    ASSUME NEW r \in Relays, TypeOK, EndTick(r)
    PROVE  /\ batch'[r] = {} /\ pc'[r] = "idle"
           /\ \A q \in Relays \ {r} :
                /\ batch'[q] = batch[q] /\ tickNow'[q] = tickNow[q]
                /\ attempts'[q] = attempts[q] /\ pc'[q] = pc[q]
BY DEF TypeOK, EndTick

\* A loop that goes on drops the event it is done with and nothing else.
LEMMA ContinueEffect ==
    ASSUME NEW r \in Relays, NEW e \in Events, TypeOK, Continue(r, e)
    PROVE  /\ pc'[r] \in {"idle", "publish"}
           /\ pc'[r] = "idle" => batch'[r] = {}
           /\ \A f \in batch'[r] : /\ f \in batch[r] /\ f # e
                                   /\ tickNow'[r] = tickNow[r] /\ attempts'[r] = attempts[r]
           /\ \A q \in Relays \ {r} :
                /\ batch'[q] = batch[q] /\ tickNow'[q] = tickNow[q]
                /\ attempts'[q] = attempts[q] /\ pc'[q] = pc[q]
<1>1. CASE batch[r] = {e}
  BY <1>1, EndTickEffect DEF Continue
<1>2. CASE batch[r] # {e}
  BY <1>2 DEF Continue, TypeOK
<1> QED
  BY <1>1, <1>2

\* Steps that drop events from batches and leave the rest of the relays' state
\* and the rows of the events still held alone keep the lease invariant.
LEMMA LeaseInvFrame ==
    ASSUME TypeOK, LeaseInv,
           \A q \in Relays : pc'[q] \in {"idle", "ticking"} => batch'[q] = {},
           \A q \in Relays : \A f \in batch'[q] :
               /\ f \in batch[q] /\ row'[f] = row[f]
               /\ tickNow'[q] = tickNow[q] /\ attempts'[q][f] = attempts[q][f]
    PROVE  LeaseInv'
<1>1. TokenInv'
  BY DEF LeaseInv, TokenInv, HoldsLease
<1>2. LeaseExclusive'
  <2> SUFFICES ASSUME NEW p \in Relays, NEW q \in Relays, NEW f \in batch'[p], f \in batch'[q],
                      row'[f].status = "leased",
                      row'[f].lockedAt = tickNow'[p], row'[f].lockedAt = tickNow'[q]
               PROVE  p = q
    BY DEF LeaseExclusive, HoldsLease
  <2>1. f \in batch[p] \cap batch[q]
    OBVIOUS
  <2>2. HoldsLease(p, f) /\ HoldsLease(q, f)
    BY DEF HoldsLease
  <2> QED
    BY <2>1, <2>2 DEF LeaseInv, LeaseExclusive
<1> QED
  BY <1>1, <1>2 DEF LeaseInv

\* A tick that dies keeps the lease invariant.
LEMMA LeaseInvEndTick ==
    ASSUME TypeOK, LeaseInv, NEW r \in Relays, EndTick(r), UNCHANGED row
    PROVE  LeaseInv'
<1>1. \A q \in Relays : pc'[q] \in {"idle", "ticking"} => batch'[q] = {}
  BY EndTickEffect DEF LeaseInv
<1>2. \A q \in Relays : \A f \in batch'[q] :
        /\ f \in batch[q] /\ row'[f] = row[f]
        /\ tickNow'[q] = tickNow[q] /\ attempts'[q][f] = attempts[q][f]
  BY EndTickEffect
<1> QED
  BY <1>1, <1>2, LeaseInvFrame

\* Settling an event under its lease keeps the lease invariant, provided the row
\* is settled for good or released beyond the settling tick's own token.
LEMMA LeaseInvSettle ==
    ASSUME TypeOK, TypeOK', LeaseInv, NEW r \in Relays, NEW e \in Events,
           Current(r, e), HoldsLease(r, e), Continue(r, e),
           pc[r] \notin {"idle", "ticking"},
           \A f \in Events \ {e} : row'[f] = row[f],
           row'[e].status \in {"pending", "dispatched", "failed"},
           row'[e].status = "pending" => row'[e].availableAt > tickNow[r]
    PROVE  LeaseInv'
<1>1. \A q \in Relays : pc'[q] \in {"idle", "ticking"} => batch'[q] = {}
  BY ContinueEffect DEF LeaseInv
<1>2. \A q \in Relays : \A f \in batch'[q] :
        /\ f \in batch[q] /\ f \in Events
        /\ tickNow'[q] = tickNow[q] /\ attempts'[q][f] = attempts[q][f]
  BY ContinueEffect DEF TypeOK
<1>3. \A q \in Relays : e \in batch'[q] => tickNow[q] <= tickNow[r]
  BY <1>2 DEF LeaseInv, TokenInv, HoldsLease
<1>4. tickNow \in [Relays -> Nat]
  BY DEF TypeOK
<1>5. TokenInv'
  <2> SUFFICES ASSUME NEW q \in Relays, NEW f \in batch'[q]
               PROVE  /\ row'[f].status # "none"
                      /\ attempts'[q][f] >= 1
                      /\ row'[f].status = "leased" => row'[f].lockedAt >= tickNow'[q]
                      /\ row'[f].status = "pending" => row'[f].availableAt > tickNow'[q]
                      /\ (row'[f].status = "leased" /\ row'[f].lockedAt = tickNow'[q])
                           => attempts'[q][f] = row'[f].attempts
    BY DEF TokenInv, HoldsLease
  <2>1. CASE f = e
    <3>1. row'[e].status = "pending" => row'[e].availableAt > tickNow[q]
      <4>1. row'[e].status = "pending" => row'[e].availableAt > tickNow[r]
        OBVIOUS
      <4>2. tickNow[q] <= tickNow[r] /\ tickNow[q] \in Nat /\ tickNow[r] \in Nat
        BY <1>3, <1>4, <2>1
      <4>3. row'[e].availableAt \in Nat
        BY DEF TypeOK, Row
      <4> QED
        BY <4>1, <4>2, <4>3
    <3> QED
      BY <1>2, <2>1, <3>1 DEF LeaseInv, TokenInv
  <2>2. CASE f # e
    BY <1>2, <2>2 DEF LeaseInv, TokenInv, HoldsLease
  <2> QED
    BY <2>1, <2>2
<1>6. LeaseExclusive'
  <2> SUFFICES ASSUME NEW p \in Relays, NEW q \in Relays, NEW f \in batch'[p], f \in batch'[q],
                      row'[f].status = "leased",
                      row'[f].lockedAt = tickNow'[p], row'[f].lockedAt = tickNow'[q]
               PROVE  p = q
    BY DEF LeaseExclusive, HoldsLease
  <2>1. f # e /\ f \in Events
    BY <1>2
  <2>2. f \in batch[p] \cap batch[q]
    BY <1>2
  <2>3. HoldsLease(p, f) /\ HoldsLease(q, f)
    BY <1>2, <2>1 DEF HoldsLease
  <2> QED
    BY <2>2, <2>3 DEF LeaseInv, LeaseExclusive
<1> QED
  BY <1>1, <1>5, <1>6 DEF LeaseInv

\* A lease transaction takes only rows whose older tokens it outdates.
LEMMA LeaseInvLease ==
    ASSUME TypeOK, LeaseInv, NEW r \in Relays, Lease(r)
    PROVE  LeaseInv'
<1> DEFINE events == FirstDue(tickNow[r])
<1>1. CASE events = {}
  BY <1>1, LeaseInvEndTick DEF Lease
<1>2. CASE events # {}
  <2>1. events \subseteq Events /\ \A e \in events : Due(e, tickNow[r])
    BY DEF FirstDue
  <2>2. /\ row' = [e \in Events |->
                     IF e \in events
                     THEN [row[e] EXCEPT !.status = "leased", !.lockedAt = tickNow[r],
                                         !.attempts = @ + 1]
                     ELSE row[e]]
        /\ attempts' = [attempts EXCEPT ![r] =
                          [e \in Events |->
                             IF e \in events THEN row[e].attempts + 1 ELSE 0]]
        /\ batch' = [batch EXCEPT ![r] = events]
        /\ pc' = [pc EXCEPT ![r] = "publish"]
        /\ UNCHANGED tickNow
    BY <1>2 DEF Lease
  <2> HIDE DEF events
  <2>3. \A e \in Events : row[e] \in Row /\ row[e].attempts \in Nat
    BY DEF TypeOK, Row
  <2>4. \A e \in events : /\ row'[e].status = "leased"
                          /\ row'[e].lockedAt = tickNow[r]
                          /\ row'[e].attempts = row[e].attempts + 1
                          /\ attempts'[r][e] = row[e].attempts + 1
    BY <2>1, <2>2, <2>3 DEF TypeOK, Row
  <2>5. /\ batch'[r] = events
        /\ \A q \in Relays \ {r} : batch'[q] = batch[q] /\ attempts'[q] = attempts[q]
        /\ \A q \in Relays : batch'[q] \subseteq Events
    BY <2>1, <2>2 DEF TypeOK
  <2>6. \A e \in Events \ events : row'[e] = row[e]
    BY <2>2
  <2>7. \A q \in Relays \ {r} : \A e \in batch[q] \cap events : tickNow[r] > tickNow[q]
    <3> SUFFICES ASSUME NEW q \in Relays, NEW e \in batch[q], e \in events
                 PROVE  tickNow[r] > tickNow[q]
      OBVIOUS
    <3>1. /\ tickNow[r] \in Nat /\ tickNow[q] \in Nat /\ LeasePeriod \in Nat
          /\ row[e].availableAt \in Nat /\ row[e].lockedAt \in Nat \cup {Null}
      BY <2>1, BoundsAssumption DEF TypeOK, Row
    <3>2. /\ row[e].status = "leased" => row[e].lockedAt >= tickNow[q]
          /\ row[e].status = "pending" => row[e].availableAt > tickNow[q]
      BY DEF LeaseInv, TokenInv
    <3>3. /\ row[e].availableAt <= tickNow[r]
          /\ \/ row[e].status = "pending"
             \/ row[e].status = "leased" /\ row[e].lockedAt < tickNow[r] - LeasePeriod
      BY <2>1 DEF Due
    <3> QED
      BY <3>1, <3>2, <3>3 DEF Null
  <2>8. \A q \in Relays : tickNow[q] \in Nat
    BY DEF TypeOK
  <2>9. TokenInv'
    <3> SUFFICES ASSUME NEW q \in Relays, NEW f \in batch'[q]
                 PROVE  /\ row'[f].status # "none"
                        /\ attempts'[q][f] >= 1
                        /\ row'[f].status = "leased" => row'[f].lockedAt >= tickNow[q]
                        /\ row'[f].status = "pending" => row'[f].availableAt > tickNow[q]
                        /\ (row'[f].status = "leased" /\ row'[f].lockedAt = tickNow[q])
                             => attempts'[q][f] = row'[f].attempts
      <4>1. tickNow' = tickNow
        BY <2>2
      <4> QED
        BY <4>1 DEF TokenInv, HoldsLease
    <3>1. CASE q = r
      BY <2>1, <2>3, <2>4, <2>5, <2>8, <3>1
    <3>2. CASE q # r /\ f \in events
      BY <2>4, <2>5, <2>7, <2>8, <3>2 DEF LeaseInv, TokenInv
    <3>3. CASE q # r /\ f \notin events
      BY <2>5, <2>6, <3>3 DEF LeaseInv, TokenInv, HoldsLease
    <3> QED
      BY <3>1, <3>2, <3>3
  <2>10. LeaseExclusive'
    <3> SUFFICES ASSUME NEW p \in Relays, NEW q \in Relays, NEW f \in batch'[p], f \in batch'[q],
                        row'[f].status = "leased",
                        row'[f].lockedAt = tickNow[p], row'[f].lockedAt = tickNow[q],
                        p # q
                 PROVE  FALSE
      BY <2>2 DEF LeaseExclusive, HoldsLease
    <3>1. CASE f \in events
      <4>1. tickNow[p] = tickNow[r] /\ tickNow[q] = tickNow[r]
        BY <2>4, <3>1
      <4>2. p = r \/ tickNow[r] > tickNow[p]
        BY <2>5, <2>7, <3>1
      <4>3. q = r \/ tickNow[r] > tickNow[q]
        BY <2>5, <2>7, <3>1
      <4> QED
        BY <2>8, <4>1, <4>2, <4>3
    <3>2. CASE f \notin events
      <4>1. p # r /\ q # r /\ f \in Events
        BY <2>5, <3>2
      <4>2. f \in batch[p] \cap batch[q]
        BY <2>5, <4>1
      <4>3. HoldsLease(p, f) /\ HoldsLease(q, f)
        BY <2>6, <3>2, <4>1 DEF HoldsLease
      <4> QED
        BY <4>2, <4>3 DEF LeaseInv, LeaseExclusive
    <3> QED
      BY <3>1, <3>2
  <2>11. \A q \in Relays : pc'[q] \in {"idle", "ticking"} => batch'[q] = {}
    BY <2>2 DEF LeaseInv, TypeOK
  <2> QED
    BY <2>9, <2>10, <2>11 DEF LeaseInv
<1> QED
  BY <1>1, <1>2

\* No step of any relay, writer or the clock breaks the lease invariant.
LEMMA LeaseInvStep == TypeOK /\ TypeOK' /\ LeaseInv /\ [Next]_vars => LeaseInv'
<1> SUFFICES ASSUME TypeOK, TypeOK', LeaseInv, [Next]_vars PROVE LeaseInv'
  OBVIOUS
<1>1. CASE TimePasses \/ UNCHANGED vars
  <2>1. UNCHANGED <<row, pc, tickNow, batch, attempts>>
    BY <1>1 DEF TimePasses, relayVars, vars
  <2> QED
    BY <2>1, LeaseInvFrame DEF LeaseInv
<1>2. ASSUME NEW e \in Events, Write(e) PROVE LeaseInv'
  <2>1. UNCHANGED <<pc, tickNow, batch, attempts>> /\ \A f \in Events \ {e} : row'[f] = row[f]
    BY <1>2 DEF Write, relayVars, TypeOK
  <2>2. \A q \in Relays : e \notin batch[q]
    BY <1>2 DEF Write, LeaseInv, TokenInv
  <2>3. \A q \in Relays : batch[q] \subseteq Events
    BY DEF TypeOK
  <2> QED
    BY <2>1, <2>2, <2>3, LeaseInvFrame DEF LeaseInv
<1>3. ASSUME NEW r \in Relays, BeginTick(r) PROVE LeaseInv'
  <2>1. batch[r] = {} /\ UNCHANGED <<row, batch, attempts>>
    BY <1>3 DEF BeginTick, LeaseInv
  <2>2. \A q \in Relays \ {r} : tickNow'[q] = tickNow[q] /\ pc'[q] = pc[q]
    BY <1>3 DEF BeginTick, TypeOK
  <2> QED
    BY <2>1, <2>2, LeaseInvFrame DEF LeaseInv
<1>4. ASSUME NEW r \in Relays, Lease(r) PROVE LeaseInv'
  BY <1>4, LeaseInvLease
<1>5. ASSUME NEW r \in Relays, NEW e \in Events,
             PublishFails(r) \/ PublishNotice(r, e) \/ PublishAudit(r, e) PROVE LeaseInv'
  <2>1. /\ UNCHANGED <<row, tickNow, batch, attempts>>
        /\ pc'[r] \notin {"idle", "ticking"}
        /\ \A q \in Relays \ {r} : pc'[q] = pc[q]
    BY <1>5 DEF PublishFails, PublishNotice, PublishAudit, TypeOK
  <2> QED
    BY <2>1, LeaseInvFrame DEF LeaseInv
<1>6. ASSUME NEW r \in Relays, NEW e \in Events, markDispatched(r, e) PROVE LeaseInv'
  <2>1. CASE HoldsLease(r, e)
    <3>1. /\ \A f \in Events \ {e} : row'[f] = row[f]
          /\ row'[e].status = "dispatched"
      <4>1. row' = [row EXCEPT ![e] = [@ EXCEPT !.status = "dispatched", !.lockedAt = Null]]
        BY <1>6, <2>1 DEF markDispatched
      <4>2. row \in [Events -> Row]
        BY DEF TypeOK
      <4>3. row'[e] = [row[e] EXCEPT !.status = "dispatched", !.lockedAt = Null]
        BY <4>1, <4>2
      <4> QED
        BY <4>1, <4>2, <4>3 DEF Row
    <3> QED
      BY <1>6, <2>1, <3>1, LeaseInvSettle DEF markDispatched
  <2>2. CASE ~HoldsLease(r, e)
    BY <1>6, <2>2, LeaseInvEndTick DEF markDispatched
  <2> QED
    BY <2>1, <2>2
<1>7. ASSUME NEW r \in Relays, NEW e \in Events, release(r, e) PROVE LeaseInv'
  <2>1. CASE HoldsLease(r, e)
    <3>1. attempts[r][e] >= 1 /\ attempts[r][e] \in Nat /\ tickNow[r] \in Nat
      BY <1>7 DEF release, Current, LeaseInv, TokenInv, TypeOK
    <3>2. /\ \A f \in Events \ {e} : row'[f] = row[f]
          /\ row'[e].status \in {"failed", "pending"}
          /\ row'[e].status = "pending" => row'[e].availableAt = tickNow[r] + attempts[r][e]
      <4> DEFINE s == IF attempts[r][e] >= MaxAttempts THEN "failed" ELSE "pending"
                 a == IF attempts[r][e] >= MaxAttempts THEN tickNow[r]
                      ELSE tickNow[r] + attempts[r][e]
                 new == [row[e] EXCEPT !.status = s, !.lockedAt = Null, !.availableAt = a]
      <4>1. row' = [row EXCEPT ![e] = new]
        BY <1>7, <2>1 DEF release, Exhausted, RetryAt
      <4>2. row \in [Events -> Row]
        BY DEF TypeOK
      <4>3. row'[e] = new /\ \A f \in Events \ {e} : row'[f] = row[f]
        BY <4>1, <4>2
      <4>4. new.status = s /\ new.availableAt = a
        BY <4>2 DEF Row
      <4> QED
        BY <4>3, <4>4
    <3> QED
      BY <1>7, <2>1, <3>1, <3>2, LeaseInvSettle DEF release
  <2>2. CASE ~HoldsLease(r, e)
    BY <1>7, <2>2, LeaseInvEndTick DEF release
  <2> QED
    BY <2>1, <2>2
<1>8. ASSUME NEW r \in Relays, Abandon(r) PROVE LeaseInv'
  BY <1>8, LeaseInvEndTick DEF Abandon
<1>9. ASSUME NEW r \in Relays, RelayStep(r) PROVE LeaseInv'
  <2>1. CASE PublishFails(r)
    <3>1. CASE Events = {}
      BY <2>1, <3>1 DEF PublishFails, LeaseInv, TokenInv, LeaseExclusive, TypeOK
    <3>2. CASE Events # {}
      BY <1>5, <2>1, <3>2
    <3> QED
      BY <3>1, <3>2
  <2> QED
    BY <1>3, <1>4, <1>5, <1>6, <1>7, <1>9, <2>1 DEF RelayStep
<1> QED
  BY <1>1, <1>2, <1>8, <1>9 DEF Next

\* The lease token is exclusive: no two relays can settle the same event.
THEOREM LeasesExclusive == Spec => []LeaseExclusive
<1>1. Init => LeaseInv
  BY DEF Init, LeaseInv, TokenInv, LeaseExclusive
<1>2. LeaseInv => LeaseExclusive
  BY DEF LeaseInv
<1> QED
  BY <1>1, <1>2, TypeCorrect, LeaseInvStep, PTL DEF Spec

-----------------------------------------------------------------------------
\* What the two settling updates do to the rows.
LEMMA MarkEffect ==
    ASSUME TypeOK, NEW r \in Relays, NEW e \in Events, markDispatched(r, e)
    PROVE  /\ \A f \in Events \ {e} : row'[f] = row[f]
           /\ ~HoldsLease(r, e) => row'[e] = row[e]
           /\ HoldsLease(r, e) => row'[e].status = "dispatched"
<1>1. row \in [Events -> Row]
  BY DEF TypeOK
<1>2. CASE HoldsLease(r, e)
  <2>1. row' = [row EXCEPT ![e] = [@ EXCEPT !.status = "dispatched", !.lockedAt = Null]]
    BY <1>2 DEF markDispatched
  <2>2. row'[e] = [row[e] EXCEPT !.status = "dispatched", !.lockedAt = Null]
    BY <1>1, <2>1
  <2> QED
    BY <1>1, <1>2, <2>1, <2>2 DEF Row
<1>3. CASE ~HoldsLease(r, e)
  BY <1>3 DEF markDispatched
<1> QED
  BY <1>2, <1>3

\* release: failed when the attempts are used up, else pending again.
LEMMA ReleaseEffect ==
    ASSUME TypeOK, NEW r \in Relays, NEW e \in Events, release(r, e)
    PROVE  /\ \A f \in Events \ {e} : row'[f] = row[f]
           /\ ~HoldsLease(r, e) => row'[e] = row[e]
           /\ HoldsLease(r, e) =>
                /\ row'[e].status = IF attempts[r][e] >= MaxAttempts THEN "failed" ELSE "pending"
                /\ row'[e].attempts = row[e].attempts
<1>1. row \in [Events -> Row]
  BY DEF TypeOK
<1>2. CASE HoldsLease(r, e)
  <2> DEFINE s == IF attempts[r][e] >= MaxAttempts THEN "failed" ELSE "pending"
             a == IF attempts[r][e] >= MaxAttempts THEN tickNow[r]
                  ELSE tickNow[r] + attempts[r][e]
             new == [row[e] EXCEPT !.status = s, !.lockedAt = Null, !.availableAt = a]
  <2>1. row' = [row EXCEPT ![e] = new]
    BY <1>2 DEF release, Exhausted, RetryAt
  <2>2. row'[e] = new /\ \A f \in Events \ {e} : row'[f] = row[f]
    BY <1>1, <2>1
  <2>3. new.status = s /\ new.attempts = row[e].attempts
    BY <1>1 DEF Row
  <2> QED
    BY <1>2, <2>2, <2>3
<1>3. CASE ~HoldsLease(r, e)
  BY <1>3 DEF release
<1> QED
  BY <1>2, <1>3

\* What the lease transaction does to the rows.
LEMMA LeaseEffect ==
    ASSUME TypeOK, NEW r \in Relays, Lease(r), NEW e \in Events
    PROVE  \/ row'[e] = row[e]
           \/ row[e].status \in {"pending", "leased"} /\ row'[e].status = "leased"
<1> DEFINE events == FirstDue(tickNow[r])
<1>1. \A f \in events : Due(f, tickNow[r])
  BY DEF FirstDue
<1>2. CASE events = {}
  BY <1>2 DEF Lease
<1>3. CASE events # {}
  <2>1. row' = [f \in Events |->
                  IF f \in events
                  THEN [row[f] EXCEPT !.status = "leased", !.lockedAt = tickNow[r],
                                      !.attempts = @ + 1]
                  ELSE row[f]]
    BY <1>3 DEF Lease
  <2> HIDE DEF events
  <2>2. row[e] \in Row
    BY DEF TypeOK
  <2>3. e \in events => row'[e].status = "leased"
    BY <2>1, <2>2 DEF Row
  <2>4. e \in events => row[e].status \in {"pending", "leased"}
    BY <1>1 DEF Due
  <2> QED
    BY <2>1, <2>3, <2>4
<1> QED
  BY <1>2, <1>3

\* How one step may change the row of one event.
LEMMA RowStep ==
    ASSUME TypeOK, [Next]_vars, NEW e \in Events
    PROVE  \/ row'[e] = row[e]
           \/ Write(e) /\ row[e].status = "none" /\ row'[e].status = "pending"
           \/ row[e].status \in {"pending", "leased"} /\ row'[e].status = "leased"
           \/ \E r \in Relays : /\ markDispatched(r, e) /\ HoldsLease(r, e)
                                /\ row'[e].status = "dispatched"
           \/ \E r \in Relays : /\ release(r, e) /\ HoldsLease(r, e)
                                /\ row'[e].status = IF attempts[r][e] >= MaxAttempts
                                                    THEN "failed" ELSE "pending"
                                /\ row'[e].attempts = row[e].attempts
<1>1. CASE TimePasses \/ UNCHANGED vars
  BY <1>1 DEF TimePasses, vars
<1>2. ASSUME NEW f \in Events, Write(f)
      PROVE  \/ row'[e] = row[e]
             \/ Write(e) /\ row[e].status = "none" /\ row'[e].status = "pending"
  <2>1. row \in [Events -> Row]
    BY DEF TypeOK
  <2>2. row'[f] = [row[f] EXCEPT !.status = "pending", !.availableAt = clock]
    BY <1>2, <2>1 DEF Write
  <2>3. row'[f].status = "pending"
    BY <2>1, <2>2 DEF Row
  <2>4. e # f => row'[e] = row[e]
    BY <1>2, <2>1 DEF Write
  <2> QED
    BY <1>2, <2>3, <2>4 DEF Write
<1>3. ASSUME NEW r \in Relays, BeginTick(r) \/ PublishFails(r) \/ Abandon(r)
      PROVE  row'[e] = row[e]
  BY <1>3 DEF BeginTick, PublishFails, Abandon
<1>4. ASSUME NEW r \in Relays, NEW f \in Events, PublishNotice(r, f) \/ PublishAudit(r, f)
      PROVE  row'[e] = row[e]
  BY <1>4 DEF PublishNotice, PublishAudit
<1>5. ASSUME NEW r \in Relays, Lease(r)
      PROVE  \/ row'[e] = row[e]
             \/ row[e].status \in {"pending", "leased"} /\ row'[e].status = "leased"
  BY <1>5, LeaseEffect
<1>6. ASSUME NEW r \in Relays, NEW f \in Events, markDispatched(r, f)
      PROVE  \/ row'[e] = row[e]
             \/ markDispatched(r, e) /\ HoldsLease(r, e) /\ row'[e].status = "dispatched"
  BY <1>6, MarkEffect
<1>7. ASSUME NEW r \in Relays, NEW f \in Events, release(r, f)
      PROVE  \/ row'[e] = row[e]
             \/ /\ release(r, e) /\ HoldsLease(r, e)
                /\ row'[e].status = IF attempts[r][e] >= MaxAttempts THEN "failed" ELSE "pending"
                /\ row'[e].attempts = row[e].attempts
  BY <1>7, ReleaseEffect
<1> QED
  BY <1>1, <1>2, <1>3, <1>4, <1>5, <1>6, <1>7 DEF Next, RelayStep

\* Dispatched and failed rows never change again.
THEOREM SettledStaysFinal == Spec => SettledIsFinal
<1>1. TypeOK /\ [Next]_vars =>
        [\A e \in Events :
           row[e].status \in {"dispatched", "failed"} => row'[e] = row[e]]_vars
  <2> SUFFICES ASSUME TypeOK, [Next]_vars, NEW e \in Events,
                      row[e].status \in {"dispatched", "failed"}
               PROVE  row'[e] = row[e]
    OBVIOUS
  <2> QED
    BY RowStep DEF HoldsLease
<1> QED
  BY <1>1, TypeCorrect, PTL DEF Spec, SettledIsFinal

\* Events are given up only after maxAttempts leases.
THEOREM FailedAreExhausted == Spec => []FailedIsExhausted
<1>1. Init => LeaseInv /\ FailedIsExhausted
  BY DEF Init, LeaseInv, TokenInv, LeaseExclusive, FailedIsExhausted
<1>2. TypeOK /\ TypeOK' /\ LeaseInv /\ FailedIsExhausted /\ [Next]_vars => FailedIsExhausted'
  <2> SUFFICES ASSUME TypeOK, TypeOK', LeaseInv, FailedIsExhausted, [Next]_vars,
                      NEW e \in Events, row'[e].status = "failed"
               PROVE  row'[e].attempts >= MaxAttempts
    BY DEF FailedIsExhausted
  <2>1. CASE row'[e] = row[e]
    BY <2>1 DEF FailedIsExhausted
  <2>2. ASSUME NEW r \in Relays, release(r, e), HoldsLease(r, e),
               attempts[r][e] >= MaxAttempts, row'[e].attempts = row[e].attempts
        PROVE  row'[e].attempts >= MaxAttempts
    <3>1. attempts[r][e] = row[e].attempts
      BY <2>2 DEF release, Current, LeaseInv, TokenInv
    <3> QED
      BY <2>2, <3>1
  <2> QED
    BY <2>1, <2>2, RowStep
<1> QED
  BY <1>1, <1>2, TypeCorrect, LeaseInvStep, PTL DEF Spec

-----------------------------------------------------------------------------
\* The count by itself; ChainInv says what the one notice holds.
AtMostOne == \A e \in Events : notice[e] <= 1

\* What the publisher chain guarantees, as one inductive invariant.
DeliveryInv == ChainInv /\ DispatchedIsDelivered /\ AtMostOne

\* The loop only ever stands at an event it leased, and the settling updates
\* and the end of a tick leave the subscribers' part of the chain.
LEMMA DeliveryFrame ==
    ASSUME TypeOK, TypeOK', DeliveryInv, UNCHANGED noticeVars,
           \A r \in Relays : \/ pc'[r] \notin {"audit", "mark"}
                             \/ pc'[r] = pc[r] /\ batch'[r] = batch[r],
           \A e \in Events : row'[e].status = "dispatched" =>
               \/ row[e].status = "dispatched"
               \/ e \in audited
    PROVE  DeliveryInv'
<1>1. notice' = notice /\ inbox' = inbox /\ audited' = audited
  BY DEF noticeVars
<1>2. ChainInv'
  <2>1. \A r \in Relays, e \in Events : Current(r, e)' =>
          /\ pc'[r] \in {"audit", "mark"} /\ e \in NoticeEvents => notice[e] > 0
          /\ pc'[r] = "mark" => e \in audited
    BY DEF DeliveryInv, ChainInv, Current
  <2> QED
    BY <1>1, <2>1 DEF DeliveryInv, ChainInv
<1>3. DispatchedIsDelivered'
  BY <1>1 DEF DeliveryInv, ChainInv, DispatchedIsDelivered
<1>4. AtMostOne'
  BY <1>1 DEF DeliveryInv, AtMostOne
<1> QED
  BY <1>2, <1>3, <1>4 DEF DeliveryInv

\* No step of any relay, writer or the clock breaks the delivery invariant.
LEMMA DeliveryStep ==
    TypeOK /\ TypeOK' /\ DeliveryInv /\ [Next]_vars => DeliveryInv'
<1> SUFFICES ASSUME TypeOK, TypeOK', DeliveryInv, [Next]_vars PROVE DeliveryInv'
  OBVIOUS
<1> DEFINE Frame == \A r \in Relays : \/ pc'[r] \notin {"audit", "mark"}
                                      \/ pc'[r] = pc[r] /\ batch'[r] = batch[r]
<1>1. ASSUME NEW e \in Events, row'[e].status = "dispatched"
      PROVE  row[e].status = "dispatched" \/ e \in audited
  <2>1. CASE row'[e] = row[e]
    BY <1>1, <2>1
  <2>2. ASSUME NEW r \in Relays, markDispatched(r, e) PROVE e \in audited
    BY <2>2 DEF markDispatched, DeliveryInv, ChainInv
  <2> QED
    BY <1>1, <2>1, <2>2, RowStep
<1>2. CASE Frame /\ UNCHANGED noticeVars
  BY <1>1, <1>2, DeliveryFrame
<1>3. CASE TimePasses \/ UNCHANGED vars \/ \E e \in Events : Write(e)
  BY <1>2, <1>3 DEF TimePasses, Write, vars, relayVars, noticeVars
<1>4. ASSUME NEW r \in Relays, BeginTick(r) \/ PublishFails(r) PROVE DeliveryInv'
  <2>1. Frame
    BY <1>4 DEF BeginTick, PublishFails, TypeOK
  <2> QED
    BY <1>2, <1>4, <2>1 DEF BeginTick, PublishFails
<1>5. ASSUME NEW r \in Relays, Lease(r) PROVE DeliveryInv'
  <2>1. Frame
    BY <1>5, EndTickEffect DEF Lease, TypeOK
  <2> QED
    BY <1>2, <1>5, <2>1 DEF Lease
<1>6. ASSUME NEW r \in Relays, Abandon(r) PROVE DeliveryInv'
  <2>1. Frame
    BY <1>6, EndTickEffect DEF Abandon
  <2> QED
    BY <1>2, <1>6, <2>1 DEF Abandon
<1>7. ASSUME NEW r \in Relays, NEW e \in Events, markDispatched(r, e) \/ release(r, e)
      PROVE  DeliveryInv'
  <2>1. Frame
    BY <1>7, EndTickEffect, ContinueEffect DEF markDispatched, release
  <2> QED
    BY <1>2, <1>7, <2>1 DEF markDispatched, release
<1>8. ASSUME NEW r \in Relays, NEW e \in Events, PublishNotice(r, e) PROVE DeliveryInv'
  <2>1. /\ UNCHANGED <<row, audited, batch>>
        /\ pc' = [pc EXCEPT ![r] = "audit"]
        /\ Current(r, e)
    BY <1>8 DEF PublishNotice
  <2>2. \A f \in Events \ {e} : notice'[f] = notice[f] /\ inbox'[f] = inbox[f]
    BY <1>8 DEF PublishNotice, TypeOK
  <2>3. /\ e \in NoticeEvents => notice'[e] > 0
        /\ notice'[e] > 0 => e \in NoticeEvents /\ inbox'[e] = Recipients(e)
        /\ notice'[e] <= 1
    <3>1. notice[e] \in Nat /\ notice[e] <= 1
      BY DEF TypeOK, DeliveryInv, AtMostOne
    <3>2. notice[e] > 0 => e \in NoticeEvents /\ inbox[e] = Recipients(e)
      BY DEF DeliveryInv, ChainInv
    <3>3. CASE NoNotice(e) \/ notice[e] > 0
      <4>1. notice' = notice /\ inbox' = inbox
        BY <1>8, <3>3 DEF PublishNotice
      <4> QED
        BY <3>1, <3>2, <3>3, <4>1 DEF NoticeEvents
    <3>4. CASE ~(NoNotice(e) \/ notice[e] > 0)
      <4>1. notice'[e] = notice[e] + 1 /\ inbox'[e] = Recipients(e)
        BY <1>8, <3>4 DEF PublishNotice, TypeOK
      <4> QED
        BY <3>1, <3>4, <4>1 DEF NoticeEvents
    <3> QED
      BY <3>3, <3>4
  <2>4. \A f \in Events : notice[f] > 0 => notice'[f] > 0
    BY <2>2, <2>3 DEF DeliveryInv, ChainInv
  <2>5. ChainInv'
    <3>1. \A f \in Events : notice'[f] > 0 => f \in NoticeEvents /\ inbox'[f] = Recipients(f)
      BY <2>2, <2>3 DEF DeliveryInv, ChainInv
    <3>2. \A f \in audited' : f \in NoticeEvents => notice'[f] > 0
      BY <2>1, <2>4 DEF DeliveryInv, ChainInv, TypeOK
    <3>3. ASSUME NEW q \in Relays, NEW f \in Events, Current(q, f)'
          PROVE  /\ pc'[q] \in {"audit", "mark"} /\ f \in NoticeEvents => notice'[f] > 0
                 /\ pc'[q] = "mark" => f \in audited
      <4>1. Current(q, f)
        BY <2>1, <3>3 DEF Current
      <4>2. CASE q = r
        <5>1. f = e
          BY <2>1, <4>1, <4>2, EventsAssumption DEF Current
        <5>2. pc'[q] = "audit"
          BY <2>1, <4>2 DEF TypeOK
        <5> QED
          BY <2>3, <5>1, <5>2
      <4>3. CASE q # r
        <5>1. pc'[q] = pc[q]
          BY <2>1, <4>3 DEF TypeOK
        <5> QED
          BY <2>4, <4>1, <5>1 DEF DeliveryInv, ChainInv
      <4> QED
        BY <4>2, <4>3
    <3> QED
      BY <2>1, <3>1, <3>2, <3>3 DEF ChainInv
  <2>6. DispatchedIsDelivered'
    BY <2>1, <2>2, <2>3, <2>4 DEF DeliveryInv, DispatchedIsDelivered
  <2>7. AtMostOne'
    BY <2>2, <2>3 DEF DeliveryInv, AtMostOne
  <2> QED
    BY <2>5, <2>6, <2>7 DEF DeliveryInv
<1>9. ASSUME NEW r \in Relays, NEW e \in Events, PublishAudit(r, e) PROVE DeliveryInv'
  <2>1. /\ UNCHANGED <<row, notice, inbox, batch>>
        /\ pc[r] = "audit"
        /\ pc' = [pc EXCEPT ![r] = "mark"]
        /\ Current(r, e)
        /\ audited' = audited \cup {e}
    BY <1>9 DEF PublishAudit
  <2>2. e \in NoticeEvents => notice[e] > 0
    BY <2>1 DEF DeliveryInv, ChainInv
  <2>3. ASSUME NEW q \in Relays, NEW f \in Events, Current(q, f)'
        PROVE  /\ pc'[q] \in {"audit", "mark"} /\ f \in NoticeEvents => notice'[f] > 0
               /\ pc'[q] = "mark" => f \in audited'
    <3>1. Current(q, f)
      BY <2>1, <2>3 DEF Current
    <3>2. CASE q = r
      <4>1. f = e
        BY <2>1, <3>1, <3>2, EventsAssumption DEF Current
      <4> QED
        BY <2>1, <2>2, <4>1
    <3>3. CASE q # r
      <4>1. pc'[q] = pc[q]
        BY <2>1, <3>3 DEF TypeOK
      <4> QED
        BY <2>1, <3>1, <4>1 DEF DeliveryInv, ChainInv
    <3> QED
      BY <3>2, <3>3
  <2>4. ChainInv'
    BY <2>1, <2>2, <2>3 DEF DeliveryInv, ChainInv
  <2>5. DispatchedIsDelivered' /\ AtMostOne'
    BY <2>1 DEF DeliveryInv, DispatchedIsDelivered, AtMostOne
  <2> QED
    BY <2>4, <2>5 DEF DeliveryInv
<1> QED
  BY <1>3, <1>4, <1>5, <1>6, <1>7, <1>8, <1>9 DEF Next, RelayStep

\* The subscribers' part of the chain, in every reachable state.
LEMMA DeliveryAlways == Spec => []DeliveryInv
<1>1. Init => DeliveryInv
  <2>1. Init => ChainInv
    BY DEF Init, ChainInv, Current
  <2>2. Init => DispatchedIsDelivered /\ AtMostOne
    BY DEF Init, DispatchedIsDelivered, AtMostOne
  <2> QED
    BY <2>1, <2>2 DEF DeliveryInv
<1> QED
  BY <1>1, TypeCorrect, DeliveryStep, PTL DEF Spec

\* Every dispatched event has reached every subscriber.
THEOREM DispatchedAreDelivered == Spec => []DispatchedIsDelivered
<1>1. DeliveryInv => DispatchedIsDelivered
  BY DEF DeliveryInv
<1> QED
  BY <1>1, DeliveryAlways, PTL

\* No event ever makes a second notice, and the one it makes stands in the
\* inboxes of exactly the recipients of its payload.
THEOREM NoticesOnce == Spec => []NoticeOnce
<1>1. DeliveryInv => NoticeOnce
  BY DEF DeliveryInv, ChainInv, AtMostOne, NoticeOnce
<1> QED
  BY <1>1, DeliveryAlways, PTL

-----------------------------------------------------------------------------
\* The step of one relay, seen through the refinement mapping.
LEMMA AbsStateFrame ==
    ASSUME \A e \in Events : \/ row'[e] = row[e]
                             \/ /\ row[e].status \in {"pending", "leased"}
                                /\ row'[e].status \in {"pending", "leased"}
    PROVE  AbsState' = AbsState
BY DEF AbsState

\* Queueing or settling one event is one step of its abstract state.
LEMMA AbsStateUpdate ==
    ASSUME NEW e \in Events, NEW s \in {"queued", "dispatched", "failed"},
           \A f \in Events \ {e} : row'[f] = row[f],
           \/ s = "queued" /\ row'[e].status = "pending"
           \/ s = "dispatched" /\ row'[e].status = "dispatched"
           \/ s = "failed" /\ row'[e].status = "failed"
    PROVE  AbsState' = [AbsState EXCEPT ![e] = s]
BY DEF AbsState

\* An event in a batch has been queued.
LEMMA HeldIsQueued ==
    ASSUME TypeOK, LeaseInv, NEW r \in Relays, NEW e \in batch[r]
    PROVE  AbsState[e] # "absent"
<1>1. e \in Events
  BY DEF TypeOK
<1>2. row[e].status \in {"pending", "leased", "dispatched", "failed"}
  BY <1>1 DEF LeaseInv, TokenInv, TypeOK, Row, Statuses
<1> QED
  BY <1>1, <1>2 DEF AbsState

\* Every step of the outbox is a step of EventDelivery or a stutter.
LEMMA AbsStep ==
    TypeOK /\ TypeOK' /\ LeaseInv /\ DeliveryInv /\ [Next]_vars => [Abs!Next]_(Abs!vars)
<1> SUFFICES ASSUME TypeOK, TypeOK', LeaseInv, DeliveryInv, [Next]_vars
             PROVE  Abs!Next \/ UNCHANGED <<AbsState, AbsDelivered, audited>>
  BY DEF Abs!vars
<1>1. notice' = notice => AbsDelivered' = AbsDelivered
  BY DEF AbsDelivered
<1>2. CASE TimePasses \/ UNCHANGED vars
  BY <1>1, <1>2, AbsStateFrame DEF TimePasses, vars, noticeVars
<1>3. ASSUME NEW e \in Events, Write(e) PROVE Abs!Next
  <2>1. row \in [Events -> Row]
    BY DEF TypeOK
  <2>2. row'[e] = [row[e] EXCEPT !.status = "pending", !.availableAt = clock]
    BY <1>3, <2>1 DEF Write
  <2>3. row'[e].status = "pending" /\ \A f \in Events \ {e} : row'[f] = row[f]
    BY <1>3, <2>1, <2>2 DEF Write, Row
  <2>4. AbsState' = [AbsState EXCEPT ![e] = "queued"]
    BY <2>3, AbsStateUpdate
  <2>5. AbsState[e] = "absent"
    BY <1>3 DEF Write, AbsState
  <2>6. Abs!Queue(e)
    BY <1>1, <1>3, <2>4, <2>5 DEF Abs!Queue, Write, noticeVars
  <2> QED
    BY <2>6 DEF Abs!Next
<1>4. ASSUME NEW r \in Relays, BeginTick(r) \/ PublishFails(r) \/ Abandon(r)
      PROVE  UNCHANGED <<AbsState, AbsDelivered, audited>>
  BY <1>1, <1>4, AbsStateFrame DEF BeginTick, PublishFails, Abandon, noticeVars
<1>5. ASSUME NEW r \in Relays, Lease(r)
      PROVE  UNCHANGED <<AbsState, AbsDelivered, audited>>
  <2>1. AbsState' = AbsState
    BY <1>5, LeaseEffect, AbsStateFrame
  <2> QED
    BY <1>1, <1>5, <2>1 DEF Lease, noticeVars
<1>6. ASSUME NEW r \in Relays, NEW e \in Events, PublishNotice(r, e)
      PROVE  Abs!Next \/ UNCHANGED <<AbsState, AbsDelivered, audited>>
  <2>1. AbsState' = AbsState /\ audited' = audited
    BY <1>6, AbsStateFrame DEF PublishNotice
  <2>2. CASE NoNotice(e) \/ notice[e] > 0
    BY <1>1, <1>6, <2>1, <2>2 DEF PublishNotice
  <2>3. CASE ~(NoNotice(e) \/ notice[e] > 0)
    <3>1. notice[e] \in Nat /\ notice' = [notice EXCEPT ![e] = @ + 1] /\ notice \in [Events -> Nat]
      BY <1>6, <2>3 DEF PublishNotice, TypeOK
    <3>2. notice'[e] > 0 /\ \A f \in Events \ {e} : notice'[f] = notice[f]
      BY <3>1
    <3>3. AbsDelivered' = AbsDelivered \cup {e} /\ e \notin AbsDelivered
      BY <2>3, <3>2 DEF AbsDelivered
    <3>4. AbsState[e] # "absent"
      BY <1>6, HeldIsQueued DEF PublishNotice, Current
    <3>5. Abs!DeliverNotice(e)
      BY <2>1, <2>3, <3>3, <3>4 DEF Abs!DeliverNotice, NoticeEvents
    <3> QED
      BY <3>5 DEF Abs!Next
  <2> QED
    BY <2>2, <2>3
<1>7. ASSUME NEW r \in Relays, NEW e \in Events, PublishAudit(r, e) PROVE Abs!Next
  <2>1. AbsState' = AbsState /\ AbsDelivered' = AbsDelivered
    BY <1>1, <1>7, AbsStateFrame DEF PublishAudit
  <2>2. AbsState[e] # "absent"
    BY <1>7, HeldIsQueued DEF PublishAudit, Current
  <2>3. e \in NoticeEvents => e \in AbsDelivered
    BY <1>7 DEF PublishAudit, DeliveryInv, ChainInv, AbsDelivered
  <2>4. Abs!Audit(e)
    BY <1>7, <2>1, <2>2, <2>3 DEF Abs!Audit, PublishAudit
  <2> QED
    BY <2>4 DEF Abs!Next
<1>8. ASSUME NEW r \in Relays, NEW e \in Events, markDispatched(r, e)
      PROVE  Abs!Next \/ UNCHANGED <<AbsState, AbsDelivered, audited>>
  <2>1. AbsDelivered' = AbsDelivered /\ audited' = audited
    BY <1>1, <1>8 DEF markDispatched, noticeVars
  <2>2. CASE HoldsLease(r, e)
    <3>1. AbsState' = [AbsState EXCEPT ![e] = "dispatched"]
      BY <1>8, <2>2, MarkEffect, AbsStateUpdate
    <3>2. AbsState[e] = "queued"
      BY <2>2 DEF HoldsLease, AbsState
    <3>3. e \in audited
      BY <1>8 DEF markDispatched, DeliveryInv, ChainInv
    <3>4. Abs!Dispatch(e)
      BY <2>1, <3>1, <3>2, <3>3 DEF Abs!Dispatch
    <3> QED
      BY <3>4 DEF Abs!Next
  <2>3. CASE ~HoldsLease(r, e)
    BY <1>8, <2>1, <2>3, MarkEffect, AbsStateFrame
  <2> QED
    BY <2>2, <2>3
<1>9. ASSUME NEW r \in Relays, NEW e \in Events, release(r, e)
      PROVE  Abs!Next \/ UNCHANGED <<AbsState, AbsDelivered, audited>>
  <2>1. AbsDelivered' = AbsDelivered /\ audited' = audited
    BY <1>1, <1>9 DEF release, noticeVars
  <2>2. CASE HoldsLease(r, e) /\ attempts[r][e] >= MaxAttempts
    <3>1. AbsState' = [AbsState EXCEPT ![e] = "failed"]
      BY <1>9, <2>2, ReleaseEffect, AbsStateUpdate
    <3>2. AbsState[e] = "queued"
      BY <2>2 DEF HoldsLease, AbsState
    <3>3. Abs!GiveUp(e)
      BY <2>1, <3>1, <3>2 DEF Abs!GiveUp
    <3> QED
      BY <3>3 DEF Abs!Next
  <2>3. CASE ~(HoldsLease(r, e) /\ attempts[r][e] >= MaxAttempts)
    <3>1. \A f \in Events : \/ row'[f] = row[f]
                            \/ /\ row[f].status \in {"pending", "leased"}
                               /\ row'[f].status \in {"pending", "leased"}
      BY <1>9, <2>3, ReleaseEffect DEF HoldsLease
    <3> QED
      BY <2>1, <3>1, AbsStateFrame
  <2> QED
    BY <2>2, <2>3
<1> QED
  BY <1>2, <1>3, <1>4, <1>5, <1>6, <1>7, <1>8, <1>9 DEF Next, RelayStep

\* The outbox, its relays and its subscribers implement EventDelivery.
THEOREM RelayRefinesDelivery == Spec => DeliversEvents
<1>1. Init => Abs!Init
  BY DEF Init, Abs!Init, AbsState, AbsDelivered
<1>2. Init => LeaseInv
  BY DEF Init, LeaseInv, TokenInv, LeaseExclusive
<1> QED
  BY <1>1, <1>2, TypeCorrect, LeaseInvStep, DeliveryAlways, AbsStep, PTL
  DEF Spec, DeliversEvents, Abs!Spec
=============================================================================
