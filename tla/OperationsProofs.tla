-------------------------- MODULE OperationsProofs --------------------------
(***************************************************************************)
(* Proofs about what runs behind the requests: the notice centre with its  *)
(* relays and task handlers (NoticeCenter), and the migration tool         *)
(* (MigrationLifecycle).                                                   *)
(***************************************************************************)
EXTENDS NoticeCenter, MigrationLifecycle, NaturalsInduction, WellFoundedInduction, TLAPS

-----------------------------------------------------------------------------
(* NoticeCenter: the invariant.                                               *)

DeliveryRecords == [status : DeliveryStatuses, token : Nat, turn : 0 .. MaxRequeues]
OutboxRecords == [status : OutboxStatuses, due : BOOLEAN, token : Nat, old : BOOLEAN]
TaskRecords == [state : {"none", "ready", "active", "archived"}, retried : 0 .. MaxRetry]
SlotRecords == [pc : PCs, row : RowSlots, token : Nat, live : BOOLEAN]

\* A handler whose context is alive, and one that has claimed its delivery.
Busy(h) == slot[h].live /\ slot[h].pc # "idle"
Holds(h) == slot[h].live /\ slot[h].pc \in Holding

\* A handler works on a row of its kind. While its context is alive the task is
\* active, and the lease it claimed is its own.
SlotFits(h) ==
    /\ slot[h].pc = "publish" => slot[h].row \in PublishRows
    /\ slot[h].pc = "claim" \/ slot[h].pc \in Holding => slot[h].row \in DeliveryRows
    /\ Busy(h) => task[slot[h].row].state = "active"
    /\ Holds(h) => HoldsLease(h)
    /\ slot[h].live /\ slot[h].pc = "release" /\ Final(h) => DeliveryOf(slot[h].row) \in faulted

\* No task is with two handlers, no delivery is claimed by two.
SlotsApart ==
    \A g, h \in Slots : Busy(g) /\ Busy(h) /\ g # h =>
        /\ slot[g].row # slot[h].row
        /\ Holds(g) /\ Holds(h) => DeliveryOf(slot[g].row) # DeliveryOf(slot[h].row)

SlotInv == (\A h \in Slots : SlotFits(h)) /\ SlotsApart

\* A row of a delivery is there only from the turn it was made for, a task only
\* when its row is there, and what a relay carries is a lease that was given.
QueueInv ==
    /\ \A i \in DeliveryRows : task[i].state # "none" => outbox[i].status # "absent"
    /\ \A i \in DeliveryRows : outbox[i].status # "absent" =>
          delivery[DeliveryOf(i)].status # "absent" /\ i.turn <= delivery[DeliveryOf(i)].turn
    /\ \A r \in Relays : \A p \in relay[r].rows \cup relay[r].mark :
          p[1] \in DeliveryRows => outbox[p[1]].status # "absent" /\ p[2] <= outbox[p[1]].token

\* The relay still has to make a task of row i: a row that is leased and already
\* enqueued under that lease is only waiting to be marked.
Owed(i) ==
    \/ outbox[i].status = "pending"
    \/ outbox[i].status = "leased" /\ \A r \in Relays : <<i, outbox[i].token>> \notin relay[r].mark
Carried(i) == task[i].state \in {"ready", "active"}

\* Who comes for delivery d: of one under way, a task, since Revoke cancels the
\* rows and not the delivery; of one that waits, a task or a row to become one.
HandedOn(d) ==
    /\ delivery[d].status = "delivering" => \E i \in DeliveryRows : DeliveryOf(i) = d /\ Carried(i)
    /\ delivery[d].status = "pending" =>
          \E i \in DeliveryRows : DeliveryOf(i) = d /\ (Carried(i) \/ (task[i].state = "none" /\ Owed(i)))
KeptInv == \A d \in Deliveries : d \in faulted \/ HandedOn(d)

\* The deliveries made are those of the recipients of a push notice.
SnapInv ==
    /\ \A d \in Deliveries :
          delivery[d].status # "absent" <=> draft[d[1]].push /\ d[2] \in recipients[d[1]]
    /\ \A n \in Notices : notice[n] \notin {"published", "revoked"} => recipients[n] = {}

\* A delivery that was never made was never queued again.
TurnInv == \A d \in Deliveries : delivery[d].status = "absent" => delivery[d].turn = 0

\* Inductive, together with TurnInv, which only Publish needs.
NoticeInv == TypeOK /\ SlotInv /\ QueueInv /\ KeptInv /\ SnapInv

-----------------------------------------------------------------------------
(* NoticeCenter: rows and types.                                              *)

\* A row is of one kind, and a row of a delivery names it.
LEMMA RowShapes ==
    /\ \A i \in PublishRows : i.kind = "publish" /\ i.notice \in Notices /\ i \in Rows
    /\ \A i \in DeliveryRows : /\ i.kind = "delivery" /\ i.notice \in Notices /\ i \in Rows
                               /\ i.turn \in 0 .. MaxRequeues /\ DeliveryOf(i) \in Deliveries
                               /\ DeliveryOf(i)[1] = i.notice
    /\ \A i \in PublishRows : i \notin DeliveryRows
    /\ \A i \in Rows : i \in PublishRows \/ i \in DeliveryRows
    /\ \A n \in Notices : [kind |-> "publish", notice |-> n] \in PublishRows
<1>1. \A i \in PublishRows : i.kind = "publish" /\ i.notice \in Notices /\ i \in Rows
  BY DEF PublishRows, Rows
<1>2. ASSUME NEW i \in DeliveryRows
      PROVE  /\ i.kind = "delivery" /\ i.notice \in Notices /\ i \in Rows
             /\ i.turn \in 0 .. MaxRequeues /\ DeliveryOf(i) \in Deliveries
             /\ DeliveryOf(i)[1] = i.notice
  <2>1. PICK d \in Deliveries, k \in 0 .. MaxRequeues :
          i = [kind |-> "delivery", notice |-> d[1], user |-> d[2], turn |-> k]
    BY DEF DeliveryRows
  <2>2. i.kind = "delivery" /\ i.notice = d[1] /\ i.user = d[2] /\ i.turn = k
    BY <2>1
  <2>3. d[1] \in Notices /\ d[2] \in Users
    BY DEF Deliveries
  <2>4. DeliveryOf(i) = <<d[1], d[2]>>
    BY <2>2 DEF DeliveryOf
  <2>5. DeliveryOf(i) \in Deliveries /\ DeliveryOf(i)[1] = d[1]
    BY <2>3, <2>4 DEF Deliveries
  <2> QED
    BY <2>2, <2>3, <2>5 DEF Rows
<1>3. \A i \in PublishRows : i \notin DeliveryRows
  BY <1>1, <1>2
<1>4. \A n \in Notices : [kind |-> "publish", notice |-> n] \in PublishRows
  BY DEF PublishRows
<1> QED
  BY <1>1, <1>2, <1>3, <1>4 DEF Rows

\* Every delivery has a row for every turn.
LEMMA RowOfTurn ==
    ASSUME NEW d \in Deliveries, NEW k \in 0 .. MaxRequeues
    PROVE  \E i \in DeliveryRows : DeliveryOf(i) = d /\ i.turn = k
<1> DEFINE i == [kind |-> "delivery", notice |-> d[1], user |-> d[2], turn |-> k]
<1>1. i \in DeliveryRows
  BY DEF DeliveryRows
<1>2. d = <<d[1], d[2]>>
  BY DEF Deliveries
<1>3. DeliveryOf(i) = <<d[1], d[2]>> /\ i.turn = k
  BY DEF DeliveryOf
<1> QED
  BY <1>1, <1>2, <1>3

LEMMA InitNoticeInv == Init => NoticeInv
<1> SUFFICES ASSUME Init PROVE NoticeInv
  OBVIOUS
<1>1. Free \in SlotRecords /\ Free.pc = "idle"
  BY DEF Free, SlotRecords, PCs, RowSlots
<1>2. Resting \in [rows : SUBSET (Rows \X Nat), mark : SUBSET (Rows \X Nat)] /\ Resting.rows = {} /\ Resting.mark = {}
  BY DEF Resting
<1>3. TypeOK
  <2>1. notice \in [Notices -> NoticeStatuses] /\ draft \in [Notices -> Drafts \cup {NoDraft}]
        /\ active \subseteq Users /\ recipients \in [Notices -> SUBSET Users]
    BY DEF Init, NoticeStatuses
  <2>2. delivery \in [Deliveries -> [status : DeliveryStatuses, token : Nat, turn : 0..MaxRequeues]]
    BY BoundsAssumption DEF Init, DeliveryStatuses
  <2>3. outbox \in [Rows -> [status : OutboxStatuses, due : BOOLEAN, token : Nat, old : BOOLEAN]]
    BY DEF Init, OutboxStatuses
  <2>4. task \in [Rows -> [state : {"none", "ready", "active", "archived"}, retried : 0..MaxRetry]]
    BY BoundsAssumption DEF Init
  <2>5. relay \in [Relays -> [rows : SUBSET (Rows \X Nat), mark : SUBSET (Rows \X Nat)]]
    BY <1>2 DEF Init
  <2>6. slot \in [Slots -> [pc : PCs, row : RowSlots, token : Nat, live : BOOLEAN]]
    BY <1>1 DEF Init, SlotRecords
  <2>7. sends \in [Deliveries -> Nat] /\ faulted \subseteq Deliveries /\ faults \in Nat
    BY DEF Init
  <2> QED
    BY <2>1, <2>2, <2>3, <2>4, <2>5, <2>6, <2>7 DEF TypeOK
<1>4. SlotInv
  <2>1. \A h \in Slots : slot[h].pc = "idle"
    BY <1>1 DEF Init
  <2> QED
    BY <2>1 DEF SlotInv, SlotFits, SlotsApart, Busy, Holds, Holding
<1>5. QueueInv
  <2>1. \A i \in DeliveryRows : task[i].state = "none" /\ outbox[i].status = "absent"
    BY RowShapes DEF Init
  <2>2. \A r \in Relays : relay[r].rows \cup relay[r].mark = {}
    BY <1>2 DEF Init
  <2> QED
    BY <2>1, <2>2 DEF QueueInv
<1>6. \A d \in Deliveries : delivery[d].status = "absent"
  BY DEF Init
<1>7. KeptInv
  BY <1>6 DEF KeptInv, HandedOn
<1>8. SnapInv
  <2>1. \A d \in Deliveries : d[1] \in Notices
    BY DEF Deliveries
  <2>2. \A n \in Notices : recipients[n] = {}
    BY DEF Init
  <2> QED
    BY <1>6, <2>1, <2>2 DEF SnapInv
<1> QED
  BY <1>3, <1>4, <1>5, <1>7, <1>8 DEF NoticeInv

-----------------------------------------------------------------------------
(* NoticeCenter: the handlers.                                                *)

\* What the types say of the tables, cell by cell.
LEMMA Cells ==
    ASSUME TypeOK
    PROVE  /\ delivery \in [Deliveries -> DeliveryRecords] /\ outbox \in [Rows -> OutboxRecords]
           /\ task \in [Rows -> TaskRecords] /\ slot \in [Slots -> SlotRecords]
           /\ \A d \in Deliveries : /\ delivery[d].status \in DeliveryStatuses /\ delivery[d].token \in Nat
                                    /\ delivery[d].turn \in 0 .. MaxRequeues
           /\ \A i \in Rows : /\ outbox[i].status \in OutboxStatuses /\ outbox[i].token \in Nat
                              /\ task[i].state \in {"none", "ready", "active", "archived"}
                              /\ task[i].retried \in 0 .. MaxRetry
           /\ \A h \in Slots : slot[h].pc \in PCs /\ slot[h].row \in RowSlots /\ slot[h].token \in Nat
<1>1. /\ delivery \in [Deliveries -> DeliveryRecords] /\ outbox \in [Rows -> OutboxRecords]
      /\ task \in [Rows -> TaskRecords] /\ slot \in [Slots -> SlotRecords]
  BY DEF TypeOK, DeliveryRecords, OutboxRecords, TaskRecords, SlotRecords
<1>2. \A d \in Deliveries : /\ delivery[d].status \in DeliveryStatuses /\ delivery[d].token \in Nat
                            /\ delivery[d].turn \in 0 .. MaxRequeues
  BY <1>1 DEF DeliveryRecords
<1>3. \A i \in Rows : outbox[i].status \in OutboxStatuses /\ outbox[i].token \in Nat
  BY <1>1 DEF OutboxRecords
<1>4. \A i \in Rows : /\ task[i].state \in {"none", "ready", "active", "archived"}
                      /\ task[i].retried \in 0 .. MaxRetry
  BY <1>1 DEF TaskRecords
<1>5. \A h \in Slots : slot[h].pc \in PCs /\ slot[h].row \in RowSlots /\ slot[h].token \in Nat
  BY <1>1 DEF SlotRecords
<1> QED
  BY <1>1, <1>2, <1>3, <1>4, <1>5

\* The row of a handler that runs.
LEMMA SlotRow ==
    ASSUME NoticeInv, NEW h \in Slots, slot[h].pc # "idle"
    PROVE  /\ slot[h].row \in Rows
           /\ slot[h].pc # "publish" => slot[h].row \in DeliveryRows /\ DeliveryOf(slot[h].row) \in Deliveries
           /\ slot[h].pc = "publish" => slot[h].row \in PublishRows
<1>1. slot[h].pc \in PCs
  BY Cells DEF NoticeInv
<1>2. slot[h].pc = "publish" \/ slot[h].pc = "claim" \/ slot[h].pc \in Holding
  BY <1>1 DEF PCs, Holding
<1>3. SlotFits(h)
  BY DEF NoticeInv, SlotInv
<1>4. "publish" # "claim" /\ "publish" \notin Holding
  BY DEF Holding
<1> QED
  BY <1>2, <1>3, <1>4, RowShapes DEF SlotFits

\* What finishing a task leaves, and what an error does: a retry, or the archive.
LEMMA TaskEffects ==
    ASSUME TypeOK, NEW i \in Rows
    PROVE  /\ TaskDone(i) => \E t \in TaskRecords : task' = [task EXCEPT ![i] = t] /\ t.state = "none"
           /\ TaskError(i) => \E t \in TaskRecords :
                 /\ task' = [task EXCEPT ![i] = t]
                 /\ t.state = IF task[i].retried >= MaxRetry THEN "archived" ELSE "ready"
<1>1. task[i] \in TaskRecords /\ task[i].retried \in 0 .. MaxRetry
  BY Cells
<1>2. ASSUME TaskDone(i) PROVE \E t \in TaskRecords : task' = [task EXCEPT ![i] = t] /\ t.state = "none"
  <2> DEFINE t == [state |-> "none", retried |-> 0]
  <2>1. t \in TaskRecords /\ t.state = "none"
    BY BoundsAssumption DEF TaskRecords
  <2>2. task' = [task EXCEPT ![i] = t]
    BY <1>2 DEF TaskDone
  <2> QED
    BY <2>1, <2>2
<1>3. ASSUME TaskError(i)
      PROVE  \E t \in TaskRecords :
                 /\ task' = [task EXCEPT ![i] = t]
                 /\ t.state = IF task[i].retried >= MaxRetry THEN "archived" ELSE "ready"
  <2>1. CASE task[i].retried >= MaxRetry
    <3> DEFINE t == [task[i] EXCEPT !.state = "archived"]
    <3>1. t \in TaskRecords /\ t.state = "archived"
      BY <1>1 DEF TaskRecords
    <3>2. task' = [task EXCEPT ![i] = t]
      BY <1>3, <2>1 DEF TaskError
    <3> QED
      BY <2>1, <3>1, <3>2
  <2>2. CASE ~(task[i].retried >= MaxRetry)
    <3> DEFINE t == [state |-> "ready", retried |-> task[i].retried + 1]
    <3>0. task[i].retried + 1 \in 0 .. MaxRetry
      BY <1>1, <2>2, BoundsAssumption
    <3>1. t \in TaskRecords /\ t.state = "ready"
      BY <3>0 DEF TaskRecords
    <3>2. task' = [task EXCEPT ![i] = t]
      BY <1>3, <2>2 DEF TaskError
    <3> QED
      BY <2>2, <3>1, <3>2
  <2> QED
    BY <2>1, <2>2
<1> QED
  BY <1>2, <1>3

\* SnapInv looks at a delivery only for whether it is there.
LEMMA SnapFrame ==
    ASSUME SnapInv, UNCHANGED <<notice, draft, recipients>>,
           \A d \in Deliveries : delivery'[d].status = "absent" <=> delivery[d].status = "absent"
    PROVE  SnapInv'
BY DEF SnapInv

\* Steps of a handler that end its task, claim or settle its delivery: they write
\* the cell of row i in the queue, of its delivery, and of the handler.
LEMMA HandlerKeeps ==
    ASSUME NoticeInv, NEW h \in Slots, NEW s \in SlotRecords, NEW i \in Rows, NEW t \in TaskRecords,
           UNCHANGED <<notice, draft, active, recipients, outbox, relay>>,
           slot' = [slot EXCEPT ![h] = s], task' = [task EXCEPT ![i] = t],
           t.state # "none" => task[i].state # "none",
           delivery' \in [Deliveries -> DeliveryRecords],
           \A d \in Deliveries : delivery'[d] = delivery[d] \/
              /\ i \in DeliveryRows /\ d = DeliveryOf(i) /\ delivery'[d].turn = delivery[d].turn
              /\ delivery[d].status # "absent" /\ delivery'[d].status # "absent",
           sends' \in [Deliveries -> Nat], faults' \in Nat,
           faulted \subseteq faulted', faulted' \subseteq Deliveries,
           \A g \in Slots \ {h} : Busy(g) => slot[g].row # i,
           \A g \in Slots \ {h} : Holds(g) =>
              delivery'[DeliveryOf(slot[g].row)] = delivery[DeliveryOf(slot[g].row)],
           SlotFits(h)',
           s.live /\ s.pc # "idle" => s.row = i,
           s.live /\ s.pc \in Holding =>
              \A g \in Slots \ {h} : Holds(g) => DeliveryOf(slot[g].row) # DeliveryOf(i),
           i \in DeliveryRows => DeliveryOf(i) \in faulted' \/ HandedOn(DeliveryOf(i))'
    PROVE  NoticeInv'
<1>0. TypeOK /\ SlotInv /\ QueueInv /\ KeptInv /\ SnapInv
  BY DEF NoticeInv
<1>1. TypeOK'
  <2>1. slot' \in [Slots -> [pc : PCs, row : RowSlots, token : Nat, live : BOOLEAN]]
    BY <1>0, Cells DEF SlotRecords
  <2>2. task' \in [Rows -> [state : {"none", "ready", "active", "archived"}, retried : 0..MaxRetry]]
    BY <1>0, Cells DEF TaskRecords
  <2>3. delivery' \in [Deliveries -> [status : DeliveryStatuses, token : Nat, turn : 0..MaxRequeues]]
    BY DEF DeliveryRecords
  <2> QED
    BY <1>0, <2>1, <2>2, <2>3 DEF TypeOK
<1>2. /\ \A g \in Slots : slot'[g] = IF g = h THEN s ELSE slot[g]
      /\ \A j \in Rows : task'[j] = IF j = i THEN t ELSE task[j]
  BY <1>0, Cells
<1>3. SlotInv'
  <2>1. ASSUME NEW g \in Slots \ {h} PROVE SlotFits(g)'
    <3>1. slot'[g] = slot[g] /\ SlotFits(g)
      BY <1>0, <1>2 DEF SlotInv
    <3>2. slot[g].pc # "idle" => slot[g].row \in Rows
      BY SlotRow
    <3>3. Busy(g) => task'[slot[g].row] = task[slot[g].row]
      BY <1>2, <3>2 DEF Busy
    <3>4. Holds(g) => Busy(g)
      BY DEF Holds, Busy, Holding
    <3>5. slot[g].live /\ slot[g].pc = "release" => Busy(g)
      BY DEF Busy
    <3>6. Busy(g)' = Busy(g) /\ Holds(g)' = Holds(g)
      BY <3>1 DEF Busy, Holds
    <3>7. Holds(g) => HoldsLease(g)'
      BY <3>1 DEF SlotFits, HoldsLease
    <3>8. Busy(g) => Final(g)' = Final(g)
      BY <3>1, <3>3 DEF Final
    <3> QED
      BY <3>1, <3>3, <3>4, <3>5, <3>6, <3>7, <3>8 DEF SlotFits
  <2>2. \A g \in Slots \ {h} : (Busy(g)' <=> Busy(g)) /\ (Holds(g)' <=> Holds(g))
    BY <1>2 DEF Busy, Holds
  <2>3. Busy(h)' => s.row = i
    BY <1>2 DEF Busy
  <2>4. Holds(h)' => s.row = i /\ \A g \in Slots \ {h} : Holds(g) => DeliveryOf(slot[g].row) # DeliveryOf(i)
    <3>1. "idle" \notin Holding
      BY DEF Holding
    <3> QED
      BY <1>2, <3>1 DEF Holds
  <2>5. SlotsApart'
    <3> SUFFICES ASSUME NEW f \in Slots, NEW g \in Slots, Busy(f)', Busy(g)', f # g
                 PROVE  /\ slot'[f].row # slot'[g].row
                        /\ Holds(f)' /\ Holds(g)' => DeliveryOf(slot'[f].row) # DeliveryOf(slot'[g].row)
      BY DEF SlotsApart, DeliveryOf
    <3>1. CASE f = h
      BY <1>2, <2>2, <2>3, <2>4, <3>1
    <3>2. CASE g = h
      BY <1>2, <2>2, <2>3, <2>4, <3>2
    <3>3. CASE f # h /\ g # h
      <4>1. Busy(f) /\ Busy(g) /\ slot'[f] = slot[f] /\ slot'[g] = slot[g]
        BY <1>2, <2>2, <3>3
      <4>2. Holds(f)' /\ Holds(g)' => Holds(f) /\ Holds(g)
        BY <2>2, <3>3
      <4> QED
        BY <1>0, <4>1, <4>2 DEF SlotInv, SlotsApart
    <3> QED
      BY <3>1, <3>2, <3>3
  <2> QED
    BY <2>1, <2>5 DEF SlotInv
<1>4. QueueInv'
  <2>1. \A j \in DeliveryRows : task'[j].state # "none" => outbox'[j].status # "absent"
    BY <1>0, <1>2, RowShapes DEF QueueInv
  <2>2. \A j \in DeliveryRows : outbox'[j].status # "absent" =>
          delivery'[DeliveryOf(j)].status # "absent" /\ j.turn <= delivery'[DeliveryOf(j)].turn
    BY <1>0, RowShapes DEF QueueInv
  <2> QED
    BY <1>0, <2>1, <2>2 DEF QueueInv, DeliveryOf
<1>5. KeptInv'
  <2> SUFFICES ASSUME NEW d \in Deliveries PROVE d \in faulted' \/ HandedOn(d)'
    BY DEF KeptInv
  <2>1. CASE i \in DeliveryRows /\ d = DeliveryOf(i)
    BY <2>1 DEF HandedOn
  <2>2. CASE ~(i \in DeliveryRows /\ d = DeliveryOf(i))
    <3>1. delivery'[d] = delivery[d] /\ (d \in faulted \/ HandedOn(d))
      BY <1>0, <2>2 DEF KeptInv
    <3>2. \A j \in DeliveryRows : DeliveryOf(j) = d => task'[j] = task[j]
      BY <1>2, <2>2, RowShapes
    <3>3. \A j \in DeliveryRows : Owed(j)' = Owed(j)
      BY DEF Owed
    <3> QED
      BY <3>1, <3>2, <3>3 DEF HandedOn, Carried, DeliveryOf
  <2> QED
    BY <2>1, <2>2
<1>6. SnapInv'
  BY <1>0, SnapFrame
<1> QED
  BY <1>1, <1>3, <1>4, <1>5, <1>6 DEF NoticeInv

\* Steps that only move a handler on, or end one whose context is dead.
LEMMA MoveKeeps ==
    ASSUME NoticeInv, NEW h \in Slots, NEW s \in SlotRecords,
           UNCHANGED <<notice, draft, active, recipients, outbox, relay, task, delivery>>,
           slot' = [slot EXCEPT ![h] = s],
           sends' \in [Deliveries -> Nat], faults' \in Nat,
           faulted \subseteq faulted', faulted' \subseteq Deliveries,
           \/ s.pc = "idle"
           \/ /\ s.pc \in Holding /\ slot[h].pc \in Holding
              /\ s.row = slot[h].row /\ s.token = slot[h].token /\ s.live = slot[h].live
              /\ s.live /\ s.pc = "release" /\ Final(h) => DeliveryOf(slot[h].row) \in faulted'
    PROVE  NoticeInv'
<1>0. TypeOK /\ SlotInv /\ QueueInv /\ KeptInv /\ SnapInv
  BY DEF NoticeInv
<1>1. TypeOK'
  <2>1. slot' \in [Slots -> [pc : PCs, row : RowSlots, token : Nat, live : BOOLEAN]]
    BY <1>0, Cells DEF SlotRecords
  <2> QED
    BY <1>0, <2>1 DEF TypeOK
<1>2. \A g \in Slots : slot'[g] = IF g = h THEN s ELSE slot[g]
  BY <1>0, Cells
<1>3. "idle" \notin Holding /\ "publish" \notin Holding /\ "claim" \notin Holding
  BY DEF Holding
<1>4. ASSUME NEW g \in Slots
      PROVE  /\ Busy(g)' => Busy(g) /\ slot'[g].row = slot[g].row
             /\ Holds(g)' => Holds(g) /\ slot'[g].row = slot[g].row
  <2>1. CASE g # h
    BY <1>2, <2>1 DEF Busy, Holds
  <2>2. CASE g = h
    BY <1>2, <1>3, <2>2 DEF Busy, Holds
  <2> QED
    BY <2>1, <2>2
<1>5. ASSUME NEW g \in Slots PROVE SlotFits(g)'
  <2>1. SlotFits(g)
    BY <1>0 DEF SlotInv
  <2>2. CASE g # h
    <3>1. slot'[g] = slot[g]
      BY <1>2, <2>2
    <3> QED
      BY <2>1, <3>1 DEF SlotFits, Busy, Holds, HoldsLease, Final, DeliveryOf
  <2>3. CASE g = h /\ s.pc = "idle"
    <3>1. slot'[g].pc = "idle" /\ "idle" \notin Holding
      BY <1>2, <1>3, <2>3
    <3> QED
      BY <3>1 DEF SlotFits, Busy, Holds
  <2>4. CASE g = h /\ s.pc \in Holding /\ slot[h].pc \in Holding
    <3>1. /\ slot'[g].row = slot[g].row /\ slot'[g].token = slot[g].token /\ slot'[g].live = slot[g].live
          /\ slot'[g].pc = s.pc
      BY <1>2, <1>3, <2>4
    <3>2. slot[g].row \in DeliveryRows /\ s.pc # "idle" /\ s.pc # "publish"
      BY <1>3, <2>1, <2>4 DEF SlotFits
    <3>3. Busy(g)' => task'[slot'[g].row].state = "active"
      BY <1>4, <2>1, <3>1 DEF SlotFits
    <3>4. Holds(g)' => HoldsLease(g)'
      BY <1>4, <2>1, <3>1 DEF SlotFits, HoldsLease, DeliveryOf
    <3>5. slot'[g].live /\ slot'[g].pc = "release" /\ Final(g)' => DeliveryOf(slot'[g].row) \in faulted'
      BY <1>3, <2>4, <3>1 DEF Final
    <3> QED
      BY <3>1, <3>2, <3>3, <3>4, <3>5 DEF SlotFits, DeliveryOf
  <2> QED
    BY <2>2, <2>3, <2>4
<1>6. SlotsApart'
  <2> SUFFICES ASSUME NEW f \in Slots, NEW g \in Slots, Busy(f)', Busy(g)', f # g
               PROVE  /\ slot'[f].row # slot'[g].row
                      /\ Holds(f)' /\ Holds(g)' => DeliveryOf(slot'[f].row) # DeliveryOf(slot'[g].row)
    BY DEF SlotsApart, DeliveryOf
  <2> QED
    BY <1>0, <1>4 DEF SlotInv, SlotsApart
<1>7. QueueInv'
  BY <1>0 DEF QueueInv, DeliveryOf
<1>8. KeptInv'
  <2>1. \A i \in DeliveryRows : Owed(i)' = Owed(i) /\ Carried(i)' = Carried(i)
    BY DEF Owed, Carried
  <2> QED
    BY <1>0, <2>1 DEF KeptInv, HandedOn, DeliveryOf
<1>9. SnapInv'
  BY <1>0, SnapFrame
<1> QED
  BY <1>1, <1>5, <1>6, <1>7, <1>8, <1>9 DEF NoticeInv, SlotInv

\* A free slot is a legal one.
LEMMA FreeSlot == Free \in SlotRecords /\ Free.pc = "idle" /\ "idle" \notin Holding
BY DEF Free, SlotRecords, PCs, RowSlots, Holding

\* Goto changes the step of a handler and nothing else.
LEMMA GotoEffect ==
    ASSUME TypeOK, NEW h \in Slots, NEW pc \in PCs, Goto(h, pc)
    PROVE  \E s \in SlotRecords : /\ slot' = [slot EXCEPT ![h] = s] /\ s.pc = pc
                                  /\ s.row = slot[h].row /\ s.token = slot[h].token /\ s.live = slot[h].live
<1> DEFINE s == [slot[h] EXCEPT !.pc = pc]
<1>1. slot[h] \in SlotRecords
  BY Cells
<1>2. /\ s \in SlotRecords /\ s.pc = pc
      /\ s.row = slot[h].row /\ s.token = slot[h].token /\ s.live = slot[h].live
  BY <1>1 DEF SlotRecords
<1>3. slot' = [slot EXCEPT ![h] = s]
  BY DEF Goto
<1> QED
  BY <1>2, <1>3

\* Fault counts, and remembers a delivery whose last attempt it hit.
LEMMA FaultEffect ==
    ASSUME NoticeInv, NEW h \in Slots, slot[h].pc # "idle", Fault(h)
    PROVE  /\ faults' \in Nat /\ faulted \subseteq faulted' /\ faulted' \subseteq Deliveries
           /\ slot[h].row \in DeliveryRows /\ Final(h) => DeliveryOf(slot[h].row) \in faulted'
<1>1. faults \in Nat /\ faulted \subseteq Deliveries
  BY DEF NoticeInv, TypeOK
<1>2. slot[h].row \in Rows
  BY SlotRow
<1>3. slot[h].row.kind = "delivery" <=> slot[h].row \in DeliveryRows
  BY <1>2, RowShapes
<1>4. slot[h].row \in DeliveryRows => DeliveryOf(slot[h].row) \in Deliveries
  BY RowShapes
<1> QED
  BY <1>1, <1>3, <1>4 DEF Fault

\* LoadDelivery, Send, LateHandlerEnds, LoadOrCompleteError.
LEMMA MovesKeep ==
    ASSUME NoticeInv, NEW h \in Slots,
           \/ LoadDelivery(h) \/ LateHandlerEnds(h) \/ LoadOrCompleteError(h)
           \/ \E ok \in BOOLEAN : Send(h, ok)
    PROVE  NoticeInv'
<1>0. TypeOK /\ sends \in [Deliveries -> Nat] /\ faults \in Nat /\ faulted \subseteq Deliveries
  BY DEF NoticeInv, TypeOK
<1>1. CASE LoadDelivery(h)
  <2>1. /\ slot[h].pc = "load" /\ UNCHANGED <<notice, draft, active, recipients, delivery, outbox, task, relay, sends, faulted, faults>>
    BY <1>1 DEF LoadDelivery, At, noticeVars
  <2>2. PICK pc \in {"revoked", "send"} : Goto(h, pc)
    BY <1>1 DEF LoadDelivery
  <2>3. pc \in PCs /\ pc \in Holding /\ slot[h].pc \in Holding /\ pc # "release"
    BY <2>1, <2>2 DEF PCs, Holding
  <2> QED
    BY <1>0, <2>1, <2>2, <2>3, GotoEffect, MoveKeeps
<1>2. CASE LateHandlerEnds(h)
  BY <1>0, <1>2, FreeSlot, MoveKeeps DEF LateHandlerEnds, Leave, noticeVars
<1>3. CASE LoadOrCompleteError(h)
  <2>1. /\ slot[h].pc \in {"load", "complete"} /\ Fault(h) /\ Goto(h, "release")
        /\ UNCHANGED <<notice, draft, active, recipients, delivery, outbox, task, relay, sends>>
    BY <1>3 DEF LoadOrCompleteError, At, noticeVars
  <2>2. "release" \in PCs /\ "release" \in Holding /\ slot[h].pc \in Holding /\ slot[h].pc # "idle"
    BY <2>1 DEF PCs, Holding
  <2>3. slot[h].row \in DeliveryRows
    BY <2>1, <2>2, SlotRow
  <2> QED
    BY <1>0, <2>1, <2>2, <2>3, FaultEffect, GotoEffect, MoveKeeps
<1>4. ASSUME NEW ok \in BOOLEAN, Send(h, ok) PROVE NoticeInv'
  <2>1. slot[h].pc = "send" /\ UNCHANGED <<notice, draft, active, recipients, delivery, outbox, task, relay, faulted, faults>>
    BY <1>4 DEF Send, noticeVars
  <2>2. PICK pc \in {"complete", "fail"} : Goto(h, pc)
    BY <1>4 DEF Send
  <2>3. pc \in PCs /\ pc \in Holding /\ slot[h].pc \in Holding /\ pc # "release"
    BY <2>1, <2>2 DEF PCs, Holding
  <2>4. sends' \in [Deliveries -> Nat]
    <3> DEFINE d == DeliveryOf(slot[h].row)
    <3>1. d \in Deliveries
      BY <2>1, SlotRow
    <3>2. sends' = sends \/ sends' = [sends EXCEPT ![d] = sends[d] + 1]
      BY <1>4 DEF Send
    <3> HIDE DEF d
    <3>3. sends[d] + 1 \in Nat
      BY <1>0, <3>1
    <3> QED
      BY <1>0, <3>2, <3>3
  <2> QED
    BY <1>0, <2>1, <2>2, <2>3, <2>4, GotoEffect, MoveKeeps
<1> QED
  BY <1>1, <1>2, <1>3, <1>4

\* A live handler is alone with its row, and a live claim with its delivery.
LEMMA Alone ==
    ASSUME NoticeInv, NEW h \in Slots, Busy(h)
    PROVE  /\ \A g \in Slots \ {h} : Busy(g) => slot[g].row # slot[h].row
           /\ Holds(h) => \A g \in Slots \ {h} : Holds(g) => DeliveryOf(slot[g].row) # DeliveryOf(slot[h].row)
           /\ task[slot[h].row].state = "active"
           /\ Holds(h) => HoldsLease(h)
           /\ \A g \in Slots : Holds(g) => Busy(g)
<1>1. \A g \in Slots : Holds(g) => Busy(g)
  BY DEF Holds, Busy, Holding
<1>2. SlotsApart /\ SlotFits(h)
  BY DEF NoticeInv, SlotInv
<1> QED
  BY <1>1, <1>2 DEF SlotsApart, SlotFits

\* The end of a handler: its delivery is settled, or handed on.
LEMMA EndKeeps ==
    ASSUME NoticeInv, NEW h \in Slots, Busy(h), NEW t \in TaskRecords, NEW s \in SlotRecords,
           task' = [task EXCEPT ![slot[h].row] = t], slot' = [slot EXCEPT ![h] = s],
           s.pc = "idle" \/ (~s.live /\ s.row = slot[h].row /\ s.pc \in Holding /\ slot[h].pc \in Holding),
           UNCHANGED <<notice, draft, active, recipients, outbox, relay, sends, delivery>>,
           faults' \in Nat, faulted \subseteq faulted', faulted' \subseteq Deliveries,
           slot[h].pc # "publish" =>
              LET d == DeliveryOf(slot[h].row) IN
              \/ t.state = "ready" \/ d \in faulted'
              \/ delivery[d].status \notin {"pending", "delivering"}
              \/ (delivery[d].status = "delivering" /\ \E g \in Slots \ {h} : Holds(g) /\ DeliveryOf(slot[g].row) = d)
    PROVE  NoticeInv'
<1>0. TypeOK /\ delivery \in [Deliveries -> DeliveryRecords] /\ sends \in [Deliveries -> Nat]
  BY Cells DEF NoticeInv, TypeOK
<1>i. PICK i \in Rows : i = slot[h].row
  BY SlotRow DEF Busy
<1> DEFINE d == DeliveryOf(i)
<1>1. task[i].state = "active" /\ task \in [Rows -> TaskRecords]
  BY <1>0, <1>i, Alone, Cells
<1>2. \A g \in Slots \ {h} : Busy(g) => slot[g].row # i
  BY <1>i, Alone
<1>3. slot'[h] = s
  BY <1>0, Cells
<1>4. SlotFits(h)'
  <2>1. CASE s.pc = "idle"
    BY <1>3, <2>1, FreeSlot DEF SlotFits, Busy, Holds
  <2>2. CASE ~s.live /\ s.row = slot[h].row /\ s.pc \in Holding /\ slot[h].pc \in Holding
    <3>1. s.pc # "publish" /\ s.pc # "idle"
      BY <2>2 DEF Holding
    <3>2. slot[h].row \in DeliveryRows
      BY <2>2 DEF NoticeInv, SlotInv, SlotFits
    <3> QED
      BY <1>3, <2>2, <3>1, <3>2 DEF SlotFits, Busy, Holds
  <2> QED
    BY <2>1, <2>2
<1>5. ~(s.live /\ s.pc # "idle") /\ ~(s.live /\ s.pc \in Holding)
  BY FreeSlot
<1>6. i \in DeliveryRows => d \in faulted' \/ HandedOn(d)'
  <2> SUFFICES ASSUME i \in DeliveryRows, d \notin faulted' PROVE HandedOn(d)'
    OBVIOUS
  <2>1. slot[h].pc # "publish"
    BY <1>i, SlotRow, RowShapes DEF Busy
  <2>2. CASE t.state = "ready"
    <3>1. task'[i].state = "ready"
      BY <1>1, <2>2, <1>i
    <3> HIDE DEF d
    <3>2. \E j \in DeliveryRows : DeliveryOf(j) = d /\ Carried(j)'
      BY <3>1 DEF Carried, d
    <3> QED
      BY <3>2 DEF HandedOn
  <2>3. CASE delivery[d].status \notin {"pending", "delivering"}
    <3> HIDE DEF d
    <3> QED
      BY <2>3 DEF HandedOn
  <2>4. CASE delivery[d].status = "delivering" /\ \E g \in Slots \ {h} : Holds(g) /\ DeliveryOf(slot[g].row) = d
    <3>1. PICK g \in Slots \ {h} : Holds(g) /\ DeliveryOf(slot[g].row) = d
      BY <2>4
    <3>2. Busy(g) /\ slot[g].row # i
      BY <1>2, <3>1, Alone
    <3>3. task[slot[g].row].state = "active"
      BY <3>2, Alone
    <3>4. slot[g].row \in DeliveryRows /\ slot[g].row \in Rows
      BY <3>1, RowShapes DEF NoticeInv, SlotInv, SlotFits, Holds
    <3>5. task'[slot[g].row].state = "active"
      BY <1>1, <1>i, <3>2, <3>3, <3>4
    <3> HIDE DEF d
    <3>6. \E j \in DeliveryRows : DeliveryOf(j) = d /\ Carried(j)'
      BY <3>1, <3>4, <3>5 DEF Carried
    <3> QED
      BY <2>4, <3>6 DEF HandedOn
  <2> QED
    BY <1>i, <2>1, <2>2, <2>3, <2>4
<1> HIDE DEF d
<1>7. \A e \in Deliveries : delivery'[e] = delivery[e]
  OBVIOUS
<1>8. \A g \in Slots \ {h} : Holds(g) => delivery'[DeliveryOf(slot[g].row)] = delivery[DeliveryOf(slot[g].row)]
  OBVIOUS
<1>9. task' = [task EXCEPT ![i] = t] /\ delivery' \in [Deliveries -> DeliveryRecords] /\ sends' \in [Deliveries -> Nat]
  BY <1>0, <1>i
<1>10. i \in DeliveryRows => DeliveryOf(i) \in faulted' \/ HandedOn(DeliveryOf(i))'
  BY <1>6 DEF d
<1>11. t.state # "none" => task[i].state # "none"
  BY <1>1
<1> QED
  BY <1>1, <1>2, <1>4, <1>5, <1>7, <1>8, <1>9, <1>10, <1>11, HandlerKeeps

\* A live handler records its result: it has the lease, so its delivery gets the
\* status, and one that waits again has its task, unless a fault hit its last attempt.
LEMMA SettleKeeps ==
    ASSUME NoticeInv, NEW h \in Slots, Holds(h), NEW status \in {"sent", "failed", "pending"},
           Settle(h, status), NEW t \in TaskRecords,
           task' = [task EXCEPT ![slot[h].row] = t], Leave(h),
           UNCHANGED <<notice, draft, active, recipients, outbox, relay, sends, faulted, faults>>,
           status = "pending" => t.state = "ready" \/ DeliveryOf(slot[h].row) \in faulted
    PROVE  NoticeInv'
<1>0. TypeOK /\ delivery \in [Deliveries -> DeliveryRecords]
  BY Cells DEF NoticeInv
<1>1. Busy(h) /\ HoldsLease(h)
  BY DEF Holds, Busy, Holding, NoticeInv, SlotInv, SlotFits
<1>2. PICK i \in DeliveryRows : i = slot[h].row
  BY DEF Holds, NoticeInv, SlotInv, SlotFits
<1> DEFINE d == DeliveryOf(i)
           x == [delivery[d] EXCEPT !.status = status]
<1>3. d \in Deliveries /\ i \in Rows /\ delivery[d].status = "delivering"
  BY <1>1, <1>2, RowShapes DEF HoldsLease
<1>4. delivery[d] \in DeliveryRecords
  BY <1>0, <1>3
<1>5. x \in DeliveryRecords /\ x.status = status /\ x.turn = delivery[d].turn
  BY <1>4 DEF DeliveryRecords, DeliveryStatuses
<1>6. delivery' = [delivery EXCEPT ![d] = x]
  BY <1>1, <1>2 DEF Settle
<1> HIDE DEF x
<1>7. /\ \A e \in Deliveries : delivery'[e] = IF e = d THEN x ELSE delivery[e]
      /\ delivery' \in [Deliveries -> DeliveryRecords]
  BY <1>0, <1>5, <1>6
<1>8. task' = [task EXCEPT ![i] = t] /\ task \in [Rows -> TaskRecords]
  BY <1>0, <1>2, Cells
<1>9. d \in faulted' \/ HandedOn(d)'
  <2>1. CASE status \in {"sent", "failed"}
    <3>1. delivery'[d].status \notin {"pending", "delivering"}
      BY <1>3, <1>5, <1>7, <2>1
    <3> HIDE DEF d
    <3> QED
      BY <3>1 DEF HandedOn
  <2>2. CASE status = "pending" /\ t.state = "ready"
    <3>1. task'[i].state = "ready" /\ delivery'[d].status = "pending"
      BY <1>3, <1>5, <1>7, <1>8, <2>2
    <3> HIDE DEF d
    <3>2. \E j \in DeliveryRows : DeliveryOf(j) = d /\ Carried(j)'
      BY <3>1 DEF Carried, d
    <3> QED
      BY <3>1, <3>2 DEF HandedOn
  <2>3. CASE d \in faulted
    BY <2>3
  <2> QED
    BY <1>2, <2>1, <2>2, <2>3
<1>10. \A g \in Slots \ {h} : Busy(g) => slot[g].row # i
  BY <1>1, <1>2, Alone
<1>11. \A g \in Slots \ {h} : Holds(g) =>
          delivery'[DeliveryOf(slot[g].row)] = delivery[DeliveryOf(slot[g].row)]
  <2> SUFFICES ASSUME NEW g \in Slots \ {h}, Holds(g)
               PROVE  delivery'[DeliveryOf(slot[g].row)] = delivery[DeliveryOf(slot[g].row)]
    OBVIOUS
  <2>1. DeliveryOf(slot[g].row) # d
    BY <1>1, <1>2, Alone
  <2>2. DeliveryOf(slot[g].row) \in Deliveries
    BY RowShapes DEF Holds, NoticeInv, SlotInv, SlotFits
  <2> QED
    BY <1>7, <2>1, <2>2
<1>12. slot' = [slot EXCEPT ![h] = Free] /\ slot'[h] = Free
  BY <1>0, Cells DEF Leave
<1>13. SlotFits(h)'
  BY <1>12, FreeSlot DEF SlotFits, Busy, Holds
<1>14. t.state # "none" => task[i].state # "none"
  BY <1>1, <1>2, Alone
<1>15. \A e \in Deliveries : delivery'[e] = delivery[e] \/
          /\ i \in DeliveryRows /\ e = DeliveryOf(i) /\ delivery'[e].turn = delivery[e].turn
          /\ delivery[e].status # "absent" /\ delivery'[e].status # "absent"
  BY <1>3, <1>5, <1>7
<1>16. sends' \in [Deliveries -> Nat] /\ faults' \in Nat /\ faulted \subseteq faulted' /\ faulted' \subseteq Deliveries
  BY <1>0 DEF TypeOK
<1>17. i \in DeliveryRows => DeliveryOf(i) \in faulted' \/ HandedOn(DeliveryOf(i))'
  BY <1>9
<1>18. UNCHANGED <<notice, draft, active, recipients, outbox, relay>>
  OBVIOUS
<1>19. /\ Free \in SlotRecords
       /\ Free.live /\ Free.pc # "idle" => Free.row = i
       /\ Free.live /\ Free.pc \in Holding =>
             \A g \in Slots \ {h} : Holds(g) => DeliveryOf(slot[g].row) # DeliveryOf(i)
  BY FreeSlot
<1>20. i \in Rows /\ delivery' \in [Deliveries -> DeliveryRecords] /\ task' = [task EXCEPT ![i] = t]
  BY <1>3, <1>7, <1>8
<1> HIDE DEF d
<1> QED
  BY <1>10, <1>11, <1>12, <1>13, <1>14, <1>15, <1>16, <1>17, <1>18, <1>19, <1>20, HandlerKeeps, Zenon

\* CompleteDelivery, FailDelivery, FailRevoked, releaseDelivery.
LEMMA RecordsKeep ==
    ASSUME NoticeInv, NEW h \in Slots,
           CompleteDelivery(h) \/ FailDelivery(h) \/ FailRevoked(h) \/ releaseDelivery(h)
    PROVE  NoticeInv'
<1>0. TypeOK
  BY DEF NoticeInv
<1>1. Holds(h) /\ HoldsLease(h) /\ slot[h].pc # "idle"
  <2>1. Holds(h) /\ slot[h].pc # "idle"
    BY DEF CompleteDelivery, FailDelivery, FailRevoked, releaseDelivery, At, Holds, Holding
  <2> QED
    BY <2>1 DEF NoticeInv, SlotInv, SlotFits
<1>2. slot[h].row \in Rows
  BY <1>1, SlotRow
<1>3. CASE CompleteDelivery(h)
  <2>1. PICK t \in TaskRecords : task' = [task EXCEPT ![slot[h].row] = t]
    BY <1>0, <1>2, <1>3, TaskEffects DEF CompleteDelivery
  <2> QED
    BY <1>1, <1>3, <2>1, SettleKeeps DEF CompleteDelivery, noticeVars
<1>4. CASE FailRevoked(h)
  <2>1. PICK t \in TaskRecords : task' = [task EXCEPT ![slot[h].row] = t]
    BY <1>0, <1>2, <1>4, TaskEffects DEF FailRevoked
  <2> QED
    BY <1>1, <1>4, <2>1, SettleKeeps DEF FailRevoked, noticeVars
<1>5. CASE FailDelivery(h)
  <2>1. TaskError(slot[h].row)
    BY <1>1, <1>5 DEF FailDelivery
  <2>2. PICK t \in TaskRecords : /\ task' = [task EXCEPT ![slot[h].row] = t]
                                 /\ t.state = IF task[slot[h].row].retried >= MaxRetry THEN "archived" ELSE "ready"
    BY <1>0, <1>2, <2>1, TaskEffects
  <2>3. PICK status \in {"failed", "pending"} :
          Settle(h, status) /\ (status = "pending" => t.state = "ready")
    <3>1. CASE Final(h)
      BY <1>5, <3>1 DEF FailDelivery
    <3>2. CASE ~Final(h)
      <4>1. t.state = "ready"
        BY <2>2, <3>2 DEF Final
      <4>2. Settle(h, "pending")
        BY <1>5, <3>2 DEF FailDelivery
      <4> QED
        BY <4>1, <4>2
    <3> QED
      BY <3>1, <3>2
  <2> QED
    BY <1>1, <1>5, <2>2, <2>3, SettleKeeps DEF FailDelivery, noticeVars
<1>6. CASE releaseDelivery(h)
  <2>1. TaskError(slot[h].row)
    BY <1>1, <1>6 DEF releaseDelivery
  <2>2. PICK t \in TaskRecords : /\ task' = [task EXCEPT ![slot[h].row] = t]
                                 /\ t.state = IF task[slot[h].row].retried >= MaxRetry THEN "archived" ELSE "ready"
    BY <1>0, <1>2, <2>1, TaskEffects
  <2>3. Final(h) => DeliveryOf(slot[h].row) \in faulted
    BY <1>6 DEF releaseDelivery, At, NoticeInv, SlotInv, SlotFits
  <2>4. t.state = "ready" \/ DeliveryOf(slot[h].row) \in faulted
    BY <2>2, <2>3 DEF Final
  <2> QED
    BY <1>1, <1>6, <2>2, <2>4, SettleKeeps DEF releaseDelivery, noticeVars
<1> QED
  BY <1>3, <1>4, <1>5, <1>6

\* NotClaimed: the delivery is settled, or its task comes again, or a live handler
\* has it, whose task is active.
LEMMA NotClaimedKeeps ==
    ASSUME NoticeInv, NEW h \in Slots, NotClaimed(h)
    PROVE  NoticeInv'
<1> DEFINE d == DeliveryOf(slot[h].row)
<1>0. TypeOK /\ faults \in Nat /\ faulted \subseteq Deliveries
  BY DEF NoticeInv, TypeOK
<1>1. Busy(h) /\ slot[h].pc = "claim" /\ slot[h].row \in Rows
  <2>1. slot[h].live /\ slot[h].pc = "claim" /\ slot[h].pc # "idle"
    BY DEF NotClaimed, At
  <2> QED
    BY <2>1, SlotRow DEF Busy
<1>2. /\ slot' = [slot EXCEPT ![h] = Free]
      /\ UNCHANGED <<notice, draft, active, recipients, delivery, outbox, relay, sends, faulted, faults>>
  BY DEF NotClaimed, Leave, noticeVars
<1>3. CASE delivery[d].status \notin {"pending", "delivering"} /\ TaskDone(slot[h].row)
  <2>1. PICK t \in TaskRecords : task' = [task EXCEPT ![slot[h].row] = t]
    BY <1>0, <1>1, <1>3, TaskEffects
  <2> QED
    BY <1>0, <1>1, <1>2, <1>3, <2>1, FreeSlot, EndKeeps
<1>4. CASE delivery[d].status = "delivering" /\ (HeldByLive(d) \/ ~Final(h)) /\ TaskError(slot[h].row)
  <2>1. PICK t \in TaskRecords : /\ task' = [task EXCEPT ![slot[h].row] = t]
                                 /\ t.state = IF task[slot[h].row].retried >= MaxRetry THEN "archived" ELSE "ready"
    BY <1>0, <1>1, <1>4, TaskEffects
  <2>2. t.state = "ready" \/ \E g \in Slots \ {h} : Holds(g) /\ DeliveryOf(slot[g].row) = d
    <3>1. CASE ~Final(h)
      BY <2>1, <3>1 DEF Final
    <3>2. CASE HeldByLive(d)
      <4>1. PICK g \in Slots : slot[g].live /\ slot[g].pc \in Holding /\ DeliveryOf(slot[g].row) = d
        BY <3>2 DEF HeldByLive
      <4>2. g # h
        BY <1>1, <4>1 DEF Holding
      <4> QED
        BY <4>1, <4>2 DEF Holds
    <3> QED
      BY <1>4, <3>1, <3>2
  <2> QED
    BY <1>0, <1>1, <1>2, <1>4, <2>1, <2>2, FreeSlot, EndKeeps
<1> QED
  BY <1>3, <1>4 DEF NotClaimed

\* HandlerCrash and Timeout: the task comes again, or the fault is remembered.
LEMMA CrashesKeep ==
    ASSUME NoticeInv, NEW h \in Slots, HandlerCrash(h) \/ Timeout(h)
    PROVE  NoticeInv'
<1>0. TypeOK
  BY DEF NoticeInv
<1>1. Busy(h) /\ Fault(h) /\ TaskError(slot[h].row) /\ slot[h].pc # "idle"
      /\ UNCHANGED <<notice, draft, active, recipients, delivery, outbox, relay, sends>>
  BY DEF HandlerCrash, Timeout, Busy, noticeVars
<1>2. slot[h].row \in Rows /\ (slot[h].pc # "publish" => slot[h].row \in DeliveryRows)
  BY <1>1, SlotRow
<1>3. PICK t \in TaskRecords : /\ task' = [task EXCEPT ![slot[h].row] = t]
                               /\ t.state = IF task[slot[h].row].retried >= MaxRetry THEN "archived" ELSE "ready"
  BY <1>0, <1>1, <1>2, TaskEffects
<1>4. /\ faults' \in Nat /\ faulted \subseteq faulted' /\ faulted' \subseteq Deliveries
      /\ slot[h].row \in DeliveryRows /\ Final(h) => DeliveryOf(slot[h].row) \in faulted'
  BY <1>1, FaultEffect
<1>5. slot[h].pc # "publish" => t.state = "ready" \/ DeliveryOf(slot[h].row) \in faulted'
  BY <1>2, <1>3, <1>4 DEF Final
<1>6. PICK s \in SlotRecords :
        /\ slot' = [slot EXCEPT ![h] = s]
        /\ s.pc = "idle" \/ (~s.live /\ s.row = slot[h].row /\ s.pc \in Holding /\ slot[h].pc \in Holding)
  <2>1. CASE HandlerCrash(h)
    BY <2>1, FreeSlot DEF HandlerCrash, Leave
  <2>2. CASE Timeout(h)
    <3> DEFINE s == [slot[h] EXCEPT !.live = FALSE]
    <3>1. slot[h] \in SlotRecords
      BY <1>0, Cells
    <3>2. s \in SlotRecords /\ ~s.live /\ s.row = slot[h].row /\ s.pc = slot[h].pc
      BY <3>1 DEF SlotRecords
    <3>3. slot' = [slot EXCEPT ![h] = s] /\ slot[h].pc \in Holding
      BY <2>2 DEF Timeout, Holding
    <3> QED
      BY <3>2, <3>3
  <2> QED
    BY <2>1, <2>2
<1> QED
  BY <1>1, <1>3, <1>4, <1>5, <1>6, EndKeeps

\* ClaimDelivery: nobody alive holds the delivery, since the lease of a live holder
\* is the delivery's own.
LEMMA ClaimKeeps ==
    ASSUME NoticeInv, NEW h \in Slots, ClaimDelivery(h)
    PROVE  NoticeInv'
<1>0. TypeOK /\ delivery \in [Deliveries -> DeliveryRecords] /\ slot \in [Slots -> SlotRecords]
      /\ task \in [Rows -> TaskRecords]
  BY Cells DEF NoticeInv
<1>1. slot[h].live /\ slot[h].pc = "claim" /\ Busy(h) /\ slot[h].pc # "publish" /\ slot[h].pc # "idle"
  BY DEF ClaimDelivery, At, Busy
<1>2. PICK i \in DeliveryRows : i = slot[h].row
  BY <1>1, SlotRow
<1> DEFINE d == DeliveryOf(i)
           x == [delivery[d] EXCEPT !.status = "delivering", !.token = delivery[d].token + 1]
           s == [slot[h] EXCEPT !.pc = "load", !.token = delivery[d].token + 1]
<1>3. d \in Deliveries /\ i \in Rows /\ delivery[d] \in DeliveryRecords /\ slot[h] \in SlotRecords
  BY <1>0, <1>2, RowShapes
<1>4. delivery[d].token + 1 \in Nat
  BY <1>3 DEF DeliveryRecords
<1>5. /\ x \in DeliveryRecords /\ x.status = "delivering" /\ x.turn = delivery[d].turn
      /\ x.token = delivery[d].token + 1
  BY <1>3, <1>4 DEF DeliveryRecords, DeliveryStatuses
<1>6. s \in SlotRecords /\ s.pc = "load" /\ s.token = delivery[d].token + 1 /\ s.row = i /\ s.live
  BY <1>1, <1>2, <1>3, <1>4 DEF SlotRecords, PCs
<1>7. /\ delivery' = [delivery EXCEPT ![d] = x] /\ slot' = [slot EXCEPT ![h] = s]
      /\ Claimable(d)
      /\ UNCHANGED <<notice, draft, active, recipients, outbox, task, relay, sends, faulted, faults>>
  <2>1. Claimable(d)
    BY <1>2 DEF ClaimDelivery
  <2>2. UNCHANGED <<notice, draft, active, recipients, outbox, task, relay, sends, faulted, faults>>
    BY DEF ClaimDelivery, noticeVars
  <2>3. delivery' = [delivery EXCEPT ![d] = x]
    BY <1>2, Zenon DEF ClaimDelivery
  <2>4. slot' = [slot EXCEPT ![h] = s]
    BY <1>2, Zenon DEF ClaimDelivery
  <2> QED
    BY <2>1, <2>2, <2>3, <2>4
<1> HIDE DEF x, s
<1>8. /\ \A e \in Deliveries : delivery'[e] = IF e = d THEN x ELSE delivery[e]
      /\ delivery' \in [Deliveries -> DeliveryRecords] /\ slot'[h] = s
  BY <1>0, <1>5, <1>7
<1>9. \A g \in Slots \ {h} : Holds(g) => DeliveryOf(slot[g].row) # d
  <2> SUFFICES ASSUME NEW g \in Slots \ {h}, Holds(g), DeliveryOf(slot[g].row) = d PROVE FALSE
    OBVIOUS
  <2>1. HoldsLease(g)
    BY DEF NoticeInv, SlotInv, SlotFits
  <2>2. delivery[d].status = "delivering" /\ delivery[d].token = slot[g].token
    BY <2>1 DEF HoldsLease
  <2>3. HeldByLive(d)
    <3> HIDE DEF d
    <3> QED
      BY <2>2 DEF HeldByLive, Holds
  <2> QED
    BY <1>7, <2>2, <2>3 DEF Claimable
<1>10. delivery[d].status \in {"pending", "delivering"}
  BY <1>7 DEF Claimable
<1>11. task[i].state = "active"
  BY <1>1, <1>2, Alone
<1>12. SlotFits(h)'
  <2>1. "load" \in Holding /\ "load" # "publish" /\ "load" # "release"
    BY DEF Holding
  <2>2. HoldsLease(h)'
    BY <1>3, <1>5, <1>6, <1>8 DEF HoldsLease, DeliveryOf
  <2> QED
    BY <1>2, <1>6, <1>7, <1>8, <1>11, <2>1, <2>2 DEF SlotFits
<1>13. HandedOn(d)'
  <2>1. delivery'[d].status = "delivering" /\ task'[i].state = "active"
    BY <1>3, <1>5, <1>7, <1>8, <1>11
  <2> HIDE DEF d
  <2>2. \E j \in DeliveryRows : DeliveryOf(j) = d /\ Carried(j)'
    BY <2>1 DEF Carried, d
  <2> QED
    BY <2>1, <2>2 DEF HandedOn
<1>14. \A g \in Slots \ {h} : Busy(g) => slot[g].row # i
  BY <1>1, <1>2, Alone
<1>15. \A g \in Slots \ {h} : Holds(g) =>
          delivery'[DeliveryOf(slot[g].row)] = delivery[DeliveryOf(slot[g].row)]
  <2> SUFFICES ASSUME NEW g \in Slots \ {h}, Holds(g)
               PROVE  delivery'[DeliveryOf(slot[g].row)] = delivery[DeliveryOf(slot[g].row)]
    OBVIOUS
  <2>1. DeliveryOf(slot[g].row) \in Deliveries
    BY RowShapes DEF Holds, NoticeInv, SlotInv, SlotFits
  <2> QED
    BY <1>8, <1>9, <2>1
<1>16. /\ task[i] \in TaskRecords /\ task' = [task EXCEPT ![i] = task[i]]
       /\ task[i].state # "none" => task[i].state # "none"
  BY <1>0, <1>3, <1>7
<1>17. \A e \in Deliveries : delivery'[e] = delivery[e] \/
          /\ i \in DeliveryRows /\ e = DeliveryOf(i) /\ delivery'[e].turn = delivery[e].turn
          /\ delivery[e].status # "absent" /\ delivery'[e].status # "absent"
  BY <1>5, <1>8, <1>10
<1>18. sends' \in [Deliveries -> Nat] /\ faults' \in Nat /\ faulted \subseteq faulted' /\ faulted' \subseteq Deliveries
  BY <1>0, <1>7 DEF TypeOK
<1>19. i \in DeliveryRows => DeliveryOf(i) \in faulted' \/ HandedOn(DeliveryOf(i))'
  BY <1>13
<1>20. /\ s.live /\ s.pc # "idle" => s.row = i
       /\ s.live /\ s.pc \in Holding =>
             \A g \in Slots \ {h} : Holds(g) => DeliveryOf(slot[g].row) # DeliveryOf(i)
  BY <1>6, <1>9
<1>21. UNCHANGED <<notice, draft, active, recipients, outbox, relay>> /\ i \in Rows /\ s \in SlotRecords
       /\ delivery' \in [Deliveries -> DeliveryRecords] /\ slot' = [slot EXCEPT ![h] = s]
  BY <1>3, <1>6, <1>7, <1>8
<1> HIDE DEF d
<1> QED
  BY <1>12, <1>14, <1>15, <1>16, <1>17, <1>18, <1>19, <1>20, <1>21, HandlerKeeps, Zenon

\* Handle: the task was ready, so no live handler has it.
LEMMA HandleKeeps ==
    ASSUME NoticeInv, NEW h \in Slots, NEW i \in Rows, Handle(h, i)
    PROVE  NoticeInv'
<1> DEFINE pc == IF i.kind = "publish" THEN "publish" ELSE "claim"
           s == [pc |-> pc, row |-> i, token |-> 0, live |-> TRUE]
           t == [task[i] EXCEPT !.state = "active"]
<1>0. TypeOK /\ delivery \in [Deliveries -> DeliveryRecords] /\ task[i] \in TaskRecords
  BY Cells DEF NoticeInv
<1>1. t \in TaskRecords /\ t.state = "active"
  BY <1>0 DEF TaskRecords
<1>2. /\ task[i].state = "ready" /\ task' = [task EXCEPT ![i] = t] /\ slot' = [slot EXCEPT ![h] = s]
      /\ UNCHANGED <<notice, draft, active, recipients, delivery, outbox, relay, sends, faulted, faults>>
  BY DEF Handle, noticeVars
<1>3. /\ (pc = "publish" /\ i \in PublishRows) \/ (pc = "claim" /\ i \in DeliveryRows)
      /\ pc \in PCs /\ pc \notin Holding /\ pc # "release"
  BY RowShapes DEF PCs, Holding
<1> HIDE DEF pc, t
<1>4. s \in SlotRecords /\ s.pc = pc /\ s.row = i
  BY <1>3 DEF SlotRecords, RowSlots
<1> HIDE DEF s
<1>5. slot'[h] = s /\ \A j \in Rows : task'[j] = IF j = i THEN t ELSE task[j]
  BY <1>0, <1>2, Cells
<1>6. SlotFits(h)'
  <2>1. "publish" # "claim"
    OBVIOUS
  <2> QED
    BY <1>1, <1>3, <1>4, <1>5, <2>1 DEF SlotFits, Busy, Holds
<1>7. \A g \in Slots \ {h} : Busy(g) => slot[g].row # i
  BY <1>2 DEF NoticeInv, SlotInv, SlotFits
<1>8. i \in DeliveryRows => DeliveryOf(i) \in faulted' \/ HandedOn(DeliveryOf(i))'
  <2> DEFINE d == DeliveryOf(i)
  <2> SUFFICES ASSUME i \in DeliveryRows PROVE d \in faulted' \/ HandedOn(d)'
    OBVIOUS
  <2>1. \E j \in DeliveryRows : DeliveryOf(j) = d /\ Carried(j)'
    BY <1>1, <1>5 DEF Carried
  <2> HIDE DEF d
  <2> QED
    BY <2>1 DEF HandedOn
<1>9. /\ s.live /\ s.pc # "idle" => s.row = i
      /\ s.live /\ s.pc \in Holding =>
            \A g \in Slots \ {h} : Holds(g) => DeliveryOf(slot[g].row) # DeliveryOf(i)
  BY <1>3, <1>4
<1>10. sends' \in [Deliveries -> Nat] /\ faults' \in Nat /\ faulted \subseteq faulted' /\ faulted' \subseteq Deliveries
  BY <1>0, <1>2 DEF TypeOK
<1>11. /\ UNCHANGED <<notice, draft, active, recipients, outbox, relay>>
       /\ delivery' \in [Deliveries -> DeliveryRecords]
       /\ t.state # "none" => task[i].state # "none"
       /\ \A e \in Deliveries : delivery'[e] = delivery[e]
       /\ \A g \in Slots \ {h} : Holds(g) => delivery'[DeliveryOf(slot[g].row)] = delivery[DeliveryOf(slot[g].row)]
  BY <1>0, <1>2
<1> QED
  BY <1>1, <1>2, <1>4, <1>6, <1>7, <1>8, <1>9, <1>10, <1>11, HandlerKeeps, Zenon

-----------------------------------------------------------------------------
(* NoticeCenter: the relay and the administrators.                            *)

\* Steps that leave handlers and tasks alone: no claimed delivery is touched, no
\* row disappears, and whoever came for a delivery still does.
LEMMA TablesKeep ==
    ASSUME NoticeInv, TypeOK', UNCHANGED <<slot, task>>,
           \A d \in Deliveries : delivery[d].status = "delivering" => delivery'[d] = delivery[d],
           faulted' \subseteq faulted,
           \A d \in faulted \ faulted' : delivery[d].status # "delivering",
           QueueInv', KeptInv', SnapInv'
    PROVE  NoticeInv'
<1>1. ASSUME NEW h \in Slots PROVE SlotFits(h)'
  <2>1. SlotFits(h) /\ slot'[h] = slot[h]
    BY DEF NoticeInv, SlotInv
  <2>2. Holds(h) => HoldsLease(h) /\ DeliveryOf(slot[h].row) \in Deliveries
    BY <2>1, RowShapes DEF SlotFits, Holds
  <2>3. Holds(h) => delivery'[DeliveryOf(slot[h].row)] = delivery[DeliveryOf(slot[h].row)]
                    /\ delivery[DeliveryOf(slot[h].row)].status = "delivering"
    BY <2>2 DEF HoldsLease
  <2>4. Holds(h) => HoldsLease(h)'
    BY <2>1, <2>2, <2>3 DEF HoldsLease, DeliveryOf
  <2>5. slot[h].live /\ slot[h].pc = "release" => Holds(h)
    BY DEF Holds, Holding
  <2>6. slot[h].live /\ slot[h].pc = "release" /\ DeliveryOf(slot[h].row) \in faulted => DeliveryOf(slot[h].row) \in faulted'
    BY <2>3, <2>5
  <2>7. (Busy(h)' <=> Busy(h)) /\ (Holds(h)' <=> Holds(h)) /\ (Final(h)' <=> Final(h)) /\ DeliveryOf(slot[h].row)' = DeliveryOf(slot[h].row)
    BY <2>1 DEF Busy, Holds, Final, DeliveryOf
  <2> QED
    BY <2>1, <2>4, <2>6, <2>7 DEF SlotFits
<1>2. SlotsApart'
  BY DEF NoticeInv, SlotInv, SlotsApart, Busy, Holds, DeliveryOf
<1> QED
  BY <1>1, <1>2 DEF NoticeInv, SlotInv

\* Whoever came for d still does, when d and the tasks stay and a row that is still
\* to be enqueued stays so.
LEMMA HandedOnFrame ==
    ASSUME NEW d \in Deliveries, HandedOn(d), delivery'[d].status = delivery[d].status,
           \A i \in DeliveryRows : task'[i] = task[i],
           \A i \in DeliveryRows : DeliveryOf(i) = d /\ Owed(i) => Owed(i)'
    PROVE  HandedOn(d)'
<1>1. \A i \in DeliveryRows : Carried(i)' <=> Carried(i)
  BY DEF Carried
<1>2. delivery[d].status = "delivering" => \E i \in DeliveryRows : DeliveryOf(i) = d /\ Carried(i)'
  BY <1>1 DEF HandedOn
<1>3. delivery[d].status = "pending" =>
         \E i \in DeliveryRows : DeliveryOf(i) = d /\ (Carried(i)' \/ (task'[i].state = "none" /\ Owed(i)'))
  BY <1>1 DEF HandedOn
<1> QED
  BY <1>2, <1>3 DEF HandedOn

\* Create, UpdateDraft, DeleteDraft, QueuePublish, DisableUser: before its
\* publication a notice has no recipients and no deliveries.
LEMMA DraftsKeep ==
    ASSUME NoticeInv,
           \/ \E n \in Notices : \/ \E c \in Drafts : Create(n, c) \/ UpdateDraft(n, c)
                                 \/ DeleteDraft(n)
                                 \/ \E later \in BOOLEAN : QueuePublish(n, later)
           \/ \E u \in Users : DisableUser(u)
    PROVE  NoticeInv'
<1>0. TypeOK /\ QueueInv /\ KeptInv /\ SnapInv
  BY DEF NoticeInv
<1>1. UNCHANGED <<recipients, delivery, task, relay, slot, sends, faulted, faults>>
  BY DEF Create, UpdateDraft, DeleteDraft, QueuePublish, DisableUser, workVars
<1>2. \A i \in DeliveryRows : outbox'[i] = outbox[i]
  <2>1. ASSUME NEW n \in Notices, NEW later \in BOOLEAN, QueuePublish(n, later)
        PROVE  \A i \in DeliveryRows : outbox'[i] = outbox[i]
    <3>1. [kind |-> "publish", notice |-> n] \notin DeliveryRows
      BY RowShapes
    <3>2. outbox' = [outbox EXCEPT ![[kind |-> "publish", notice |-> n]] = NewRow(~later)]
      BY <2>1 DEF QueuePublish
    <3> QED
      BY <1>0, <3>1, <3>2, Cells, RowShapes
  <2> QED
    BY <2>1 DEF Create, UpdateDraft, DeleteDraft, DisableUser
<1>3. TypeOK'
  <2>1. outbox' \in [Rows -> [status : OutboxStatuses, due : BOOLEAN, token : Nat, old : BOOLEAN]]
    <3>1. ASSUME NEW later \in BOOLEAN PROVE NewRow(~later) \in OutboxRecords
      BY DEF NewRow, OutboxRecords, OutboxStatuses
    <3>2. ASSUME NEW n \in Notices, NEW later \in BOOLEAN, QueuePublish(n, later)
          PROVE  outbox' \in [Rows -> OutboxRecords]
      <4>1. outbox' = [outbox EXCEPT ![[kind |-> "publish", notice |-> n]] = NewRow(~later)]
        BY <3>2 DEF QueuePublish
      <4> QED
        BY <1>0, <3>1, <4>1, Cells
    <3>3. outbox' \in [Rows -> OutboxRecords]
      BY <1>0, <3>2, Cells DEF Create, UpdateDraft, DeleteDraft, DisableUser
    <3> QED
      BY <3>3 DEF OutboxRecords
  <2>2. notice' \in [Notices -> NoticeStatuses] /\ draft' \in [Notices -> Drafts \cup {NoDraft}] /\ active' \subseteq Users
    <3>0. /\ notice \in [Notices -> NoticeStatuses] /\ draft \in [Notices -> Drafts \cup {NoDraft}]
          /\ active \subseteq Users
      BY <1>0 DEF TypeOK
    <3>1. active' \subseteq Users
      BY <3>0 DEF Create, UpdateDraft, DeleteDraft, QueuePublish, DisableUser
    <3>2. draft' \in [Notices -> Drafts \cup {NoDraft}]
      BY <3>0 DEF Create, UpdateDraft, DeleteDraft, QueuePublish, DisableUser
    <3>3. {"draft", "deleted", "scheduled", "publishing"} \subseteq NoticeStatuses
      BY DEF NoticeStatuses
    <3>4. notice' = notice \/ \E n \in Notices, x \in {"draft", "deleted", "scheduled", "publishing"} :
                                 notice' = [notice EXCEPT ![n] = x]
      BY DEF Create, UpdateDraft, DeleteDraft, QueuePublish, DisableUser
    <3>5. notice' \in [Notices -> NoticeStatuses]
      BY <3>0, <3>3, <3>4
    <3> QED
      BY <3>1, <3>2, <3>5
  <2> QED
    BY <1>0, <1>1, <2>1, <2>2 DEF TypeOK
<1>4. QueueInv'
  BY <1>0, <1>1, <1>2 DEF QueueInv, DeliveryOf
<1>5. KeptInv'
  <2>1. \A i \in DeliveryRows : Owed(i) => Owed(i)'
    BY <1>1, <1>2 DEF Owed
  <2> QED
    BY <1>0, <1>1, <2>1, HandedOnFrame DEF KeptInv
<1>6. SnapInv'
  <2>1. ASSUME NEW n \in Notices
        PROVE  /\ draft'[n] = draft[n] \/ recipients[n] = {}
               /\ notice'[n] \notin {"published", "revoked"} => recipients[n] = {}
    <3>1. notice[n] \notin {"published", "revoked"} => recipients[n] = {}
      BY <1>0 DEF SnapInv
    <3>2. \/ draft'[n] = draft[n]
          \/ notice[n] \in {"absent", "draft"}
      BY <1>0 DEF Create, UpdateDraft, DeleteDraft, QueuePublish, DisableUser, TypeOK
    <3>3. \/ notice'[n] = notice[n]
          \/ notice[n] \in {"absent", "draft"} /\ notice'[n] \in {"draft", "deleted", "scheduled", "publishing"}
      BY <1>0 DEF Create, UpdateDraft, DeleteDraft, QueuePublish, DisableUser, TypeOK
    <3> QED
      BY <3>1, <3>2, <3>3
  <2>2. ASSUME NEW d \in Deliveries
        PROVE  delivery'[d].status # "absent" <=> draft'[d[1]].push /\ d[2] \in recipients'[d[1]]
    <3>1. d[1] \in Notices
      BY DEF Deliveries
    <3>2. delivery[d].status # "absent" <=> draft[d[1]].push /\ d[2] \in recipients[d[1]]
      BY <1>0 DEF SnapInv
    <3>3. CASE draft'[d[1]] = draft[d[1]]
      BY <1>1, <3>2, <3>3
    <3>4. CASE recipients[d[1]] = {}
      BY <1>1, <3>2, <3>4
    <3> QED
      BY <2>1, <3>1, <3>3, <3>4
  <2> QED
    BY <1>1, <2>1, <2>2 DEF SnapInv
<1> QED
  BY <1>1, <1>3, <1>4, <1>5, <1>6, TablesKeep

\* A row that is written keeps its place: what the relay steps do to the outbox.
LEMMA RelayKeeps ==
    ASSUME NoticeInv, UNCHANGED <<notice, draft, active, recipients, delivery, task, slot, sends, faulted>>,
           outbox' \in [Rows -> OutboxRecords], faults' \in Nat,
           relay' \in [Relays -> [rows : SUBSET (Rows \X Nat), mark : SUBSET (Rows \X Nat)]],
           \A i \in DeliveryRows : /\ outbox'[i].status = "absent" <=> outbox[i].status = "absent"
                                   /\ outbox[i].token <= outbox'[i].token,
           \A r \in Relays : \A p \in relay'[r].rows \cup relay'[r].mark :
              \/ p \in relay[r].rows \cup relay[r].mark
              \/ p[1] \in DeliveryRows => outbox[p[1]].status # "absent" /\ p[2] <= outbox'[p[1]].token,
           \A i \in DeliveryRows : Owed(i) => Owed(i)'
    PROVE  NoticeInv'
<1>0. TypeOK /\ QueueInv /\ KeptInv /\ SnapInv
  BY DEF NoticeInv
<1>1. TypeOK'
  <2>1. outbox' \in [Rows -> [status : OutboxStatuses, due : BOOLEAN, token : Nat, old : BOOLEAN]]
    BY DEF OutboxRecords
  <2> QED
    BY <1>0, <2>1 DEF TypeOK
<1>2. QueueInv'
  <2>1. \A r \in Relays : \A p \in relay'[r].rows \cup relay'[r].mark :
          p[1] \in DeliveryRows => outbox'[p[1]].status # "absent" /\ p[2] <= outbox'[p[1]].token
    <3> SUFFICES ASSUME NEW r \in Relays, NEW p \in relay'[r].rows \cup relay'[r].mark, p[1] \in DeliveryRows
                 PROVE  outbox'[p[1]].status # "absent" /\ p[2] <= outbox'[p[1]].token
      OBVIOUS
    <3>1. CASE p \in relay[r].rows \cup relay[r].mark
      <4>1. outbox[p[1]].status # "absent" /\ p[2] <= outbox[p[1]].token
        BY <1>0, <3>1 DEF QueueInv
      <4>2. relay[r].rows \subseteq Rows \X Nat /\ relay[r].mark \subseteq Rows \X Nat
        BY <1>0 DEF TypeOK
      <4>3. p[2] \in Nat
        BY <3>1, <4>2
      <4>4. outbox[p[1]].token \in Nat /\ outbox'[p[1]].token \in Nat
        BY <1>0, <1>1, RowShapes, Cells DEF OutboxRecords
      <4> QED
        BY <4>1, <4>3, <4>4
    <3>2. CASE p \notin relay[r].rows \cup relay[r].mark
      BY <3>2
    <3> QED
      BY <3>1, <3>2
  <2>2. \A i \in DeliveryRows : task'[i].state # "none" => outbox'[i].status # "absent"
    BY <1>0 DEF QueueInv
  <2>3. \A i \in DeliveryRows : outbox'[i].status # "absent" =>
          delivery'[DeliveryOf(i)].status # "absent" /\ i.turn <= delivery'[DeliveryOf(i)].turn
    BY <1>0 DEF QueueInv
  <2> QED
    BY <2>1, <2>2, <2>3 DEF QueueInv, DeliveryOf
<1>3. KeptInv'
  BY <1>0, HandedOnFrame DEF KeptInv
<1>4. SnapInv'
  BY <1>0, SnapFrame
<1> QED
  BY <1>1, <1>2, <1>3, <1>4, TablesKeep

\* Time: BecomesDue, LeaseAges.
LEMMA TimeKeeps ==
    ASSUME NoticeInv, NEW i \in Rows, BecomesDue(i) \/ LeaseAges(i)
    PROVE  NoticeInv'
<1>0. TypeOK /\ outbox \in [Rows -> OutboxRecords] /\ outbox[i] \in OutboxRecords
  BY Cells DEF NoticeInv
<1>1. UNCHANGED <<notice, draft, active, recipients, delivery, task, relay, slot, sends, faulted, faults>>
  BY DEF BecomesDue, LeaseAges, noticeVars, workVars
<1>2. PICK x \in OutboxRecords : /\ outbox' = [outbox EXCEPT ![i] = x]
                                 /\ x.status = outbox[i].status /\ x.token = outbox[i].token
  <2>1. CASE BecomesDue(i)
    <3> DEFINE x == [outbox[i] EXCEPT !.due = TRUE]
    <3>1. x \in OutboxRecords /\ x.status = outbox[i].status /\ x.token = outbox[i].token
      BY <1>0 DEF OutboxRecords
    <3>2. outbox' = [outbox EXCEPT ![i] = x]
      BY <2>1 DEF BecomesDue
    <3> QED
      BY <3>1, <3>2
  <2>2. CASE LeaseAges(i)
    <3> DEFINE x == [outbox[i] EXCEPT !.old = TRUE]
    <3>1. x \in OutboxRecords /\ x.status = outbox[i].status /\ x.token = outbox[i].token
      BY <1>0 DEF OutboxRecords
    <3>2. outbox' = [outbox EXCEPT ![i] = x]
      BY <2>2 DEF LeaseAges
    <3> QED
      BY <3>1, <3>2
  <2> QED
    BY <2>1, <2>2
<1>3. \A j \in Rows : outbox'[j].status = outbox[j].status /\ outbox'[j].token = outbox[j].token
  BY <1>0, <1>2
<1>4. outbox' \in [Rows -> OutboxRecords]
  BY <1>0, <1>2
<1>5. \A j \in DeliveryRows : Owed(j) => Owed(j)'
  BY <1>1, <1>3, RowShapes DEF Owed
<1>6. \A j \in DeliveryRows : /\ outbox'[j].status = "absent" <=> outbox[j].status = "absent"
                              /\ outbox[j].token <= outbox'[j].token
  BY <1>0, <1>3, RowShapes, Cells
<1>7. relay' \in [Relays -> [rows : SUBSET (Rows \X Nat), mark : SUBSET (Rows \X Nat)]] /\ faults' \in Nat
  BY <1>0, <1>1 DEF TypeOK
<1> QED
  BY <1>1, <1>4, <1>5, <1>6, <1>7, RelayKeeps

\* LeaseOutbox: the new token is above every token a relay carries, so the row has
\* still to be enqueued under it.
LEMMA LeaseKeeps ==
    ASSUME NoticeInv, NEW r \in Relays, LeaseOutbox(r)
    PROVE  NoticeInv'
<1> DEFINE rows == {i \in Rows : Leasable(i) /\ outbox[i].token < MaxLeases}
           pairs == {<<i, outbox[i].token + 1>> : i \in rows}
           x(i) == [status |-> "leased", due |-> TRUE, token |-> outbox[i].token + 1, old |-> FALSE]
           c == [rows |-> pairs, mark |-> {}]
<1>0. TypeOK /\ outbox \in [Rows -> OutboxRecords] /\ QueueInv
      /\ relay \in [Relays -> [rows : SUBSET (Rows \X Nat), mark : SUBSET (Rows \X Nat)]]
  BY Cells DEF NoticeInv, TypeOK
<1>1. \A i \in Rows : outbox[i].token \in Nat /\ outbox[i].token + 1 \in Nat
  BY <1>0, Cells
<1>2. /\ UNCHANGED <<notice, draft, active, recipients, delivery, task, slot, sends, faulted, faults>>
      /\ relay[r] = Resting
  BY DEF LeaseOutbox, noticeVars
<1>3. outbox' = [i \in Rows |-> IF i \in rows THEN x(i) ELSE outbox[i]]
  BY DEF LeaseOutbox
<1>4. relay' = [relay EXCEPT ![r] = c]
  <2>1. relay' = [relay EXCEPT ![r] = [relay[r] EXCEPT !.rows = pairs]]
    BY DEF LeaseOutbox
  <2>2. [relay[r] EXCEPT !.rows = pairs] = c
    <3> HIDE DEF pairs
    <3>1. relay[r] = [rows |-> {}, mark |-> {}]
      BY <1>2 DEF Resting
    <3> QED
      BY <3>1
  <2> QED
    BY <2>1, <2>2
<1>5. pairs \in SUBSET (Rows \X Nat)
  BY <1>1
<1>6. \A i \in rows : x(i) \in OutboxRecords /\ x(i).status = "leased" /\ x(i).token = outbox[i].token + 1
  BY <1>1 DEF OutboxRecords, OutboxStatuses
<1>7. \A i \in rows : outbox[i].status # "absent"
  BY DEF Leasable
<1>8. \A p \in pairs : p[1] \in rows /\ p[2] = outbox[p[1]].token + 1
  OBVIOUS
<1>9. c.rows = pairs /\ c.mark = {} /\ c \in [rows : SUBSET (Rows \X Nat), mark : SUBSET (Rows \X Nat)]
  BY <1>5
<1>r. rows \subseteq Rows
  OBVIOUS
<1> HIDE DEF x, pairs, c, rows
<1>10. /\ outbox' \in [Rows -> OutboxRecords]
       /\ relay' \in [Relays -> [rows : SUBSET (Rows \X Nat), mark : SUBSET (Rows \X Nat)]]
       /\ \A i \in Rows : outbox'[i] = IF i \in rows THEN x(i) ELSE outbox[i]
       /\ \A q \in Relays : relay'[q] = IF q = r THEN c ELSE relay[q]
  BY <1>0, <1>3, <1>4, <1>6, <1>9
<1>11. \A i \in DeliveryRows : /\ outbox'[i].status = "absent" <=> outbox[i].status = "absent"
                               /\ outbox[i].token <= outbox'[i].token
  <2> SUFFICES ASSUME NEW i \in DeliveryRows
               PROVE  /\ outbox'[i].status = "absent" <=> outbox[i].status = "absent"
                      /\ outbox[i].token <= outbox'[i].token
    OBVIOUS
  <2>1. i \in Rows
    BY RowShapes
  <2> QED
    BY <1>1, <1>6, <1>7, <1>10, <2>1
<1>12. \A q \in Relays : \A p \in relay'[q].rows \cup relay'[q].mark :
          \/ p \in relay[q].rows \cup relay[q].mark
          \/ p[1] \in DeliveryRows => outbox[p[1]].status # "absent" /\ p[2] <= outbox'[p[1]].token
  <2> SUFFICES ASSUME NEW q \in Relays, NEW p \in relay'[q].rows \cup relay'[q].mark,
                      p \notin relay[q].rows \cup relay[q].mark
               PROVE  outbox[p[1]].status # "absent" /\ p[2] <= outbox'[p[1]].token
    OBVIOUS
  <2>1. p \in pairs
    BY <1>9, <1>10
  <2>2. p[1] \in rows /\ p[2] = outbox[p[1]].token + 1
    BY <1>8, <2>1
  <2>3. outbox'[p[1]].token = outbox[p[1]].token + 1 /\ p[2] \in Nat
    BY <1>1, <1>6, <1>10, <1>r, <2>2
  <2> QED
    BY <1>7, <2>2, <2>3
<1>13. \A i \in DeliveryRows : Owed(i) => Owed(i)'
  <2> SUFFICES ASSUME NEW i \in DeliveryRows, Owed(i) PROVE Owed(i)'
    OBVIOUS
  <2>1. i \in Rows
    BY RowShapes
  <2>2. CASE i \notin rows
    BY <1>9, <1>10, <2>1, <2>2 DEF Owed
  <2>3. CASE i \in rows
    <3>1. outbox'[i].status = "leased" /\ outbox'[i].token = outbox[i].token + 1
      BY <1>6, <1>10, <2>1, <2>3
    <3>2. ASSUME NEW q \in Relays, <<i, outbox'[i].token>> \in relay'[q].mark PROVE FALSE
      <4>1. <<i, outbox'[i].token>> \in relay[q].mark
        BY <1>9, <1>10, <3>2
      <4>2. outbox'[i].token <= outbox[i].token
        BY <1>0, <4>1 DEF QueueInv
      <4> QED
        BY <1>1, <2>1, <3>1, <4>2
    <3> QED
      BY <3>1, <3>2 DEF Owed
  <2> QED
    BY <2>2, <2>3
<1>14. faults' \in Nat
  BY <1>0, <1>2 DEF TypeOK
<1> QED
  BY <1>2, <1>10, <1>11, <1>12, <1>13, <1>14, RelayKeeps

\* Enqueue: where the relay took its row to the queue, a task takes over.
LEMMA EnqueueKeeps ==
    ASSUME NoticeInv, NEW r \in Relays, NEW p \in relay[r].rows, Enqueue(r, p[1], p[2])
    PROVE  NoticeInv'
<1>0. TypeOK /\ QueueInv /\ KeptInv /\ SnapInv /\ SlotInv
      /\ task \in [Rows -> TaskRecords]
      /\ relay \in [Relays -> [rows : SUBSET (Rows \X Nat), mark : SUBSET (Rows \X Nat)]]
  BY Cells DEF NoticeInv, TypeOK
<1>1. PICK i \in Rows, k \in Nat : p = <<i, k>> /\ Enqueue(r, i, k)
  BY <1>0
<1> DEFINE ready == [state |-> "ready", retried |-> 0]
           c == [rows |-> relay[r].rows \ {<<i, k>>}, mark |-> {<<i, k>>}]
<1>2. /\ UNCHANGED <<notice, draft, active, recipients, delivery, outbox, slot, sends, faulted, faults>>
      /\ relay[r].mark = {} /\ relay' = [relay EXCEPT ![r] = c]
      /\ task' = IF task[i].state = "none" THEN [task EXCEPT ![i] = ready] ELSE task
  BY <1>1 DEF Enqueue, noticeVars
<1>3. ready \in TaskRecords /\ ready.state = "ready"
  BY BoundsAssumption DEF TaskRecords
<1>4. c \in [rows : SUBSET (Rows \X Nat), mark : SUBSET (Rows \X Nat)] /\ c.rows \subseteq relay[r].rows
      /\ c.mark = {<<i, k>>}
  BY <1>0
<1> HIDE DEF ready, c
<1>5. \A q \in Relays : relay'[q] = IF q = r THEN c ELSE relay[q]
  BY <1>0, <1>2
<1>6. \A j \in Rows : task'[j] = IF j = i /\ task[i].state = "none" THEN ready ELSE task[j]
  BY <1>0, <1>2
<1>7. TypeOK'
  <2>1. task' \in [Rows -> TaskRecords]
    BY <1>0, <1>2, <1>3
  <2>2. relay' \in [Relays -> [rows : SUBSET (Rows \X Nat), mark : SUBSET (Rows \X Nat)]]
    BY <1>0, <1>2, <1>4
  <2> QED
    BY <1>0, <1>2, <2>1, <2>2 DEF TypeOK, TaskRecords
<1>8. ASSUME NEW h \in Slots, Busy(h)
      PROVE  slot[h].row \in Rows /\ task'[slot[h].row] = task[slot[h].row]
  <2>1. task[slot[h].row].state = "active" /\ slot[h].row \in Rows
    BY <1>8, Alone, SlotRow DEF Busy
  <2> QED
    BY <1>6, <2>1
<1>9. SlotInv'
  <2>1. ASSUME NEW h \in Slots PROVE SlotFits(h)'
    <3>1. SlotFits(h) /\ slot'[h] = slot[h]
      BY <1>0, <1>2 DEF SlotInv
    <3>2. (Busy(h)' <=> Busy(h)) /\ (Holds(h)' <=> Holds(h)) /\ (HoldsLease(h)' <=> HoldsLease(h))
      BY <1>2 DEF Busy, Holds, HoldsLease, DeliveryOf
    <3>3. Busy(h) => (Final(h)' <=> Final(h))
      BY <1>2, <1>8 DEF Final
    <3>4. slot[h].live /\ slot[h].pc = "release" => Busy(h)
      BY DEF Busy
    <3>5. Busy(h)' => task'[slot'[h].row].state = "active"
      BY <1>8, <3>1, <3>2 DEF SlotFits
    <3> QED
      BY <1>2, <3>1, <3>2, <3>3, <3>4, <3>5 DEF SlotFits, DeliveryOf
  <2>2. SlotsApart'
    BY <1>0, <1>2 DEF SlotInv, SlotsApart, Busy, Holds, DeliveryOf
  <2> QED
    BY <2>1, <2>2 DEF SlotInv
<1>10. i \in DeliveryRows => outbox[i].status # "absent" /\ k <= outbox[i].token
  <2>1. p \in relay[r].rows \cup relay[r].mark /\ p[1] = i /\ p[2] = k
    BY <1>1
  <2> QED
    BY <1>0, <2>1 DEF QueueInv
<1>11. QueueInv'
  <2>1. \A j \in DeliveryRows : task'[j].state # "none" => outbox'[j].status # "absent"
    BY <1>0, <1>2, <1>6, <1>10, RowShapes DEF QueueInv
  <2>2. \A q \in Relays : \A x \in relay'[q].rows \cup relay'[q].mark :
          x[1] \in DeliveryRows => outbox'[x[1]].status # "absent" /\ x[2] <= outbox'[x[1]].token
    <3> SUFFICES ASSUME NEW q \in Relays, NEW x \in relay'[q].rows \cup relay'[q].mark, x[1] \in DeliveryRows
                 PROVE  outbox[x[1]].status # "absent" /\ x[2] <= outbox[x[1]].token
      BY <1>2
    <3>1. x \in relay[q].rows \cup relay[q].mark \/ x = <<i, k>>
      BY <1>4, <1>5
    <3>2. CASE x \in relay[q].rows \cup relay[q].mark
      BY <1>0, <3>2 DEF QueueInv
    <3>3. CASE x = <<i, k>>
      BY <1>10, <3>3
    <3> QED
      BY <3>1, <3>2, <3>3
  <2> QED
    BY <1>0, <1>2, <2>1, <2>2 DEF QueueInv, DeliveryOf
<1>12. ASSUME NEW j \in DeliveryRows
       PROVE  /\ Carried(j) => Carried(j)'
              /\ task[j].state = "none" /\ Owed(j) => Carried(j)' \/ (task'[j].state = "none" /\ Owed(j)')
  <2>1. j \in Rows
    BY RowShapes
  <2>2. CASE j = i
    BY <1>3, <1>6, <2>1, <2>2 DEF Carried
  <2>3. CASE j # i
    <3>1. task'[j] = task[j]
      BY <1>6, <2>1, <2>3
    <3>2. \A q \in Relays : \A y : <<j, y>> \in relay'[q].mark => <<j, y>> \in relay[q].mark
      BY <1>4, <1>5, <2>3
    <3>3. Owed(j) => Owed(j)'
      BY <1>2, <3>2 DEF Owed
    <3> QED
      BY <3>1, <3>3 DEF Carried
  <2> QED
    BY <2>2, <2>3
<1>13. KeptInv'
  <2> SUFFICES ASSUME NEW d \in Deliveries, HandedOn(d) PROVE HandedOn(d)'
    BY <1>0, <1>2 DEF KeptInv
  <2>1. delivery[d].status = "delivering" => \E j \in DeliveryRows : DeliveryOf(j) = d /\ Carried(j)'
    BY <1>12 DEF HandedOn
  <2>2. delivery[d].status = "pending" =>
          \E j \in DeliveryRows : DeliveryOf(j) = d /\ (Carried(j)' \/ (task'[j].state = "none" /\ Owed(j)'))
    BY <1>12 DEF HandedOn
  <2> QED
    BY <1>2, <2>1, <2>2 DEF HandedOn
<1>14. SnapInv'
  BY <1>0, <1>2, SnapFrame
<1> QED
  BY <1>7, <1>9, <1>11, <1>13, <1>14 DEF NoticeInv

\* MarkOutboxDispatched, ReleaseOutbox and RelayCrash: a row that is marked was
\* enqueued under its lease, so it is not owed any more.
LEMMA MarksKeep ==
    ASSUME NoticeInv, NEW r \in Relays,
           \/ \E p \in relay[r].mark : MarkOutboxDispatched(r, p[1], p[2])
           \/ \E p \in relay[r].rows : ReleaseOutbox(r, p[1], p[2])
           \/ RelayCrash(r)
    PROVE  NoticeInv'
<1>0. TypeOK /\ outbox \in [Rows -> OutboxRecords] /\ faults \in Nat
      /\ relay \in [Relays -> [rows : SUBSET (Rows \X Nat), mark : SUBSET (Rows \X Nat)]]
  BY Cells DEF NoticeInv, TypeOK
<1>1. UNCHANGED <<notice, draft, active, recipients, delivery, task, slot, sends, faulted>> /\ faults' \in Nat
  <2>1. ASSUME NEW p \in relay[r].mark, MarkOutboxDispatched(r, p[1], p[2])
        PROVE  UNCHANGED <<noticeVars, delivery, task, slot, sends, faulted>> /\ faults' = faults
    BY <2>1 DEF MarkOutboxDispatched
  <2>2. ASSUME NEW p \in relay[r].rows, ReleaseOutbox(r, p[1], p[2])
        PROVE  UNCHANGED <<noticeVars, delivery, task, slot, sends, faulted>> /\ faults' = faults + 1
    BY <2>2 DEF ReleaseOutbox
  <2>3. RelayCrash(r) => UNCHANGED <<noticeVars, delivery, task, slot, sends, faulted>> /\ faults' = faults + 1
    BY DEF RelayCrash
  <2>4. UNCHANGED <<noticeVars, delivery, task, slot, sends, faulted>> /\ faults' \in {faults, faults + 1}
    BY <2>1, <2>2, <2>3
  <2> QED
    BY <1>0, <2>4 DEF noticeVars
<1>2. PICK c \in [rows : SUBSET (Rows \X Nat), mark : SUBSET (Rows \X Nat)] :
        /\ relay' = [relay EXCEPT ![r] = c]
        /\ c.rows \subseteq relay[r].rows /\ c.mark \subseteq relay[r].mark
  <2>1. ASSUME NEW p \in relay[r].mark, MarkOutboxDispatched(r, p[1], p[2])
        PROVE  \E c \in [rows : SUBSET (Rows \X Nat), mark : SUBSET (Rows \X Nat)] :
                 /\ relay' = [relay EXCEPT ![r] = c]
                 /\ c.rows \subseteq relay[r].rows /\ c.mark \subseteq relay[r].mark
    <3> DEFINE c == [relay[r] EXCEPT !.mark = {}]
    <3>1. c \in [rows : SUBSET (Rows \X Nat), mark : SUBSET (Rows \X Nat)] /\ c.rows = relay[r].rows /\ c.mark = {}
      BY <1>0
    <3>2. relay' = [relay EXCEPT ![r] = c]
      BY <2>1 DEF MarkOutboxDispatched
    <3> QED
      BY <3>1, <3>2
  <2>2. ASSUME NEW p \in relay[r].rows, ReleaseOutbox(r, p[1], p[2])
        PROVE  \E c \in [rows : SUBSET (Rows \X Nat), mark : SUBSET (Rows \X Nat)] :
                 /\ relay' = [relay EXCEPT ![r] = c]
                 /\ c.rows \subseteq relay[r].rows /\ c.mark \subseteq relay[r].mark
    <3> DEFINE c == [relay[r] EXCEPT !.rows = relay[r].rows \ {<<p[1], p[2]>>}]
    <3>1. c \in [rows : SUBSET (Rows \X Nat), mark : SUBSET (Rows \X Nat)] /\ c.rows \subseteq relay[r].rows
          /\ c.mark = relay[r].mark
      BY <1>0
    <3>2. relay' = [relay EXCEPT ![r] = c]
      BY <2>2 DEF ReleaseOutbox
    <3> QED
      BY <3>1, <3>2
  <2>3. CASE RelayCrash(r)
    <3>1. Resting \in [rows : SUBSET (Rows \X Nat), mark : SUBSET (Rows \X Nat)] /\ Resting.rows = {} /\ Resting.mark = {}
      BY DEF Resting
    <3> QED
      BY <2>3, <3>1 DEF RelayCrash
  <2> QED
    BY <2>1, <2>2, <2>3
<1>3. \A q \in Relays : relay'[q].rows \subseteq relay[q].rows /\ relay'[q].mark \subseteq relay[q].mark
  BY <1>0, <1>2
<1> DEFINE RowsMoved ==
        /\ outbox' \in [Rows -> OutboxRecords]
        /\ \A j \in Rows : outbox'[j].token = outbox[j].token
        /\ \A j \in Rows : \/ outbox'[j].status = outbox[j].status
                           \/ outbox[j].status = "leased" /\ outbox'[j].status = "pending"
                           \/ /\ outbox[j].status = "leased" /\ outbox'[j].status = "dispatched"
                              /\ <<j, outbox[j].token>> \in relay[r].mark
<1>4. RowsMoved
  <2>1. ASSUME NEW p \in relay[r].mark, MarkOutboxDispatched(r, p[1], p[2])
        PROVE  RowsMoved
    <3>1. PICK i \in Rows, k \in Nat : p = <<i, k>>
      BY <1>0
    <3>2. outbox' = IF RowLeased(i, k) THEN [outbox EXCEPT ![i].status = "dispatched"] ELSE outbox
      BY <2>1, <3>1 DEF MarkOutboxDispatched
    <3>3. CASE ~RowLeased(i, k)
      BY <1>0, <3>2, <3>3
    <3>4. CASE RowLeased(i, k)
      <4> DEFINE x == [outbox[i] EXCEPT !.status = "dispatched"]
      <4>1. outbox[i] \in OutboxRecords
        BY <1>0
      <4>2. x \in OutboxRecords /\ x.status = "dispatched" /\ x.token = outbox[i].token
        BY <4>1 DEF OutboxRecords, OutboxStatuses
      <4>3. outbox' = [outbox EXCEPT ![i] = x]
        BY <3>2, <3>4
      <4>4. outbox[i].status = "leased" /\ <<i, outbox[i].token>> \in relay[r].mark
        BY <3>1, <3>4 DEF RowLeased
      <4> HIDE DEF x
      <4> QED
        BY <1>0, <4>2, <4>3, <4>4
    <3> QED
      BY <3>3, <3>4
  <2>2. ASSUME NEW p \in relay[r].rows, ReleaseOutbox(r, p[1], p[2])
        PROVE  RowsMoved
    <3>1. PICK i \in Rows, k \in Nat : p = <<i, k>>
      BY <1>0
    <3> DEFINE x == [outbox[i] EXCEPT !.status = "pending", !.due = FALSE]
    <3>2. outbox' = IF RowLeased(i, k) THEN [outbox EXCEPT ![i] = x] ELSE outbox
      BY <2>2, <3>1 DEF ReleaseOutbox
    <3>3. CASE ~RowLeased(i, k)
      BY <1>0, <3>2, <3>3
    <3>4. CASE RowLeased(i, k)
      <4>1. outbox[i] \in OutboxRecords
        BY <1>0
      <4>2. x \in OutboxRecords /\ x.status = "pending" /\ x.token = outbox[i].token
        BY <4>1 DEF OutboxRecords, OutboxStatuses
      <4>3. outbox' = [outbox EXCEPT ![i] = x]
        BY <3>2, <3>4
      <4>4. outbox[i].status = "leased"
        BY <3>4 DEF RowLeased
      <4> HIDE DEF x
      <4> QED
        BY <1>0, <4>2, <4>3, <4>4
    <3> QED
      BY <3>3, <3>4
  <2>3. CASE RelayCrash(r)
    BY <1>0, <2>3 DEF RelayCrash
  <2> QED
    BY <2>1, <2>2, <2>3
<1>5. \A j \in DeliveryRows : Owed(j) => Owed(j)'
  <2> SUFFICES ASSUME NEW j \in DeliveryRows, Owed(j) PROVE Owed(j)'
    OBVIOUS
  <2>1. j \in Rows
    BY RowShapes
  <2>2. \A q \in Relays : <<j, outbox[j].token>> \notin relay[q].mark => <<j, outbox'[j].token>> \notin relay'[q].mark
    BY <1>3, <1>4, <2>1
  <2> QED
    BY <1>4, <2>1, <2>2 DEF Owed
<1>6. \A j \in DeliveryRows : /\ outbox'[j].status = "absent" <=> outbox[j].status = "absent"
                              /\ outbox[j].token <= outbox'[j].token
  <2>1. \A j \in DeliveryRows : j \in Rows /\ outbox[j].token \in Nat
    BY <1>0, RowShapes, Cells
  <2>2. \A j \in Rows : outbox'[j].status = "absent" <=> outbox[j].status = "absent"
    BY <1>4
  <2> QED
    BY <1>4, <2>1, <2>2
<1>7. relay' \in [Relays -> [rows : SUBSET (Rows \X Nat), mark : SUBSET (Rows \X Nat)]]
  BY <1>0, <1>2
<1> QED
  BY <1>1, <1>3, <1>4, <1>5, <1>6, <1>7, RelayKeeps

\* What Revoke does to a delivery: one that waits or has failed is cancelled.
LEMMA RevokeEffect ==
    ASSUME TypeOK, NEW n \in Notices, Revoke(n), NEW d \in Deliveries
    PROVE  /\ delivery'[d] \in DeliveryRecords /\ delivery'[d].turn = delivery[d].turn
           /\ \/ delivery'[d] = delivery[d] /\ ~(d[1] = n /\ delivery[d].status = "pending")
              \/ delivery[d].status \in {"pending", "failed"} /\ delivery'[d].status = "canceled"
<1>1. delivery[d] \in DeliveryRecords
  BY Cells
<1>2. delivery'[d] = IF d[1] = n THEN [delivery[d] EXCEPT !.status = CanceledDelivery(delivery[d].status)]
                     ELSE delivery[d]
  BY DEF Revoke
<1>3. CASE d[1] = n /\ delivery[d].status \in {"pending", "failed"}
  <2>1. delivery'[d] = [delivery[d] EXCEPT !.status = "canceled"]
    BY <1>2, <1>3 DEF CanceledDelivery
  <2> QED
    BY <1>1, <1>3, <2>1 DEF DeliveryRecords, DeliveryStatuses
<1>4. CASE d[1] = n /\ delivery[d].status \notin {"pending", "failed"}
  <2>1. delivery'[d] = [delivery[d] EXCEPT !.status = delivery[d].status]
    BY <1>2, <1>4 DEF CanceledDelivery
  <2>2. delivery'[d] = delivery[d]
    BY <1>1, <2>1 DEF DeliveryRecords
  <2> QED
    BY <1>1, <1>4, <2>2
<1>5. CASE d[1] # n
  BY <1>1, <1>2, <1>5
<1> QED
  BY <1>3, <1>4, <1>5

\* Revoke: what waits is cancelled with its rows; what is under way has its task,
\* which is not touched.
LEMMA RevokeKeepsNotices ==
    ASSUME NoticeInv, NEW n \in Notices, Revoke(n)
    PROVE  NoticeInv'
<1>0. TypeOK /\ QueueInv /\ KeptInv /\ SnapInv
      /\ delivery \in [Deliveries -> DeliveryRecords] /\ outbox \in [Rows -> OutboxRecords]
  BY Cells DEF NoticeInv
<1>1. /\ notice' = [notice EXCEPT ![n] = "revoked"]
      /\ notice[n] \in {"scheduled", "publishing", "published"}
      /\ UNCHANGED <<draft, active, recipients, task, relay, slot, sends, faulted, faults>>
  BY DEF Revoke
<1>2. ASSUME NEW d \in Deliveries
      PROVE  /\ delivery'[d] \in DeliveryRecords /\ delivery'[d].turn = delivery[d].turn
             /\ \/ delivery'[d] = delivery[d] /\ ~(d[1] = n /\ delivery[d].status = "pending")
                \/ delivery[d].status \in {"pending", "failed"} /\ delivery'[d].status = "canceled"
  BY <1>0, RevokeEffect
<1>3. ASSUME NEW i \in Rows
      PROVE  /\ outbox'[i] \in OutboxRecords /\ outbox'[i].token = outbox[i].token
             /\ outbox'[i].status = "absent" <=> outbox[i].status = "absent"
             /\ i.notice # n => outbox'[i] = outbox[i]
  <2>1. outbox[i] \in OutboxRecords
    BY <1>0
  <2>2. outbox'[i] = IF i.notice = n THEN [outbox[i] EXCEPT !.status = CanceledRow(outbox[i].status)]
                     ELSE outbox[i]
    BY DEF Revoke
  <2>3. /\ CanceledRow(outbox[i].status) \in OutboxStatuses
        /\ CanceledRow(outbox[i].status) = "absent" <=> outbox[i].status = "absent"
    BY <2>1 DEF CanceledRow, OutboxRecords, OutboxStatuses
  <2>4. CASE i.notice = n
    <3> DEFINE st == CanceledRow(outbox[i].status)
    <3>1. outbox'[i] = [outbox[i] EXCEPT !.status = st] /\ st \in OutboxStatuses
      BY <2>2, <2>3, <2>4
    <3> HIDE DEF st
    <3>2. outbox'[i] \in OutboxRecords /\ outbox'[i].token = outbox[i].token /\ outbox'[i].status = st
      BY <2>1, <3>1 DEF OutboxRecords
    <3> QED
      BY <2>3, <2>4, <3>2 DEF st
  <2>5. CASE i.notice # n
    BY <2>1, <2>2, <2>5
  <2> QED
    BY <2>4, <2>5
<1>4. /\ delivery' \in [Deliveries -> DeliveryRecords] /\ outbox' \in [Rows -> OutboxRecords]
      /\ notice' \in [Notices -> NoticeStatuses]
  <2>1. delivery' = [d \in Deliveries |-> delivery'[d]] /\ outbox' = [i \in Rows |-> outbox'[i]]
    BY DEF Revoke
  <2>2. notice' \in [Notices -> NoticeStatuses]
    BY <1>0, <1>1 DEF TypeOK, NoticeStatuses
  <2> QED
    BY <1>2, <1>3, <2>1, <2>2
<1>5. TypeOK'
  BY <1>0, <1>1, <1>4 DEF TypeOK, DeliveryRecords, OutboxRecords
<1>6. QueueInv'
  <2>1. \A i \in DeliveryRows : task'[i].state # "none" => outbox'[i].status # "absent"
    BY <1>0, <1>1, <1>3, RowShapes DEF QueueInv
  <2>2. \A i \in DeliveryRows : outbox'[i].status # "absent" =>
          delivery'[DeliveryOf(i)].status # "absent" /\ i.turn <= delivery'[DeliveryOf(i)].turn
    <3> SUFFICES ASSUME NEW i \in DeliveryRows, outbox'[i].status # "absent"
                 PROVE  delivery'[DeliveryOf(i)].status # "absent" /\ i.turn <= delivery'[DeliveryOf(i)].turn
      OBVIOUS
    <3>1. i \in Rows /\ DeliveryOf(i) \in Deliveries
      BY RowShapes
    <3>2. delivery[DeliveryOf(i)].status # "absent" /\ i.turn <= delivery[DeliveryOf(i)].turn
      BY <1>0, <1>3, <3>1 DEF QueueInv
    <3> QED
      BY <1>2, <3>1, <3>2
  <2>3. \A r \in Relays : \A p \in relay'[r].rows \cup relay'[r].mark :
          p[1] \in DeliveryRows => outbox'[p[1]].status # "absent" /\ p[2] <= outbox'[p[1]].token
    BY <1>0, <1>1, <1>3, RowShapes DEF QueueInv
  <2> QED
    BY <2>1, <2>2, <2>3 DEF QueueInv, DeliveryOf
<1>7. KeptInv'
  <2> SUFFICES ASSUME NEW d \in Deliveries, HandedOn(d) PROVE HandedOn(d)'
    BY <1>0, <1>1 DEF KeptInv
  <2>1. CASE delivery'[d].status = "delivering"
    <3>1. delivery[d].status = "delivering"
      BY <1>2, <2>1
    <3>2. \E i \in DeliveryRows : DeliveryOf(i) = d /\ Carried(i)'
      BY <1>1, <3>1 DEF HandedOn, Carried
    <3> QED
      BY <2>1, <3>2 DEF HandedOn
  <2>2. CASE delivery'[d].status = "pending"
    <3>1. d[1] # n /\ delivery'[d] = delivery[d]
      BY <1>2, <2>2
    <3>2. \A i \in DeliveryRows : DeliveryOf(i) = d => outbox'[i] = outbox[i]
      BY <1>3, <3>1, RowShapes
    <3>3. \A i \in DeliveryRows : DeliveryOf(i) = d /\ Owed(i) => Owed(i)'
      BY <1>1, <3>2 DEF Owed
    <3> QED
      BY <1>1, <3>1, <3>3, HandedOnFrame
  <2>3. CASE delivery'[d].status \notin {"pending", "delivering"}
    BY <2>3 DEF HandedOn
  <2> QED
    BY <2>1, <2>2, <2>3
<1>8. SnapInv'
  <2>1. \A d \in Deliveries : delivery'[d].status = "absent" <=> delivery[d].status = "absent"
    BY <1>2
  <2>2. \A m \in Notices : notice'[m] \notin {"published", "revoked"} => notice[m] = notice'[m]
    BY <1>0, <1>1 DEF TypeOK
  <2>3. \A d \in Deliveries : delivery'[d].status # "absent" <=> draft'[d[1]].push /\ d[2] \in recipients'[d[1]]
    BY <1>0, <1>1, <2>1 DEF SnapInv
  <2>4. \A m \in Notices : notice'[m] \notin {"published", "revoked"} => recipients'[m] = {}
    BY <1>0, <1>1, <2>2 DEF SnapInv
  <2> QED
    BY <2>3, <2>4 DEF SnapInv
<1>9. \A d \in Deliveries : delivery[d].status = "delivering" => delivery'[d] = delivery[d]
  BY <1>2
<1> QED
  BY <1>1, <1>5, <1>6, <1>7, <1>8, <1>9, TablesKeep

\* New rows for a set of deliveries at a turn they did not have: the rows were not
\* there, so no relay carries them and no task is theirs.
LEMMA NewRowsKeep ==
    ASSUME TypeOK, QueueInv, NEW fresh \in SUBSET Deliveries, NEW turn,
           \A d \in fresh : turn[d] \in 0 .. MaxRequeues /\ delivery'[d].turn = turn[d]
                            /\ (delivery[d].status = "absent" \/ delivery[d].turn < turn[d]),
           \A d \in Deliveries \ fresh : delivery'[d] = delivery[d],
           delivery' \in [Deliveries -> DeliveryRecords],
           \A d \in fresh : delivery'[d].status = "pending",
           \A i \in Rows : outbox'[i] = IF i \in DeliveryRows /\ DeliveryOf(i) \in fresh
                                           /\ i.turn = turn[DeliveryOf(i)]
                                        THEN NewRow(TRUE) ELSE outbox[i],
           \A d \in fresh : delivery[d].turn <= turn[d],
           UNCHANGED relay, \A i \in DeliveryRows : task'[i] = task[i]
    PROVE  /\ QueueInv'
           /\ \A d \in fresh : HandedOn(d)'
           /\ \A i \in DeliveryRows : Owed(i) /\ DeliveryOf(i) \notin fresh => Owed(i)'
<1> DEFINE New(i) == i \in DeliveryRows /\ DeliveryOf(i) \in fresh /\ i.turn = turn[DeliveryOf(i)]
<1>1. NewRow(TRUE).status = "pending" /\ NewRow(TRUE).token = 0
  BY DEF NewRow
<1>2. \A i \in DeliveryRows : i \in Rows /\ DeliveryOf(i) \in Deliveries /\ i.turn \in Nat
                              /\ delivery[DeliveryOf(i)].turn \in Nat
  BY RowShapes, Cells, BoundsAssumption
<1>3. ASSUME NEW i \in DeliveryRows, New(i)
      PROVE  /\ outbox[i].status = "absent" /\ task[i].state = "none"
             /\ \A r \in Relays : \A p \in relay[r].rows \cup relay[r].mark : p[1] # i
  <2>1. outbox[i].status = "absent"
    <3>1. CASE delivery[DeliveryOf(i)].status = "absent"
      BY <3>1 DEF QueueInv
    <3>2. CASE delivery[DeliveryOf(i)].turn < i.turn
      BY <1>2, <3>2 DEF QueueInv
    <3> QED
      BY <1>3, <3>1, <3>2
  <2> QED
    BY <2>1 DEF QueueInv
<1>4. \A i \in DeliveryRows : outbox'[i] = IF New(i) THEN NewRow(TRUE) ELSE outbox[i]
  BY <1>2
<1>5. QueueInv'
  <2>1. \A i \in DeliveryRows : task'[i].state # "none" => outbox'[i].status # "absent"
    <3> HIDE DEF New
    <3> QED
      BY <1>1, <1>4 DEF QueueInv
  <2>2. \A i \in DeliveryRows : outbox'[i].status # "absent" =>
          delivery'[DeliveryOf(i)].status # "absent" /\ i.turn <= delivery'[DeliveryOf(i)].turn
    <3> SUFFICES ASSUME NEW i \in DeliveryRows, outbox'[i].status # "absent"
                 PROVE  delivery'[DeliveryOf(i)].status # "absent" /\ i.turn <= delivery'[DeliveryOf(i)].turn
      OBVIOUS
    <3>1. CASE New(i)
      BY <1>2, <3>1
    <3>2. CASE ~New(i)
      <4>1. delivery[DeliveryOf(i)].status # "absent" /\ i.turn <= delivery[DeliveryOf(i)].turn
        BY <1>4, <3>2 DEF QueueInv
      <4>2. CASE DeliveryOf(i) \in fresh
        <5>1. delivery'[DeliveryOf(i)].turn \in Nat /\ delivery[DeliveryOf(i)].turn <= delivery'[DeliveryOf(i)].turn
          BY <1>2, <4>2, BoundsAssumption
        <5> QED
          BY <1>2, <4>1, <4>2, <5>1
      <4>3. CASE DeliveryOf(i) \notin fresh
        BY <1>2, <4>1, <4>3
      <4> QED
        BY <4>2, <4>3
    <3> QED
      BY <3>1, <3>2
  <2>3. \A r \in Relays : \A p \in relay'[r].rows \cup relay'[r].mark :
          p[1] \in DeliveryRows => outbox'[p[1]].status # "absent" /\ p[2] <= outbox'[p[1]].token
    <3> HIDE DEF New
    <3> SUFFICES ASSUME NEW r \in Relays, NEW p \in relay[r].rows \cup relay[r].mark, p[1] \in DeliveryRows
                 PROVE  outbox'[p[1]].status # "absent" /\ p[2] <= outbox'[p[1]].token
      OBVIOUS
    <3>1. ~New(p[1])
      BY <1>3
    <3> QED
      BY <1>4, <3>1 DEF QueueInv
  <2> QED
    BY <2>1, <2>2, <2>3 DEF QueueInv, DeliveryOf
<1>6. ASSUME NEW d \in fresh PROVE HandedOn(d)'
  <2>1. PICK i \in DeliveryRows : DeliveryOf(i) = d /\ i.turn = turn[d]
    BY RowOfTurn
  <2>2. outbox'[i].status = "pending" /\ task'[i].state = "none"
    BY <1>1, <1>3, <1>4, <2>1
  <2>3. \E j \in DeliveryRows : DeliveryOf(j) = d /\ (Carried(j)' \/ (task'[j].state = "none" /\ Owed(j)'))
    BY <2>1, <2>2 DEF Owed
  <2> QED
    BY <2>3 DEF HandedOn
<1>7. \A i \in DeliveryRows : Owed(i) /\ DeliveryOf(i) \notin fresh => Owed(i)'
  BY <1>4 DEF Owed
<1> QED
  BY <1>5, <1>6, <1>7

\* RetryDeliveries: a failed delivery waits again, with a row of its own.
LEMMA RetryKeeps ==
    ASSUME NoticeInv, NEW n \in Notices, RetryDeliveries(n)
    PROVE  NoticeInv'
<1> DEFINE again == {d \in Deliveries : d[1] = n /\ delivery[d].status = "failed"}
           turn == [d \in Deliveries |-> delivery[d].turn + 1]
           x(d) == [status |-> "pending", token |-> 0, turn |-> delivery[d].turn + 1]
<1>0. TypeOK /\ QueueInv /\ KeptInv /\ SnapInv
      /\ delivery \in [Deliveries -> DeliveryRecords] /\ outbox \in [Rows -> OutboxRecords]
  BY Cells DEF NoticeInv
<1>1. UNCHANGED <<notice, draft, active, recipients, task, relay, slot, sends, faults>>
      /\ faulted' = faulted \ again
  BY DEF RetryDeliveries, noticeVars
<1>2. delivery' = [d \in Deliveries |-> IF d \in again THEN x(d) ELSE delivery[d]]
  BY DEF RetryDeliveries
<1>3. \A d \in again : delivery[d].turn < MaxRequeues
  BY DEF RetryDeliveries
<1>4. \A d \in Deliveries : delivery[d].turn \in Nat
  BY <1>0, Cells, BoundsAssumption
<1>5. \A d \in again : /\ d \in Deliveries /\ delivery[d].status = "failed"
                       /\ turn[d] \in 0 .. MaxRequeues /\ turn[d] = delivery[d].turn + 1
                       /\ delivery[d].turn < turn[d] /\ delivery[d].turn <= turn[d]
  BY <1>3, <1>4, BoundsAssumption
<1>6. \A d \in again : x(d) \in DeliveryRecords /\ x(d).status = "pending" /\ x(d).turn = turn[d]
  BY <1>5 DEF DeliveryRecords, DeliveryStatuses
<1>7. \A i \in Rows : outbox'[i] = IF i \in DeliveryRows /\ DeliveryOf(i) \in again
                                       /\ i.turn = turn[DeliveryOf(i)]
                                    THEN NewRow(TRUE) ELSE outbox[i]
  BY <1>5 DEF RetryDeliveries
<1>8. outbox' \in [Rows -> OutboxRecords]
  <2>1. NewRow(TRUE) \in OutboxRecords
    BY DEF NewRow, OutboxRecords, OutboxStatuses
  <2>2. outbox' = [i \in Rows |-> outbox'[i]]
    BY DEF RetryDeliveries
  <2> QED
    BY <1>0, <1>7, <2>1, <2>2
<1>a. again \in SUBSET Deliveries
  OBVIOUS
<1> HIDE DEF again, turn, x
<1>9. /\ delivery' \in [Deliveries -> DeliveryRecords]
      /\ \A d \in again : delivery'[d].status = "pending" /\ delivery'[d].turn = turn[d]
      /\ \A d \in Deliveries \ again : delivery'[d] = delivery[d]
  BY <1>0, <1>2, <1>5, <1>6
<1>10. /\ QueueInv'
       /\ \A d \in again : HandedOn(d)'
       /\ \A i \in DeliveryRows : Owed(i) /\ DeliveryOf(i) \notin again => Owed(i)'
  BY <1>0, <1>1, <1>5, <1>7, <1>9, <1>a, NewRowsKeep
<1>11. TypeOK'
  <2>1. faulted' \subseteq Deliveries
    BY <1>0, <1>1 DEF TypeOK
  <2> QED
    BY <1>0, <1>1, <1>8, <1>9, <2>1 DEF TypeOK, DeliveryRecords, OutboxRecords
<1>12. KeptInv'
  <2> SUFFICES ASSUME NEW d \in Deliveries \ again PROVE d \in faulted' \/ HandedOn(d)'
    BY <1>10 DEF KeptInv
  <2>1. d \in faulted => d \in faulted'
    BY <1>1
  <2>2. HandedOn(d) => HandedOn(d)'
    BY <1>1, <1>9, <1>10, HandedOnFrame
  <2> QED
    BY <1>0, <2>1, <2>2 DEF KeptInv
<1>13. SnapInv'
  <2>1. \A d \in Deliveries : delivery'[d].status = "absent" <=> delivery[d].status = "absent"
    BY <1>5, <1>9
  <2> QED
    BY <1>0, <1>1, <2>1, SnapFrame
<1>14. \A d \in Deliveries : delivery[d].status = "delivering" => delivery'[d] = delivery[d]
  BY <1>5, <1>9
<1>15. \A d \in faulted \ faulted' : delivery[d].status # "delivering"
  BY <1>1, <1>5
<1> QED
  BY <1>1, <1>10, <1>11, <1>12, <1>13, <1>14, <1>15, TablesKeep

\* Publish: the snapshot makes the deliveries of its recipients, each with a row.
LEMMA PublishKeeps ==
    ASSUME NoticeInv, TurnInv, NEW h \in Slots, Publish(h)
    PROVE  NoticeInv'
<1>0. TypeOK /\ QueueInv /\ KeptInv /\ SnapInv /\ SlotInv
      /\ delivery \in [Deliveries -> DeliveryRecords] /\ outbox \in [Rows -> OutboxRecords]
      /\ task \in [Rows -> TaskRecords] /\ faults \in Nat /\ faulted \subseteq Deliveries
  BY Cells DEF NoticeInv, TypeOK
<1>1. Busy(h) /\ slot[h].pc = "publish" /\ slot[h].pc # "idle"
      /\ slot' = [slot EXCEPT ![h] = Free] /\ UNCHANGED <<draft, active, relay, sends, faulted, faults>>
  BY DEF Publish, At, Busy, Leave
<1>2. PICK i \in PublishRows : i = slot[h].row
  BY <1>1, SlotRow
<1>3. i \in Rows /\ i \notin DeliveryRows /\ i.notice \in Notices
  BY RowShapes
<1>4. PICK t \in TaskRecords : task' = [task EXCEPT ![i] = t]
  <2>1. TaskDone(i) \/ TaskError(i)
    BY <1>2 DEF Publish
  <2> QED
    BY <1>0, <1>3, <2>1, TaskEffects
<1>5. CASE UNCHANGED <<notice, recipients, delivery, outbox>>
  BY <1>0, <1>1, <1>2, <1>4, <1>5, FreeSlot, EndKeeps
<1>6. CASE Snapshot(i.notice) /\ notice[i.notice] \in {"publishing", "scheduled"}
  <2> DEFINE n == i.notice
             us == resolveRecipients(draft[n])
             fresh == Fresh(n, us)
             turn == [d \in Deliveries |-> 0]
             x(d) == [delivery[d] EXCEPT !.status = "pending"]
  <2>1. us \subseteq Users
    BY <1>0 DEF resolveRecipients, TypeOK
  <2>2. fresh \in SUBSET Deliveries
    BY DEF Fresh
  <2>3. \A d \in Deliveries : d \in fresh <=> d[1] = n /\ d[2] \in us /\ draft[n].push /\ delivery[d].status = "absent"
    BY DEF Fresh
  <2>4. /\ recipients' = [recipients EXCEPT ![n] = recipients[n] \cup us]
        /\ delivery' = [d \in Deliveries |-> IF d \in fresh THEN x(d) ELSE delivery[d]]
        /\ notice' = [notice EXCEPT ![n] = "published"]
    BY <1>6 DEF Snapshot
  <2>5. outbox' = [j \in Rows |-> IF j \in DeliveryRows /\ DeliveryOf(j) \in fresh /\ j.turn = 0
                                  THEN NewRow(TRUE) ELSE outbox[j]]
    BY <1>6 DEF Snapshot
  <2>6. n \in Notices /\ recipients \in [Notices -> SUBSET Users] /\ notice \in [Notices -> NoticeStatuses]
    BY <1>0, <1>3 DEF TypeOK
  <2> HIDE DEF us, fresh, n
  <2>7. recipients[n] = {}
    BY <1>0, <1>6, <2>6 DEF SnapInv, n
  <2>8. \A d \in fresh : delivery[d].status = "absent" /\ d \in Deliveries
    BY <2>2, <2>3
  <2>9. \A d \in fresh : x(d) \in DeliveryRecords /\ x(d).status = "pending" /\ x(d).turn = delivery[d].turn
    BY <1>0, <2>8 DEF DeliveryRecords, DeliveryStatuses
  <2> HIDE DEF x
  <2>10. /\ delivery' \in [Deliveries -> DeliveryRecords]
         /\ \A d \in fresh : delivery'[d].status = "pending" /\ delivery'[d].turn = delivery[d].turn
         /\ \A d \in Deliveries \ fresh : delivery'[d] = delivery[d]
    BY <1>0, <2>4, <2>8, <2>9
  <2>11. \A d \in fresh : /\ turn[d] = 0 /\ delivery[d].turn = 0 /\ turn[d] \in 0 .. MaxRequeues
                          /\ delivery'[d].turn = turn[d] /\ delivery[d].turn <= turn[d]
    BY <2>8, <2>10, BoundsAssumption DEF TurnInv
  <2>12. \A j \in Rows : task'[j] = IF j = i THEN t ELSE task[j]
    BY <1>0, <1>3, <1>4
  <2>13. \A j \in DeliveryRows : task'[j] = task[j]
    BY <1>3, <2>12, RowShapes
  <2>14. \A j \in Rows : outbox'[j] = IF j \in DeliveryRows /\ DeliveryOf(j) \in fresh
                                           /\ j.turn = turn[DeliveryOf(j)]
                                        THEN NewRow(TRUE) ELSE outbox[j]
    BY <2>5, <2>11
  <2>15. outbox' \in [Rows -> OutboxRecords]
    <3>1. NewRow(TRUE) \in OutboxRecords
      BY DEF NewRow, OutboxRecords, OutboxStatuses
    <3> QED
      BY <1>0, <2>5, <3>1
  <2> HIDE DEF turn
  <2>16. /\ QueueInv'
         /\ \A d \in fresh : HandedOn(d)'
         /\ \A j \in DeliveryRows : Owed(j) /\ DeliveryOf(j) \notin fresh => Owed(j)'
    BY <1>0, <1>1, <2>2, <2>8, <2>10, <2>11, <2>13, <2>14, NewRowsKeep
  <2>17. TypeOK'
    <3>1. task' \in [Rows -> TaskRecords]
      BY <1>0, <1>4
    <3>2. slot' \in [Slots -> SlotRecords]
      BY <1>0, <1>1, Cells, FreeSlot
    <3>3. recipients' \in [Notices -> SUBSET Users]
      BY <2>1, <2>4, <2>6
    <3>4. notice' \in [Notices -> NoticeStatuses]
      BY <2>4, <2>6 DEF NoticeStatuses
    <3> QED
      BY <1>0, <1>1, <2>10, <2>15, <3>1, <3>2, <3>3, <3>4
      DEF TypeOK, DeliveryRecords, OutboxRecords, TaskRecords, SlotRecords
  <2>18. KeptInv'
    <3> SUFFICES ASSUME NEW d \in Deliveries \ fresh PROVE d \in faulted' \/ HandedOn(d)'
      BY <2>16 DEF KeptInv
    <3>1. HandedOn(d) => HandedOn(d)'
      BY <2>10, <2>13, <2>16, HandedOnFrame
    <3> QED
      BY <1>0, <1>1, <3>1 DEF KeptInv
  <2>19. SnapInv'
    <3>1. \A m \in Notices : recipients'[m] = IF m = n THEN us ELSE recipients[m]
      BY <2>4, <2>6, <2>7
    <3>2. ASSUME NEW d \in Deliveries
          PROVE  delivery'[d].status # "absent" <=> draft'[d[1]].push /\ d[2] \in recipients'[d[1]]
      <4>1. d[1] \in Notices /\ draft' = draft
        BY <1>1 DEF Deliveries
      <4>2. delivery[d].status # "absent" <=> draft[d[1]].push /\ d[2] \in recipients[d[1]]
        BY <1>0 DEF SnapInv
      <4>3. CASE d[1] = n
        <5>1. delivery[d].status = "absent"
          BY <2>7, <4>2, <4>3
        <5> QED
          BY <2>3, <2>10, <3>1, <4>1, <4>3, <5>1
      <4>4. CASE d[1] # n
        BY <2>3, <2>10, <3>1, <4>1, <4>2, <4>4
      <4> QED
        BY <4>3, <4>4
    <3>3. \A m \in Notices : notice'[m] \notin {"published", "revoked"} => recipients'[m] = {}
      BY <1>0, <2>4, <2>6, <3>1 DEF SnapInv
    <3> QED
      BY <3>2, <3>3 DEF SnapInv
  <2>20. \A g \in Slots : slot'[g] = IF g = h THEN Free ELSE slot[g]
    BY <1>0, <1>1, Cells
  <2>21. ASSUME NEW g \in Slots
         PROVE  /\ Busy(g)' => Busy(g) /\ slot'[g] = slot[g] /\ g # h
                /\ Holds(g)' => Holds(g) /\ slot'[g] = slot[g] /\ g # h
    BY <2>20, FreeSlot DEF Busy, Holds
  <2>22. ASSUME NEW g \in Slots PROVE SlotFits(g)'
    <3>1. CASE g = h
      BY <2>20, <3>1, FreeSlot DEF SlotFits, Busy, Holds
    <3>2. CASE g # h
      <4>1. slot'[g] = slot[g] /\ SlotFits(g)
        BY <1>0, <2>20, <3>2 DEF SlotInv
      <4>2. Busy(g) => slot[g].row # i /\ slot[g].row \in Rows
        BY <1>1, <1>2, <3>2, Alone, SlotRow DEF Busy
      <4>3. Busy(g) => task'[slot[g].row] = task[slot[g].row]
        BY <2>12, <4>2
      <4>4. Holds(g) => HoldsLease(g) /\ DeliveryOf(slot[g].row) \in Deliveries
        BY <4>1, RowShapes DEF SlotFits, Holds
      <4>5. Holds(g) => delivery'[DeliveryOf(slot[g].row)] = delivery[DeliveryOf(slot[g].row)]
        BY <2>8, <2>10, <4>4 DEF HoldsLease
      <4>6. Holds(g) => HoldsLease(g)'
        BY <4>1, <4>4, <4>5 DEF HoldsLease, DeliveryOf
      <4>7. (Busy(g)' <=> Busy(g)) /\ (Holds(g)' <=> Holds(g)) /\ (Busy(g) => (Final(g)' <=> Final(g)))
        BY <4>1, <4>3 DEF Busy, Holds, Final
      <4>8. slot[g].live /\ slot[g].pc = "release" => Busy(g)
        BY DEF Busy
      <4> QED
        BY <1>1, <4>1, <4>3, <4>6, <4>7, <4>8 DEF SlotFits, DeliveryOf
    <3> QED
      BY <3>1, <3>2
  <2>23. SlotsApart'
    <3> SUFFICES ASSUME NEW f \in Slots, NEW g \in Slots, Busy(f)', Busy(g)', f # g
                 PROVE  /\ slot'[f].row # slot'[g].row
                        /\ Holds(f)' /\ Holds(g)' => DeliveryOf(slot'[f].row) # DeliveryOf(slot'[g].row)
      BY DEF SlotsApart, DeliveryOf
    <3> QED
      BY <1>0, <2>21 DEF SlotInv, SlotsApart
  <2> QED
    BY <2>16, <2>17, <2>18, <2>19, <2>22, <2>23 DEF NoticeInv, SlotInv
<1> QED
  BY <1>2, <1>5, <1>6 DEF Publish

-----------------------------------------------------------------------------
(* NoticeCenter: every step, and the theorems.                                *)

\* A step makes no delivery absent, and touches none that was sent or cancelled.
LEMMA DeliveryMoves ==
    ASSUME NoticeInv, NEW d \in Deliveries, [Next]_vars
    PROVE  delivery'[d] = delivery[d] \/
              (delivery'[d].status # "absent" /\ delivery[d].status \notin {"sent", "canceled"})
<1>0. TypeOK /\ delivery \in [Deliveries -> DeliveryRecords] /\ delivery[d] \in DeliveryRecords
  BY Cells DEF NoticeInv
<1> DEFINE Goal == delivery'[d] = delivery[d] \/
              (delivery'[d].status # "absent" /\ delivery[d].status \notin {"sent", "canceled"})
<1> SUFFICES Goal
  OBVIOUS
<1>1. CASE UNCHANGED delivery
  BY <1>1
<1>2. ASSUME NEW n \in Notices, Revoke(n) PROVE Goal
  BY <1>0, <1>2, RevokeEffect
<1>3. ASSUME NEW n \in Notices, RetryDeliveries(n) PROVE Goal
  BY <1>3 DEF RetryDeliveries
<1>4. ASSUME NEW n, Snapshot(n) PROVE Goal
  <2>1. delivery'[d] = delivery[d] \/ (delivery[d].status = "absent" /\ delivery'[d] = [delivery[d] EXCEPT !.status = "pending"])
    BY <1>4 DEF Snapshot, Fresh
  <2> QED
    BY <1>0, <2>1 DEF DeliveryRecords
<1>5. ASSUME NEW h \in Slots, ClaimDelivery(h) PROVE Goal
  <2> DEFINE e == DeliveryOf(slot[h].row)
             x == [delivery[e] EXCEPT !.status = "delivering", !.token = delivery[e].token + 1]
  <2>1. delivery' = [delivery EXCEPT ![e] = x]
    BY <1>5, Zenon DEF ClaimDelivery
  <2>2. delivery[e].status \in {"pending", "delivering"}
    BY <1>5 DEF ClaimDelivery, Claimable
  <2> HIDE DEF e
  <2>3. CASE d # e
    BY <1>0, <2>1, <2>3
  <2>4. CASE d = e
    <3>1. x.status = "delivering"
      BY <1>0, <2>4 DEF DeliveryRecords
    <3> HIDE DEF x
    <3>2. delivery'[d] = x
      BY <1>0, <2>1, <2>4
    <3> QED
      BY <2>2, <2>4, <3>1, <3>2
  <2> QED
    BY <2>3, <2>4
<1>6. ASSUME NEW h \in Slots, NEW status \in {"sent", "failed", "pending"}, Settle(h, status) PROVE Goal
  <2> DEFINE e == DeliveryOf(slot[h].row)
             x == [delivery[e] EXCEPT !.status = status]
  <2>1. delivery' = delivery \/ (delivery' = [delivery EXCEPT ![e] = x] /\ delivery[e].status = "delivering")
    BY <1>6 DEF Settle, HoldsLease
  <2> HIDE DEF e
  <2>2. CASE d # e
    BY <1>0, <2>1, <2>2
  <2>3. CASE d = e
    <3>1. x.status = status
      BY <1>0, <2>3 DEF DeliveryRecords
    <3> HIDE DEF x
    <3>2. delivery' = delivery \/ (delivery'[d] = x /\ delivery[e].status = "delivering")
      BY <1>0, <2>1, <2>3
    <3> QED
      BY <2>3, <3>1, <3>2
  <2> QED
    BY <2>2, <2>3
<1> HIDE DEF Goal
<1>7. CASE AdminStep
  BY <1>1, <1>2, <1>3, <1>7 DEF AdminStep, Create, UpdateDraft, DeleteDraft, QueuePublish, DisableUser, workVars
<1>8. ASSUME NEW i \in Rows, BecomesDue(i) \/ LeaseAges(i) PROVE Goal
  BY <1>1, <1>8 DEF BecomesDue, LeaseAges, workVars
<1>9. ASSUME NEW r \in Relays, RelayStep(r) \/ RelayFault(r) PROVE Goal
  BY <1>1, <1>9 DEF RelayStep, RelayFault, LeaseOutbox, Enqueue, MarkOutboxDispatched, ReleaseOutbox, RelayCrash
<1>10. ASSUME NEW h \in Slots, HandlerStep(h) PROVE Goal
  <2>1. CASE Publish(h)
    BY <1>1, <1>4, <2>1 DEF Publish
  <2>2. CASE CompleteDelivery(h) \/ FailDelivery(h) \/ FailRevoked(h) \/ releaseDelivery(h)
    BY <1>6, <2>2 DEF CompleteDelivery, FailDelivery, FailRevoked, releaseDelivery
  <2>3. CASE (\E i \in Rows : Handle(h, i)) \/ NotClaimed(h) \/ LoadDelivery(h)
             \/ (\E ok \in BOOLEAN : Send(h, ok)) \/ LateHandlerEnds(h)
    BY <1>1, <2>3 DEF Handle, NotClaimed, LoadDelivery, Send, LateHandlerEnds
  <2> QED
    BY <1>5, <1>10, <2>1, <2>2, <2>3 DEF HandlerStep
<1>11. ASSUME NEW h \in Slots, HandlerFault(h) PROVE Goal
  BY <1>1, <1>11 DEF HandlerFault, LoadOrCompleteError, HandlerCrash, Timeout
<1>12. CASE UNCHANGED vars
  BY <1>1, <1>12 DEF vars
<1> QED
  BY <1>7, <1>8, <1>9, <1>10, <1>11, <1>12 DEF Next

\* A step leaves a revoked notice revoked, and its recipients as they are.
LEMMA NoticeMoves ==
    ASSUME NoticeInv, NEW n \in Notices, [Next]_vars, notice[n] = "revoked"
    PROVE  notice'[n] = "revoked" /\ recipients'[n] = recipients[n]
<1>0. notice \in [Notices -> NoticeStatuses] /\ recipients \in [Notices -> SUBSET Users]
  BY DEF NoticeInv, TypeOK
<1> DEFINE Goal == notice'[n] = "revoked" /\ recipients'[n] = recipients[n]
<1> SUFFICES Goal
  OBVIOUS
<1>1. CASE UNCHANGED <<notice, recipients>>
  BY <1>1
<1>2. CASE AdminStep
  <2>1. UNCHANGED recipients
    BY <1>2 DEF AdminStep, Create, UpdateDraft, DeleteDraft, QueuePublish, Revoke, RetryDeliveries, DisableUser, noticeVars
  <2>2. notice' = notice \/ \E m \in Notices, x \in {"draft", "deleted", "scheduled", "publishing", "revoked"} :
            notice[m] # "revoked" /\ notice' = [notice EXCEPT ![m] = x]
    BY <1>2 DEF AdminStep, Create, UpdateDraft, DeleteDraft, QueuePublish, Revoke, RetryDeliveries, DisableUser, noticeVars
  <2> QED
    BY <1>0, <2>1, <2>2
<1>3. ASSUME NEW h \in Slots, Publish(h) PROVE Goal
  <2>1. CASE UNCHANGED <<notice, recipients>>
    BY <1>1, <2>1
  <2>2. CASE notice[slot[h].row.notice] \in {"publishing", "scheduled"} /\ Snapshot(slot[h].row.notice)
    <3>1. slot[h].row.notice # n
      BY <2>2
    <3> QED
      BY <1>0, <2>2, <3>1 DEF Snapshot
  <2> QED
    BY <1>3, <2>1, <2>2 DEF Publish
<1> HIDE DEF Goal
<1>8. ASSUME NEW i \in Rows, BecomesDue(i) \/ LeaseAges(i) PROVE Goal
  BY <1>1, <1>8 DEF BecomesDue, LeaseAges, noticeVars
<1>9. ASSUME NEW r \in Relays, RelayStep(r) \/ RelayFault(r) PROVE Goal
  BY <1>1, <1>9 DEF RelayStep, RelayFault, LeaseOutbox, Enqueue, MarkOutboxDispatched, ReleaseOutbox, RelayCrash, noticeVars
<1>10. ASSUME NEW h \in Slots, HandlerStep(h) \/ HandlerFault(h), ~Publish(h) PROVE Goal
  <2>1. UNCHANGED noticeVars
    BY <1>10 DEF HandlerStep, HandlerFault, ClaimDelivery, CompleteDelivery, FailDelivery, FailRevoked, releaseDelivery,
       Handle, NotClaimed, LoadDelivery, Send, LateHandlerEnds, LoadOrCompleteError, HandlerCrash, Timeout
  <2> QED
    BY <1>1, <2>1 DEF noticeVars
<1>12. CASE UNCHANGED vars
  BY <1>1, <1>12 DEF vars
<1> QED
  BY <1>2, <1>3, <1>8, <1>9, <1>10, <1>12 DEF Next

\* Every step keeps the invariant.
LEMMA NoticeStep == NoticeInv /\ TurnInv /\ [Next]_vars => (NoticeInv /\ TurnInv)'
<1> SUFFICES ASSUME NoticeInv, TurnInv, [Next]_vars PROVE NoticeInv' /\ TurnInv'
  OBVIOUS
<1>1. TurnInv'
  <2>1. \A d \in Deliveries : delivery'[d] = delivery[d] \/ delivery'[d].status # "absent"
    BY DeliveryMoves
  <2> QED
    BY <2>1 DEF TurnInv
<1>2. CASE AdminStep
  BY <1>1, <1>2, DraftsKeep, RevokeKeepsNotices, RetryKeeps DEF AdminStep
<1>3. ASSUME NEW i \in Rows, BecomesDue(i) \/ LeaseAges(i) PROVE NoticeInv'
  BY <1>3, TimeKeeps
<1>4. ASSUME NEW r \in Relays, RelayStep(r) \/ RelayFault(r) PROVE NoticeInv'
  BY <1>4, LeaseKeeps, EnqueueKeeps, MarksKeep DEF RelayStep, RelayFault
<1>5. ASSUME NEW h \in Slots, HandlerStep(h) PROVE NoticeInv'
  BY <1>5, HandleKeeps, PublishKeeps, ClaimKeeps, NotClaimedKeeps, MovesKeep, RecordsKeep DEF HandlerStep
<1>6. ASSUME NEW h \in Slots, HandlerFault(h) PROVE NoticeInv'
  BY <1>6, MovesKeep, CrashesKeep DEF HandlerFault
<1>7. CASE UNCHANGED vars
  <2>1. TypeOK' /\ QueueInv' /\ SnapInv'
    BY <1>7 DEF vars, NoticeInv, TypeOK, QueueInv, SnapInv, DeliveryOf
  <2>2. KeptInv'
    BY <1>7 DEF vars, NoticeInv, KeptInv, HandedOn, Owed, Carried, DeliveryOf
  <2>3. UNCHANGED <<slot, task, delivery, faulted>>
    BY <1>7 DEF vars
  <2> QED
    BY <1>1, <2>1, <2>2, <2>3, TablesKeep
<1> QED
  BY <1>1, <1>2, <1>3, <1>4, <1>5, <1>6, <1>7 DEF Next

\* The invariant holds in every reachable state.
LEMMA NoticeInvariant == Spec => [](NoticeInv /\ TurnInv)
<1>1. Init => NoticeInv /\ TurnInv
  <2>1. Init => TurnInv
    BY DEF Init, TurnInv
  <2> QED
    BY <2>1, InitNoticeInv
<1> QED
  BY <1>1, NoticeStep, PTL DEF Spec

\* The tables, the queue and the locals of relays and handlers keep their types,
\* for any numbers of notices, users, relays, slots and retries.
THEOREM NoticeTypeCorrect == Spec => []TypeOK
<1>1. NoticeInv => TypeOK
  BY DEF NoticeInv
<1> QED
  BY <1>1, NoticeInvariant, PTL

\* deliver: a handler whose context is alive has the lease it claimed until it
\* records its result, and no two of them are on one delivery, whatever is
\* revoked, retried, taken over or enqueued twice meanwhile.
THEOREM LeaseIsKept == Spec => []LiveHandlerKeepsLease
<1>1. NoticeInv => LiveHandlerKeepsLease
  <2> SUFFICES ASSUME NoticeInv PROVE LiveHandlerKeepsLease
    OBVIOUS
  <2>1. \A h \in Slots : Holds(h) => HoldsLease(h) /\ Busy(h)
    BY DEF NoticeInv, SlotInv, SlotFits, Holds, Busy, Holding
  <2>2. \A g, h \in Slots : Holds(g) /\ Holds(h) /\ g # h => DeliveryOf(slot[g].row) # DeliveryOf(slot[h].row)
    BY <2>1 DEF NoticeInv, SlotInv, SlotsApart
  <2> QED
    BY <2>1, <2>2 DEF LiveHandlerKeepsLease, Holds
<1> QED
  BY <1>1, NoticeInvariant, PTL

\* Publish: the deliveries of a notice are those of the recipients its snapshot
\* wrote, if it is a push notice, and before its publication it has neither.
THEOREM SnapshotIsComplete == Spec => []SnapshotComplete
<1>1. NoticeInv => SnapshotComplete
  <2> SUFFICES ASSUME NoticeInv, NEW n \in Notices
               PROVE  /\ {d[2] : d \in {x \in Deliveries : x[1] = n /\ delivery[x].status # "absent"}}
                           = IF draft[n].push THEN recipients[n] ELSE {}
                      /\ notice[n] \notin {"published", "revoked"} => recipients[n] = {}
    BY DEF SnapshotComplete
  <2> DEFINE there == {x \in Deliveries : x[1] = n /\ delivery[x].status # "absent"}
  <2>1. recipients[n] \subseteq Users
    BY DEF NoticeInv, TypeOK
  <2>2. \A x \in Deliveries : x \in there <=> x[1] = n /\ draft[n].push /\ x[2] \in recipients[n]
    BY DEF NoticeInv, SnapInv
  <2>3. ASSUME NEW u \in recipients[n], draft[n].push PROVE <<n, u>> \in there /\ <<n, u>>[2] = u
    <3>1. <<n, u>> \in Deliveries /\ <<n, u>>[1] = n /\ <<n, u>>[2] = u
      BY <2>1 DEF Deliveries
    <3> QED
      BY <2>2, <2>3, <3>1
  <2> HIDE DEF there
  <2>4. \A x \in there : draft[n].push /\ x[2] \in recipients[n]
    <3>1. \A x \in there : x \in Deliveries
      BY DEF there
    <3> QED
      BY <2>2, <3>1
  <2>5. {d[2] : d \in there} = IF draft[n].push THEN recipients[n] ELSE {}
    <3>1. CASE draft[n].push
      BY <2>3, <2>4, <3>1
    <3>2. CASE ~draft[n].push
      BY <2>4, <3>2
    <3> QED
      BY <3>1, <3>2
  <2>6. notice[n] \notin {"published", "revoked"} => recipients[n] = {}
    BY DEF NoticeInv, SnapInv
  <2> QED
    BY <2>5, <2>6 DEF there
<1> QED
  BY <1>1, NoticeInvariant, PTL

\* Relay and Processor together: a delivery that waits or is under way is with a
\* row, a task or a handler, unless a fault hit its very last attempt.
THEOREM NothingForgotten == Spec => []ForgottenOnlyByFault
<1>1. NoticeInv => ForgottenOnlyByFault
  <2> SUFFICES ASSUME NoticeInv, NEW d \in Deliveries, delivery[d].status \in {"pending", "delivering"},
                      d \notin faulted
               PROVE  SomeoneComes(d)
    BY DEF ForgottenOnlyByFault
  <2>1. HandedOn(d)
    BY DEF NoticeInv, KeptInv
  <2>2. PICK i \in DeliveryRows : DeliveryOf(i) = d /\ (Carried(i) \/ Owed(i))
    BY <2>1 DEF HandedOn
  <2> QED
    BY <2>2 DEF SomeoneComes, Carried, Owed
<1> QED
  BY <1>1, NoticeInvariant, PTL

\* Revoke is final: no Publish, retry, claim or late result that is still on the
\* way changes a revoked notice, its recipients, or a sent or cancelled delivery.
THEOREM RevocationIsFinal == Spec => RevokedIsFinal
<1> DEFINE Settled == /\ \A n \in Notices : notice[n] = "revoked" =>
                          notice'[n] = "revoked" /\ recipients'[n] = recipients[n]
                      /\ \A d \in Deliveries : delivery[d].status \in {"sent", "canceled"} =>
                           delivery'[d] = delivery[d]
<1>1. NoticeInv /\ [Next]_vars => [Settled]_vars
  <2> SUFFICES ASSUME NoticeInv, [Next]_vars PROVE Settled
    OBVIOUS
  <2>1. \A n \in Notices : notice[n] = "revoked" =>
           notice'[n] = "revoked" /\ recipients'[n] = recipients[n]
    BY NoticeMoves
  <2>2. \A d \in Deliveries : delivery[d].status \in {"sent", "canceled"} => delivery'[d] = delivery[d]
    BY DeliveryMoves
  <2> QED
    BY <2>1, <2>2
<1>2. Spec => [][Settled]_vars
  BY <1>1, NoticeInvariant, PTL DEF Spec
<1> QED
  BY <1>2 DEF RevokedIsFinal

\* The steps the progress property is about are steps of Spec, so what is proved
\* of Spec holds of LiveSpec as well.
THEOREM LiveSpecIsSpec == LiveSpec => Spec
<1>1. [LiveNext]_vars => [Next]_vars
  BY DEF LiveNext, Next
<1> QED
  BY <1>1, PTL DEF LiveSpec, Spec

-----------------------------------------------------------------------------
(* MigrationLifecycle.                                                        *)

FileVersions == 0 .. MaxMigrationClock + VersionAttempts
PromoteSteps == {"idle", "up", "down", "manifest", "snapshot", "drop up", "drop down", "failed"}
PromoteRecords == [step : PromoteSteps, name : DraftNames \cup {"none"}, version : FileVersions]
OwnFiles == {Own("up"), Own("down")}

\* A run of Promote knows its draft and a version.
PromoteTyped ==
    /\ promote \in PromoteRecords
    /\ promote.step # "idle" => promote.name \in DraftNames

\* Up to the snapshot, what the run began with is what is there without its own
\* two files; the manifest lags behind, or has just caught up; undone, all is as before.
Undoable ==
    /\ formal = [f \in DOMAIN formal |-> formal[f]]
    /\ promote.step \in {"up", "down", "manifest", "snapshot"} =>
          before = <<drafts, Drop(formal, OwnFiles), Drop(formal, OwnFiles), drift>>
    /\ promote.step \in {"up", "down", "manifest"} => manifest = Drop(formal, OwnFiles)
    /\ promote.step = "snapshot" => manifest = formal
    /\ promote.step = "failed" => before = <<drafts, formal, manifest, drift>>

\* Inductive.
LifecycleInv == LifecycleTypeOK /\ PromoteTyped /\ Undoable

\* Removing files that are not there changes nothing.
LEMMA DropNothing ==
    ASSUME NEW f, NEW xs, f = [x \in DOMAIN f |-> f[x]], \A x \in xs : x \notin DOMAIN f
    PROVE  Drop(f, xs) = f
<1>1. DOMAIN f \ xs = DOMAIN f
  OBVIOUS
<1>2. Drop(f, xs) = [x \in DOMAIN f |-> f[x]]
  BY <1>1 DEF Drop
<1> QED
  BY <1>2

\* A file that is removed again might as well not have been written.
LEMMA DropAdded ==
    ASSUME NEW f, NEW xs, NEW a \in xs
    PROVE  Drop([x \in DOMAIN f \cup {a} |-> IF x = a THEN 1 ELSE f[x]], xs) = Drop(f, xs)
<1> DEFINE g == [x \in DOMAIN f \cup {a} |-> IF x = a THEN 1 ELSE f[x]]
<1>1. DOMAIN g \ xs = DOMAIN f \ xs
  OBVIOUS
<1>2. \A x \in DOMAIN f \ xs : g[x] = f[x]
  OBVIOUS
<1> HIDE DEF g
<1>3. Drop(g, xs) = [x \in DOMAIN f \ xs |-> g[x]]
  BY <1>1 DEF Drop
<1>4. Drop(g, xs) = [x \in DOMAIN f \ xs |-> f[x]]
  BY <1>2, <1>3
<1> QED
  BY <1>4 DEF Drop, g

\* Of the free versions one is the least.
LEMMA LeastVersion ==
    ASSUME NEW S \in SUBSET Nat, S # {}
    PROVE  \E v \in S : \A w \in S : v <= w
<1>1. PICK v \in S : \A w \in S : ~(<<w, v>> \in OpToRel(<, Nat))
  BY NatLessThanWellFounded, WFMin
<1>2. \A w \in S : ~(w < v)
  BY <1>1 DEF OpToRel
<1> QED
  BY <1>2

\* nextVersion finds a version that no formal file has.
LEMMA VersionIsFree ==
    ASSUME NEW files, NEW v \in nextVersion(files), LifecycleTypeOK
    PROVE  v \in FileVersions /\ \A f \in DOMAIN files : f.version # v
<1> DEFINE free == {w \in migrationClock .. migrationClock + VersionAttempts - 1 :
                      \A f \in DOMAIN files : f.version # w}
           least(w) == \A x \in free : w <= x
<1>0. /\ migrationClock \in 0 .. MaxMigrationClock
      /\ VersionAttempts \in Nat /\ MaxMigrationClock \in Nat
  BY LifecycleAssumption DEF LifecycleTypeOK
<1>1. free # {} /\ v = CHOOSE w \in free : least(w)
  BY DEF nextVersion
<1>2. \A w \in free : w \in Nat /\ w \in FileVersions
  BY <1>0 DEF FileVersions
<1>3. free \subseteq Nat
  BY <1>2
<1>4. \E w \in free : least(w)
  <2> HIDE DEF free
  <2> QED
    BY <1>1, <1>3, LeastVersion
<1>5. v \in free
  BY <1>1, <1>4
<1> QED
  BY <1>2, <1>5

\* The invariant holds at first.
LEMMA LifecycleInitInv == LifecycleInit => LifecycleInv
<1> SUFFICES ASSUME LifecycleInit PROVE LifecycleInv
  OBVIOUS
<1>0. VersionAttempts \in Nat /\ MaxMigrationClock \in Nat /\ MaxMigrationFaults \in Nat
  BY LifecycleAssumption
<1>1. 0 \in FileVersions
  BY <1>0 DEF FileVersions
<1>2. LifecycleTypeOK
  <2>1. DOMAIN formal = [version : {0}, name : {"first"}, side : Sides]
    BY DEF LifecycleInit
  <2>2. \A f \in [version : {0}, name : {"first"}, side : Sides] : f \in FormalFiles
    BY <1>1 DEF FormalFiles, FileVersions
  <2>3. drafts \subseteq DraftNames \X Sides /\ drift \in BOOLEAN /\ manifest = formal
        /\ migrationClock = 0 /\ migrationFaults = 0
    BY DEF LifecycleInit
  <2>4. DOMAIN formal \subseteq FormalFiles /\ DOMAIN manifest \subseteq FormalFiles
    BY <2>1, <2>2, <2>3
  <2>5. migrationClock \in 0 .. MaxMigrationClock /\ migrationFaults \in 0 .. MaxMigrationFaults
    BY <1>0, <2>3
  <2> QED
    BY <2>3, <2>4, <2>5 DEF LifecycleTypeOK
<1>3. promote = NoPromote /\ NoPromote \in PromoteRecords /\ NoPromote.step = "idle"
  BY <1>1 DEF LifecycleInit, NoPromote, PromoteRecords, PromoteSteps
<1>4. formal = [f \in DOMAIN formal |-> formal[f]]
  BY DEF LifecycleInit
<1> QED
  BY <1>2, <1>3, <1>4 DEF LifecycleInv, PromoteTyped, Undoable

\* Where a run of Promote goes on, its two files are the same; it may also end.
LEMMA PromoteMoves ==
    ASSUME LifecycleInv
    PROVE  /\ \A step \in PromoteSteps : promote.step # "idle" /\ Goes(step) =>
                /\ PromoteTyped' /\ promote'.step = step
                /\ \A side \in Sides : Own(side)' = Own(side)
                /\ OwnFiles' = OwnFiles
           /\ Ends => PromoteTyped' /\ promote'.step = "idle"
           /\ UNCHANGED promote => PromoteTyped' /\ OwnFiles' = OwnFiles
<1>1. ASSUME NEW step \in PromoteSteps, promote.step # "idle", Goes(step)
      PROVE  /\ PromoteTyped' /\ promote'.step = step
             /\ \A side \in Sides : Own(side)' = Own(side)
             /\ OwnFiles' = OwnFiles
  <2>1. promote \in PromoteRecords /\ promote.name \in DraftNames
    BY <1>1 DEF LifecycleInv, PromoteTyped
  <2>2. promote' = [promote EXCEPT !.step = step]
    BY <1>1 DEF Goes
  <2>3. /\ promote' \in PromoteRecords /\ promote'.step = step
        /\ promote'.name = promote.name /\ promote'.version = promote.version
    BY <2>1, <2>2 DEF PromoteRecords
  <2>4. PromoteTyped'
    BY <2>1, <2>3 DEF PromoteTyped, PromoteRecords
  <2> QED
    BY <2>3, <2>4 DEF Own, OwnFiles
<1>2. ASSUME Ends PROVE PromoteTyped' /\ promote'.step = "idle"
  <2>1. 0 \in FileVersions
    BY LifecycleAssumption DEF FileVersions
  <2>2. NoPromote \in PromoteRecords /\ NoPromote.step = "idle"
    BY <2>1 DEF NoPromote, PromoteRecords, PromoteSteps
  <2> QED
    BY <1>2, <2>2 DEF Ends, PromoteTyped, PromoteRecords
<1>3. ASSUME UNCHANGED promote PROVE PromoteTyped' /\ OwnFiles' = OwnFiles
  BY <1>3 DEF LifecycleInv, PromoteTyped, PromoteRecords, OwnFiles, Own
<1> QED
  BY <1>1, <1>2, <1>3

\* The files of a run that goes on are formal files.
LEMMA OwnAreFormal ==
    ASSUME LifecycleInv, promote.step # "idle", NEW side \in Sides
    PROVE  Own(side) \in FormalFiles
<1>1. promote.version \in FileVersions /\ promote.name \in DraftNames
  BY DEF LifecycleInv, PromoteTyped, PromoteRecords
<1> QED
  BY <1>1 DEF Own, FormalFiles, FileVersions

\* What Promote does not do: edits, drafts, time.
LEMMA OutsideSteps ==
    ASSUME LifecycleInv,
           \/ EditSchema \/ MigrationTick
           \/ \E f \in DOMAIN formal : EditFormal(f)
           \/ \E name \in DraftNames : NewDraftFiles(name)
    PROVE  LifecycleInv'
<1>0. LifecycleTypeOK /\ Undoable /\ promote.step \in PromoteSteps
  BY DEF LifecycleInv, PromoteTyped, PromoteRecords
<1>1. UNCHANGED <<promote, manifest, before>>
  BY DEF EditSchema, MigrationTick, EditFormal, NewDraftFiles, MigrationFiles
<1>2. PromoteTyped' /\ OwnFiles' = OwnFiles
  BY <1>1, PromoteMoves
<1>3. formal' = formal \/ \E f \in DOMAIN formal : formal' = [formal EXCEPT ![f] = 2]
  BY DEF EditSchema, MigrationTick, EditFormal, NewDraftFiles, MigrationFiles
<1>4. DOMAIN formal' = DOMAIN formal /\ formal' = [f \in DOMAIN formal' |-> formal'[f]]
  BY <1>0, <1>3 DEF Undoable
<1>5. LifecycleTypeOK'
  <2>1. drafts' \subseteq DraftNames \X Sides
    <3>1. drafts' = drafts \/ \E name \in DraftNames : drafts' \subseteq drafts \cup {<<name, side>> : side \in Sides}
      BY DEF EditSchema, MigrationTick, EditFormal, NewDraftFiles, MigrationFiles, Sides
    <3>2. drafts \subseteq DraftNames \X Sides
      BY <1>0 DEF LifecycleTypeOK
    <3> QED
      BY <3>1, <3>2
  <2>2. drift' \in BOOLEAN
    BY <1>0 DEF EditSchema, MigrationTick, EditFormal, NewDraftFiles, MigrationFiles, LifecycleTypeOK
  <2>3. migrationClock' \in 0 .. MaxMigrationClock
    BY <1>0, LifecycleAssumption DEF EditSchema, MigrationTick, EditFormal, NewDraftFiles, LifecycleTypeOK
  <2>4. migrationFaults' \in 0 .. MaxMigrationFaults
    BY <1>0, LifecycleAssumption DEF EditSchema, MigrationTick, EditFormal, NewDraftFiles, LifecycleTypeOK
  <2> QED
    BY <1>0, <1>1, <1>4, <2>1, <2>2, <2>3, <2>4 DEF LifecycleTypeOK
<1>6. Undoable'
  <2>1. CASE promote = NoPromote
    <3>1. promote'.step = "idle"
      BY <1>1, <2>1 DEF NoPromote
    <3> QED
      BY <1>4, <3>1 DEF Undoable
  <2>2. CASE MigrationTick
    BY <1>0, <1>1, <1>2, <2>2 DEF MigrationTick, MigrationFiles, Undoable, Drop
  <2> QED
    BY <2>1, <2>2 DEF EditSchema, EditFormal, NewDraftFiles
<1> QED
  BY <1>2, <1>5, <1>6 DEF LifecycleInv

\* BeginPromote: the version is free, so the run's own files are not there yet.
LEMMA BeginKeeps ==
    ASSUME LifecycleInv, NEW name \in DraftNames, BeginPromote(name)
    PROVE  LifecycleInv'
<1>0. LifecycleTypeOK /\ formal = [f \in DOMAIN formal |-> formal[f]]
  BY DEF LifecycleInv, Undoable
<1>1. /\ UNCHANGED <<drafts, formal, manifest, drift, migrationClock, migrationFaults>>
      /\ before' = <<drafts, formal, manifest, drift>> /\ manifest = formal
  BY DEF BeginPromote, MigrationFiles, checkManifest
<1>2. PICK v \in nextVersion(formal) : promote' = [step |-> "up", name |-> name, version |-> v]
  BY DEF BeginPromote
<1>3. v \in FileVersions /\ \A f \in DOMAIN formal : f.version # v
  BY <1>0, VersionIsFree
<1>4. PromoteTyped' /\ promote'.step = "up" /\ promote'.version = v
  BY <1>2, <1>3 DEF PromoteTyped, PromoteRecords, PromoteSteps
<1>5. \A f \in OwnFiles' : f \notin DOMAIN formal
  BY <1>3, <1>4 DEF OwnFiles, Own
<1>6. Drop(formal, OwnFiles') = formal
  BY <1>0, <1>5, DropNothing
<1>7. LifecycleTypeOK'
  BY <1>0, <1>1 DEF LifecycleTypeOK
<1>8. Undoable'
  BY <1>0, <1>1, <1>4, <1>6 DEF Undoable, Drop
<1> QED
  BY <1>4, <1>7, <1>8 DEF LifecycleInv

\* The writes of Promote, and the removal of its draft.
LEMMA WritesKeep ==
    ASSUME LifecycleInv,
           \/ \E side \in Sides : WriteFormal(side) \/ RemoveDraft(side)
           \/ refreshManifest \/ WriteSnapshot
    PROVE  LifecycleInv'
<1>0. LifecycleTypeOK /\ Undoable
  BY DEF LifecycleInv
<1>1. ASSUME NEW side \in Sides, WriteFormal(side) PROVE LifecycleInv'
  <2> DEFINE own == Own(side)
             next == IF side = "up" THEN "down" ELSE "manifest"
  <2>1. /\ promote.step = side /\ Goes(next)
        /\ formal' = [f \in DOMAIN formal \cup {own} |-> IF f = own THEN 1 ELSE formal[f]]
        /\ UNCHANGED <<drafts, manifest, drift, before, migrationClock, migrationFaults>>
    BY <1>1 DEF WriteFormal
  <2>2. promote.step \in {"up", "down"} /\ promote.step # "idle"
        /\ next \in {"down", "manifest"} /\ next \in PromoteSteps
    BY <2>1 DEF Sides, PromoteSteps
  <2>3. PromoteTyped' /\ promote'.step = next /\ OwnFiles' = OwnFiles
    BY <2>1, <2>2, PromoteMoves
  <2>4. own \in OwnFiles /\ own \in FormalFiles
    BY <2>2, OwnAreFormal DEF OwnFiles, Sides
  <2> HIDE DEF own, next
  <2>5. DOMAIN formal' = DOMAIN formal \cup {own} /\ formal' = [f \in DOMAIN formal' |-> formal'[f]]
    BY <2>1
  <2>6. Drop(formal', OwnFiles') = Drop(formal, OwnFiles)
    BY <2>1, <2>3, <2>4, DropAdded
  <2>7. LifecycleTypeOK'
    BY <1>0, <2>1, <2>4, <2>5 DEF LifecycleTypeOK
  <2>8. Undoable'
    <3>1. /\ before = <<drafts, Drop(formal, OwnFiles), Drop(formal, OwnFiles), drift>>
          /\ manifest = Drop(formal, OwnFiles)
      BY <1>0, <2>2 DEF Undoable
    <3>2. /\ before' = <<drafts', Drop(formal', OwnFiles'), Drop(formal', OwnFiles'), drift'>>
          /\ manifest' = Drop(formal', OwnFiles')
      BY <2>1, <2>6, <3>1
    <3>3. promote'.step # "snapshot" /\ promote'.step # "failed"
      BY <2>2, <2>3
    <3> QED
      BY <2>5, <3>2, <3>3 DEF Undoable, Drop
  <2> QED
    BY <2>3, <2>7, <2>8 DEF LifecycleInv
<1>2. ASSUME NEW side \in Sides, RemoveDraft(side) PROVE LifecycleInv'
  <2>1. /\ promote.step \in {"drop up", "drop down"}
        /\ drafts' = drafts \ {<<promote.name, side>>}
        /\ Goes("drop down") \/ Ends
        /\ UNCHANGED <<formal, manifest, drift, before, migrationClock, migrationFaults>>
    BY <1>2 DEF RemoveDraft
  <2>2. PromoteTyped' /\ promote'.step \in {"drop down", "idle"}
    BY <2>1, PromoteMoves DEF PromoteSteps
  <2>3. LifecycleTypeOK'
    BY <1>0, <2>1 DEF LifecycleTypeOK
  <2>4. Undoable'
    BY <1>0, <2>1, <2>2 DEF Undoable
  <2> QED
    BY <2>2, <2>3, <2>4 DEF LifecycleInv
<1>3. CASE refreshManifest
  <2>1. /\ promote.step = "manifest" /\ manifest' = formal /\ Goes("snapshot")
        /\ UNCHANGED <<drafts, formal, drift, before, migrationClock, migrationFaults>>
    BY <1>3 DEF refreshManifest
  <2>2. PromoteTyped' /\ promote'.step = "snapshot" /\ OwnFiles' = OwnFiles
    BY <2>1, PromoteMoves DEF PromoteSteps
  <2>3. LifecycleTypeOK'
    BY <1>0, <2>1 DEF LifecycleTypeOK
  <2>4. Undoable'
    BY <1>0, <2>1, <2>2 DEF Undoable, Drop
  <2> QED
    BY <2>2, <2>3, <2>4 DEF LifecycleInv
<1>4. CASE WriteSnapshot
  <2>1. /\ promote.step = "snapshot" /\ drift' = FALSE /\ Goes("drop up")
        /\ UNCHANGED <<drafts, formal, manifest, before, migrationClock, migrationFaults>>
    BY <1>4 DEF WriteSnapshot
  <2>2. PromoteTyped' /\ promote'.step = "drop up"
    BY <2>1, PromoteMoves DEF PromoteSteps
  <2>3. LifecycleTypeOK'
    BY <1>0, <2>1 DEF LifecycleTypeOK
  <2>4. Undoable'
    BY <1>0, <2>1, <2>2 DEF Undoable
  <2> QED
    BY <2>2, <2>3, <2>4 DEF LifecycleInv
<1> QED
  BY <1>1, <1>2, <1>3, <1>4

\* A failure undoes what was written; a stopped process leaves it.
LEMMA FailuresKeep ==
    ASSUME LifecycleInv, FailPromote \/ ReportFailure \/ StopPromote
    PROVE  LifecycleInv'
<1>0. LifecycleTypeOK /\ Undoable /\ promote.step \in PromoteSteps
  BY DEF LifecycleInv, PromoteTyped, PromoteRecords
<1>1. CASE FailPromote
  <2>1. /\ promote.step \notin {"idle", "failed"}
        /\ migrationFaults < MaxMigrationFaults /\ migrationFaults' = migrationFaults + 1
        /\ UNCHANGED <<drafts, drift, before, migrationClock>>
    BY <1>1 DEF FailPromote
  <2>2. migrationFaults' \in 0 .. MaxMigrationFaults
    BY <1>0, <2>1, LifecycleAssumption DEF LifecycleTypeOK
  <2>3. CASE promote.step \in {"up", "down", "manifest", "snapshot"}
    <3>1. /\ formal' = Drop(formal, OwnFiles) /\ Goes("failed")
          /\ manifest' = IF promote.step = "snapshot" THEN formal' ELSE manifest
      BY <1>1, <2>3 DEF FailPromote, OwnFiles, Goes
    <3>2. PromoteTyped' /\ promote'.step = "failed"
      BY <2>1, <3>1, PromoteMoves DEF PromoteSteps
    <3>3. manifest' = formal'
      BY <1>0, <2>3, <3>1 DEF Undoable
    <3>4. before = <<drafts, formal', formal', drift>>
      BY <1>0, <2>3, <3>1 DEF Undoable
    <3>5. DOMAIN formal' \subseteq DOMAIN formal /\ formal' = [f \in DOMAIN formal' |-> formal'[f]]
      BY <3>1 DEF Drop
    <3>6. LifecycleTypeOK'
      BY <1>0, <2>1, <2>2, <3>3, <3>5 DEF LifecycleTypeOK
    <3>7. Undoable'
      BY <2>1, <3>2, <3>3, <3>4, <3>5 DEF Undoable
    <3> QED
      BY <3>2, <3>6, <3>7 DEF LifecycleInv
  <2>4. CASE promote.step \in {"drop up", "drop down"}
    <3>1. formal' = formal /\ manifest' = manifest /\ Ends
      BY <1>1, <2>4 DEF FailPromote, Ends
    <3>2. PromoteTyped' /\ promote'.step = "idle"
      BY <3>1, PromoteMoves
    <3>3. LifecycleTypeOK'
      BY <1>0, <2>1, <2>2, <3>1 DEF LifecycleTypeOK
    <3>4. Undoable'
      BY <1>0, <3>1, <3>2 DEF Undoable
    <3> QED
      BY <3>2, <3>3, <3>4 DEF LifecycleInv
  <2> QED
    BY <1>0, <2>1, <2>3, <2>4 DEF PromoteSteps
<1>2. CASE ReportFailure \/ StopPromote
  <2>1. Ends /\ UNCHANGED <<drafts, formal, manifest, drift, before, migrationClock>>
    BY <1>2 DEF ReportFailure, StopPromote, MigrationFiles
  <2>2. migrationFaults' \in 0 .. MaxMigrationFaults
    BY <1>0, <1>2, LifecycleAssumption DEF ReportFailure, StopPromote, LifecycleTypeOK
  <2>3. PromoteTyped' /\ promote'.step = "idle"
    BY <2>1, PromoteMoves
  <2>4. LifecycleTypeOK'
    BY <1>0, <2>1, <2>2 DEF LifecycleTypeOK
  <2>5. Undoable'
    BY <1>0, <2>1, <2>3 DEF Undoable
  <2> QED
    BY <2>3, <2>4, <2>5 DEF LifecycleInv
<1> QED
  BY <1>1, <1>2

\* The invariant holds in every reachable state.
LEMMA LifecycleInvariant == LifecycleSpec => []LifecycleInv
<1>1. LifecycleInv /\ [LifecycleNext]_migrationVars => LifecycleInv'
  <2> SUFFICES ASSUME LifecycleInv, [LifecycleNext]_migrationVars PROVE LifecycleInv'
    OBVIOUS
  <2>1. CASE LifecycleNext
    BY <2>1, OutsideSteps, BeginKeeps, WritesKeep, FailuresKeep DEF LifecycleNext
  <2>2. CASE UNCHANGED migrationVars
    <3>1. UNCHANGED <<drafts, formal, manifest, drift, promote, before, migrationClock, migrationFaults>>
      BY <2>2 DEF migrationVars
    <3>2. PromoteTyped' /\ OwnFiles' = OwnFiles
      BY <3>1, PromoteMoves
    <3>3. LifecycleTypeOK'
      BY <3>1 DEF LifecycleInv, LifecycleTypeOK
    <3>4. Undoable'
      BY <3>1, <3>2 DEF LifecycleInv, Undoable, Drop
    <3> QED
      BY <3>2, <3>3, <3>4 DEF LifecycleInv
  <2> QED
    BY <2>1, <2>2
<1> QED
  BY <1>1, LifecycleInitInv, PTL DEF LifecycleSpec

\* Drafts, formal files and the manifest keep their types: Promote's version is
\* within the seconds nextVersion looks at.
THEOREM LifecycleTypeCorrect == LifecycleSpec => []LifecycleTypeOK
<1>1. LifecycleInv => LifecycleTypeOK
  BY DEF LifecycleInv
<1> QED
  BY <1>1, LifecycleInvariant, PTL

\* Promote: whichever of its writes fails, once it reports the failure the formal
\* files, the manifest, the snapshot and the drafts are those it began with.
THEOREM FailedPromoteIsUndone == LifecycleSpec => []FailedPromoteLeavesNothing
<1>1. LifecycleInv => FailedPromoteLeavesNothing
  BY DEF LifecycleInv, Undoable, FailedPromoteLeavesNothing, MigrationFiles
<1> QED
  BY <1>1, LifecycleInvariant, PTL

\* checkManifest before the first write and the files of one version: the tool
\* never changes or forgets a recorded checksum but that of the migration it adds.
THEOREM HistoryIsKept == LifecycleSpec => HistoryKept
<1> DEFINE Kept == \A f \in DOMAIN manifest :
                      \/ f \in DOMAIN manifest' /\ manifest'[f] = manifest[f]
                      \/ f.version = promote.version /\ f.name = promote.name
<1>1. LifecycleInv /\ [LifecycleNext]_migrationVars => [Kept]_migrationVars
  <2> SUFFICES ASSUME LifecycleInv, [LifecycleNext]_migrationVars PROVE Kept
    OBVIOUS
  <2>0. Undoable
    BY DEF LifecycleInv
  <2>1. CASE UNCHANGED manifest
    BY <2>1
  <2>2. CASE refreshManifest
    <3>1. manifest = Drop(formal, OwnFiles) /\ manifest' = formal
      BY <2>0, <2>2 DEF Undoable, refreshManifest
    <3> QED
      BY <3>1 DEF Drop
  <2>3. CASE FailPromote /\ promote.step = "snapshot"
    <3>1. manifest = formal /\ manifest' = Drop(formal, OwnFiles)
      BY <2>0, <2>3 DEF Undoable, FailPromote, OwnFiles
    <3>2. \A f \in OwnFiles : f.version = promote.version /\ f.name = promote.name
      BY DEF OwnFiles, Own
    <3> QED
      BY <3>1, <3>2 DEF Drop
  <2>4. UNCHANGED manifest \/ refreshManifest \/ (FailPromote /\ promote.step = "snapshot")
    BY DEF LifecycleNext, EditSchema, EditFormal, NewDraftFiles, BeginPromote, WriteFormal, RemoveDraft,
           WriteSnapshot, FailPromote, ReportFailure, StopPromote, MigrationTick, MigrationFiles, migrationVars
  <2> QED
    BY <2>1, <2>2, <2>3, <2>4
<1>2. LifecycleSpec => [][Kept]_migrationVars
  BY <1>1, LifecycleInvariant, PTL DEF LifecycleSpec
<1> QED
  BY <1>2 DEF HistoryKept
=============================================================================
