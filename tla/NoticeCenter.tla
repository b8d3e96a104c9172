----------------------------- MODULE NoticeCenter -----------------------------
(***************************************************************************)
(* The notice centre: notices, their outbox, and external deliveries.      *)
(*                                                                         *)
(*   internal/modules/notice/infrastructure   NoticeStore                  *)
(*   internal/modules/notice/application      Manager                      *)
(*   internal/modules/notice/worker           Relay, Processor             *)
(*   asynq (external)                         task queue with retries      *)
(*                                                                         *)
(* An administrator queues a notice; a relay turns outbox rows into tasks; *)
(* slots of the task server run Publish (snapshot the recipients, create   *)
(* the deliveries and their rows) and deliver (claim, load, send, record). *)
(* A store method is one step: one transaction or one conditional update.  *)
(* Requests carry the current version or fail, so versions are implicit.   *)
(*                                                                         *)
(* Time enters as choices: a row becomes due, a lease becomes old. A lease *)
(* on a delivery lasts 2 minutes and a task's context 30 seconds, so the   *)
(* lease of a handler whose context is alive is never old. A lease token   *)
(* is a time stamp; as a takeover needs an old lease, successive tokens of *)
(* a row differ, and they are numbered here.                               *)
(***************************************************************************)
EXTENDS Integers, FiniteSets

CONSTANTS
    Notices,        \* notices.id values
    Users,          \* users that may be addressed
    Drafts,         \* contents an administrator may write: push, all, roles, users
    RoleMembers,    \* RoleMembers[g]: users that hold role g
    Relays,         \* processes that run the outbox relay
    Slots,          \* handlers the task servers run concurrently
    MaxRetry,       \* worker.go: asynq.MaxRetry(5)
    MaxRequeues,    \* bound: RetryDeliveries per delivery
    MaxLeases,      \* bound: leases per outbox row
    MaxFaults,      \* bound: crashes, timeouts and database errors
    MaxDisabled     \* bound: users disabled

ASSUME BoundsAssumption ==
    /\ MaxRetry \in Nat /\ MaxRequeues \in Nat /\ MaxLeases \in Nat
    /\ MaxFaults \in Nat /\ MaxDisabled \in Nat

Deliveries == Notices \X Users

\* outbox_events rows: one per publication, one per delivery and requeue of it.
PublishRows == {[kind |-> "publish", notice |-> n] : n \in Notices}
DeliveryRows ==
    {[kind |-> "delivery", notice |-> d[1], user |-> d[2], turn |-> k] :
        d \in Deliveries, k \in 0..MaxRequeues}
Rows == PublishRows \cup DeliveryRows
NoRow == [kind |-> "none"]
DeliveryOf(i) == <<i.notice, i.user>>

VARIABLES
    notice,     \* notice[n]: status
    draft,      \* draft[n]: content, once written
    active,     \* users whose account is active
    recipients, \* recipients[n]: notice_recipients
    delivery,   \* delivery[d]: status, lease token and number of requeues
    outbox,     \* outbox[i]: status, due, token and whether its lease is old
    task,       \* task[i]: the asynq task made from row i, with its retry count
    relay,      \* relay[r]: <<row, token>> pairs to enqueue, and the one to mark
    slot,       \* slot[h]: the handler running there
    sends,      \* sends[d]: successful Sends of delivery d
    faulted,    \* deliveries whose last attempt met a fault since they were queued
    faults      \* faults so far (bound)

noticeVars == <<notice, draft, active, recipients>>
vars == <<notice, draft, active, recipients, delivery, outbox, task, relay, slot,
          sends, faulted, faults>>

NoticeStatuses == {"absent", "draft", "deleted", "scheduled", "publishing", "published", "revoked"}
DeliveryStatuses == {"absent", "pending", "delivering", "sent", "failed", "canceled"}
OutboxStatuses == {"absent", "pending", "leased", "dispatched", "canceled"}
PCs == {"idle", "publish", "claim", "load", "revoked", "send", "complete", "fail", "release"}

NoDraft == [push |-> FALSE, all |-> FALSE, roles |-> {}, users |-> {}]
Resting == [rows |-> {}, mark |-> {}]
Free == [pc |-> "idle", row |-> NoRow, token |-> 0, live |-> TRUE]

Init ==
    /\ notice = [n \in Notices |-> "absent"]
    /\ draft = [n \in Notices |-> NoDraft]
    /\ active = Users
    /\ recipients = [n \in Notices |-> {}]
    /\ delivery = [d \in Deliveries |-> [status |-> "absent", token |-> 0, turn |-> 0]]
    /\ outbox = [i \in Rows |-> [status |-> "absent", due |-> FALSE, token |-> 0, old |-> FALSE]]
    /\ task = [i \in Rows |-> [state |-> "none", retried |-> 0]]
    /\ relay = [r \in Relays |-> Resting]
    /\ slot = [h \in Slots |-> Free]
    /\ sends = [d \in Deliveries |-> 0]
    /\ faulted = {}
    /\ faults = 0

-----------------------------------------------------------------------------
(* Administrators and users.                                               *)

workVars == <<delivery, task, relay, slot, sends, faulted, faults>>

\* createOutbox
NewRow(due) == [status |-> "pending", due |-> due, token |-> 0, old |-> FALSE]

Create(n, c) ==
    /\ notice[n] = "absent"
    /\ c.users \subseteq active
    /\ notice' = [notice EXCEPT ![n] = "draft"]
    /\ draft' = [draft EXCEPT ![n] = c]
    /\ UNCHANGED <<active, recipients, outbox, workVars>>

UpdateDraft(n, c) ==
    /\ notice[n] = "draft"
    /\ c.users \subseteq active
    /\ draft' = [draft EXCEPT ![n] = c]
    /\ UNCHANGED <<notice, active, recipients, outbox, workVars>>

DeleteDraft(n) ==
    /\ notice[n] = "draft"
    /\ notice' = [notice EXCEPT ![n] = "deleted"]
    /\ UNCHANGED <<draft, active, recipients, outbox, workVars>>

\* At once, or at a later time: then the row is not due yet.
QueuePublish(n, later) ==
    /\ notice[n] = "draft"
    /\ notice' = [notice EXCEPT ![n] = IF later THEN "scheduled" ELSE "publishing"]
    /\ outbox' = [outbox EXCEPT ![[kind |-> "publish", notice |-> n]] = NewRow(~later)]
    /\ UNCHANGED <<draft, active, recipients, workVars>>

CanceledDelivery(status) == IF status \in {"pending", "failed"} THEN "canceled" ELSE status
CanceledRow(status) == IF status \in {"pending", "leased"} THEN "canceled" ELSE status

Revoke(n) ==
    /\ notice[n] \in {"scheduled", "publishing", "published"}
    /\ notice' = [notice EXCEPT ![n] = "revoked"]
    /\ delivery' = [d \in Deliveries |->
                      IF d[1] = n
                      THEN [delivery[d] EXCEPT !.status = CanceledDelivery(@)]
                      ELSE delivery[d]]
    /\ outbox' = [i \in Rows |->
                    IF i.notice = n
                    THEN [outbox[i] EXCEPT !.status = CanceledRow(@)]
                    ELSE outbox[i]]
    /\ UNCHANGED <<draft, active, recipients, task, relay, slot, sends, faulted, faults>>

\* Failed deliveries become pending again, each with a new row.
RetryDeliveries(n) ==
    LET again == {d \in Deliveries : d[1] = n /\ delivery[d].status = "failed"} IN
    /\ again # {}
    /\ \A d \in again : delivery[d].turn < MaxRequeues
    /\ delivery' = [d \in Deliveries |->
                      IF d \in again
                      THEN [status |-> "pending", token |-> 0, turn |-> delivery[d].turn + 1]
                      ELSE delivery[d]]
    /\ outbox' = [i \in Rows |->
                    IF i \in DeliveryRows /\ DeliveryOf(i) \in again
                       /\ i.turn = delivery[DeliveryOf(i)].turn + 1
                    THEN NewRow(TRUE) ELSE outbox[i]]
    /\ faulted' = faulted \ again
    /\ UNCHANGED <<noticeVars, task, relay, slot, sends, faults>>

DisableUser(u) ==
    /\ u \in active
    /\ Cardinality(Users \ active) < MaxDisabled
    /\ active' = active \ {u}
    /\ UNCHANGED <<notice, draft, recipients, outbox, workVars>>

-----------------------------------------------------------------------------
(* The relay.                                                              *)

\* Time: a pending row becomes due, the lease of a row becomes older than 2 minutes.
BecomesDue(i) ==
    /\ outbox[i].status = "pending" /\ ~outbox[i].due
    /\ outbox' = [outbox EXCEPT ![i].due = TRUE]
    /\ UNCHANGED <<noticeVars, workVars>>

LeaseAges(i) ==
    /\ outbox[i].status = "leased" /\ ~outbox[i].old
    /\ outbox' = [outbox EXCEPT ![i].old = TRUE]
    /\ UNCHANGED <<noticeVars, workVars>>

\* Mutant: a lease never becomes old.
LeasableOnce(i) == outbox[i].status = "pending" /\ outbox[i].due

Leasable(i) ==
    \/ outbox[i].status = "pending" /\ outbox[i].due
    \/ outbox[i].status = "leased" /\ outbox[i].old

LeaseOutbox(r) ==
    LET rows == {i \in Rows : Leasable(i) /\ outbox[i].token < MaxLeases} IN
    /\ relay[r] = Resting
    /\ rows # {}
    /\ outbox' = [i \in Rows |->
                    IF i \in rows
                    THEN [status |-> "leased", due |-> TRUE, token |-> outbox[i].token + 1,
                          old |-> FALSE]
                    ELSE outbox[i]]
    /\ relay' = [relay EXCEPT ![r].rows = {<<i, outbox[i].token + 1>> : i \in rows}]
    /\ UNCHANGED <<noticeVars, delivery, task, slot, sends, faulted, faults>>

\* EnqueueContext: a task id that is in use is a conflict, which counts as success.
Enqueue(r, i, k) ==
    /\ relay[r].mark = {} /\ <<i, k>> \in relay[r].rows
    /\ task' = IF task[i].state = "none"
               THEN [task EXCEPT ![i] = [state |-> "ready", retried |-> 0]] ELSE task
    /\ relay' = [relay EXCEPT ![r] = [rows |-> @.rows \ {<<i, k>>}, mark |-> {<<i, k>>}]]
    /\ UNCHANGED <<noticeVars, delivery, outbox, slot, sends, faulted, faults>>

\* The row still carries this lease.
RowLeased(i, k) == outbox[i].status = "leased" /\ outbox[i].token = k

MarkOutboxDispatched(r, i, k) ==
    /\ <<i, k>> \in relay[r].mark
    /\ outbox' = IF RowLeased(i, k) THEN [outbox EXCEPT ![i].status = "dispatched"] ELSE outbox
    /\ relay' = [relay EXCEPT ![r].mark = {}]
    /\ UNCHANGED <<noticeVars, delivery, task, slot, sends, faulted, faults>>

\* Redis refuses the task: the row is due again a second later.
ReleaseOutbox(r, i, k) ==
    /\ faults < MaxFaults /\ faults' = faults + 1
    /\ relay[r].mark = {} /\ <<i, k>> \in relay[r].rows
    /\ outbox' = IF RowLeased(i, k)
                 THEN [outbox EXCEPT ![i] = [@ EXCEPT !.status = "pending", !.due = FALSE]]
                 ELSE outbox
    /\ relay' = [relay EXCEPT ![r].rows = @ \ {<<i, k>>}]
    /\ UNCHANGED <<noticeVars, delivery, task, slot, sends, faulted>>

\* The relay's process dies, or a store call fails and ends the tick.
RelayCrash(r) ==
    /\ faults < MaxFaults /\ faults' = faults + 1
    /\ relay[r] # Resting
    /\ relay' = [relay EXCEPT ![r] = Resting]
    /\ UNCHANGED <<noticeVars, delivery, outbox, task, slot, sends, faulted>>

-----------------------------------------------------------------------------
(* The task server (asynq, external) and the handlers.                     *)

\* A handler's result: success deletes the task, an error retries or archives it.
TaskDone(i) == task' = [task EXCEPT ![i] = [state |-> "none", retried |-> 0]]
TaskError(i) ==
    task' = [task EXCEPT ![i] =
               IF @.retried >= MaxRetry THEN [@ EXCEPT !.state = "archived"]
               ELSE [state |-> "ready", retried |-> @.retried + 1]]

Leave(h) == slot' = [slot EXCEPT ![h] = Free]
Goto(h, pc) == slot' = [slot EXCEPT ![h].pc = pc]
At(h, pc) == slot[h].pc = pc /\ slot[h].live

Handle(h, i) ==
    /\ slot[h] = Free
    /\ task[i].state = "ready"
    /\ task' = [task EXCEPT ![i].state = "active"]
    /\ slot' = [slot EXCEPT ![h] = [pc |-> IF i.kind = "publish" THEN "publish" ELSE "claim",
                                    row |-> i, token |-> 0, live |-> TRUE]]
    /\ UNCHANGED <<noticeVars, delivery, outbox, relay, sends, faulted, faults>>

\* resolveRecipients: an explicit recipient who is not active any more is an error.
ResolveFails(c) == ~(c.users \subseteq active)
resolveRecipients(c) ==
    {u \in active : c.all \/ u \in c.users \/ \E g \in c.roles : u \in RoleMembers[g]}

\* Mutant: push_enabled is not looked at.
FreshForAll(n, us) ==
    {d \in Deliveries : d[1] = n /\ d[2] \in us /\ delivery[d].status = "absent"}

\* The push deliveries that are not there yet (ON CONFLICT DO NOTHING).
Fresh(n, us) ==
    {d \in Deliveries : /\ d[1] = n /\ d[2] \in us
                        /\ draft[n].push /\ delivery[d].status = "absent"}

\* The snapshot's transaction, for a notice that is still to be published.
Snapshot(n) ==
    LET us == resolveRecipients(draft[n])
        fresh == Fresh(n, us) IN
    /\ recipients' = [recipients EXCEPT ![n] = @ \cup us]
    /\ delivery' = [d \in Deliveries |->
                      IF d \in fresh THEN [delivery[d] EXCEPT !.status = "pending"]
                      ELSE delivery[d]]
    /\ outbox' = [i \in Rows |->
                    IF i \in DeliveryRows /\ DeliveryOf(i) \in fresh /\ i.turn = 0
                    THEN NewRow(TRUE) ELSE outbox[i]]
    /\ notice' = [notice EXCEPT ![n] = "published"]

\* Mutant: a notice revoked while its task was on the way is published.
PublishSkipsOnlyPublished(h) ==
    LET n == slot[h].row.notice IN
    /\ At(h, "publish")
    /\ IF notice[n] = "published"
       THEN TaskDone(slot[h].row) /\ UNCHANGED <<notice, recipients, delivery, outbox>>
       ELSE IF ResolveFails(draft[n])
       THEN TaskError(slot[h].row) /\ UNCHANGED <<notice, recipients, delivery, outbox>>
       ELSE TaskDone(slot[h].row) /\ Snapshot(n)
    /\ Leave(h)
    /\ UNCHANGED <<draft, active, relay, sends, faulted, faults>>

Publish(h) ==
    LET n == slot[h].row.notice IN
    /\ At(h, "publish")
    /\ IF notice[n] \in {"published", "revoked"}
       THEN TaskDone(slot[h].row) /\ UNCHANGED <<notice, recipients, delivery, outbox>>
       ELSE IF notice[n] \notin {"publishing", "scheduled"} \/ ResolveFails(draft[n])
       THEN TaskError(slot[h].row) /\ UNCHANGED <<notice, recipients, delivery, outbox>>
       ELSE TaskDone(slot[h].row) /\ Snapshot(n)
    /\ Leave(h)
    /\ UNCHANGED <<draft, active, relay, sends, faulted, faults>>

\* Steps in which a handler has claimed its delivery.
Holding == {"load", "revoked", "send", "complete", "fail", "release"}

\* The lease of a handler whose context is alive is less than 30 seconds old.
HeldByLive(d) ==
    \E h \in Slots : /\ slot[h].live /\ slot[h].pc \in Holding
                     /\ DeliveryOf(slot[h].row) = d /\ slot[h].token = delivery[d].token

\* Mutant: the lease of another handler is not respected.
ClaimableAnytime(d) == delivery[d].status \in {"pending", "delivering"}

Claimable(d) ==
    \/ delivery[d].status = "pending"
    \/ delivery[d].status = "delivering" /\ ~HeldByLive(d)

ClaimDelivery(h) ==
    LET d == DeliveryOf(slot[h].row) IN
    /\ At(h, "claim")
    /\ Claimable(d)
    /\ delivery' = [delivery EXCEPT ![d] = [@ EXCEPT !.status = "delivering", !.token = delivery[d].token + 1]]
    /\ slot' = [slot EXCEPT ![h] = [@ EXCEPT !.pc = "load", !.token = delivery[d].token + 1]]
    /\ UNCHANGED <<noticeVars, outbox, task, relay, sends, faulted, faults>>

\* Mutant: a failed Send always leaves the delivery to the next retry.
NeverFinal(h) == FALSE

\* retry >= maxRetry
Final(h) == task[slot[h].row].retried >= MaxRetry

\* A delivery that is sent, failed, cancelled or gone is nothing to do; one under
\* way whose lease is not old is ErrDeliveryLeaseHeld. asynq waits more than 2
\* minutes before the last retry, so a dead handler's lease is old by then.
NotClaimed(h) ==
    LET d == DeliveryOf(slot[h].row) IN
    /\ At(h, "claim")
    /\ \/ /\ delivery[d].status \notin {"pending", "delivering"}
          /\ TaskDone(slot[h].row)
       \/ /\ delivery[d].status = "delivering"
          /\ HeldByLive(d) \/ ~Final(h)
          /\ TaskError(slot[h].row)
    /\ Leave(h)
    /\ UNCHANGED <<noticeVars, delivery, outbox, relay, sends, faulted, faults>>

LoadDelivery(h) ==
    /\ At(h, "load")
    /\ Goto(h, IF notice[slot[h].row.notice] = "revoked" THEN "revoked" ELSE "send")
    /\ UNCHANGED <<noticeVars, delivery, outbox, task, relay, sends, faulted, faults>>

\* The provider: it accepts the message, or it fails. It does not look at the context.
Send(h, ok) ==
    LET d == DeliveryOf(slot[h].row) IN
    /\ slot[h].pc = "send"
    /\ sends' = IF ok THEN [sends EXCEPT ![d] = @ + 1] ELSE sends
    /\ Goto(h, IF ok THEN "complete" ELSE "fail")
    /\ UNCHANGED <<noticeVars, delivery, outbox, task, relay, faulted, faults>>

\* requireLease: WHERE id = ? AND status = delivering AND locked_at = ?
HoldsLease(h) ==
    LET d == DeliveryOf(slot[h].row) IN
    delivery[d].status = "delivering" /\ delivery[d].token = slot[h].token

Settle(h, status) ==
    delivery' = IF HoldsLease(h)
                THEN [delivery EXCEPT ![DeliveryOf(slot[h].row)].status = status] ELSE delivery

CompleteDelivery(h) ==
    /\ At(h, "complete")
    /\ Settle(h, "sent")
    /\ TaskDone(slot[h].row) /\ Leave(h)
    /\ UNCHANGED <<noticeVars, outbox, relay, sends, faulted, faults>>

\* Recorded as pending or, at the last retry, as failed; the task gets the error.
FailDelivery(h) ==
    /\ At(h, "fail")
    /\ Settle(h, IF Final(h) THEN "failed" ELSE "pending")
    /\ IF HoldsLease(h) THEN TaskError(slot[h].row) ELSE TaskDone(slot[h].row)
    /\ Leave(h)
    /\ UNCHANGED <<noticeVars, outbox, relay, sends, faulted, faults>>

FailRevoked(h) ==
    /\ At(h, "revoked")
    /\ Settle(h, "failed")
    /\ TaskDone(slot[h].row) /\ Leave(h)
    /\ UNCHANGED <<noticeVars, outbox, relay, sends, faulted, faults>>

-----------------------------------------------------------------------------
(* Faults.                                                                 *)

Fault(h) ==
    /\ faults < MaxFaults /\ faults' = faults + 1
    /\ faulted' = IF slot[h].row.kind = "delivery" /\ Final(h)
                  THEN faulted \cup {DeliveryOf(slot[h].row)} ELSE faulted

\* LoadDelivery or CompleteDelivery returns a database error.
LoadOrCompleteError(h) ==
    /\ At(h, "load") \/ At(h, "complete")
    /\ Fault(h)
    /\ Goto(h, "release")
    /\ UNCHANGED <<noticeVars, delivery, outbox, task, relay, sends>>

\* releaseDelivery: FailDelivery with final = false, whatever the retry count.
releaseDelivery(h) ==
    /\ At(h, "release")
    /\ Settle(h, "pending")
    /\ IF HoldsLease(h) THEN TaskError(slot[h].row) ELSE TaskDone(slot[h].row)
    /\ Leave(h)
    /\ UNCHANGED <<noticeVars, outbox, relay, sends, faulted, faults>>

\* The worker dies, or the store call of this step fails without effect and its
\* error ends the handler; the task is retried or archived either way.
HandlerCrash(h) ==
    /\ slot[h].pc # "idle" /\ slot[h].live
    /\ Fault(h)
    /\ TaskError(slot[h].row) /\ Leave(h)
    /\ UNCHANGED <<noticeVars, delivery, outbox, relay, sends>>

\* The task's 30 seconds are over: asynq retries or archives the task and leaves
\* the handler running with a dead context, on which every store call fails.
Timeout(h) ==
    /\ slot[h].pc \in {"send", "complete", "fail"} /\ slot[h].live
    /\ Fault(h)
    /\ TaskError(slot[h].row)
    /\ slot' = [slot EXCEPT ![h].live = FALSE]
    /\ UNCHANGED <<noticeVars, delivery, outbox, relay, sends>>

LateHandlerEnds(h) ==
    /\ slot[h].pc \in {"complete", "fail"} /\ ~slot[h].live
    /\ Leave(h)
    /\ UNCHANGED <<noticeVars, delivery, outbox, task, relay, sends, faulted, faults>>

-----------------------------------------------------------------------------
AdminStep ==
    \/ \E n \in Notices : \/ \E c \in Drafts : Create(n, c) \/ UpdateDraft(n, c)
                          \/ DeleteDraft(n)
                          \/ \E later \in BOOLEAN : QueuePublish(n, later)
                          \/ Revoke(n)
                          \/ RetryDeliveries(n)
    \/ \E u \in Users : DisableUser(u)

RelayStep(r) ==
    \/ LeaseOutbox(r)
    \/ \E p \in relay[r].rows : Enqueue(r, p[1], p[2])
    \/ \E p \in relay[r].mark : MarkOutboxDispatched(r, p[1], p[2])

RelayFault(r) ==
    \/ \E p \in relay[r].rows : ReleaseOutbox(r, p[1], p[2])
    \/ RelayCrash(r)

HandlerStep(h) ==
    \/ \E i \in Rows : Handle(h, i)
    \/ Publish(h)
    \/ ClaimDelivery(h) \/ NotClaimed(h)
    \/ LoadDelivery(h)
    \/ \E ok \in BOOLEAN : Send(h, ok)
    \/ CompleteDelivery(h) \/ FailDelivery(h) \/ FailRevoked(h) \/ releaseDelivery(h)
    \/ LateHandlerEnds(h)

HandlerFault(h) == LoadOrCompleteError(h) \/ HandlerCrash(h) \/ Timeout(h)

Next ==
    \/ AdminStep
    \/ \E i \in Rows : BecomesDue(i) \/ LeaseAges(i)
    \/ \E r \in Relays : RelayStep(r) \/ RelayFault(r)
    \/ \E h \in Slots : HandlerStep(h) \/ HandlerFault(h)

Spec == Init /\ [][Next]_vars

-----------------------------------------------------------------------------
(* Progress: relays and handlers go on, time passes, and a tick of a relay *)
(* that lives is over before the leases it took are old.                   *)
HeldByRelay(i) ==
    \E r \in Relays : \E p \in relay[r].rows \cup relay[r].mark : p[1] = i

LiveNext ==
    \/ AdminStep
    \/ \E i \in Rows : BecomesDue(i) \/ (LeaseAges(i) /\ ~HeldByRelay(i))
    \/ \E r \in Relays : RelayStep(r) \/ RelayFault(r)
    \/ \E h \in Slots : HandlerStep(h) \/ HandlerFault(h)

LiveSpec ==
    /\ Init /\ [][LiveNext]_vars
    /\ \A i \in Rows : WF_vars(BecomesDue(i)) /\ WF_vars(LeaseAges(i) /\ ~HeldByRelay(i))
    /\ \A r \in Relays : WF_vars(RelayStep(r))
    /\ \A h \in Slots : WF_vars(HandlerStep(h))

-----------------------------------------------------------------------------
RowSlots == Rows \cup {NoRow}

\* Types of the tables, of the queue and of the handlers' locals.
TypeOK ==
    /\ notice \in [Notices -> NoticeStatuses]
    /\ draft \in [Notices -> Drafts \cup {NoDraft}]
    /\ active \subseteq Users
    /\ recipients \in [Notices -> SUBSET Users]
    /\ delivery \in [Deliveries -> [status : DeliveryStatuses, token : Nat, turn : 0..MaxRequeues]]
    /\ outbox \in [Rows -> [status : OutboxStatuses, due : BOOLEAN, token : Nat, old : BOOLEAN]]
    /\ task \in [Rows -> [state : {"none", "ready", "active", "archived"}, retried : 0..MaxRetry]]
    /\ relay \in [Relays -> [rows : SUBSET (Rows \X Nat), mark : SUBSET (Rows \X Nat)]]
    /\ slot \in [Slots -> [pc : PCs, row : RowSlots, token : Nat, live : BOOLEAN]]
    /\ sends \in [Deliveries -> Nat]
    /\ faulted \subseteq Deliveries
    /\ faults \in Nat

\* deliver: while a handler's context is alive it keeps the lease it claimed, so
\* no other live handler sends the same delivery, and its result is recorded:
\* neither Revoke, nor RetryDeliveries, nor a second task takes it away.
LiveHandlerKeepsLease ==
    /\ \A h \in Slots : slot[h].live /\ slot[h].pc \in Holding => HoldsLease(h)
    /\ \A g, h \in Slots :
         /\ slot[g].live /\ slot[g].pc \in Holding
         /\ slot[h].live /\ slot[h].pc \in Holding
         /\ DeliveryOf(slot[g].row) = DeliveryOf(slot[h].row)
         => g = h

\* Publish "snapshots recipients and creates external delivery events" in one
\* transaction, which is one step here: that it is all or nothing is MySQL's and
\* assumed. Whatever runs beside and after it, deliveries exist exactly for the
\* recipients of a published push notice, and a notice that was never published
\* has no recipients.
SnapshotComplete ==
    \A n \in Notices :
        LET made == {d[2] : d \in {x \in Deliveries : x[1] = n /\ delivery[x].status # "absent"}} IN
        /\ made = IF draft[n].push THEN recipients[n] ELSE {}
        /\ notice[n] \notin {"published", "revoked"} => recipients[n] = {}

\* Whoever will still come for delivery d: a row, a relay, a task or a handler.
SomeoneComes(d) ==
    \E i \in DeliveryRows :
        /\ DeliveryOf(i) = d
        /\ \/ outbox[i].status \in {"pending", "leased"}
           \/ task[i].state \in {"ready", "active"}

\* A delivery that waits or is under way is never forgotten, unless its very
\* last attempt met a fault: the row, the task and the retry counter hand it on.
ForgottenOnlyByFault ==
    \A d \in Deliveries :
        delivery[d].status \in {"pending", "delivering"} => SomeoneComes(d) \/ d \in faulted

\* worker_test.go: TestProcessorKeepsFailedAndLeasedDeliveriesRetryable.
KeepsRetryable ==
    \A d \in Deliveries :
        delivery[d].status \in {"pending", "delivering"} => SomeoneComes(d)

\* Revocation is final: whatever tasks and leased rows are still on the way, a
\* revoked notice stays revoked and its recipients stay as they are, and neither
\* a sent nor a cancelled delivery changes again.
RevokedIsFinal ==
    [][/\ \A n \in Notices : notice[n] = "revoked" =>
            notice'[n] = "revoked" /\ recipients'[n] = recipients[n]
       /\ \A d \in Deliveries : delivery[d].status \in {"sent", "canceled"} =>
            delivery'[d] = delivery[d]]_vars

\* Every delivery is settled in the end, through crashes, old leases, timeouts,
\* lost tasks and late answers, unless the fault hit its very last attempt.
DeliveriesSettle ==
    \A d \in Deliveries :
        delivery[d].status \in {"pending", "delivering"} ~>
            delivery[d].status \in {"sent", "failed", "canceled"} \/ d \in faulted

=============================================================================
