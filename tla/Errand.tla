------------------------------- MODULE Errand -------------------------------
(***************************************************************************)
(* Errand tasks and their trade orders: internal/modules/errand, the trade *)
(* query of internal/modules/trade and finishTradeOrder of                 *)
(* api/httpapi/trade_handler.go.                                           *)
(*                                                                         *)
(* A task write is one transaction that locks the task row and compares    *)
(* the client's version. A request that names the order instead (complete  *)
(* or cancel a trade order) first reads task and order without a lock and  *)
(* then finishes the task with the version it read: two steps here.        *)
(***************************************************************************)
EXTENDS Naturals, Sequences, FiniteSets, FiniteSetsExt

CONSTANTS
    Tasks,            \* row ids of errand_tasks
    ErrandUsers,      \* members
    Requesters,       \* the members who publish tasks
    AcceptKeys,       \* Idempotency-Key values the runners send
    Deadlines,        \* deadlines the inputs use
    MaxTaskVersion,   \* bound: versions of a task
    MaxErrandClock,   \* bound: the clock
    NoUser            \* not a member

ASSUME ErrandAssumption ==
    /\ Tasks \subseteq Nat /\ IsFiniteSet(ErrandUsers) /\ Requesters \subseteq ErrandUsers
    /\ NoUser \notin ErrandUsers
    /\ Deadlines \subseteq Nat /\ {MaxTaskVersion, MaxErrandClock} \subseteq Nat

TaskStatuses == {"open", "accepted", "picked_up", "delivered", "completed", "cancelled"}

\* A row of errand_tasks, but for its texts, reward and encrypted contact.
TaskRows == [status : TaskStatuses, review : {"draft", "pending_review", "approved", "rejected"},
             requester : ErrandUsers, runner : ErrandUsers \cup {NoUser},
             order : Nat, deadline : Nat, version : Nat]

\* A row of trade_orders of type errand.
ErrandOrders == [task : Tasks, buyer : ErrandUsers, seller : ErrandUsers, key : AcceptKeys,
                 status : {"confirmed", "completed", "cancelled"}, version : Nat]

VARIABLES
    task,        \* task[t]: the row, a function on the tasks created
    errandOrder, \* the orders in id order
    orderCall,   \* orderCall[u]: what u's request on an order has read, or nothing
    errandClock  \* the time

errandVars == <<task, errandOrder, orderCall, errandClock>>

NoCall == [task |-> 0, version |-> 0, target |-> "none"]

ErrandInit ==
    /\ task = [t \in {} |-> [status |-> "open"]]
    /\ errandOrder = <<>>
    /\ orderCall = [u \in ErrandUsers |-> NoCall]
    /\ errandClock = 0

-----------------------------------------------------------------------------
Posted == DOMAIN task
SaveTask(t, row) == task' = [task EXCEPT ![t] = row]

CreateTask(t, u, deadline) ==
    /\ t \notin Posted
    /\ \A s \in Tasks : s < t => s \in Posted
    /\ deadline > errandClock
    /\ task' = [s \in Posted \cup {t} |->
                   IF s # t THEN task[s]
                   ELSE [status |-> "open", review |-> "pending_review", requester |-> u,
                         runner |-> NoUser, order |-> 0, deadline |-> deadline, version |-> 1]]
    /\ UNCHANGED <<errandOrder, orderCall, errandClock>>

\* mutate: the checks of version and status under the lock.
Mutable(t, version, status) ==
    /\ task[t].version = version /\ version < MaxTaskVersion
    /\ task[t].status = status

MutateTask(t, row) ==
    /\ SaveTask(t, [row EXCEPT !.version = @ + 1])
    /\ UNCHANGED <<errandOrder, orderCall, errandClock>>

CanEditTask(k) == k.status = "open" /\ k.review \in {"draft", "rejected", "approved"}

MayUpdateTask(t, u, version, deadline) ==
    /\ u = task[t].requester
    /\ deadline > errandClock
    /\ CanEditTask(task[t])
    /\ Mutable(t, version, "open")

UpdateTask(t, u, version, deadline) ==
    /\ MayUpdateTask(t, u, version, deadline)
    /\ MutateTask(t, [task[t] EXCEPT !.deadline = deadline, !.review = "draft"])

MaySubmitTaskReview(t, u, version) ==
    /\ u = task[t].requester
    /\ task[t].review \in {"draft", "rejected"}
    /\ Mutable(t, version, "open")

SubmitTaskReview(t, u, version) ==
    /\ MaySubmitTaskReview(t, u, version)
    /\ MutateTask(t, [task[t] EXCEPT !.review = "pending_review"])

ReviewTask(t, version, approved) ==
    /\ task[t].review = "pending_review"
    /\ Mutable(t, version, "open")
    /\ MutateTask(t, [task[t] EXCEPT !.review = IF approved THEN "approved" ELSE "rejected"])

RevokeTaskReview(t, version) ==
    /\ task[t].review = "approved"
    /\ Mutable(t, version, "open")
    /\ MutateTask(t, [task[t] EXCEPT !.review = "pending_review"])

\* Accept. An order of this requester with this key and task is a replay (or, for
\* another runner, a reused key): neither changes anything.
KeyUsed(t, key) ==
    \E n \in DOMAIN errandOrder :
        /\ errandOrder[n].buyer = task[t].requester
        /\ errandOrder[n].task = t /\ errandOrder[n].key = key

MayAcceptTask(t, u, version, key) ==
    /\ ~KeyUsed(t, key)
    /\ Mutable(t, version, "open")
    /\ task[t].review = "approved"
    /\ task[t].deadline > errandClock
    /\ u # task[t].requester

AcceptTask(t, u, version, key) ==
    /\ MayAcceptTask(t, u, version, key)
    /\ errandOrder' = Append(errandOrder, [task |-> t, buyer |-> task[t].requester, seller |-> u,
                                           key |-> key, status |-> "confirmed", version |-> 1])
    /\ SaveTask(t, [task[t] EXCEPT !.status = "accepted", !.runner = u,
                                   !.order = Len(errandOrder) + 1, !.version = @ + 1])
    /\ UNCHANGED <<orderCall, errandClock>>

\* runnerTransition: the step of the runner that leaves this status.
MayMoveOn(t, u, version, status) == u = task[t].runner /\ Mutable(t, version, status)

PickupTask(t, u, version) ==
    /\ MayMoveOn(t, u, version, "accepted")
    /\ MutateTask(t, [task[t] EXCEPT !.status = "picked_up"])

DeliverTask(t, u, version) ==
    /\ MayMoveOn(t, u, version, "picked_up")
    /\ MutateTask(t, [task[t] EXCEPT !.status = "delivered"])

-----------------------------------------------------------------------------
\* Mutant: a finish that trusts what the request read before it took the lock.
MayFinishAsRead(t, u, version, target) ==
    IF target = "completed" THEN u = task[t].requester
    ELSE u \in {task[t].requester, task[t].runner}

\* The checks of finish, under the lock.
MayFinish(t, u, version, target) ==
    /\ task[t].version = version
    /\ IF target = "completed"
       THEN task[t].status = "delivered" /\ u = task[t].requester
       ELSE task[t].status \in {"open", "accepted"} /\ u \in {task[t].requester, task[t].runner}

\* The writes of finish: the task, and its order with it when there is one.
Finished(t, target) ==
    /\ SaveTask(t, [task[t] EXCEPT !.status = target, !.version = @ + 1])
    /\ errandOrder' = [n \in DOMAIN errandOrder |->
                          IF n # task[t].order THEN errandOrder[n]
                          ELSE [errandOrder[n] EXCEPT !.status = target, !.version = @ + 1]]
    /\ UNCHANGED errandClock

\* Complete and Cancel of a task.
FinishTask(t, u, version, target) ==
    /\ MayFinish(t, u, version, target)
    /\ Finished(t, target)
    /\ UNCHANGED orderCall

\* finishTradeOrder: the order is looked up among the caller's own, then
\* CompleteOrder or CancelOrder reads the task and the order.
ReadOrder(u, n, version, target) ==
    /\ orderCall[u] = NoCall
    /\ u \in {errandOrder[n].buyer, errandOrder[n].seller}
    /\ errandOrder[n].version = version
    /\ LET t == errandOrder[n].task IN
       orderCall' = [orderCall EXCEPT ![u] = [task |-> t, version |-> task[t].version, target |-> target]]
    /\ UNCHANGED <<task, errandOrder, errandClock>>

\* CompleteOrder and CancelOrder, second half: finish with the task version read.
FinishOrder(u) ==
    LET call == orderCall[u] IN
    /\ call # NoCall
    /\ orderCall' = [orderCall EXCEPT ![u] = NoCall]
    /\ IF MayFinish(call.task, u, call.version, call.target)
       THEN Finished(call.task, call.target)
       ELSE UNCHANGED <<task, errandOrder, errandClock>>

ErrandTick ==
    /\ errandClock < MaxErrandClock
    /\ errandClock' = errandClock + 1
    /\ UNCHANGED <<task, errandOrder, orderCall>>

ErrandNext ==
    \/ \E t \in Tasks, u \in Requesters, d \in Deadlines : CreateTask(t, u, d)
    \/ \E t \in Posted, version \in 1 .. MaxTaskVersion :
          \/ \E u \in ErrandUsers :
                \/ \E d \in Deadlines : UpdateTask(t, u, version, d)
                \/ SubmitTaskReview(t, u, version)
                \/ \E key \in AcceptKeys : AcceptTask(t, u, version, key)
                \/ PickupTask(t, u, version)
                \/ DeliverTask(t, u, version)
                \/ \E target \in {"completed", "cancelled"} : FinishTask(t, u, version, target)
          \/ \E approved \in BOOLEAN : ReviewTask(t, version, approved)
          \/ RevokeTaskReview(t, version)
    \/ \E u \in ErrandUsers :
          \/ \E n \in DOMAIN errandOrder, version \in 1 .. 2, target \in {"completed", "cancelled"} :
                ReadOrder(u, n, version, target)
          \/ FinishOrder(u)
    \/ ErrandTick

ErrandSpec == ErrandInit /\ [][ErrandNext]_errandVars

-----------------------------------------------------------------------------
\* GetVisible. The three conditions are chained, so the statement reads
\* id = ? AND review_status = 'approved' OR requester_id = ?, and First takes the
\* row with the least id. 0 is "not found".
GetVisible(t, viewer) ==
    LET rows == {s \in Posted : \/ s = t /\ task[s].review = "approved"
                                \/ task[s].requester = viewer}
    IN  IF rows = {} THEN 0 ELSE Min(rows)

ListOpenTasks == {t \in Posted : /\ task[t].status = "open" /\ task[t].review = "approved"
                                 /\ task[t].deadline > errandClock}

ListMyTasks(u) == {t \in Posted : u \in {task[t].requester, task[t].runner}}

\* Contact: plain for the parties of a task that is not over.
TaskContactShown(t, viewer) ==
    /\ task[t].status \notin {"completed", "cancelled"}
    /\ \/ viewer = task[t].requester
       \/ viewer = task[t].runner /\ task[t].status \in {"accepted", "picked_up", "delivered"}

TaskRelation(t, viewer) ==
    IF viewer = task[t].requester THEN "publisher"
    ELSE IF viewer = task[t].runner THEN "runner" ELSE "none"

\* AvailableActions.
TaskActions(t, viewer) ==
    LET rel == TaskRelation(t, viewer)
        st == task[t].status
    IN  {x \in {"edit", "submit_review", "cancel", "accept", "pickup", "deliver", "complete"} :
            \/ x = "edit" /\ rel = "publisher" /\ CanEditTask(task[t])
            \/ x = "submit_review" /\ rel = "publisher" /\ st = "open"
               /\ task[t].review \in {"draft", "rejected"}
            \/ x = "cancel" /\ rel = "publisher" /\ st \in {"open", "accepted"}
            \/ x = "cancel" /\ rel = "runner" /\ st = "accepted"
            \/ x = "accept" /\ rel = "none" /\ t \in ListOpenTasks
            \/ x = "pickup" /\ rel = "runner" /\ st = "accepted"
            \/ x = "deliver" /\ rel = "runner" /\ st = "picked_up"
            \/ x = "complete" /\ rel = "publisher" /\ st = "delivered"}

ErrandTypeOK ==
    /\ Posted \subseteq Tasks
    /\ \A t \in Posted : task[t] \in TaskRows
    /\ errandOrder \in Seq(ErrandOrders)
    /\ orderCall \in [ErrandUsers -> [task : Nat, version : Nat, target : {"none", "completed", "cancelled"}]]
    /\ errandClock \in 0 .. MaxErrandClock

\* The order status and version a task in this status stands for.
OrderOf(status) ==
    CASE status = "completed" -> <<"completed", 2>>
      [] status = "cancelled" -> <<"cancelled", 2>>
      [] OTHER -> <<"confirmed", 1>>

\* Task and order are one thing in two tables: an accepted task has exactly one
\* order, between its requester and its runner, that is closed exactly once and
\* together with the task, whichever of the two the requests name and however
\* many of them read before one of them locked.
TaskAndOrderAgree ==
    /\ \A t \in Posted :
          /\ (task[t].order = 0) = (task[t].runner = NoUser)
          /\ task[t].status \notin {"open", "cancelled"} => task[t].order # 0
          /\ task[t].order # 0 =>
                LET o == errandOrder[task[t].order] IN
                /\ <<o.buyer, o.seller, o.task>> = <<task[t].requester, task[t].runner, t>>
                /\ <<o.status, o.version>> = OrderOf(task[t].status)
    /\ \A n \in DOMAIN errandOrder : task[errandOrder[n].task].order = n

\* GetVisible "returns one approved task, or any task owned by the viewer": the
\* task that was asked for, when it is one of those, and nothing otherwise.
VisibleTaskIsTheOneAsked ==
    \A t \in Posted, viewer \in ErrandUsers :
        GetVisible(t, viewer) = IF task[t].review = "approved" \/ task[t].requester = viewer THEN t ELSE 0

\* Whatever AvailableActions offers a viewer of a task, the store accepts from that
\* viewer now: every edit with a deadline to come, and an acceptance under every key,
\* because an open task has no order that could have used it.
TaskOffersAccepted ==
    \A t \in Posted, u \in ErrandUsers :
        LET offered == TaskActions(t, u)
            v == task[t].version
        IN  v < MaxTaskVersion =>
              /\ "edit" \in offered =>
                    \A d \in Deadlines : d > errandClock => MayUpdateTask(t, u, v, d)
              /\ "submit_review" \in offered => MaySubmitTaskReview(t, u, v)
              /\ "accept" \in offered => \A key \in AcceptKeys : MayAcceptTask(t, u, v, key)
              /\ "pickup" \in offered => MayMoveOn(t, u, v, "accepted")
              /\ "deliver" \in offered => MayMoveOn(t, u, v, "picked_up")
              /\ "complete" \in offered => MayFinish(t, u, v, "completed")
              /\ "cancel" \in offered => MayFinish(t, u, v, "cancelled")
=============================================================================
