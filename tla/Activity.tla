------------------------------ MODULE Activity ------------------------------
(***************************************************************************)
(* Campus activities and their registrations: internal/modules/activity    *)
(* (domain/rule.go, application/manager.go, infrastructure/store.go), with *)
(* the domain events its writes record through core/domainevent.           *)
(*                                                                         *)
(* Every write is one transaction that locks the activity row. Editing and *)
(* moderation raise the activity's version; a registration only changes    *)
(* its counter and raises the version of the registration row, which is    *)
(* why the activity event of a cancelled registration can meet the key of  *)
(* an earlier one.                                                         *)
(***************************************************************************)
EXTENDS Naturals, FiniteSets

CONSTANTS
    Activities,          \* row ids of activities
    ActivityUsers,       \* members
    Publishers,          \* the members who publish activities
    RegistrationKeys,    \* Idempotency-Key values the clients send
    Schedules,           \* records [open, close, start, end]: the times the inputs use
    Capacities,          \* capacities the inputs use
    MaxActivityVersion,  \* bound: versions of an activity
    MaxRegistrations,    \* bound: versions of a registration
    MaxActivityClock,    \* bound: the clock
    MaxActivityWait      \* bound: how old a manager's `now` is when the lock is granted

ASSUME ActivityAssumption ==
    /\ IsFiniteSet(ActivityUsers) /\ Publishers \subseteq ActivityUsers
    /\ Schedules \subseteq [open : Nat, close : Nat, start : Nat, end : Nat]
    /\ Capacities \subseteq Nat
    /\ {MaxActivityVersion, MaxRegistrations, MaxActivityClock, MaxActivityWait} \subseteq Nat

\* A row of activities, but for its texts and its encrypted contact.
ActivityRows ==
    [status : {"draft", "published", "cancelled", "finished"},
     review : {"draft", "pending_review", "approved", "rejected"},
     owner : ActivityUsers, times : Schedules, capacity : Nat, registered : Nat, version : Nat]

\* A row of activity_registrations; version 0 is no row.
Registrations == [status : {"none", "active", "cancelled"}, key : RegistrationKeys \cup {"-"}, version : Nat]
NoRegistration == [status |-> "none", key |-> "-", version |-> 0]

VARIABLES
    activity,       \* activity[i]: the row, a function on the activities created
    registration,   \* registration[i][u]: the registration of u
    cancelEvents,   \* cancelEvents[i]: activity versions whose registration_cancelled
                    \* event is in domain_events; every other activity event has a
                    \* version of its own
    activityClock   \* the time

activityVars == <<activity, registration, cancelEvents, activityClock>>

ActivityInit ==
    /\ activity = [i \in {} |-> [status |-> "draft"]]
    /\ registration = [i \in Activities |-> [u \in ActivityUsers |-> NoRegistration]]
    /\ cancelEvents = [i \in Activities |-> {}]
    /\ activityClock = 0

-----------------------------------------------------------------------------
Known == DOMAIN activity
ActivityTimes == {now \in 0 .. activityClock : activityClock <= now + MaxActivityWait}

ValidActivityInput(times, capacity, now) ==
    /\ capacity >= 1
    /\ times.open < times.close /\ times.close < times.start /\ times.start < times.end
    /\ times.end > now

CanEdit(a) == a.status = "draft" /\ a.review \in {"draft", "rejected"}
CanSubmitReview(a) == a.status = "draft" /\ a.review = "draft"
CanDecide(a) == a.status = "draft" /\ a.review = "pending_review"   \* CanApprove, CanReject
CanPublish(a) == a.status = "draft" /\ a.review = "approved"
CanCancel(a) == a.status \in {"draft", "published"}
CanFinish(a) == a.status = "published"
IsPubliclyVisible(a) == a.status = "published" /\ a.review = "approved"

Registered(i) == {u \in ActivityUsers : registration[i][u].status = "active"}

CreateActivity(i, u, times, capacity) ==
    /\ i \notin Known
    /\ \E now \in ActivityTimes : ValidActivityInput(times, capacity, now)
    /\ activity' = [j \in Known \cup {i} |->
                       IF j # i THEN activity[j]
                       ELSE [status |-> "draft", review |-> "draft", owner |-> u, times |-> times,
                             capacity |-> capacity, registered |-> 0, version |-> 1]]
    /\ UNCHANGED <<registration, cancelEvents, activityClock>>

\* The row is locked and has the version the client sent.
AtVersion(i, version) == activity[i].version = version /\ version < MaxActivityVersion

\* mutateActivityWithEvent: change the row, raise its version and write the event
\* under that new version.
MutateActivity(i, row) ==
    /\ activity' = [activity EXCEPT ![i] = [row EXCEPT !.version = @ + 1]]
    /\ UNCHANGED <<registration, cancelEvents, activityClock>>

MayUpdateActivity(i, u, version, times, capacity) ==
    /\ AtVersion(i, version)
    /\ u = activity[i].owner
    /\ CanEdit(activity[i])
    /\ \E now \in ActivityTimes : ValidActivityInput(times, capacity, now)
    /\ capacity >= activity[i].registered

UpdateActivity(i, u, version, times, capacity) ==
    /\ MayUpdateActivity(i, u, version, times, capacity)
    /\ MutateActivity(i, [activity[i] EXCEPT !.times = times, !.capacity = capacity,
                                             !.review = "draft"])

MaySubmitActivityReview(i, u, version) ==
    /\ AtVersion(i, version)
    /\ u = activity[i].owner
    /\ CanSubmitReview(activity[i])

SubmitActivityReview(i, u, version) ==
    /\ MaySubmitActivityReview(i, u, version)
    /\ MutateActivity(i, [activity[i] EXCEPT !.review = "pending_review"])

\* Approve publishes at once; Reject sends the draft back.
ApproveActivity(i, version) ==
    /\ AtVersion(i, version)
    /\ CanDecide(activity[i])
    /\ \E now \in ActivityTimes : activity[i].times.end > now
    /\ MutateActivity(i, [activity[i] EXCEPT !.status = "published", !.review = "approved"])

RejectActivity(i, version) ==
    /\ AtVersion(i, version)
    /\ CanDecide(activity[i])
    /\ MutateActivity(i, [activity[i] EXCEPT !.review = "rejected"])

MayCancelActivity(i, u, version) ==
    /\ AtVersion(i, version)
    /\ u = activity[i].owner
    /\ CanCancel(activity[i])

CancelActivity(i, u, version) ==
    /\ MayCancelActivity(i, u, version)
    /\ MutateActivity(i, [activity[i] EXCEPT !.status = "cancelled"])

FinishActivity(i, u, version) ==
    /\ AtVersion(i, version)
    /\ u = activity[i].owner
    /\ CanFinish(activity[i])
    /\ \E now \in ActivityTimes : now >= activity[i].times.end
    /\ MutateActivity(i, [activity[i] EXCEPT !.status = "finished"])

\* Publish of an approved draft. Approve already publishes, so the code's own
\* transitions never leave such a draft and the call only ever finds the
\* activity published, which it answers without a change.
CanStillPublish(i) == CanPublish(activity[i])

-----------------------------------------------------------------------------
RegistrationAllowed(a, now) ==
    /\ IsPubliclyVisible(a)
    /\ a.times.open <= now /\ now <= a.times.close
    /\ a.registered < a.capacity

CancellationAllowed(r, a, now) == r.status = "active" /\ now < a.times.start

\* Mutant: any row but one of the same key is taken for a cancelled one.
RegisterTwice(i, u, key) ==
    /\ u # activity[i].owner
    /\ registration[i][u].key # key
    /\ \E now \in ActivityTimes : RegistrationAllowed(activity[i], now)
    /\ registration[i][u].version < MaxRegistrations
    /\ registration' = [registration EXCEPT ![i][u] =
                           [status |-> "active", key |-> key, version |-> @.version + 1]]
    /\ activity' = [activity EXCEPT ![i].registered = @ + 1]
    /\ UNCHANGED <<cancelEvents, activityClock>>

\* A row with the same key is a replay and is answered unchanged, before anything
\* else is looked at.
MayRegister(i, u, key) ==
    /\ u # activity[i].owner
    /\ registration[i][u].key # key
    /\ \E now \in ActivityTimes : RegistrationAllowed(activity[i], now)
    /\ registration[i][u].status # "active"
    /\ registration[i][u].version < MaxRegistrations

\* Register: a cancelled row is taken up again under the new key or a row is inserted.
Register(i, u, key) ==
    /\ MayRegister(i, u, key)
    /\ registration' = [registration EXCEPT ![i][u] =
                           [status |-> "active", key |-> key, version |-> @.version + 1]]
    /\ activity' = [activity EXCEPT ![i].registered = @ + 1]
    /\ UNCHANGED <<cancelEvents, activityClock>>

\* persist: a key met again is accepted when the stored payload has the same bytes.
\* The column is JSON: MySQL gives a payload back in its own spelling (a blank
\* after every colon and comma), which is never the one json.Marshal wrote.
EventAccepted(i) == activity[i].version \notin cancelEvents[i]

MayCancelRegistration(i, u, version) ==
    /\ registration[i][u].version = version /\ version < MaxRegistrations
    /\ \E now \in ActivityTimes : CancellationAllowed(registration[i][u], activity[i], now)
    /\ EventAccepted(i)

\* CancelRegistration: it writes an event of the activity, whose version did not
\* change, and one of the registration, whose version did.
CancelRegistration(i, u, version) ==
    /\ MayCancelRegistration(i, u, version)
    /\ registration' = [registration EXCEPT ![i][u].status = "cancelled", ![i][u].version = @ + 1]
    /\ activity' = [activity EXCEPT ![i].registered = IF @ > 0 THEN @ - 1 ELSE @]
    /\ cancelEvents' = [cancelEvents EXCEPT ![i] = @ \cup {activity[i].version}]
    /\ UNCHANGED activityClock

ActivityTick ==
    /\ activityClock < MaxActivityClock
    /\ activityClock' = activityClock + 1
    /\ UNCHANGED <<activity, registration, cancelEvents>>

ActivityNext ==
    \/ \E i \in Activities, u \in Publishers, s \in Schedules, c \in Capacities : CreateActivity(i, u, s, c)
    \/ \E i \in Known, version \in 1 .. MaxActivityVersion :
          \/ \E u \in Publishers :
                \/ \E s \in Schedules, c \in Capacities : UpdateActivity(i, u, version, s, c)
                \/ SubmitActivityReview(i, u, version)
                \/ CancelActivity(i, u, version)
                \/ FinishActivity(i, u, version)
          \/ ApproveActivity(i, version)
          \/ RejectActivity(i, version)
    \/ \E i \in Known, u \in ActivityUsers :
          \/ \E key \in RegistrationKeys : Register(i, u, key)
          \/ \E version \in 1 .. MaxRegistrations : CancelRegistration(i, u, version)
    \/ ActivityTick

ActivitySpec == ActivityInit /\ [][ActivityNext]_activityVars

-----------------------------------------------------------------------------
\* IsViewerRegistered and its batch form.
IsViewerRegistered(i, viewer) == viewer \in Registered(i)

VisibleToViewer(i, viewer) ==
    \/ IsPubliclyVisible(activity[i])
    \/ activity[i].owner = viewer
    \/ IsViewerRegistered(i, viewer)

\* Contact: the plain contact, never once the activity is over.
ContactShown(i, viewer) ==
    /\ activity[i].status \notin {"cancelled", "finished"}
    /\ activity[i].owner = viewer \/ IsViewerRegistered(i, viewer)

ActivityRelation(i, viewer) ==
    IF activity[i].owner = viewer THEN "publisher"
    ELSE IF IsViewerRegistered(i, viewer) THEN "participant" ELSE "none"

\* Mutant: a registration can be given up also once the activity has begun.
OffersLateCancellation(i, viewer, now) ==
    CASE ActivityRelation(i, viewer) = "publisher" -> {}
      [] ActivityRelation(i, viewer) = "participant" -> {"cancel_registration"}
      [] OTHER -> IF RegistrationAllowed(activity[i], now) THEN {"register"} ELSE {}

\* AvailableActions.
ActivityActions(i, viewer, now) ==
    CASE ActivityRelation(i, viewer) = "publisher" ->
            {x \in {"edit", "submit_review", "cancel"} :
                \/ x = "edit" /\ CanEdit(activity[i])
                \/ x = "submit_review" /\ CanSubmitReview(activity[i])
                \/ x = "cancel" /\ CanCancel(activity[i])}
      [] ActivityRelation(i, viewer) = "participant" ->
            IF now < activity[i].times.start THEN {"cancel_registration"} ELSE {}
      [] OTHER -> IF RegistrationAllowed(activity[i], now) THEN {"register"} ELSE {}

ActivityTypeOK ==
    /\ Known \subseteq Activities
    /\ \A i \in Known : activity[i] \in ActivityRows
    /\ registration \in [Activities -> [ActivityUsers -> Registrations]]
    /\ cancelEvents \in [Activities -> SUBSET Nat]
    /\ activityClock \in 0 .. MaxActivityClock

\* The counter that Register compares with the capacity is the number of active
\* registrations, the capacity is never exceeded, nobody is registered for an
\* activity that was never public, and every registered member can still open it
\* and, while it runs, read the contact. (A Publish that could change anything
\* would break the last but one: the call always finds the work done.)
CountMatchesRegistrations ==
    \A i \in Known :
        /\ activity[i].registered = Cardinality(Registered(i))
        /\ activity[i].registered <= activity[i].capacity
        /\ Registered(i) # {} => activity[i].status # "draft" /\ activity[i].review = "approved"
        /\ \A u \in Registered(i) :
              /\ VisibleToViewer(i, u)
              /\ activity[i].status = "published" => ContactShown(i, u)
        /\ ~CanStillPublish(i)

\* A member who is offered cancel_registration can cancel: the event of the
\* cancellation "collapses on the unique index" when its key was used before.
ReEmitsCollapse ==
    \A i \in Known, u \in ActivityUsers :
        "cancel_registration" \in ActivityActions(i, u, activityClock) => EventAccepted(i)

\* Whatever AvailableActions offers a viewer, the store accepts from that viewer
\* now, although the one goes by the row and the registration it was shown and the
\* other by the locked rows; but for a cancellation whose event is refused. Every
\* valid edit is accepted, and a registration under every key not used last.
ActivityOffersAccepted ==
    \A i \in Known, u \in ActivityUsers :
        LET offered == ActivityActions(i, u, activityClock)
            v == activity[i].version
            r == registration[i][u]
        IN  /\ v < MaxActivityVersion =>
                  /\ "edit" \in offered =>
                        \A s \in Schedules, c \in Capacities :
                            ValidActivityInput(s, c, activityClock) => MayUpdateActivity(i, u, v, s, c)
                  /\ "submit_review" \in offered => MaySubmitActivityReview(i, u, v)
                  /\ "cancel" \in offered => MayCancelActivity(i, u, v)
            /\ r.version < MaxRegistrations =>
                  /\ "register" \in offered =>
                        \A key \in RegistrationKeys \ {r.key} : MayRegister(i, u, key)
                  /\ "cancel_registration" \in offered /\ EventAccepted(i) =>
                        MayCancelRegistration(i, u, r.version)
=============================================================================
