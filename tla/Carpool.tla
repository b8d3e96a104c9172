------------------------------- MODULE Carpool -------------------------------
(***************************************************************************)
(* Carpool trips: internal/modules/carpool (domain/rule.go, the manager of *)
(* application/manager.go and the store of infrastructure/store.go).       *)
(*                                                                         *)
(* A member request is one transaction that locks the trip row, compares   *)
(* the version the client sent and re-checks the trip, so it is one step.  *)
(* Its `now`, however, is read by the manager before the transaction waits *)
(* for the lock: a request may be judged by a time up to MaxLockWait old.  *)
(* The worker's CompleteDue is not one step: it selects a batch without a  *)
(* lock and then completes the rows one transaction at a time.             *)
(***************************************************************************)
EXTENDS Naturals, FiniteSets, FiniteSetsExt

CONSTANTS
    Trips,          \* row ids of carpool_trips
    TripUsers,      \* members
    Organizers,     \* the members who publish trips
    TripSeats,      \* seat counts the inputs use
    TripTimes,      \* departure times the inputs use
    MaxTripVersion, \* bound: member and moderation writes per trip
    MaxTripClock,   \* bound: the clock
    MaxLockWait,    \* bound: how old a manager's `now` is when the lock is granted
    TripBatch,      \* rows one CompleteDue selects (100 in the code)
    MaxTripFaults   \* bound: database errors and crashes of the worker

ASSUME CarpoolAssumption ==
    /\ Trips \subseteq Nat /\ IsFiniteSet(TripUsers) /\ Organizers \subseteq TripUsers
    /\ TripSeats \subseteq Nat /\ TripTimes \subseteq Nat
    /\ {MaxTripVersion, MaxTripClock, MaxLockWait, TripBatch, MaxTripFaults} \subseteq Nat

TripStatuses == {"open", "full", "completed", "cancelled"}
TripReviews == {"draft", "pending_review", "approved", "rejected"}

\* A row of carpool_trips; the texts and the encrypted contact are left out.
TripRows == [status : TripStatuses, review : TripReviews, organizer : TripUsers,
             departure : Nat, total : Nat, occupied : Nat, version : Nat]

\* A row of carpool_participants; "none" is no row.
ParticipantStatuses == {"none", "joined", "left"}

VARIABLES
    trip,       \* trip[t]: the row, a function on the trips created so far
    rider,      \* rider[t][u]: the participant row of u on t
    tripClock,  \* the time
    due,        \* rows CompleteDue selected and has not reached
    dueNow,     \* the time CompleteDue was called with
    tripFaults  \* faults of the worker so far

carpoolVars == <<trip, rider, tripClock, due, dueNow, tripFaults>>

CarpoolInit ==
    /\ trip = [t \in {} |-> [status |-> "open"]]
    /\ rider = [t \in Trips |-> [u \in TripUsers |-> "none"]]
    /\ tripClock = 0
    /\ due = {}
    /\ dueNow = 0
    /\ tripFaults = 0

-----------------------------------------------------------------------------
Created == DOMAIN trip
ActiveTrip(t) == trip[t].status \in {"open", "full"}
Riders(t) == {u \in TripUsers : rider[t][u] = "joined"}

\* The times a manager may have read before its transaction got the lock.
Times == {now \in 0 .. tripClock : tripClock <= now + MaxLockWait}

\* validateTripInput, but for texts: 1 to 20 seats and a departure to come.
ValidTripInput(departure, seats, now) == seats \in 1 .. 20 /\ departure > now

SaveTrip(t, row) == trip' = [trip EXCEPT ![t] = row]
WorkerIdle == UNCHANGED <<tripClock, due, dueNow, tripFaults>>

CreateTrip(t, u, departure, seats) ==
    /\ t \notin Created
    /\ \A s \in Trips : s < t => s \in Created
    /\ \E now \in Times : ValidTripInput(departure, seats, now)
    /\ trip' = [s \in Created \cup {t} |->
                   IF s # t THEN trip[s]
                   ELSE [status |-> "open", review |-> "pending_review", organizer |-> u,
                         departure |-> departure, total |-> seats, occupied |-> 0, version |-> 1]]
    /\ UNCHANGED rider
    /\ WorkerIdle

\* mutateReviewableTrip: the checks every moderation write and edit makes. The
\* time is read inside the transaction.
Reviewable(t, version) ==
    /\ t \in Created
    /\ trip[t].version = version /\ version < MaxTripVersion
    /\ trip[t].status = "open"
    /\ trip[t].departure > tripClock

MayUpdateTrip(t, u, version, departure, seats) ==
    /\ Reviewable(t, version)
    /\ u = trip[t].organizer
    /\ \E now \in Times : ValidTripInput(departure, seats, now)
    /\ trip[t].occupied = 0

UpdateTrip(t, u, version, departure, seats) ==
    /\ MayUpdateTrip(t, u, version, departure, seats)
    /\ SaveTrip(t, [trip[t] EXCEPT !.departure = departure, !.total = seats,
                                   !.review = "draft", !.version = @ + 1])
    /\ UNCHANGED rider
    /\ WorkerIdle

MaySubmitTripReview(t, u, version) ==
    /\ Reviewable(t, version)
    /\ u = trip[t].organizer
    /\ trip[t].review \in {"draft", "rejected"}

SubmitTripReview(t, u, version) ==
    /\ MaySubmitTripReview(t, u, version)
    /\ SaveTrip(t, [trip[t] EXCEPT !.review = "pending_review", !.version = @ + 1])
    /\ UNCHANGED rider
    /\ WorkerIdle

ReviewTrip(t, version, approved) ==
    /\ Reviewable(t, version)
    /\ trip[t].review = "pending_review"
    /\ SaveTrip(t, [trip[t] EXCEPT !.review = IF approved THEN "approved" ELSE "rejected",
                                   !.version = @ + 1])
    /\ UNCHANGED rider
    /\ WorkerIdle

\* Mutant: a review is revoked under the riders' feet.
RevokeOccupied(t, version) ==
    /\ Reviewable(t, version)
    /\ trip[t].review = "approved"
    /\ SaveTrip(t, [trip[t] EXCEPT !.review = "pending_review", !.version = @ + 1])
    /\ UNCHANGED rider
    /\ WorkerIdle

RevokeTripReview(t, version) ==
    /\ Reviewable(t, version)
    /\ trip[t].review = "approved" /\ trip[t].occupied = 0
    /\ SaveTrip(t, [trip[t] EXCEPT !.review = "pending_review", !.version = @ + 1])
    /\ UNCHANGED rider
    /\ WorkerIdle

\* The checks of Join, Leave and Cancel: an active trip, at the client's version, that
\* has not departed at the time the manager read.
Underway(t, version) ==
    /\ t \in Created
    /\ trip[t].version = version /\ version < MaxTripVersion
    /\ ActiveTrip(t)
    /\ \E now \in Times : trip[t].departure > now

MayJoinTrip(t, u, version) ==
    /\ Underway(t, version)
    /\ u # trip[t].organizer
    /\ trip[t].review = "approved"
    /\ trip[t].occupied < trip[t].total
    /\ rider[t][u] # "joined"

\* Join re-activates the row of a rider who left, or inserts one.
JoinTrip(t, u, version) ==
    /\ MayJoinTrip(t, u, version)
    /\ rider' = [rider EXCEPT ![t][u] = "joined"]
    /\ SaveTrip(t, [trip[t] EXCEPT !.occupied = @ + 1, !.version = @ + 1,
                                   !.status = IF trip[t].occupied + 1 = trip[t].total
                                              THEN "full" ELSE @])
    /\ WorkerIdle

MayLeaveTrip(t, u, version) ==
    /\ Underway(t, version)
    /\ rider[t][u] = "joined"

\* Leave, through changeParticipant.
LeaveTrip(t, u, version) ==
    /\ MayLeaveTrip(t, u, version)
    /\ rider' = [rider EXCEPT ![t][u] = "left"]
    /\ SaveTrip(t, [trip[t] EXCEPT !.occupied = @ - 1, !.version = @ + 1, !.status = "open"])
    /\ WorkerIdle

MayCancelTrip(t, u, version) ==
    /\ Underway(t, version)
    /\ u = trip[t].organizer

CancelTrip(t, u, version) ==
    /\ MayCancelTrip(t, u, version)
    /\ SaveTrip(t, [trip[t] EXCEPT !.status = "cancelled", !.version = @ + 1])
    /\ UNCHANGED rider
    /\ WorkerIdle

-----------------------------------------------------------------------------
\* Mutant: a trip without a free seat is not looked at.
DueOpenTrips(now) ==
    LET all == {t \in Created : trip[t].status = "open" /\ trip[t].departure <= now}
    IN  {t \in all : Cardinality({s \in all : s < t}) < TripBatch}

\* The due rows, in id order, cut at the batch size.
DueTrips(now) ==
    LET all == {t \in Created : ActiveTrip(t) /\ trip[t].departure <= now}
    IN  {t \in all : Cardinality({s \in all : s < t}) < TripBatch}

\* CompleteDue: the unlocked SELECT.
SelectDue ==
    /\ due = {}
    /\ DueTrips(tripClock) # {}
    /\ due' = DueTrips(tripClock)
    /\ dueNow' = tripClock
    /\ UNCHANGED <<trip, rider, tripClock, tripFaults>>

\* Mutant: the selected row is completed without a second look.
CompleteUnchecked ==
    /\ due # {}
    /\ LET t == Min(due) IN
       /\ due' = due \ {t}
       /\ SaveTrip(t, [trip[t] EXCEPT !.status = "completed", !.version = @ + 1])
    /\ UNCHANGED <<rider, tripClock, dueNow, tripFaults>>

\* CompleteDue: the transaction of the next row, which looks at it again.
CompleteTrip ==
    /\ due # {}
    /\ LET t == Min(due) IN
       /\ due' = due \ {t}
       /\ IF ActiveTrip(t) /\ trip[t].departure <= dueNow
          THEN SaveTrip(t, [trip[t] EXCEPT !.status = "completed", !.version = @ + 1])
          ELSE UNCHANGED trip
    /\ UNCHANGED <<rider, tripClock, dueNow, tripFaults>>

\* A database error, or the end of the worker: the rest of the batch is dropped.
CompleteDueFails ==
    /\ due # {}
    /\ tripFaults < MaxTripFaults
    /\ tripFaults' = tripFaults + 1
    /\ due' = {}
    /\ UNCHANGED <<trip, rider, tripClock, dueNow>>

TripTick ==
    /\ tripClock < MaxTripClock
    /\ tripClock' = tripClock + 1
    /\ UNCHANGED <<trip, rider, due, dueNow, tripFaults>>

MemberWrites(t, version) ==
    \/ \E u \in TripUsers, d \in TripTimes, s \in TripSeats : UpdateTrip(t, u, version, d, s)
    \/ \E u \in TripUsers : SubmitTripReview(t, u, version)
    \/ \E u \in TripUsers : JoinTrip(t, u, version)
    \/ \E u \in TripUsers : LeaveTrip(t, u, version)
    \/ \E u \in TripUsers : CancelTrip(t, u, version)

CarpoolNext ==
    \/ \E t \in Trips, u \in Organizers, d \in TripTimes, s \in TripSeats : CreateTrip(t, u, d, s)
    \/ \E t \in Created : \E version \in 1 .. MaxTripVersion :
          \/ MemberWrites(t, version)
          \/ \E approved \in BOOLEAN : ReviewTrip(t, version, approved)
          \/ RevokeTripReview(t, version)
    \/ SelectDue \/ CompleteTrip \/ CompleteDueFails
    \/ TripTick

CarpoolSpec == CarpoolInit /\ [][CarpoolNext]_carpoolVars

-----------------------------------------------------------------------------
\* GetTrip: whether the trip is found, and whether its contact is shown.
GetTrip(t, viewer) ==
    LET mine == trip[t].organizer = viewer IN
    [found   |-> trip[t].review = "approved" \/ mine,
     contact |-> \/ mine
                 \/ /\ trip[t].review = "approved"
                    /\ ActiveTrip(t)
                    /\ rider[t][viewer] = "joined"]

JoinedTrips(viewer) == {t \in Created : rider[t][viewer] = "joined"}

\* SearchTrips without its text filters.
SearchTrips(needed, now) ==
    {t \in Created : /\ ActiveTrip(t)
                     /\ trip[t].review = "approved"
                     /\ trip[t].departure > now
                     /\ trip[t].total >= trip[t].occupied + needed}

TripRelation(t, viewer) ==
    IF trip[t].organizer = viewer THEN "organizer"
    ELSE IF t \in JoinedTrips(viewer) THEN "participant" ELSE "none"

\* Mutant: seats are offered before the review, and after it was refused.
OffersUnreviewedSeats(t, viewer, now) ==
    IF trip[t].departure <= now \/ ~ActiveTrip(t) THEN {}
    ELSE CASE TripRelation(t, viewer) = "organizer" -> {"cancel"}
           [] TripRelation(t, viewer) = "participant" -> {"leave"}
           [] OTHER -> IF trip[t].occupied < trip[t].total THEN {"join"} ELSE {}

\* AvailableActions.
TripActions(t, viewer, now) ==
    IF trip[t].departure <= now \/ ~ActiveTrip(t) THEN {}
    ELSE CASE TripRelation(t, viewer) = "organizer" ->
                {"cancel"}
                \cup (IF trip[t].status = "open" /\ trip[t].occupied = 0 THEN {"edit"} ELSE {})
                \cup (IF /\ trip[t].status = "open" /\ trip[t].occupied = 0
                         /\ trip[t].review \in {"draft", "rejected"}
                      THEN {"submit_review"} ELSE {})
           [] TripRelation(t, viewer) = "participant" -> {"leave"}
           [] OTHER -> IF trip[t].review = "approved" /\ trip[t].occupied < trip[t].total
                       THEN {"join"} ELSE {}

CarpoolTypeOK ==
    /\ Created \subseteq Trips
    /\ \A t \in Created : trip[t] \in TripRows
    /\ rider \in [Trips -> [TripUsers -> ParticipantStatuses]]
    /\ tripClock \in 0 .. MaxTripClock /\ dueNow \in 0 .. MaxTripClock
    /\ due \subseteq Created
    /\ tripFaults \in 0 .. MaxTripFaults

\* The seat counter of a trip is the number of its riders and never exceeds the
\* seats; an active trip is full exactly when the counter says so; whoever holds
\* a seat on an active trip can open the trip and read its contact, and a trip
\* the search offers really has the seats (Join, Leave, UpdateTrip and
\* RevokeReview all look at occupied_seats).
SeatsMatchRiders ==
    \A t \in Created :
        /\ trip[t].occupied = Cardinality(Riders(t))
        /\ trip[t].occupied <= trip[t].total
        /\ ActiveTrip(t) => (trip[t].status = "full") = (trip[t].occupied = trip[t].total)
        /\ \A u \in Riders(t) : ActiveTrip(t) => GetTrip(t, u).contact
        /\ \A n \in TripSeats : t \in SearchTrips(n, tripClock) => n + Cardinality(Riders(t)) <= trip[t].total

\* Whatever AvailableActions offers a viewer of a trip, the store accepts from that
\* viewer now: every check of the offered call passes, for an edit with some input.
TripOffersAccepted ==
    \A t \in Created, u \in TripUsers :
        LET offered == TripActions(t, u, tripClock)
            v == trip[t].version
        IN  v < MaxTripVersion =>
              /\ "edit" \in offered => \E d \in TripTimes, s \in TripSeats : MayUpdateTrip(t, u, v, d, s)
              /\ "submit_review" \in offered => MaySubmitTripReview(t, u, v)
              /\ "cancel" \in offered => MayCancelTrip(t, u, v)
              /\ "join" \in offered => MayJoinTrip(t, u, v)
              /\ "leave" \in offered => MayLeaveTrip(t, u, v)

\* A trip that ended keeps its end: the worker, whose batch was read before a
\* late cancellation was committed, does not complete a cancelled trip.
TripEndsOnce ==
    [][\A t \in Created : ~ActiveTrip(t) => trip'[t] = trip[t]]_carpoolVars

\* Every trip whose departure has passed ends, although batches are cut off,
\* fail half-way and race the members' last writes.
DepartedTripsComplete ==
    \A t \in Trips :
        (t \in Created /\ ActiveTrip(t) /\ trip[t].departure <= tripClock)
            ~> (t \in Created /\ ~ActiveTrip(t))
=============================================================================
