------------------------ MODULE MemberServicesProofs ------------------------
(* Proofs about the services members deal with each other through:          *)
(* Carpool, Activity, Errand, CampusCircle and Comment, for any sets of     *)
(* rows, members and inputs.                                                *)
EXTENDS Carpool, MemberOffers, CampusCircle, FiniteSetTheorems, SequenceTheorems,
        WellFoundedInduction, TLAPS

-----------------------------------------------------------------------------
(* Carpool: the seat counter.                                               *)

\* The row of a trip agrees with the riders of that trip: the counter counts
\* them, the seats suffice, an active trip is full when it says so, and riders of
\* an active trip are on an approved one.
RowFits(row, riders) ==
    /\ row.occupied = Cardinality(riders)
    /\ row.occupied <= row.total
    /\ row.status \in {"open", "full"} =>
          /\ (row.status = "full") = (row.occupied = row.total)
          /\ riders # {} => row.review = "approved"

\* Inductive: the rows fit, and a trip that was not created has no rider.
CarpoolInv ==
    /\ CarpoolTypeOK
    /\ \A t \in Created : RowFits(trip[t], Riders(t))
    /\ \A t \in Trips \ Created : Riders(t) = {}

\* The riders of a trip are finitely many.
LEMMA RidersFinite == \A t : IsFiniteSet(Riders(t)) /\ Cardinality(Riders(t)) \in Nat
<1> TAKE t
<1>1. Riders(t) \in SUBSET TripUsers
  BY DEF Riders
<1>2. IsFiniteSet(Riders(t))
  BY <1>1, FS_Subset, CarpoolAssumption
<1> QED
  BY <1>2, FS_CardinalityType

\* A time the manager read is a number.
LEMMA CarpoolNumbers ==
    /\ MaxTripClock \in Nat /\ MaxTripVersion \in Nat /\ MaxTripFaults \in Nat
    /\ TripSeats \subseteq Nat /\ TripTimes \subseteq Nat /\ Organizers \subseteq TripUsers
BY CarpoolAssumption

\* Before the first trip there is nothing to count.
LEMMA CarpoolInitInv == CarpoolInit => CarpoolInv
<1> SUFFICES ASSUME CarpoolInit PROVE CarpoolInv
  OBVIOUS
<1>1. Created = {}
  BY DEF CarpoolInit, Created
<1>2. CarpoolTypeOK
  BY <1>1, CarpoolNumbers DEF CarpoolInit, CarpoolTypeOK, ParticipantStatuses
<1>3. \A t \in Trips : Riders(t) = {}
  BY DEF CarpoolInit, Riders
<1> QED
  BY <1>1, <1>2, <1>3 DEF CarpoolInv

\* Saving one row changes that row only.
LEMMA SaveTripEffect ==
    ASSUME NEW t \in Created, NEW row, SaveTrip(t, row)
    PROVE  /\ Created' = Created
           /\ \A s \in Created : trip'[s] = IF s = t THEN row ELSE trip[s]
BY DEF SaveTrip, Created

\* A write that leaves the riders alone keeps the invariant when the new row fits
\* the riders of its trip.
LEMMA TripWriteKeeps ==
    ASSUME CarpoolInv, NEW t \in Created, NEW row \in TripRows, SaveTrip(t, row),
           UNCHANGED <<rider, tripClock, tripFaults>>,
           due' \subseteq due, dueNow' = dueNow, RowFits(row, Riders(t))
    PROVE  CarpoolInv'
<1>1. /\ Created' = Created
      /\ \A s \in Created : trip'[s] = IF s = t THEN row ELSE trip[s]
  BY SaveTripEffect
<1>2. \A s : Riders(s)' = Riders(s)
  BY DEF Riders
<1>3. CarpoolTypeOK'
  BY <1>1 DEF CarpoolInv, CarpoolTypeOK
<1>4. \A s \in Created : RowFits(trip'[s], Riders(s))
  BY <1>1 DEF CarpoolInv
<1> QED
  BY <1>1, <1>2, <1>3, <1>4 DEF CarpoolInv

\* A trip without riders, with a seat to offer, fits as an open trip.
LEMMA EmptyFits ==
    ASSUME NEW row \in TripRows, row.status = "open", row.occupied = 0, row.total \in Nat \ {0}
    PROVE  RowFits(row, {})
BY FS_EmptySet DEF RowFits, TripRows

\* A trip whose counter is zero has no riders.
LEMMA NobodyOn ==
    ASSUME CarpoolInv, NEW t \in Created, trip[t].occupied = 0
    PROVE  Riders(t) = {}
BY RidersFinite, FS_EmptySet DEF CarpoolInv, RowFits

\* CreateTrip: a row without riders.
LEMMA CreateTripKeeps ==
    ASSUME CarpoolInv, NEW t \in Trips, NEW u \in Organizers, NEW d \in TripTimes,
           NEW s \in TripSeats, CreateTrip(t, u, d, s)
    PROVE  CarpoolInv'
<1> DEFINE row == [status |-> "open", review |-> "pending_review", organizer |-> u,
                   departure |-> d, total |-> s, occupied |-> 0, version |-> 1]
<1>1. row \in TripRows
  BY CarpoolNumbers DEF TripRows, TripStatuses, TripReviews
<1>2. s \in Nat \ {0}
  BY CarpoolNumbers DEF CreateTrip, ValidTripInput
<1>3. /\ Created' = Created \cup {t} /\ t \notin Created
      /\ \A r \in Created' : trip'[r] = IF r # t THEN trip[r] ELSE row
  BY DEF CreateTrip, Created
<1>4. UNCHANGED <<rider, tripClock, due, dueNow, tripFaults>>
  BY DEF CreateTrip, WorkerIdle
<1>5. \A r : Riders(r)' = Riders(r)
  BY <1>4 DEF Riders
<1>6. CarpoolTypeOK'
  BY <1>1, <1>3, <1>4 DEF CarpoolInv, CarpoolTypeOK
<1>7. RowFits(row, {})
  BY <1>1, <1>2, EmptyFits
<1>8. Riders(t) = {}
  BY <1>3 DEF CarpoolInv
<1>9. \A r \in Created' : RowFits(trip'[r], Riders(r))
  BY <1>3, <1>7, <1>8 DEF CarpoolInv
<1> QED
  BY <1>3, <1>5, <1>6, <1>9 DEF CarpoolInv

\* The writes that change neither counter nor riders: the new row fits the riders
\* as the old one did.
LEMMA ReviewWritesKeep ==
    ASSUME CarpoolInv, NEW t \in Created, NEW version \in 1 .. MaxTripVersion, NEW u \in TripUsers,
           \/ SubmitTripReview(t, u, version)
           \/ \E approved \in BOOLEAN : ReviewTrip(t, version, approved)
           \/ RevokeTripReview(t, version)
           \/ CancelTrip(t, u, version)
    PROVE  CarpoolInv'
<1>1. trip[t] \in TripRows /\ RowFits(trip[t], Riders(t))
  BY DEF CarpoolInv, CarpoolTypeOK
<1>2. PICK review \in TripReviews, status \in {"open", "cancelled"} :
        /\ SaveTrip(t, [trip[t] EXCEPT !.review = review, !.status = status, !.version = @ + 1])
        /\ status = "open" => trip[t].status = "open" /\ (Riders(t) # {} => review = "approved")
        /\ UNCHANGED <<rider, tripClock, due, dueNow, tripFaults>>
  <2>1. CASE SubmitTripReview(t, u, version)
    <3>1. Riders(t) = {}
      BY <1>1, <2>1 DEF SubmitTripReview, MaySubmitTripReview, Reviewable, RowFits
    <3>2. [trip[t] EXCEPT !.review = "pending_review", !.version = @ + 1]
            = [trip[t] EXCEPT !.review = "pending_review", !.status = "open", !.version = @ + 1]
      BY <1>1, <2>1 DEF SubmitTripReview, MaySubmitTripReview, Reviewable, TripRows
    <3> QED
      BY <2>1, <3>1, <3>2 DEF SubmitTripReview, MaySubmitTripReview, Reviewable, WorkerIdle, TripReviews
  <2>2. CASE \E approved \in BOOLEAN : ReviewTrip(t, version, approved)
    <3> PICK approved \in BOOLEAN : ReviewTrip(t, version, approved)
      BY <2>2
    <3> DEFINE verdict == IF approved THEN "approved" ELSE "rejected"
    <3>1. Riders(t) = {}
      BY <1>1 DEF ReviewTrip, Reviewable, RowFits
    <3>2. [trip[t] EXCEPT !.review = verdict, !.version = @ + 1]
            = [trip[t] EXCEPT !.review = verdict, !.status = "open", !.version = @ + 1]
      BY <1>1 DEF ReviewTrip, Reviewable, TripRows
    <3>3. SaveTrip(t, [trip[t] EXCEPT !.review = verdict, !.version = @ + 1])
      BY DEF ReviewTrip
    <3>4. verdict \in TripReviews
      BY DEF TripReviews
    <3> HIDE DEF verdict
    <3> QED
      BY <3>1, <3>2, <3>3, <3>4 DEF ReviewTrip, Reviewable, WorkerIdle
  <2>3. CASE RevokeTripReview(t, version)
    <3>1. Riders(t) = {}
      BY <2>3, NobodyOn DEF RevokeTripReview
    <3>2. [trip[t] EXCEPT !.review = "pending_review", !.version = @ + 1]
            = [trip[t] EXCEPT !.review = "pending_review", !.status = "open", !.version = @ + 1]
      BY <1>1, <2>3 DEF RevokeTripReview, Reviewable, TripRows
    <3> QED
      BY <2>3, <3>1, <3>2 DEF RevokeTripReview, Reviewable, WorkerIdle, TripReviews
  <2>4. CASE CancelTrip(t, u, version)
    <3>1. [trip[t] EXCEPT !.status = "cancelled", !.version = @ + 1]
            = [trip[t] EXCEPT !.review = trip[t].review, !.status = "cancelled", !.version = @ + 1]
      BY <1>1 DEF TripRows
    <3>2. trip[t].review \in TripReviews
      BY <1>1 DEF TripRows
    <3> QED
      BY <2>4, <3>1, <3>2 DEF CancelTrip, MayCancelTrip, Underway, WorkerIdle
  <2> QED
    BY <2>1, <2>2, <2>3, <2>4
<1> DEFINE row == [trip[t] EXCEPT !.review = review, !.status = status, !.version = @ + 1]
<1>3. row \in TripRows
  <2>1. trip[t].version + 1 \in Nat
    BY <1>1 DEF TripRows
  <2>2. review \in TripReviews /\ status \in TripStatuses
    BY DEF TripStatuses
  <2> QED
    BY <1>1, <2>1, <2>2 DEF TripRows
<1>4. RowFits(row, Riders(t))
  BY <1>1, <1>2 DEF RowFits, TripRows
<1> HIDE DEF row
<1> QED
  BY <1>2, <1>3, <1>4, TripWriteKeeps DEF row

\* UpdateTrip: the seats may change, but only while nobody sits on them.
LEMMA UpdateTripKeeps ==
    ASSUME CarpoolInv, NEW t \in Created, NEW version \in 1 .. MaxTripVersion, NEW u \in TripUsers,
           NEW d \in TripTimes, NEW s \in TripSeats, UpdateTrip(t, u, version, d, s)
    PROVE  CarpoolInv'
<1> DEFINE row == [trip[t] EXCEPT !.departure = d, !.total = s, !.review = "draft",
                                  !.version = @ + 1]
<1>1. trip[t] \in TripRows
  BY DEF CarpoolInv, CarpoolTypeOK
<1>2. row \in TripRows
  <2>1. trip[t].version + 1 \in Nat
    BY <1>1 DEF TripRows
  <2>2. d \in Nat /\ s \in Nat /\ "draft" \in TripReviews
    BY CarpoolNumbers DEF TripReviews
  <2> QED
    BY <1>1, <2>1, <2>2 DEF TripRows
<1>3. row.status = "open" /\ row.occupied = 0 /\ row.total \in Nat \ {0}
  BY <1>1, CarpoolNumbers DEF UpdateTrip, MayUpdateTrip, Reviewable, ValidTripInput, TripRows
<1>4. Riders(t) = {}
  BY NobodyOn DEF UpdateTrip, MayUpdateTrip
<1>5. RowFits(row, Riders(t))
  BY <1>2, <1>3, <1>4, EmptyFits
<1>6. SaveTrip(t, row) /\ UNCHANGED <<rider, tripClock, due, dueNow, tripFaults>>
  BY DEF UpdateTrip, MayUpdateTrip, WorkerIdle
<1> HIDE DEF row
<1> QED
  BY <1>2, <1>5, <1>6, TripWriteKeeps

\* JoinTrip: one rider and one seat more.
LEMMA JoinTripKeeps ==
    ASSUME CarpoolInv, NEW t \in Created, NEW version \in 1 .. MaxTripVersion, NEW u \in TripUsers,
           JoinTrip(t, u, version)
    PROVE  CarpoolInv'
<1> DEFINE status == IF trip[t].occupied + 1 = trip[t].total THEN "full" ELSE trip[t].status
           row == [trip[t] EXCEPT !.occupied = @ + 1, !.version = @ + 1, !.status = status]
<1>1. /\ trip[t] \in TripRows /\ RowFits(trip[t], Riders(t))
      /\ t \in Trips /\ rider \in [Trips -> [TripUsers -> ParticipantStatuses]]
  BY DEF CarpoolInv, CarpoolTypeOK
<1>2. /\ trip[t].occupied \in Nat /\ trip[t].total \in Nat /\ trip[t].version \in Nat
      /\ status \in TripStatuses
  BY <1>1 DEF TripRows, TripStatuses
<1>3. /\ ActiveTrip(t) /\ trip[t].review = "approved" /\ trip[t].occupied < trip[t].total
      /\ rider[t][u] # "joined"
      /\ rider' = [rider EXCEPT ![t][u] = "joined"]
      /\ SaveTrip(t, row)
      /\ UNCHANGED <<tripClock, due, dueNow, tripFaults>>
  BY <1>1 DEF JoinTrip, MayJoinTrip, Underway, WorkerIdle, TripRows
<1>4. row \in TripRows
  <2>1. trip[t].occupied + 1 \in Nat /\ trip[t].version + 1 \in Nat
    BY <1>2
  <2> HIDE DEF status
  <2> QED
    BY <1>1, <1>2, <2>1 DEF TripRows
<1>5. /\ row.occupied = trip[t].occupied + 1 /\ row.total = trip[t].total
      /\ row.status = status /\ row.review = "approved"
  BY <1>1, <1>3 DEF TripRows
<1> HIDE DEF row
<1>6. /\ Created' = Created
      /\ \A s \in Created : trip'[s] = IF s = t THEN row ELSE trip[s]
  BY <1>3, SaveTripEffect
<1>7. rider' \in [Trips -> [TripUsers -> ParticipantStatuses]]
  BY <1>1, <1>3 DEF ParticipantStatuses
<1>8. CarpoolTypeOK'
  BY <1>3, <1>4, <1>6, <1>7 DEF CarpoolInv, CarpoolTypeOK
<1>9. Riders(t)' = Riders(t) \cup {u} /\ u \notin Riders(t)
  BY <1>1, <1>3 DEF Riders
<1>10. \A s \in Trips : s # t => Riders(s)' = Riders(s)
  BY <1>1, <1>3 DEF Riders
<1>11. Cardinality(Riders(t)') = Cardinality(Riders(t)) + 1
  BY <1>9, RidersFinite, FS_AddElement
<1>12. RowFits(row, Riders(t)')
  BY <1>1, <1>2, <1>3, <1>5, <1>9, <1>11 DEF RowFits, ActiveTrip
<1>13. \A s \in Created : RowFits(trip'[s], Riders(s)')
  BY <1>6, <1>10, <1>12 DEF CarpoolInv, CarpoolTypeOK
<1> QED
  BY <1>6, <1>8, <1>10, <1>13 DEF CarpoolInv

\* LeaveTrip: one rider and one seat less, so that a full trip is open again.
LEMMA LeaveTripKeeps ==
    ASSUME CarpoolInv, NEW t \in Created, NEW version \in 1 .. MaxTripVersion, NEW u \in TripUsers,
           LeaveTrip(t, u, version)
    PROVE  CarpoolInv'
<1> DEFINE row == [trip[t] EXCEPT !.occupied = @ - 1, !.version = @ + 1, !.status = "open"]
<1>1. /\ trip[t] \in TripRows /\ RowFits(trip[t], Riders(t))
      /\ t \in Trips /\ rider \in [Trips -> [TripUsers -> ParticipantStatuses]]
  BY DEF CarpoolInv, CarpoolTypeOK
<1>2. /\ ActiveTrip(t) /\ rider[t][u] = "joined"
      /\ rider' = [rider EXCEPT ![t][u] = "left"]
      /\ SaveTrip(t, row)
      /\ UNCHANGED <<tripClock, due, dueNow, tripFaults>>
  BY DEF LeaveTrip, MayLeaveTrip, Underway, WorkerIdle
<1>3. Riders(t)' = Riders(t) \ {u} /\ u \in Riders(t)
  BY <1>1, <1>2 DEF Riders
<1>4. Cardinality(Riders(t)') = Cardinality(Riders(t)) - 1 /\ Cardinality(Riders(t)) \in Nat \ {0}
  <2>1. IsFiniteSet(Riders(t)) /\ Cardinality(Riders(t)) \in Nat
    BY RidersFinite
  <2>2. Cardinality(Riders(t)) # 0
    BY <1>3, <2>1, FS_EmptySet
  <2> QED
    BY <1>3, <2>1, <2>2, FS_RemoveElement
<1>5. /\ trip[t].occupied - 1 \in Nat /\ trip[t].version + 1 \in Nat
      /\ "open" \in TripStatuses /\ trip[t].total \in Nat /\ trip[t].review = "approved"
      /\ trip[t].occupied = Cardinality(Riders(t)) /\ trip[t].occupied <= trip[t].total
  <2>1. Riders(t) # {}
    BY <1>3
  <2>2. trip[t].occupied = Cardinality(Riders(t)) /\ trip[t].occupied <= trip[t].total
    BY <1>1 DEF RowFits
  <2>3. trip[t].review = "approved"
    BY <1>1, <1>2, <2>1 DEF RowFits, ActiveTrip
  <2>4. trip[t].total \in Nat /\ trip[t].version \in Nat
    BY <1>1 DEF TripRows
  <2> QED
    BY <1>4, <2>2, <2>3, <2>4 DEF TripStatuses
<1>6. row \in TripRows
  BY <1>1, <1>5 DEF TripRows
<1>7. /\ row.occupied = trip[t].occupied - 1 /\ row.total = trip[t].total
      /\ row.status = "open" /\ row.review = "approved"
  BY <1>1, <1>5 DEF TripRows
<1> HIDE DEF row
<1>8. /\ Created' = Created
      /\ \A s \in Created : trip'[s] = IF s = t THEN row ELSE trip[s]
  BY <1>2, SaveTripEffect
<1>9. rider' \in [Trips -> [TripUsers -> ParticipantStatuses]]
  BY <1>1, <1>2 DEF ParticipantStatuses
<1>10. CarpoolTypeOK'
  BY <1>2, <1>6, <1>8, <1>9 DEF CarpoolInv, CarpoolTypeOK
<1>11. \A s \in Trips : s # t => Riders(s)' = Riders(s)
  BY <1>1, <1>2 DEF Riders
<1>12. RowFits(row, Riders(t)')
  BY <1>4, <1>5, <1>7 DEF RowFits
<1>13. \A s \in Created : RowFits(trip'[s], Riders(s)')
  BY <1>8, <1>11, <1>12 DEF CarpoolInv, CarpoolTypeOK
<1> QED
  BY <1>8, <1>10, <1>11, <1>13 DEF CarpoolInv

\* The worker and the clock: a completed trip keeps its riders and its counter.
LEMMA WorkerKeeps ==
    ASSUME CarpoolInv, SelectDue \/ CompleteTrip \/ CompleteDueFails \/ TripTick
    PROVE  CarpoolInv'
<1>1. CASE CompleteTrip /\ ActiveTrip(Min(due)) /\ trip[Min(due)].departure <= dueNow /\ Min(due) \in Created
  <2> DEFINE t == Min(due)
             row == [trip[t] EXCEPT !.status = "completed", !.version = @ + 1]
  <2>1. /\ SaveTrip(t, row) /\ due' \subseteq due
        /\ UNCHANGED <<rider, tripClock, dueNow, tripFaults>> /\ t \in Created
    BY <1>1 DEF CompleteTrip
  <2>2. trip[t] \in TripRows /\ RowFits(trip[t], Riders(t))
    BY <2>1 DEF CarpoolInv, CarpoolTypeOK
  <2>3. row \in TripRows
    <3>1. trip[t].version + 1 \in Nat /\ "completed" \in TripStatuses
      BY <2>2 DEF TripRows, TripStatuses
    <3> QED
      BY <2>2, <3>1 DEF TripRows
  <2>4. RowFits(row, Riders(t))
    BY <2>2 DEF RowFits, TripRows
  <2> HIDE DEF row, t
  <2> QED
    BY <2>1, <2>3, <2>4, TripWriteKeeps
<1>2. CASE ~(CompleteTrip /\ ActiveTrip(Min(due)) /\ trip[Min(due)].departure <= dueNow /\ Min(due) \in Created)
  <2>1. UNCHANGED rider
    BY <1>2 DEF SelectDue, CompleteTrip, CompleteDueFails, TripTick
  <2>2. Created' = Created /\ \A s \in Created : trip'[s] = trip[s]
    BY <1>2 DEF SelectDue, CompleteTrip, CompleteDueFails, TripTick, SaveTrip, Created
  <2>3. due' \subseteq Created /\ dueNow' \in 0 .. MaxTripClock /\ tripClock' \in 0 .. MaxTripClock
        /\ tripFaults' \in 0 .. MaxTripFaults
    <3>1. DueTrips(tripClock) \subseteq Created
      BY DEF DueTrips
    <3>2. tripClock \in 0 .. MaxTripClock /\ dueNow \in 0 .. MaxTripClock /\ due \subseteq Created
          /\ tripFaults \in 0 .. MaxTripFaults
      BY DEF CarpoolInv, CarpoolTypeOK
    <3> QED
      BY <3>1, <3>2, CarpoolNumbers DEF SelectDue, CompleteTrip, CompleteDueFails, TripTick
  <2>4. \A s : Riders(s)' = Riders(s)
    BY <2>1 DEF Riders
  <2>5. CarpoolTypeOK'
    BY <2>1, <2>2, <2>3 DEF CarpoolInv, CarpoolTypeOK
  <2> QED
    BY <2>2, <2>4, <2>5 DEF CarpoolInv
<1> QED
  BY <1>1, <1>2

\* Every step of the service keeps the invariant.
LEMMA CarpoolStep == CarpoolInv /\ [CarpoolNext]_carpoolVars => CarpoolInv'
<1> SUFFICES ASSUME CarpoolInv, [CarpoolNext]_carpoolVars PROVE CarpoolInv'
  OBVIOUS
<1>1. ASSUME NEW t \in Trips, NEW u \in Organizers, NEW d \in TripTimes, NEW s \in TripSeats,
             CreateTrip(t, u, d, s)
      PROVE  CarpoolInv'
  BY <1>1, CreateTripKeeps
<1>2. ASSUME NEW t \in Created, NEW version \in 1 .. MaxTripVersion, MemberWrites(t, version)
      PROVE  CarpoolInv'
  BY <1>2, UpdateTripKeeps, ReviewWritesKeep, JoinTripKeeps, LeaveTripKeeps DEF MemberWrites
<1>3. ASSUME NEW t \in Created, NEW version \in 1 .. MaxTripVersion,
             (\E approved \in BOOLEAN : ReviewTrip(t, version, approved)) \/ RevokeTripReview(t, version)
      PROVE  CarpoolInv'
  <2>1. trip[t].organizer \in TripUsers
    BY DEF CarpoolInv, CarpoolTypeOK, TripRows
  <2> QED
    BY <1>3, <2>1, ReviewWritesKeep
<1>4. CASE SelectDue \/ CompleteTrip \/ CompleteDueFails \/ TripTick
  BY <1>4, WorkerKeeps
<1>5. CASE UNCHANGED carpoolVars
  BY <1>5 DEF carpoolVars, CarpoolInv, CarpoolTypeOK, Created, Riders
<1> QED
  BY <1>1, <1>2, <1>3, <1>4, <1>5 DEF CarpoolNext

\* The invariant gives the run's property.
LEMMA CarpoolInvSuffices == CarpoolInv => SeatsMatchRiders
<1> SUFFICES ASSUME CarpoolInv, NEW t \in Created
             PROVE  /\ trip[t].occupied = Cardinality(Riders(t))
                    /\ trip[t].occupied <= trip[t].total
                    /\ ActiveTrip(t) => (trip[t].status = "full") = (trip[t].occupied = trip[t].total)
                    /\ \A u \in Riders(t) : ActiveTrip(t) => GetTrip(t, u).contact
                    /\ \A n \in TripSeats : t \in SearchTrips(n, tripClock) =>
                          n + Cardinality(Riders(t)) <= trip[t].total
  BY DEF SeatsMatchRiders
<1>1. RowFits(trip[t], Riders(t)) /\ trip[t] \in TripRows
  BY DEF CarpoolInv, CarpoolTypeOK
<1>2. \A u \in Riders(t) : ActiveTrip(t) => GetTrip(t, u).contact
  BY <1>1 DEF RowFits, GetTrip, Riders, ActiveTrip
<1>3. \A n \in TripSeats : t \in SearchTrips(n, tripClock) =>
          n + Cardinality(Riders(t)) <= trip[t].total
  BY <1>1, CarpoolNumbers DEF RowFits, SearchTrips, TripRows
<1> QED
  BY <1>1, <1>2, <1>3 DEF RowFits, ActiveTrip

\* The invariant holds in every reachable state.
LEMMA CarpoolInvariant == CarpoolSpec => []CarpoolInv
BY CarpoolInitInv, CarpoolStep, PTL DEF CarpoolSpec

\* Trips, participants and the worker's batch have their types in every state.
THEOREM CarpoolTypeCorrect == CarpoolSpec => []CarpoolTypeOK
<1>1. CarpoolInv => CarpoolTypeOK
  BY DEF CarpoolInv
<1> QED
  BY <1>1, CarpoolInvariant, PTL

\* The seat counter of a trip is always the number of its riders, within the seats,
\* and full says so; a rider of an active trip can read its contact, and a trip the
\* search offers has the seats (Join, Leave, UpdateTrip and RevokeReview).
THEOREM SeatsAreRiders == CarpoolSpec => []SeatsMatchRiders
BY CarpoolInvariant, CarpoolInvSuffices, PTL

\* No write touches a trip that ended: neither a member's, nor the worker's, whose
\* batch may name a trip that was cancelled since (CompleteDue looks again).
LEMMA EndedStepKeeps ==
    ASSUME CarpoolInv, CarpoolNext, NEW s \in Created, ~ActiveTrip(s)
    PROVE  trip'[s] = trip[s]
<1>1. ASSUME NEW t \in Trips, NEW u \in Organizers, NEW d \in TripTimes, NEW n \in TripSeats,
             CreateTrip(t, u, d, n)
      PROVE  trip'[s] = trip[s]
  BY <1>1 DEF CreateTrip
<1>2. ASSUME NEW t \in Created, NEW row, SaveTrip(t, row), ActiveTrip(t)
      PROVE  trip'[s] = trip[s]
  BY <1>2, SaveTripEffect
<1>3. ASSUME NEW t \in Created, NEW version, MemberWrites(t, version)
      PROVE  trip'[s] = trip[s]
  BY <1>2, <1>3 DEF MemberWrites, UpdateTrip, MayUpdateTrip, SubmitTripReview, MaySubmitTripReview, JoinTrip, MayJoinTrip, Underway, LeaveTrip, MayLeaveTrip, CancelTrip, MayCancelTrip,
     Reviewable, ActiveTrip
<1>4. ASSUME NEW t \in Created, NEW version,
             (\E approved \in BOOLEAN : ReviewTrip(t, version, approved)) \/ RevokeTripReview(t, version)
      PROVE  trip'[s] = trip[s]
  BY <1>2, <1>4 DEF ReviewTrip, RevokeTripReview, Reviewable, ActiveTrip
<1>5. CASE SelectDue \/ CompleteDueFails \/ TripTick
  BY <1>5 DEF SelectDue, CompleteDueFails, TripTick
<1>6. CASE CompleteTrip
  <2>1. CASE Min(due) = s
    BY <1>6, <2>1 DEF CompleteTrip
  <2>2. CASE Min(due) # s
    BY <1>6, <2>2 DEF CompleteTrip, SaveTrip, Created
  <2> QED
    BY <2>1, <2>2
<1> QED
  BY <1>1, <1>3, <1>4, <1>5, <1>6 DEF CarpoolNext

\* A trip that was completed or cancelled never changes again.
THEOREM EndedTripsStay == CarpoolSpec => TripEndsOnce
<1>1. CarpoolInv /\ [CarpoolNext]_carpoolVars =>
        [\A t \in Created : ~ActiveTrip(t) => trip'[t] = trip[t]]_carpoolVars
  BY EndedStepKeeps
<1> QED
  BY <1>1, CarpoolInvariant, PTL DEF CarpoolSpec, TripEndsOnce

-----------------------------------------------------------------------------
(* Activity: the registration counter.                                      *)

\* The row of an activity agrees with its active registrations: the counter counts
\* them, the capacity suffices, there are none before the activity was approved,
\* and no draft is approved, since the approval publishes.
ActivityFits(a, members) ==
    /\ a.registered = Cardinality(members)
    /\ a.registered <= a.capacity
    /\ members # {} => a.status # "draft" /\ a.review = "approved"
    /\ ~CanPublish(a)

\* Inductive: the rows fit, and nobody is registered for what was not created.
ActivityInv ==
    /\ ActivityTypeOK
    /\ \A i \in Known : ActivityFits(activity[i], Registered(i))
    /\ \A i \in Activities \ Known : Registered(i) = {}

\* The bounds and inputs of the activities are numbers.
LEMMA ActivityNumbers ==
    /\ MaxActivityClock \in Nat /\ MaxActivityVersion \in Nat /\ MaxRegistrations \in Nat
    /\ Capacities \subseteq Nat /\ Publishers \subseteq ActivityUsers
BY ActivityAssumption

\* The members registered for an activity are finitely many.
LEMMA RegisteredFinite == \A i : IsFiniteSet(Registered(i)) /\ Cardinality(Registered(i)) \in Nat
<1> TAKE i
<1>1. Registered(i) \in SUBSET ActivityUsers
  BY DEF Registered
<1>2. IsFiniteSet(Registered(i))
  BY <1>1, FS_Subset, ActivityAssumption
<1> QED
  BY <1>2, FS_CardinalityType

\* Before the first activity there is nothing to count.
LEMMA ActivityInitInv == ActivityInit => ActivityInv
<1> SUFFICES ASSUME ActivityInit PROVE ActivityInv
  OBVIOUS
<1>1. Known = {}
  BY DEF ActivityInit, Known
<1>2. ActivityTypeOK
  BY <1>1, ActivityNumbers DEF ActivityInit, ActivityTypeOK, Registrations, NoRegistration
<1>3. \A i \in Activities : Registered(i) = {}
  BY DEF ActivityInit, Registered, NoRegistration
<1> QED
  BY <1>1, <1>2, <1>3 DEF ActivityInv

\* CreateActivity: a draft without registrations.
LEMMA CreateActivityKeeps ==
    ASSUME ActivityInv, NEW i \in Activities, NEW u \in Publishers, NEW s \in Schedules,
           NEW c \in Capacities, CreateActivity(i, u, s, c)
    PROVE  ActivityInv'
<1> DEFINE row == [status |-> "draft", review |-> "draft", owner |-> u, times |-> s,
                   capacity |-> c, registered |-> 0, version |-> 1]
<1>1. row \in ActivityRows
  BY ActivityNumbers DEF ActivityRows
<1>2. /\ Known' = Known \cup {i} /\ i \notin Known
      /\ \A j \in Known' : activity'[j] = IF j # i THEN activity[j] ELSE row
      /\ UNCHANGED <<registration, cancelEvents, activityClock>>
  BY DEF CreateActivity, Known
<1>3. \A j : Registered(j)' = Registered(j)
  BY <1>2 DEF Registered
<1>4. ActivityTypeOK'
  BY <1>1, <1>2 DEF ActivityInv, ActivityTypeOK
<1>5. ActivityFits(row, {})
  BY <1>1, FS_EmptySet, ActivityNumbers DEF ActivityFits, CanPublish
<1>6. Registered(i) = {}
  BY <1>2 DEF ActivityInv
<1>7. \A j \in Known' : ActivityFits(activity'[j], Registered(j))
  BY <1>2, <1>5, <1>6 DEF ActivityInv
<1> QED
  BY <1>2, <1>3, <1>4, <1>7 DEF ActivityInv

\* A write through mutateActivityWithEvent keeps the invariant when the row it
\* saves fits the registrations, which it does not touch.
LEMMA MutateActivityKeeps ==
    ASSUME ActivityInv, NEW i \in Known, NEW row \in ActivityRows,
           MutateActivity(i, row), ActivityFits(row, Registered(i))
    PROVE  ActivityInv'
<1> DEFINE saved == [row EXCEPT !.version = @ + 1]
<1>1. saved \in ActivityRows
  <2>1. row.version + 1 \in Nat
    BY DEF ActivityRows
  <2> QED
    BY <2>1 DEF ActivityRows
<1>2. ActivityFits(saved, Registered(i))
  BY DEF ActivityFits, ActivityRows, CanPublish
<1>3. activity' = [activity EXCEPT ![i] = saved] /\ UNCHANGED <<registration, cancelEvents, activityClock>>
  BY DEF MutateActivity
<1> HIDE DEF saved
<1>4. Known' = Known /\ \A j \in Known : activity'[j] = IF j = i THEN saved ELSE activity[j]
  BY <1>3 DEF Known
<1>5. \A j : Registered(j)' = Registered(j)
  BY <1>3 DEF Registered
<1>6. ActivityTypeOK'
  BY <1>1, <1>3, <1>4 DEF ActivityInv, ActivityTypeOK
<1>7. \A j \in Known : ActivityFits(activity'[j], Registered(j))
  BY <1>2, <1>4 DEF ActivityInv
<1> QED
  BY <1>4, <1>5, <1>6, <1>7 DEF ActivityInv

\* Editing and moderation: only drafts, which nobody is registered for, change their
\* review or their capacity; the end of an activity leaves both alone.
LEMMA ModerationKeeps ==
    ASSUME ActivityInv, NEW i \in Known, NEW version, NEW u \in ActivityUsers,
           \/ \E s \in Schedules, c \in Capacities : UpdateActivity(i, u, version, s, c)
           \/ SubmitActivityReview(i, u, version)
           \/ CancelActivity(i, u, version)
           \/ FinishActivity(i, u, version)
           \/ ApproveActivity(i, version)
           \/ RejectActivity(i, version)
    PROVE  ActivityInv'
<1> DEFINE a == activity[i]
<1>1. a \in ActivityRows /\ ActivityFits(a, Registered(i))
  BY DEF ActivityInv, ActivityTypeOK
<1>2. a.status = "draft" => Registered(i) = {} /\ a.registered = 0
  BY <1>1, FS_EmptySet DEF ActivityFits
<1>3. CASE \E s \in Schedules, c \in Capacities : UpdateActivity(i, u, version, s, c)
  <2> PICK s \in Schedules, c \in Capacities : UpdateActivity(i, u, version, s, c)
    BY <1>3
  <2> DEFINE row == [a EXCEPT !.times = s, !.capacity = c, !.review = "draft"]
  <2>1. row \in ActivityRows
    BY <1>1, ActivityNumbers DEF ActivityRows
  <2>2. ActivityFits(row, Registered(i))
    BY <1>1, <1>2, ActivityNumbers DEF ActivityFits, ActivityRows, CanPublish, UpdateActivity, MayUpdateActivity, CanEdit
  <2>3. MutateActivity(i, row)
    BY DEF UpdateActivity, MayUpdateActivity
  <2> HIDE DEF row
  <2> QED
    BY <2>1, <2>2, <2>3, MutateActivityKeeps
<1>4. CASE SubmitActivityReview(i, u, version)
  <2> DEFINE row == [a EXCEPT !.review = "pending_review"]
  <2>1. row \in ActivityRows /\ MutateActivity(i, row)
    BY <1>1, <1>4 DEF ActivityRows, SubmitActivityReview, MaySubmitActivityReview
  <2>2. ActivityFits(row, Registered(i))
    BY <1>1, <1>2, <1>4 DEF ActivityFits, ActivityRows, CanPublish, SubmitActivityReview, MaySubmitActivityReview, CanSubmitReview
  <2> HIDE DEF row
  <2> QED
    BY <2>1, <2>2, MutateActivityKeeps
<1>5. CASE CancelActivity(i, u, version)
  <2> DEFINE row == [a EXCEPT !.status = "cancelled"]
  <2>1. row \in ActivityRows /\ MutateActivity(i, row)
    BY <1>1, <1>5 DEF ActivityRows, CancelActivity, MayCancelActivity
  <2>2. ActivityFits(row, Registered(i))
    BY <1>1 DEF ActivityFits, ActivityRows, CanPublish
  <2> HIDE DEF row
  <2> QED
    BY <2>1, <2>2, MutateActivityKeeps
<1>6. CASE FinishActivity(i, u, version)
  <2> DEFINE row == [a EXCEPT !.status = "finished"]
  <2>1. row \in ActivityRows /\ MutateActivity(i, row)
    BY <1>1, <1>6 DEF ActivityRows, FinishActivity
  <2>2. ActivityFits(row, Registered(i))
    BY <1>1 DEF ActivityFits, ActivityRows, CanPublish
  <2> HIDE DEF row
  <2> QED
    BY <2>1, <2>2, MutateActivityKeeps
<1>7. CASE ApproveActivity(i, version)
  <2> DEFINE row == [a EXCEPT !.status = "published", !.review = "approved"]
  <2>1. row \in ActivityRows /\ MutateActivity(i, row)
    BY <1>1, <1>7 DEF ActivityRows, ApproveActivity
  <2>2. ActivityFits(row, Registered(i))
    BY <1>1 DEF ActivityFits, ActivityRows, CanPublish
  <2> HIDE DEF row
  <2> QED
    BY <2>1, <2>2, MutateActivityKeeps
<1>8. CASE RejectActivity(i, version)
  <2> DEFINE row == [a EXCEPT !.review = "rejected"]
  <2>1. row \in ActivityRows /\ MutateActivity(i, row)
    BY <1>1, <1>8 DEF ActivityRows, RejectActivity
  <2>2. ActivityFits(row, Registered(i))
    BY <1>1, <1>2, <1>8 DEF ActivityFits, ActivityRows, CanPublish, RejectActivity, CanDecide
  <2> HIDE DEF row
  <2> QED
    BY <2>1, <2>2, MutateActivityKeeps
<1> QED
  BY <1>3, <1>4, <1>5, <1>6, <1>7, <1>8

\* A write of one registration and of the counter keeps the invariant when the
\* counter fits the registrations as they are then.
LEMMA RegistrationKeeps ==
    ASSUME ActivityInv, NEW i \in Known, NEW u \in ActivityUsers,
           NEW r \in Registrations, NEW n \in Nat,
           registration' = [registration EXCEPT ![i][u] = r],
           activity' = [activity EXCEPT ![i].registered = n],
           cancelEvents' \in [Activities -> SUBSET Nat], UNCHANGED activityClock,
           ActivityFits([activity[i] EXCEPT !.registered = n],
                        IF r.status = "active" THEN Registered(i) \cup {u} ELSE Registered(i) \ {u})
    PROVE  ActivityInv'
<1> DEFINE row == [activity[i] EXCEPT !.registered = n]
<1>1. /\ i \in Activities /\ activity[i] \in ActivityRows
      /\ registration \in [Activities -> [ActivityUsers -> Registrations]]
  BY DEF ActivityInv, ActivityTypeOK
<1>2. row \in ActivityRows
  BY <1>1 DEF ActivityRows
<1>3. Known' = Known /\ \A j \in Known : activity'[j] = IF j = i THEN row ELSE activity[j]
  BY DEF Known
<1>4. registration' \in [Activities -> [ActivityUsers -> Registrations]]
  BY <1>1
<1>5. Registered(i)' = IF r.status = "active" THEN Registered(i) \cup {u} ELSE Registered(i) \ {u}
  BY <1>1 DEF Registered
<1>6. \A j \in Activities : j # i => Registered(j)' = Registered(j)
  BY <1>1 DEF Registered
<1>7. ActivityTypeOK'
  BY <1>2, <1>3, <1>4 DEF ActivityInv, ActivityTypeOK
<1>8. ActivityFits(row, Registered(i)')
  BY <1>5
<1> HIDE DEF row
<1>9. \A j \in Known : ActivityFits(activity'[j], Registered(j)')
  BY <1>3, <1>6, <1>8 DEF ActivityInv, ActivityTypeOK
<1> QED
  BY <1>1, <1>3, <1>6, <1>7, <1>9 DEF ActivityInv

\* Register: one active registration and one in the counter more.
LEMMA RegisterKeeps ==
    ASSUME ActivityInv, NEW i \in Known, NEW u \in ActivityUsers, NEW key \in RegistrationKeys,
           Register(i, u, key)
    PROVE  ActivityInv'
<1> DEFINE r == [status |-> "active", key |-> key, version |-> registration[i][u].version + 1]
           n == activity[i].registered + 1
           row == [activity[i] EXCEPT !.registered = n]
<1>1. /\ i \in Activities /\ activity[i] \in ActivityRows /\ ActivityFits(activity[i], Registered(i))
      /\ registration \in [Activities -> [ActivityUsers -> Registrations]]
      /\ cancelEvents \in [Activities -> SUBSET Nat]
  BY DEF ActivityInv, ActivityTypeOK
<1>2. activity[i].registered \in Nat /\ activity[i].capacity \in Nat
  BY <1>1 DEF ActivityRows
<1>3. /\ activity[i].status = "published" /\ activity[i].review = "approved"
      /\ activity[i].registered < activity[i].capacity
      /\ registration[i][u].status # "active"
      /\ registration' = [registration EXCEPT ![i][u] = r]
      /\ activity' = [activity EXCEPT ![i].registered = n]
      /\ UNCHANGED <<cancelEvents, activityClock>>
  BY <1>1 DEF Register, MayRegister, RegistrationAllowed, IsPubliclyVisible
<1>4. r \in Registrations /\ n \in Nat
  <2>1. registration[i][u].version + 1 \in Nat
    BY <1>1 DEF Registrations
  <2> QED
    BY <1>2, <2>1 DEF Registrations
<1>5. u \notin Registered(i)
  BY <1>3 DEF Registered
<1>6. Cardinality(Registered(i) \cup {u}) = Cardinality(Registered(i)) + 1
  BY <1>5, RegisteredFinite, FS_AddElement
<1>7. /\ row.registered = n /\ row.capacity = activity[i].capacity
      /\ row.status = "published" /\ row.review = "approved"
  BY <1>1, <1>3 DEF ActivityRows
<1>8. ActivityFits(row, Registered(i) \cup {u})
  <2> HIDE DEF row
  <2> QED
    BY <1>1, <1>2, <1>3, <1>6, <1>7 DEF ActivityFits, CanPublish
<1>9. r.status = "active" /\ cancelEvents' \in [Activities -> SUBSET Nat]
  BY <1>1, <1>3
<1>10. ActivityFits(row, IF r.status = "active" THEN Registered(i) \cup {u} ELSE Registered(i) \ {u})
  BY <1>8, <1>9
<1> HIDE DEF r, n
<1> QED
  BY <1>3, <1>4, <1>9, <1>10, RegistrationKeeps

\* CancelRegistration: one less of both. The counter of an activity somebody is
\* registered for is not zero, so the guard against a negative one never bites.
LEMMA CancelRegistrationKeeps ==
    ASSUME ActivityInv, NEW i \in Known, NEW u \in ActivityUsers, NEW version,
           CancelRegistration(i, u, version)
    PROVE  ActivityInv'
<1> DEFINE r == [registration[i][u] EXCEPT !.status = "cancelled", !.version = @ + 1]
           n == activity[i].registered - 1
           row == [activity[i] EXCEPT !.registered = n]
<1>1. /\ i \in Activities /\ activity[i] \in ActivityRows /\ ActivityFits(activity[i], Registered(i))
      /\ registration \in [Activities -> [ActivityUsers -> Registrations]]
      /\ cancelEvents \in [Activities -> SUBSET Nat]
  BY DEF ActivityInv, ActivityTypeOK
<1>2. activity[i].registered \in Nat /\ activity[i].capacity \in Nat /\ activity[i].version \in Nat
  BY <1>1 DEF ActivityRows
<1>3. u \in Registered(i)
  BY DEF CancelRegistration, MayCancelRegistration, CancellationAllowed, Registered
<1>4. Cardinality(Registered(i)) \in Nat /\ Cardinality(Registered(i)) # 0
  BY <1>3, RegisteredFinite, FS_EmptySet
<1>5. Cardinality(Registered(i) \ {u}) = Cardinality(Registered(i)) - 1
  BY <1>3, RegisteredFinite, FS_RemoveElement
<1>6. activity[i].registered > 0 /\ n \in Nat
  BY <1>1, <1>2, <1>4 DEF ActivityFits
<1>7. /\ registration' = [registration EXCEPT ![i][u] = r]
      /\ activity' = [activity EXCEPT ![i].registered = n]
      /\ UNCHANGED activityClock
  <2>1. registration' = [registration EXCEPT ![i][u].status = "cancelled", ![i][u].version = @ + 1]
    BY DEF CancelRegistration, MayCancelRegistration
  <2>2. registration' = [registration EXCEPT ![i][u] = r]
    BY <1>1, <2>1 DEF Registrations
  <2>3. activity' = [activity EXCEPT ![i].registered = n]
    BY <1>6 DEF CancelRegistration, MayCancelRegistration
  <2> QED
    BY <2>2, <2>3 DEF CancelRegistration, MayCancelRegistration
<1>8. cancelEvents' \in [Activities -> SUBSET Nat]
  BY <1>1, <1>2 DEF CancelRegistration, MayCancelRegistration
<1>9. r \in Registrations /\ r.status = "cancelled"
  <2>1. registration[i][u] \in Registrations /\ registration[i][u].version + 1 \in Nat
    BY <1>1 DEF Registrations
  <2> QED
    BY <2>1 DEF Registrations
<1>10. /\ row.registered = n /\ row.capacity = activity[i].capacity
       /\ row.status = activity[i].status /\ row.review = activity[i].review
  BY <1>1 DEF ActivityRows
<1>11. ActivityFits(row, Registered(i) \ {u})
  <2> HIDE DEF row
  <2>1. row.registered = Cardinality(Registered(i) \ {u}) /\ row.registered <= row.capacity
    BY <1>1, <1>2, <1>5, <1>6, <1>10 DEF ActivityFits
  <2> QED
    BY <1>1, <1>3, <1>10, <2>1 DEF ActivityFits, CanPublish
<1>12. ActivityFits(row, IF r.status = "active" THEN Registered(i) \cup {u} ELSE Registered(i) \ {u})
  BY <1>9, <1>11
<1> HIDE DEF r, n
<1> QED
  BY <1>6, <1>7, <1>8, <1>9, <1>12, RegistrationKeeps

\* Every step of the service keeps the invariant.
LEMMA ActivityStep == ActivityInv /\ [ActivityNext]_activityVars => ActivityInv'
<1> SUFFICES ASSUME ActivityInv, [ActivityNext]_activityVars PROVE ActivityInv'
  OBVIOUS
<1>1. ASSUME NEW i \in Activities, NEW u \in Publishers, NEW s \in Schedules, NEW c \in Capacities,
             CreateActivity(i, u, s, c)
      PROVE  ActivityInv'
  BY <1>1, CreateActivityKeeps
<1>2. ASSUME NEW i \in Known, NEW version, NEW u \in Publishers,
             \/ \E s \in Schedules, c \in Capacities : UpdateActivity(i, u, version, s, c)
             \/ SubmitActivityReview(i, u, version)
             \/ CancelActivity(i, u, version)
             \/ FinishActivity(i, u, version)
      PROVE  ActivityInv'
  BY <1>2, ActivityNumbers, ModerationKeeps
<1>3. ASSUME NEW i \in Known, NEW version, ApproveActivity(i, version) \/ RejectActivity(i, version)
      PROVE  ActivityInv'
  <2>1. activity[i].owner \in ActivityUsers
    BY DEF ActivityInv, ActivityTypeOK, ActivityRows
  <2> QED
    BY <1>3, <2>1, ModerationKeeps
<1>4. ASSUME NEW i \in Known, NEW u \in ActivityUsers,
             \/ \E key \in RegistrationKeys : Register(i, u, key)
             \/ \E version \in 1 .. MaxRegistrations : CancelRegistration(i, u, version)
      PROVE  ActivityInv'
  BY <1>4, RegisterKeeps, CancelRegistrationKeeps
<1>5. CASE ActivityTick
  <2>1. activityClock' \in 0 .. MaxActivityClock
    BY <1>5, ActivityNumbers DEF ActivityTick, ActivityInv, ActivityTypeOK
  <2> QED
    BY <1>5, <2>1 DEF ActivityTick, ActivityInv, ActivityTypeOK, Known, Registered
<1>6. CASE UNCHANGED activityVars
  BY <1>6 DEF activityVars, ActivityInv, ActivityTypeOK, Known, Registered
<1> QED
  BY <1>1, <1>2, <1>3, <1>4, <1>5, <1>6 DEF ActivityNext

\* The invariant gives the run's property.
LEMMA ActivityInvSuffices == ActivityInv => CountMatchesRegistrations
BY DEF ActivityInv, ActivityFits, CountMatchesRegistrations, CanStillPublish, VisibleToViewer,
   IsViewerRegistered, ContactShown

\* The invariant holds in every reachable state.
LEMMA ActivityInvariant == ActivitySpec => []ActivityInv
BY ActivityInitInv, ActivityStep, PTL DEF ActivitySpec

\* Activities, registrations and event keys have their types in every state.
THEOREM ActivityTypeCorrect == ActivitySpec => []ActivityTypeOK
<1>1. ActivityInv => ActivityTypeOK
  BY DEF ActivityInv
<1> QED
  BY <1>1, ActivityInvariant, PTL

\* The counter Register compares with the capacity is always the number of active
\* registrations, within the capacity, and whoever is registered is so for an
\* approved activity and can open it (Register, CancelRegistration and the review).
THEOREM CountIsRegistrations == ActivitySpec => []CountMatchesRegistrations
BY ActivityInvariant, ActivityInvSuffices, PTL

-----------------------------------------------------------------------------
(* Errand: the task and its trade order.                                    *)

\* The row of task t agrees with the orders: it names an order exactly when it has
\* a runner, an open task names none, and the order it names is its own and is
\* closed exactly when the task is.
TaskFits(t, row, orders) ==
    /\ (row.order = 0) = (row.runner = NoUser)
    /\ row.status = "open" => row.order = 0
    /\ row.status \notin {"open", "cancelled"} => row.order # 0
    /\ row.order # 0 =>
          /\ row.order \in DOMAIN orders
          /\ orders[row.order].buyer = row.requester
          /\ orders[row.order].seller = row.runner
          /\ orders[row.order].task = t
          /\ <<orders[row.order].status, orders[row.order].version>> = OrderOf(row.status)

\* Every order belongs to a task that names it.
OrdersHaveTasks ==
    \A n \in DOMAIN errandOrder :
        errandOrder[n].task \in Posted /\ task[errandOrder[n].task].order = n

\* What a request on an order has read is a task and what to do with it.
CallsKnowTasks ==
    \A u \in ErrandUsers : orderCall[u] # NoCall =>
        orderCall[u].task \in Posted /\ orderCall[u].target \in {"completed", "cancelled"}

\* Inductive.
ErrandInv ==
    /\ ErrandTypeOK
    /\ \A t \in Posted : TaskFits(t, task[t], errandOrder)
    /\ OrdersHaveTasks
    /\ CallsKnowTasks

\* The bounds and inputs of the errands are numbers, and a task id is one too.
LEMMA ErrandNumbers ==
    /\ MaxErrandClock \in Nat /\ MaxTaskVersion \in Nat /\ Deadlines \subseteq Nat
    /\ Requesters \subseteq ErrandUsers /\ NoUser \notin ErrandUsers /\ Tasks \subseteq Nat
BY ErrandAssumption

\* At first there are no tasks, no orders and no requests under way.
LEMMA ErrandInitInv == ErrandInit => ErrandInv
<1> SUFFICES ASSUME ErrandInit PROVE ErrandInv
  OBVIOUS
<1>1. Posted = {} /\ DOMAIN errandOrder = {}
  BY DEF ErrandInit, Posted
<1>2. errandOrder \in Seq(ErrandOrders)
  BY DEF ErrandInit
<1>3. ErrandTypeOK
  BY <1>1, <1>2, ErrandNumbers DEF ErrandInit, ErrandTypeOK, NoCall
<1>4. OrdersHaveTasks /\ CallsKnowTasks
  BY <1>1 DEF OrdersHaveTasks, CallsKnowTasks, ErrandInit
<1> QED
  BY <1>1, <1>3, <1>4 DEF ErrandInv

\* CreateTask: an open task without an order.
LEMMA CreateTaskKeeps ==
    ASSUME ErrandInv, NEW t \in Tasks, NEW u \in Requesters, NEW d \in Deadlines, CreateTask(t, u, d)
    PROVE  ErrandInv'
<1> DEFINE row == [status |-> "open", review |-> "pending_review", requester |-> u,
                   runner |-> NoUser, order |-> 0, deadline |-> d, version |-> 1]
<1>1. row \in TaskRows
  BY ErrandNumbers DEF TaskRows, TaskStatuses
<1>2. /\ Posted' = Posted \cup {t} /\ t \notin Posted
      /\ \A s \in Posted' : task'[s] = IF s # t THEN task[s] ELSE row
      /\ UNCHANGED <<errandOrder, orderCall, errandClock>>
  BY DEF CreateTask, Posted
<1>3. ErrandTypeOK'
  BY <1>1, <1>2 DEF ErrandInv, ErrandTypeOK
<1>4. TaskFits(t, row, errandOrder)
  BY DEF TaskFits
<1>5. \A s \in Posted' : TaskFits(s, task'[s], errandOrder)
  BY <1>2, <1>4 DEF ErrandInv
<1>6. OrdersHaveTasks' /\ CallsKnowTasks'
  BY <1>2 DEF ErrandInv, OrdersHaveTasks, CallsKnowTasks
<1> QED
  BY <1>2, <1>3, <1>5, <1>6 DEF ErrandInv

\* Saving one task row changes that row only.
LEMMA SaveTaskEffect ==
    ASSUME NEW t \in Posted, NEW row, SaveTask(t, row)
    PROVE  /\ Posted' = Posted
           /\ \A s \in Posted : task'[s] = IF s = t THEN row ELSE task[s]
BY DEF SaveTask, Posted

\* A write through mutate keeps the invariant when the row it saves fits the
\* orders and names the order the old row named.
LEMMA MutateTaskKeeps ==
    ASSUME ErrandInv, NEW t \in Posted, NEW row \in TaskRows,
           MutateTask(t, row), TaskFits(t, row, errandOrder),
           row.order = task[t].order
    PROVE  ErrandInv'
<1> DEFINE saved == [row EXCEPT !.version = @ + 1]
<1>1. saved \in TaskRows
  <2>1. row.version + 1 \in Nat
    BY DEF TaskRows
  <2> QED
    BY <2>1 DEF TaskRows
<1>2. TaskFits(t, saved, errandOrder) /\ saved.order = task[t].order
  BY DEF TaskFits, TaskRows
<1>3. SaveTask(t, saved) /\ UNCHANGED <<errandOrder, orderCall, errandClock>>
  BY DEF MutateTask
<1> HIDE DEF saved
<1>4. Posted' = Posted /\ \A s \in Posted : task'[s] = IF s = t THEN saved ELSE task[s]
  BY <1>3, SaveTaskEffect
<1>5. ErrandTypeOK'
  BY <1>1, <1>3, <1>4 DEF ErrandInv, ErrandTypeOK
<1>6. \A s \in Posted : TaskFits(s, task'[s], errandOrder)
  BY <1>2, <1>4 DEF ErrandInv
<1>7. OrdersHaveTasks' /\ CallsKnowTasks'
  BY <1>2, <1>3, <1>4 DEF ErrandInv, OrdersHaveTasks, CallsKnowTasks
<1> QED
  BY <1>3, <1>4, <1>5, <1>6, <1>7 DEF ErrandInv

\* Edits and reviews of an open task, and the runner's progress: the order stays
\* confirmed in its first version.
LEMMA ProgressKeeps ==
    ASSUME ErrandInv, NEW t \in Posted, NEW version, NEW u \in ErrandUsers,
           \/ \E d \in Deadlines : UpdateTask(t, u, version, d)
           \/ SubmitTaskReview(t, u, version)
           \/ PickupTask(t, u, version)
           \/ DeliverTask(t, u, version)
           \/ \E approved \in BOOLEAN : ReviewTask(t, version, approved)
           \/ RevokeTaskReview(t, version)
    PROVE  ErrandInv'
<1> DEFINE k == task[t]
<1>1. k \in TaskRows /\ TaskFits(t, k, errandOrder)
  BY DEF ErrandInv, ErrandTypeOK
<1>2. ASSUME NEW row \in TaskRows, MutateTask(t, row),
             row.order = k.order, row.runner = k.runner, row.requester = k.requester,
             \/ row.status = k.status
             \/ k.status = "accepted" /\ row.status = "picked_up"
             \/ k.status = "picked_up" /\ row.status = "delivered"
      PROVE  ErrandInv'
  <2>1. TaskFits(t, row, errandOrder)
    BY <1>1, <1>2 DEF TaskFits, OrderOf
  <2> QED
    BY <1>2, <2>1, MutateTaskKeeps
<1>3. CASE \E d \in Deadlines : UpdateTask(t, u, version, d)
  <2> PICK d \in Deadlines : UpdateTask(t, u, version, d)
    BY <1>3
  <2> DEFINE row == [k EXCEPT !.deadline = d, !.review = "draft"]
  <2>1. row \in TaskRows
    BY <1>1, ErrandNumbers DEF TaskRows
  <2>2. /\ row.order = k.order /\ row.runner = k.runner /\ row.requester = k.requester
        /\ row.status = k.status
    BY <1>1 DEF TaskRows
  <2>3. MutateTask(t, row)
    BY DEF UpdateTask, MayUpdateTask
  <2> HIDE DEF row
  <2> QED
    BY <1>2, <2>1, <2>2, <2>3
<1>4. CASE SubmitTaskReview(t, u, version) \/ RevokeTaskReview(t, version)
  <2> DEFINE row == [k EXCEPT !.review = "pending_review"]
  <2>1. row \in TaskRows
    BY <1>1 DEF TaskRows
  <2>2. /\ row.order = k.order /\ row.runner = k.runner /\ row.requester = k.requester
        /\ row.status = k.status
    BY <1>1 DEF TaskRows
  <2>3. MutateTask(t, row)
    BY <1>4 DEF SubmitTaskReview, MaySubmitTaskReview, RevokeTaskReview
  <2> HIDE DEF row
  <2> QED
    BY <1>2, <2>1, <2>2, <2>3
<1>5. CASE \E approved \in BOOLEAN : ReviewTask(t, version, approved)
  <2> PICK approved \in BOOLEAN : ReviewTask(t, version, approved)
    BY <1>5
  <2> DEFINE row == [k EXCEPT !.review = IF approved THEN "approved" ELSE "rejected"]
  <2>1. row \in TaskRows
    BY <1>1 DEF TaskRows
  <2>2. /\ row.order = k.order /\ row.runner = k.runner /\ row.requester = k.requester
        /\ row.status = k.status
    BY <1>1 DEF TaskRows
  <2>3. MutateTask(t, row)
    BY DEF ReviewTask
  <2> HIDE DEF row
  <2> QED
    BY <1>2, <2>1, <2>2, <2>3
<1>6. CASE PickupTask(t, u, version)
  <2> DEFINE row == [k EXCEPT !.status = "picked_up"]
  <2>1. row \in TaskRows
    BY <1>1 DEF TaskRows, TaskStatuses
  <2>2. /\ row.order = k.order /\ row.runner = k.runner /\ row.requester = k.requester
        /\ row.status = "picked_up"
    BY <1>1 DEF TaskRows
  <2>3. MutateTask(t, row) /\ k.status = "accepted"
    BY <1>6 DEF PickupTask, MayMoveOn, Mutable, MutateTask
  <2> HIDE DEF row
  <2> QED
    BY <1>2, <2>1, <2>2, <2>3
<1>7. CASE DeliverTask(t, u, version)
  <2> DEFINE row == [k EXCEPT !.status = "delivered"]
  <2>1. row \in TaskRows
    BY <1>1 DEF TaskRows, TaskStatuses
  <2>2. /\ row.order = k.order /\ row.runner = k.runner /\ row.requester = k.requester
        /\ row.status = "delivered"
    BY <1>1 DEF TaskRows
  <2>3. MutateTask(t, row) /\ k.status = "picked_up"
    BY <1>7 DEF DeliverTask, MayMoveOn, Mutable, MutateTask
  <2> HIDE DEF row
  <2> QED
    BY <1>2, <2>1, <2>2, <2>3
<1> QED
  BY <1>3, <1>4, <1>5, <1>6, <1>7

\* AcceptTask: the open task gets its runner and its order, which is the newest.
LEMMA AcceptTaskKeeps ==
    ASSUME ErrandInv, NEW t \in Posted, NEW version, NEW u \in ErrandUsers, NEW key \in AcceptKeys,
           AcceptTask(t, u, version, key)
    PROVE  ErrandInv'
<1> DEFINE n == Len(errandOrder) + 1
           o == [task |-> t, buyer |-> task[t].requester, seller |-> u,
                 key |-> key, status |-> "confirmed", version |-> 1]
           row == [task[t] EXCEPT !.status = "accepted", !.runner = u, !.order = n, !.version = @ + 1]
<1>1. /\ task[t] \in TaskRows /\ TaskFits(t, task[t], errandOrder) /\ t \in Tasks
      /\ errandOrder \in Seq(ErrandOrders)
  BY DEF ErrandInv, ErrandTypeOK
<1>2. /\ task[t].status = "open" /\ errandOrder' = Append(errandOrder, o) /\ SaveTask(t, row)
      /\ UNCHANGED <<orderCall, errandClock>>
  BY DEF AcceptTask, MayAcceptTask, Mutable
<1>3. Len(errandOrder) \in Nat /\ DOMAIN errandOrder = 1 .. Len(errandOrder)
  BY <1>1, LenProperties
<1>4. o \in ErrandOrders
  BY <1>1 DEF ErrandOrders, TaskRows
<1>5. /\ errandOrder' \in Seq(ErrandOrders)
      /\ DOMAIN errandOrder' = 1 .. n
      /\ \A m \in 1 .. n : errandOrder'[m] = IF m = n THEN o ELSE errandOrder[m]
  BY <1>1, <1>2, <1>3, <1>4, AppendProperties, LenProperties
<1>6. row \in TaskRows
  <2>1. n \in Nat /\ task[t].version + 1 \in Nat /\ "accepted" \in TaskStatuses
    BY <1>1, <1>3 DEF TaskRows, TaskStatuses
  <2> QED
    BY <1>1, <2>1 DEF TaskRows
<1>7. /\ row.order = n /\ row.runner = u /\ row.status = "accepted"
      /\ row.requester = task[t].requester
  BY <1>1 DEF TaskRows
<1>8. n \in Nat /\ n # 0 /\ n \notin DOMAIN errandOrder
  BY <1>3
<1> HIDE DEF row, n
<1>9. Posted' = Posted /\ \A s \in Posted : task'[s] = IF s = t THEN row ELSE task[s]
  BY <1>2, SaveTaskEffect
<1>10. ErrandTypeOK'
  BY <1>2, <1>5, <1>6, <1>9 DEF ErrandInv, ErrandTypeOK
<1>11. \A s \in Posted : TaskFits(s, task'[s], errandOrder')
  <2> SUFFICES ASSUME NEW s \in Posted PROVE TaskFits(s, task'[s], errandOrder')
    OBVIOUS
  <2>1. CASE s = t
    <3>1. n \in DOMAIN errandOrder' /\ errandOrder'[n] = o
      BY <1>5, <1>8
    <3> QED
      BY <1>7, <1>8, <1>9, <2>1, <3>1, ErrandNumbers DEF TaskFits, OrderOf
  <2>2. CASE s # t
    <3>1. TaskFits(s, task[s], errandOrder) /\ task'[s] = task[s]
      BY <1>9, <2>2 DEF ErrandInv
    <3>2. \A m \in DOMAIN errandOrder : m \in DOMAIN errandOrder' /\ errandOrder'[m] = errandOrder[m]
      BY <1>3, <1>5 DEF n
    <3> QED
      BY <3>1, <3>2 DEF TaskFits
  <2> QED
    BY <2>1, <2>2
<1>12. OrdersHaveTasks'
  <2> SUFFICES ASSUME NEW m \in DOMAIN errandOrder'
               PROVE  errandOrder'[m].task \in Posted /\ task'[errandOrder'[m].task].order = m
    BY <1>9 DEF OrdersHaveTasks
  <2>1. CASE m = n
    BY <1>5, <1>7, <1>8, <1>9, <2>1
  <2>2. CASE m # n
    <3>1. m \in DOMAIN errandOrder /\ errandOrder'[m] = errandOrder[m]
      BY <1>3, <1>5, <2>2 DEF n
    <3>2. errandOrder[m].task \in Posted /\ task[errandOrder[m].task].order = m
      BY <3>1 DEF ErrandInv, OrdersHaveTasks
    <3>3. errandOrder[m].task # t
      <4>1. task[t].order = 0
        BY <1>1, <1>2 DEF TaskFits
      <4>2. m # 0
        BY <1>3, <3>1
      <4> QED
        BY <3>2, <4>1, <4>2
    <3> QED
      BY <1>9, <3>1, <3>2, <3>3
  <2> QED
    BY <2>1, <2>2
<1>13. CallsKnowTasks'
  BY <1>2, <1>9 DEF ErrandInv, CallsKnowTasks
<1> QED
  BY <1>9, <1>10, <1>11, <1>12, <1>13 DEF ErrandInv

\* The writes of finish: the task and the order it names are closed together. The
\* order is in its first version, since a task that may be finished was not before.
LEMMA FinishedKeeps ==
    ASSUME ErrandInv, NEW t \in Posted, NEW u, NEW version, NEW target \in {"completed", "cancelled"},
           MayFinish(t, u, version, target), Finished(t, target),
           orderCall' \in [ErrandUsers -> [task : Nat, version : Nat, target : {"none", "completed", "cancelled"}]],
           \A w \in ErrandUsers : orderCall'[w] \in {orderCall[w], NoCall}
    PROVE  ErrandInv'
<1> DEFINE n == task[t].order
           o == errandOrder[n]
           closed == [o EXCEPT !.status = target, !.version = @ + 1]
           row == [task[t] EXCEPT !.status = target, !.version = @ + 1]
<1>1. /\ task[t] \in TaskRows /\ TaskFits(t, task[t], errandOrder) /\ t \in Tasks
      /\ errandOrder \in Seq(ErrandOrders)
  BY DEF ErrandInv, ErrandTypeOK
<1>2. /\ SaveTask(t, row) /\ UNCHANGED errandClock
      /\ errandOrder' = [m \in DOMAIN errandOrder |-> IF m # n THEN errandOrder[m] ELSE closed]
  BY DEF Finished
<1>3. Len(errandOrder) \in Nat /\ DOMAIN errandOrder = 1 .. Len(errandOrder)
  BY <1>1, LenProperties
<1>4. row \in TaskRows
  <2>1. task[t].version + 1 \in Nat /\ target \in TaskStatuses
    BY <1>1 DEF TaskRows, TaskStatuses
  <2> QED
    BY <1>1, <2>1 DEF TaskRows
<1>5. /\ row.order = n /\ row.runner = task[t].runner /\ row.status = target
      /\ row.requester = task[t].requester
  BY <1>1 DEF TaskRows
<1>6. n # 0 => n \in DOMAIN errandOrder /\ o \in ErrandOrders
  BY <1>1, <1>3, ElementOfSeq DEF TaskFits
<1>7. n # 0 => o.status = "confirmed" /\ o.version = 1
  <2>1. task[t].status \in {"open", "accepted", "delivered"}
    BY DEF MayFinish
  <2>2. OrderOf(task[t].status) = <<"confirmed", 1>>
    BY <2>1 DEF OrderOf
  <2> QED
    BY <1>1, <2>2 DEF TaskFits
<1>8. n # 0 => /\ closed \in ErrandOrders /\ closed.status = target /\ closed.version = 2
               /\ closed.buyer = o.buyer /\ closed.seller = o.seller /\ closed.task = o.task
  <2>1. n # 0 => o.version + 1 = 2
    BY <1>7
  <2>2. 2 \in Nat
    OBVIOUS
  <2> QED
    BY <1>6, <2>1, <2>2 DEF ErrandOrders
<1>9. errandOrder' \in Seq(ErrandOrders)
  <2>1. CASE n = 0
    <3>1. errandOrder' = errandOrder
      BY <1>1, <1>2, <1>3, <2>1
    <3> QED
      BY <1>1, <3>1
  <2>2. CASE n # 0
    <3>1. errandOrder' = [errandOrder EXCEPT ![n] = closed]
      BY <1>1, <1>2, <1>3
    <3> HIDE DEF closed, n
    <3> QED
      BY <1>1, <1>3, <1>6, <1>8, <2>2, <3>1, ExceptSeq
  <2> QED
    BY <2>1, <2>2
<1> HIDE DEF row, n, closed
<1>10. /\ DOMAIN errandOrder' = DOMAIN errandOrder
       /\ \A m \in DOMAIN errandOrder : errandOrder'[m] = IF m # n THEN errandOrder[m] ELSE closed
  BY <1>2
<1>11. Posted' = Posted /\ \A s \in Posted : task'[s] = IF s = t THEN row ELSE task[s]
  BY <1>2, SaveTaskEffect
<1>12. ErrandTypeOK'
  BY <1>2, <1>4, <1>9, <1>11 DEF ErrandInv, ErrandTypeOK
<1>13. \A s \in Posted : TaskFits(s, task'[s], errandOrder')
  <2> SUFFICES ASSUME NEW s \in Posted PROVE TaskFits(s, task'[s], errandOrder')
    OBVIOUS
  <2>1. CASE s = t
    <3>0. task'[s] = row
      BY <1>11, <2>1
    <3>1. (row.order = 0) = (row.runner = NoUser) /\ row.status # "open"
      BY <1>1, <1>5 DEF TaskFits, n
    <3>2. row.status \notin {"open", "cancelled"} => row.order # 0
      <4>1. target = "completed" => task[t].status = "delivered"
        BY DEF MayFinish
      <4> QED
        BY <1>1, <1>5, <4>1 DEF TaskFits, n
    <3>3. ASSUME n # 0
          PROVE  /\ n \in DOMAIN errandOrder' /\ errandOrder'[n] = closed
                 /\ closed.buyer = row.requester /\ closed.seller = row.runner /\ closed.task = t
                 /\ <<closed.status, closed.version>> = OrderOf(row.status)
      <4>1. n \in DOMAIN errandOrder' /\ errandOrder'[n] = closed
        BY <1>6, <1>10, <3>3
      <4>2. closed.buyer = row.requester /\ closed.seller = row.runner /\ closed.task = t
        BY <1>1, <1>5, <1>8, <3>3 DEF TaskFits, n
      <4>3. <<closed.status, closed.version>> = OrderOf(row.status)
        BY <1>5, <1>8, <3>3 DEF OrderOf
      <4> QED
        BY <4>1, <4>2, <4>3
    <3> QED
      BY <1>5, <2>1, <3>0, <3>1, <3>2, <3>3 DEF TaskFits
  <2>2. CASE s # t
    <3>1. TaskFits(s, task[s], errandOrder) /\ task'[s] = task[s]
      BY <1>11, <2>2 DEF ErrandInv
    <3>2. task[s].order # 0 => task[s].order # n
      <4>1. task[s].order # 0 => task[s].order \in DOMAIN errandOrder /\ errandOrder[task[s].order].task = s
        BY <3>1 DEF TaskFits
      <4>2. n # 0 => errandOrder[n].task = t
        BY <1>1 DEF TaskFits, n
      <4> QED
        BY <2>2, <4>1, <4>2
    <3> QED
      BY <1>10, <3>1, <3>2 DEF TaskFits
  <2> QED
    BY <2>1, <2>2
<1>14. OrdersHaveTasks'
  <2> SUFFICES ASSUME NEW m \in DOMAIN errandOrder
               PROVE  errandOrder'[m].task \in Posted /\ task'[errandOrder'[m].task].order = m
    BY <1>10, <1>11 DEF OrdersHaveTasks
  <2>1. errandOrder[m].task \in Posted /\ task[errandOrder[m].task].order = m
    BY DEF ErrandInv, OrdersHaveTasks
  <2>2. errandOrder'[m].task = errandOrder[m].task
    <3>1. m # 0
      BY <1>3
    <3> QED
      BY <1>8, <1>10, <3>1
  <2>3. \A s \in Posted : task'[s].order = task[s].order
    BY <1>5, <1>11 DEF n
  <2> QED
    BY <2>1, <2>2, <2>3
<1>15. CallsKnowTasks'
  BY <1>11 DEF ErrandInv, CallsKnowTasks
<1> QED
  BY <1>11, <1>12, <1>13, <1>14, <1>15 DEF ErrandInv

\* Complete and Cancel of a task.
LEMMA FinishTaskKeeps ==
    ASSUME ErrandInv, NEW t \in Posted, NEW u, NEW version, NEW target \in {"completed", "cancelled"},
           FinishTask(t, u, version, target)
    PROVE  ErrandInv'
<1>1. orderCall' = orderCall /\ MayFinish(t, u, version, target) /\ Finished(t, target)
  BY DEF FinishTask
<1>2. orderCall \in [ErrandUsers -> [task : Nat, version : Nat, target : {"none", "completed", "cancelled"}]]
  BY DEF ErrandInv, ErrandTypeOK
<1> QED
  BY <1>1, <1>2, FinishedKeeps

\* CompleteOrder and CancelOrder: what was read without a lock is only a version to
\* compare, so finishing with it is finishing the task.
LEMMA OrderCallKeeps ==
    ASSUME ErrandInv, NEW u \in ErrandUsers,
           \/ \E n \in DOMAIN errandOrder, version \in 1 .. 2, target \in {"completed", "cancelled"} :
                ReadOrder(u, n, version, target)
           \/ FinishOrder(u)
    PROVE  ErrandInv'
<1> DEFINE Call == [task : Nat, version : Nat, target : {"none", "completed", "cancelled"}]
<1>1. orderCall \in [ErrandUsers -> Call] /\ NoCall \in Call
  BY DEF ErrandInv, ErrandTypeOK, NoCall
<1>2. CASE \E n \in DOMAIN errandOrder, version \in 1 .. 2, target \in {"completed", "cancelled"} :
             ReadOrder(u, n, version, target)
  <2> PICK n \in DOMAIN errandOrder, version \in 1 .. 2, target \in {"completed", "cancelled"} :
             ReadOrder(u, n, version, target)
    BY <1>2
  <2> DEFINE t == errandOrder[n].task
             asked == [task |-> t, version |-> task[t].version, target |-> target]
  <2>1. t \in Posted /\ t \in Nat
    BY ErrandNumbers DEF ErrandInv, ErrandTypeOK, OrdersHaveTasks
  <2>2. task[t].version \in Nat
    BY <2>1 DEF ErrandInv, ErrandTypeOK, TaskRows
  <2>3. asked \in Call /\ asked.task \in Posted /\ asked.target \in {"completed", "cancelled"}
    BY <2>1, <2>2
  <2>4. orderCall' = [orderCall EXCEPT ![u] = asked] /\ UNCHANGED <<task, errandOrder, errandClock>>
    BY DEF ReadOrder
  <2>5. Posted' = Posted
    BY <2>4 DEF Posted
  <2> HIDE DEF asked
  <2>6. ErrandTypeOK'
    BY <1>1, <2>3, <2>4, <2>5 DEF ErrandInv, ErrandTypeOK
  <2>7. CallsKnowTasks'
    BY <1>1, <2>3, <2>4, <2>5 DEF ErrandInv, CallsKnowTasks
  <2> QED
    BY <2>4, <2>5, <2>6, <2>7 DEF ErrandInv, OrdersHaveTasks
<1>3. CASE FinishOrder(u)
  <2> DEFINE asked == orderCall[u]
  <2>1. /\ asked # NoCall /\ orderCall' = [orderCall EXCEPT ![u] = NoCall]
        /\ IF MayFinish(asked.task, u, asked.version, asked.target)
           THEN Finished(asked.task, asked.target)
           ELSE UNCHANGED <<task, errandOrder, errandClock>>
    BY <1>3 DEF FinishOrder
  <2>2. asked.task \in Posted /\ asked.target \in {"completed", "cancelled"}
    BY <2>1 DEF ErrandInv, CallsKnowTasks
  <2>3. /\ orderCall' \in [ErrandUsers -> Call]
        /\ \A w \in ErrandUsers : orderCall'[w] \in {orderCall[w], NoCall}
    BY <1>1, <2>1
  <2>4. CASE MayFinish(asked.task, u, asked.version, asked.target)
    BY <2>1, <2>2, <2>3, <2>4, FinishedKeeps
  <2>5. CASE ~MayFinish(asked.task, u, asked.version, asked.target)
    <3>1. UNCHANGED <<task, errandOrder, errandClock>>
      BY <2>1, <2>5
    <3>2. Posted' = Posted
      BY <3>1 DEF Posted
    <3>3. ErrandTypeOK' /\ CallsKnowTasks'
      BY <2>3, <3>1, <3>2 DEF ErrandInv, ErrandTypeOK, CallsKnowTasks
    <3> QED
      BY <3>1, <3>2, <3>3 DEF ErrandInv, OrdersHaveTasks
  <2> QED
    BY <2>4, <2>5
<1> QED
  BY <1>2, <1>3

\* Every step of the service keeps the invariant.
LEMMA ErrandStep == ErrandInv /\ [ErrandNext]_errandVars => ErrandInv'
<1> SUFFICES ASSUME ErrandInv, [ErrandNext]_errandVars PROVE ErrandInv'
  OBVIOUS
<1>1. ASSUME NEW t \in Tasks, NEW u \in Requesters, NEW d \in Deadlines, CreateTask(t, u, d)
      PROVE  ErrandInv'
  BY <1>1, CreateTaskKeeps
<1>2. ASSUME NEW t \in Posted, NEW version, NEW u \in ErrandUsers,
             \/ \E d \in Deadlines : UpdateTask(t, u, version, d)
             \/ SubmitTaskReview(t, u, version)
             \/ PickupTask(t, u, version)
             \/ DeliverTask(t, u, version)
      PROVE  ErrandInv'
  BY <1>2, ProgressKeeps
<1>3. ASSUME NEW t \in Posted, NEW version, NEW u \in ErrandUsers,
             \/ \E key \in AcceptKeys : AcceptTask(t, u, version, key)
             \/ \E target \in {"completed", "cancelled"} : FinishTask(t, u, version, target)
      PROVE  ErrandInv'
  BY <1>3, AcceptTaskKeeps, FinishTaskKeeps
<1>4. ASSUME NEW t \in Posted, NEW version,
             (\E approved \in BOOLEAN : ReviewTask(t, version, approved)) \/ RevokeTaskReview(t, version)
      PROVE  ErrandInv'
  <2>1. task[t].requester \in ErrandUsers
    BY DEF ErrandInv, ErrandTypeOK, TaskRows
  <2> QED
    BY <1>4, <2>1, ProgressKeeps
<1>5. ASSUME NEW u \in ErrandUsers,
             \/ \E n \in DOMAIN errandOrder, version \in 1 .. 2, target \in {"completed", "cancelled"} :
                  ReadOrder(u, n, version, target)
             \/ FinishOrder(u)
      PROVE  ErrandInv'
  BY <1>5, OrderCallKeeps
<1>6. CASE ErrandTick
  <2>1. errandClock' \in 0 .. MaxErrandClock
    BY <1>6, ErrandNumbers DEF ErrandTick, ErrandInv, ErrandTypeOK
  <2> QED
    BY <1>6, <2>1 DEF ErrandTick, ErrandInv, ErrandTypeOK, Posted, OrdersHaveTasks, CallsKnowTasks
<1>7. CASE UNCHANGED errandVars
  BY <1>7 DEF errandVars, ErrandInv, ErrandTypeOK, Posted, OrdersHaveTasks, CallsKnowTasks
<1> QED
  BY <1>1, <1>2, <1>3, <1>4, <1>5, <1>6, <1>7 DEF ErrandNext

\* The invariant holds in every reachable state.
LEMMA ErrandInvariant == ErrandSpec => []ErrandInv
BY ErrandInitInv, ErrandStep, PTL DEF ErrandSpec

\* Tasks, orders and half-done requests have their types in every state.
THEOREM ErrandTypeCorrect == ErrandSpec => []ErrandTypeOK
<1>1. ErrandInv => ErrandTypeOK
  BY DEF ErrandInv
<1> QED
  BY <1>1, ErrandInvariant, PTL

\* Task and trade order always agree: one order per accepted task, between its
\* requester and its runner, closed once and with the task, whichever of the two a
\* request names (Accept, finish, CompleteOrder and CancelOrder).
THEOREM TaskAndOrderAreOne == ErrandSpec => []TaskAndOrderAgree
<1>1. ErrandInv => TaskAndOrderAgree
  BY DEF ErrandInv, TaskAndOrderAgree, TaskFits, OrdersHaveTasks
<1> QED
  BY <1>1, ErrandInvariant, PTL
-----------------------------------------------------------------------------
(* Campus circle: the locks a post is written under.                        *)

\* The steps of a transaction that writes a post.
PostSteps == {"start", "section", "root", "write"}

\* The rows of the two tables have their types.
CircleRowsTyped ==
    /\ Opened \subseteq Sections /\ \A s \in Opened : section[s] \in SectionRows
    /\ Published \subseteq Posts /\ \A p \in Published : post[p] \in PostRows

CircleCallRows ==
    [op : PostOps \cup {"none", "activate"}, post : Posts \cup {0}, section : Sections \cup {0},
     version : Nat, author : Authors \cup {0}, at : PostSteps \cup {"done", "activate"}]

\* So have the transactions under way and the lock table, and no row is locked for
\* update by two transactions.
CircleLocksTyped ==
    /\ call \in [CircleCalls -> CircleCallRows]
    /\ shared \in [Sections -> SUBSET CircleCalls]
    /\ sectionLock \in [Sections -> SUBSET CircleCalls]
    /\ \A s \in Sections : \A k, j \in sectionLock[s] : k = j

CircleTyped == CircleRowsTyped /\ CircleLocksTyped

\* The root of a section has a row.
RootsOpened == \A s \in Opened : section[s].parent \in {0} \cup Opened

\* A transaction works on rows that exist. Once it has passed the section it still
\* shares that row, and once it has passed the root it shares both rows and both
\* are as it found them.
HoldsItsRows(k) ==
    /\ call[k].at \in PostSteps =>
          /\ call[k].post \in Posts /\ call[k].author \in Authors /\ call[k].section \in Opened
          /\ call[k].op # "create_post" => call[k].post \in Published
    /\ call[k].at = "activate" => call[k].section \in Opened
    /\ call[k].at \in {"root", "write"} =>
          section[call[k].section].parent # 0 /\ k \in shared[call[k].section]
    /\ call[k].at = "write" =>
          CanAcceptPosts(call[k].section) /\ k \in shared[section[call[k].section].parent]

\* Inductive.
CircleInv == CircleTyped /\ RootsOpened /\ \A k \in CircleCalls : HoldsItsRows(k)

LEMMA CircleNumbers ==
    /\ Sections \subseteq Nat \ {0}
    /\ MaxPostVersion \in Nat /\ MaxSectionVersion \in Nat
BY CampusCircleAssumption

LEMMA CircleInitInv == CircleInit => CircleInv
<1> SUFFICES ASSUME CircleInit
             PROVE  CircleInv
  OBVIOUS
<1> USE DEF CircleInit
<1>1. CircleRowsTyped
  BY DEF CircleRowsTyped, Opened, Published
<1>2. NoTransaction \in CircleCallRows
  BY DEF CircleCallRows, NoTransaction
<1>3. CircleLocksTyped
  BY <1>2 DEF CircleLocksTyped
<1>4. RootsOpened
  BY DEF RootsOpened, Opened
<1>5. \A k \in CircleCalls : HoldsItsRows(k)
  BY DEF HoldsItsRows, NoTransaction, PostSteps
<1> QED
  BY <1>1, <1>3, <1>4, <1>5 DEF CircleInv, CircleTyped

\* A transaction that a step leaves alone keeps its rows when the step gives back
\* none of its locks, removes no row, moves no section to another root and
\* archives no section the transaction shares.
LEMMA OthersKeepRows ==
    ASSUME CircleInv, NEW k \in CircleCalls, call'[k] = call[k],
           \A s \in Sections : k \in shared[s] => k \in shared'[s],
           Published \subseteq DOMAIN post', Opened \subseteq DOMAIN section',
           \A s \in Opened : section'[s].parent = section[s].parent,
           \A s \in Opened : section[s].status = "active" /\ k \in shared[s]
                                => section'[s].status = "active"
    PROVE  HoldsItsRows(k)'
<1>1. HoldsItsRows(k) /\ CircleTyped /\ RootsOpened
  BY DEF CircleInv
<1>2. call[k].at \in PostSteps =>
          /\ call[k].post \in Posts /\ call[k].author \in Authors /\ call[k].section \in DOMAIN section'
          /\ call[k].op # "create_post" => call[k].post \in DOMAIN post'
  BY <1>1 DEF HoldsItsRows
<1>3. call[k].at = "activate" => call[k].section \in DOMAIN section'
  BY <1>1 DEF HoldsItsRows
<1>4. ASSUME call[k].at \in {"root", "write"}
      PROVE  section'[call[k].section].parent # 0 /\ k \in shared'[call[k].section]
  <2>1. call[k].section \in Opened /\ call[k].section \in Sections
    BY <1>1, <1>4 DEF HoldsItsRows, PostSteps, CircleTyped, CircleRowsTyped
  <2> QED
    BY <1>1, <1>4, <2>1 DEF HoldsItsRows
<1>5. ASSUME call[k].at = "write"
      PROVE  CanAcceptPosts(call[k].section)' /\ k \in shared'[section'[call[k].section].parent]
  <2>1. PICK s \in Opened : s = call[k].section
    BY <1>1, <1>5 DEF HoldsItsRows, PostSteps
  <2>2. /\ section[s].parent \in Opened /\ section[s].parent # 0
        /\ s \in Sections /\ section[s].parent \in Sections
    BY <1>1, <1>5, <2>1 DEF HoldsItsRows, RootsOpened, CircleTyped, CircleRowsTyped
  <2>3. CanAcceptPosts(s) /\ k \in shared[s] /\ k \in shared[section[s].parent]
    BY <1>1, <1>5, <2>1 DEF HoldsItsRows
  <2>4. CanAcceptPosts(s)'
    BY <2>2, <2>3 DEF CanAcceptPosts, Opened
  <2>5. k \in shared'[section'[s].parent]
    BY <2>2, <2>3
  <2> QED
    BY <2>1, <2>4, <2>5
<1> QED
  BY <1>2, <1>3, <1>4, <1>5 DEF HoldsItsRows, Opened, Published

\* The end of a transaction gives back its own locks and nobody else's.
LEMMA EndCallKeeps ==
    ASSUME CircleInv, NEW k \in CircleCalls, EndCall(k),
           Published \subseteq DOMAIN post', Opened \subseteq DOMAIN section',
           \A s \in Opened : section'[s].parent = section[s].parent,
           \A s \in Opened : section[s].status = "active" => section'[s].status = "active"
    PROVE  CircleLocksTyped' /\ \A j \in CircleCalls : HoldsItsRows(j)'
<1>1. CircleLocksTyped
  BY DEF CircleInv, CircleTyped
<1>2. NoTransaction \in CircleCallRows
  BY DEF CircleCallRows, NoTransaction
<1>3. CircleLocksTyped'
  BY <1>1, <1>2 DEF CircleLocksTyped, EndCall
<1>4. HoldsItsRows(k)'
  <2>1. call'[k] = NoTransaction
    BY <1>1 DEF CircleLocksTyped, EndCall
  <2>2. call'[k].at = "done"
    BY <2>1 DEF NoTransaction
  <2> QED
    BY <2>2 DEF HoldsItsRows, PostSteps
<1>5. ASSUME NEW j \in CircleCalls, j # k
      PROVE  HoldsItsRows(j)'
  <2>1. call'[j] = call[j]
    BY <1>1, <1>5 DEF CircleLocksTyped, EndCall
  <2>2. \A s \in Sections : j \in shared[s] => j \in shared'[s]
    BY <1>5 DEF EndCall
  <2> QED
    BY <2>1, <2>2, OthersKeepRows
<1> QED
  BY <1>3, <1>4, <1>5

\* A transaction goes one step further and takes at most one more SHARE lock; the
\* rows stay.
LEMMA AdvanceKeeps ==
    ASSUME CircleInv, NEW k \in CircleCalls, NEW at \in PostSteps,
           call' = [call EXCEPT ![k].at = at],
           shared' \in [Sections -> SUBSET CircleCalls],
           \A s \in Sections : shared[s] \subseteq shared'[s],
           UNCHANGED <<section, post, sectionLock>>
    PROVE  /\ CircleLocksTyped'
           /\ \A j \in CircleCalls : j # k => HoldsItsRows(j)'
           /\ call'[k] = [call[k] EXCEPT !.at = at]
<1>1. CircleLocksTyped
  BY DEF CircleInv, CircleTyped
<1>2. call[k] \in CircleCallRows /\ call'[k] = [call[k] EXCEPT !.at = at]
  BY <1>1 DEF CircleLocksTyped
<1>3. call'[k] \in CircleCallRows
  BY <1>2 DEF CircleCallRows
<1>4. call' = [call EXCEPT ![k] = call'[k]]
  BY <1>1, <1>2 DEF CircleLocksTyped
<1>5. call' \in [CircleCalls -> CircleCallRows]
  BY <1>1, <1>3, <1>4 DEF CircleLocksTyped
<1>6. CircleLocksTyped'
  BY <1>1, <1>5 DEF CircleLocksTyped
<1>7. ASSUME NEW j \in CircleCalls, j # k
      PROVE  HoldsItsRows(j)'
  <2>1. call'[j] = call[j]
    BY <1>1, <1>4, <1>7 DEF CircleLocksTyped
  <2> QED
    BY <2>1, OthersKeepRows DEF Opened, Published
<1> QED
  BY <1>2, <1>6, <1>7

\* A transaction that begins holds no SHARE lock yet.
LEMMA BeginKeeps ==
    ASSUME CircleInv, NEW k \in CircleCalls, NEW c \in CircleCallRows,
           call' = [call EXCEPT ![k] = c], c.at \in {"start", "activate"},
           c.section \in Opened,
           c.at = "start" => /\ c.post \in Posts /\ c.author \in Authors
                             /\ c.op # "create_post" => c.post \in Published,
           UNCHANGED <<section, post, shared>>
    PROVE  \A j \in CircleCalls : call'[j] \in CircleCallRows /\ HoldsItsRows(j)'
<1>1. CircleLocksTyped
  BY DEF CircleInv, CircleTyped
<1>2. call'[k] = c
  BY <1>1 DEF CircleLocksTyped
<1>3. HoldsItsRows(k)'
  BY <1>2 DEF HoldsItsRows, PostSteps, Opened, Published
<1>4. ASSUME NEW j \in CircleCalls, j # k
      PROVE  call'[j] \in CircleCallRows /\ HoldsItsRows(j)'
  <2>1. call'[j] = call[j]
    BY <1>1, <1>4 DEF CircleLocksTyped
  <2>2. HoldsItsRows(j)'
    BY <2>1, OthersKeepRows DEF Opened, Published
  <2> QED
    BY <1>1, <2>1, <2>2 DEF CircleLocksTyped
<1> QED
  BY <1>2, <1>3, <1>4

\* The tables are as they were.
LEMMA RowsStay ==
    ASSUME CircleInv, UNCHANGED <<section, post>>
    PROVE  CircleRowsTyped' /\ RootsOpened'
BY DEF CircleInv, CircleTyped, CircleRowsTyped, RootsOpened, Opened, Published

LEMMA BeginPostKeeps ==
    ASSUME CircleInv, NEW k \in CircleCalls, NEW op \in PostOps, NEW p \in Posts, NEW s \in Opened,
           NEW u \in Authors, BeginPost(k, op, p, s, u)
    PROVE  CircleInv'
<1> PICK version : version = IF p \in Published THEN post[p].version ELSE 0
  OBVIOUS
<1> DEFINE c == [op |-> op, post |-> p, section |-> s, author |-> u, version |-> version, at |-> "start"]
<1>1. CircleTyped /\ version \in Nat /\ s \in Sections
  BY DEF CircleInv, CircleTyped, CircleRowsTyped, PostRows
<1>2. c \in CircleCallRows
  BY <1>1 DEF CircleCallRows, PostSteps
<1>3. call' = [call EXCEPT ![k] = c] /\ UNCHANGED <<section, post, shared, sectionLock>>
  BY DEF BeginPost
<1>4. /\ c.at = "start" /\ c.section = s /\ c.post = p /\ c.author = u
      /\ c.op # "create_post" => p \in Published
  BY DEF BeginPost
<1> HIDE DEF c
<1>5. \A j \in CircleCalls : call'[j] \in CircleCallRows /\ HoldsItsRows(j)'
  BY <1>2, <1>3, <1>4, BeginKeeps
<1>6. CircleLocksTyped'
  BY <1>1, <1>2, <1>3 DEF CircleTyped, CircleLocksTyped
<1> QED
  BY <1>3, <1>5, <1>6, RowsStay DEF CircleInv, CircleTyped

LEMMA BeginActivateKeeps ==
    ASSUME CircleInv, NEW k \in CircleCalls, NEW s \in Opened, BeginActivate(k, s)
    PROVE  CircleInv'
<1> PICK c : c = [NoTransaction EXCEPT !.op = "activate", !.section = s, !.at = "activate"]
  OBVIOUS
<1>1. CircleTyped /\ s \in Sections
  BY DEF CircleInv, CircleTyped, CircleRowsTyped
<1>2. c \in CircleCallRows /\ c.at = "activate" /\ c.section = s
  BY <1>1 DEF CircleCallRows, NoTransaction
<1>3. /\ call' = [call EXCEPT ![k] = c] /\ UNCHANGED <<section, post, shared>>
      /\ sectionLock' = [sectionLock EXCEPT ![s] = {k}]
  BY DEF BeginActivate
<1>4. \A j \in CircleCalls : call'[j] \in CircleCallRows /\ HoldsItsRows(j)'
  BY <1>2, <1>3, BeginKeeps
<1>5. sectionLock' \in [Sections -> SUBSET CircleCalls]
  BY <1>1, <1>3 DEF CircleTyped, CircleLocksTyped
<1>6. \A t \in Sections : \A i, j \in sectionLock'[t] : i = j
  BY <1>1, <1>3 DEF CircleTyped, CircleLocksTyped
<1>7. CircleLocksTyped'
  BY <1>1, <1>2, <1>3, <1>5, <1>6 DEF CircleTyped, CircleLocksTyped
<1> QED
  BY <1>3, <1>4, <1>7, RowsStay DEF CircleInv, CircleTyped

\* A transaction that is refused ends and writes nothing.
LEMMA RefusedKeeps ==
    ASSUME CircleInv, NEW k \in CircleCalls, EndCall(k), UNCHANGED <<section, post>>
    PROVE  CircleInv'
<1>1. CircleLocksTyped' /\ \A j \in CircleCalls : HoldsItsRows(j)'
  BY EndCallKeeps DEF Opened, Published
<1> QED
  BY <1>1, RowsStay DEF CircleInv, CircleTyped

LEMMA LockPostKeeps ==
    ASSUME CircleInv, NEW k \in CircleCalls, LockPost(k)
    PROVE  CircleInv'
<1>1. UNCHANGED <<section, post>>
  BY DEF LockPost
<1>2. CASE EndCall(k)
  BY <1>1, <1>2, RefusedKeeps
<1>3. CASE call' = [call EXCEPT ![k].at = "section"] /\ UNCHANGED <<shared, sectionLock>>
  <2>1. "section" \in PostSteps /\ "start" \in PostSteps
    BY DEF PostSteps
  <2>2. CircleLocksTyped /\ HoldsItsRows(k)
    BY DEF CircleInv, CircleTyped
  <2>3. /\ CircleLocksTyped'
        /\ \A j \in CircleCalls : j # k => HoldsItsRows(j)'
        /\ call'[k] = [call[k] EXCEPT !.at = "section"]
    BY <1>1, <1>3, <2>1, <2>2, AdvanceKeeps DEF CircleLocksTyped
  <2>4. /\ call'[k].at = "section" /\ call'[k].post = call[k].post /\ call'[k].op = call[k].op
        /\ call'[k].author = call[k].author /\ call'[k].section = call[k].section
    BY <2>2, <2>3 DEF CircleLocksTyped, CircleCallRows
  <2>5. call[k].at = "start"
    BY DEF LockPost
  <2>6. HoldsItsRows(k)'
    BY <1>1, <2>1, <2>2, <2>4, <2>5 DEF HoldsItsRows, Opened, Published
  <2> QED
    BY <1>1, <2>3, <2>6, RowsStay DEF CircleInv, CircleTyped
<1> QED
  BY <1>2, <1>3 DEF LockPost

\* A transaction has shared a row.
LEMMA ShareTyped ==
    ASSUME CircleInv, NEW k \in CircleCalls, NEW s \in Sections, Share(k, s)
    PROVE  /\ shared' \in [Sections -> SUBSET CircleCalls]
           /\ \A t \in Sections : shared[t] \subseteq shared'[t]
           /\ k \in shared'[s]
BY DEF CircleInv, CircleTyped, CircleLocksTyped, Share

LEMMA ShareSectionKeeps ==
    ASSUME CircleInv, NEW k \in CircleCalls, ShareSection(k)
    PROVE  CircleInv'
<1>1. UNCHANGED <<section, post>> /\ call[k].at = "section"
  BY DEF ShareSection
<1>2. CASE EndCall(k)
  BY <1>1, <1>2, RefusedKeeps
<1>3. CASE /\ section[call[k].section].parent # 0 /\ Share(k, call[k].section)
           /\ call' = [call EXCEPT ![k].at = "root"] /\ UNCHANGED sectionLock
  <2>1. "root" \in PostSteps /\ "section" \in PostSteps
    BY DEF PostSteps
  <2>2. CircleLocksTyped /\ CircleRowsTyped /\ HoldsItsRows(k)
    BY DEF CircleInv, CircleTyped
  <2>3. call[k].section \in Opened /\ call[k].section \in Sections
    BY <1>1, <2>1, <2>2 DEF HoldsItsRows, CircleRowsTyped
  <2>4. /\ shared' \in [Sections -> SUBSET CircleCalls]
        /\ \A t \in Sections : shared[t] \subseteq shared'[t]
        /\ k \in shared'[call[k].section]
    BY <1>3, <2>3, ShareTyped
  <2>5. /\ CircleLocksTyped'
        /\ \A j \in CircleCalls : j # k => HoldsItsRows(j)'
        /\ call'[k] = [call[k] EXCEPT !.at = "root"]
    BY <1>1, <1>3, <2>1, <2>4, AdvanceKeeps
  <2>6. /\ call'[k].at = "root" /\ call'[k].post = call[k].post /\ call'[k].op = call[k].op
        /\ call'[k].author = call[k].author /\ call'[k].section = call[k].section
    BY <2>2, <2>5 DEF CircleLocksTyped, CircleCallRows
  <2>7. HoldsItsRows(k)'
    BY <1>1, <1>3, <2>1, <2>2, <2>4, <2>6 DEF HoldsItsRows, Opened, Published
  <2> QED
    BY <1>1, <2>5, <2>7, RowsStay DEF CircleInv, CircleTyped
<1> QED
  BY <1>2, <1>3 DEF ShareSection

LEMMA ShareRootKeeps ==
    ASSUME CircleInv, NEW k \in CircleCalls, ShareRoot(k)
    PROVE  CircleInv'
<1> PICK root : root = section[call[k].section].parent
  OBVIOUS
<1>1. UNCHANGED <<section, post>> /\ call[k].at = "root"
  BY DEF ShareRoot
<1>2. CASE EndCall(k)
  BY <1>1, <1>2, RefusedKeeps
<1>3. CASE /\ CanAcceptPosts(call[k].section) /\ Share(k, root)
           /\ call' = [call EXCEPT ![k].at = "write"] /\ UNCHANGED sectionLock
  <2>1. "root" \in PostSteps /\ "write" \in PostSteps
    BY DEF PostSteps
  <2>2. CircleLocksTyped /\ CircleRowsTyped /\ RootsOpened /\ HoldsItsRows(k)
    BY DEF CircleInv, CircleTyped
  <2>3. call[k].section \in Opened /\ call[k].section \in Sections /\ k \in shared[call[k].section]
    BY <1>1, <2>1, <2>2 DEF HoldsItsRows, CircleRowsTyped
  <2>4. root # 0 /\ root \in Sections
    BY <1>1, <2>2, <2>3 DEF HoldsItsRows, RootsOpened, CircleRowsTyped
  <2>5. /\ shared' \in [Sections -> SUBSET CircleCalls]
        /\ \A t \in Sections : shared[t] \subseteq shared'[t]
        /\ k \in shared'[root]
    BY <1>3, <2>4, ShareTyped
  <2>6. /\ CircleLocksTyped'
        /\ \A j \in CircleCalls : j # k => HoldsItsRows(j)'
        /\ call'[k] = [call[k] EXCEPT !.at = "write"]
    BY <1>1, <1>3, <2>1, <2>5, AdvanceKeeps
  <2>7. /\ call'[k].at = "write" /\ call'[k].post = call[k].post /\ call'[k].op = call[k].op
        /\ call'[k].author = call[k].author /\ call'[k].section = call[k].section
    BY <2>2, <2>6 DEF CircleLocksTyped, CircleCallRows
  <2>8. CanAcceptPosts(call[k].section)'
    <3>1. PICK s \in Opened : s = call[k].section
      BY <2>3
    <3>2. CanAcceptPosts(s)'
      BY <1>1, <1>3, <3>1 DEF CanAcceptPosts, Opened
    <3> QED
      BY <2>7, <3>1, <3>2
  <2>9. HoldsItsRows(k)'
    BY <1>1, <2>1, <2>2, <2>3, <2>4, <2>5, <2>7, <2>8 DEF HoldsItsRows, Opened, Published
  <2> QED
    BY <1>1, <2>6, <2>9, RowsStay DEF CircleInv, CircleTyped
<1> QED
  BY <1>2, <1>3 DEF ShareRoot

LEMMA WritePostKeeps ==
    ASSUME CircleInv, NEW k \in CircleCalls, WritePost(k)
    PROVE  CircleInv'
<1>1. CircleRowsTyped /\ CircleLocksTyped /\ HoldsItsRows(k) /\ call[k].at = "write"
  BY DEF CircleInv, CircleTyped, WritePost
<1>2. /\ call[k].post \in Posts /\ call[k].author \in Authors
      /\ call[k].section \in Opened /\ call[k].section \in Sections
      /\ call[k].op # "create_post" => call[k].post \in Published
  BY <1>1 DEF HoldsItsRows, PostSteps, CircleRowsTyped
<1>3. PostWritten(call[k]) \in PostRows
  <2>1. CASE call[k].op = "create_post"
    BY <1>2, <2>1 DEF PostWritten, PostRows
  <2>2. CASE call[k].op # "create_post"
    <3>1. post[call[k].post] \in PostRows
      BY <1>1, <1>2, <2>2 DEF CircleRowsTyped
    <3>2. PICK version, status : /\ version = post[call[k].post].version + 1
                                  /\ status = IF call[k].op = "approve" THEN "approved" ELSE "pending_review"
      OBVIOUS
    <3>3. version \in Nat /\ status \in {"approved", "pending_review"}
      BY <3>1, <3>2 DEF PostRows
    <3>4. PostWritten(call[k]) = [post[call[k].post] EXCEPT !.section = call[k].section, !.version = version,
                                                           !.status = status]
      BY <2>2, <3>1, <3>2 DEF PostWritten, PostRows
    <3> QED
      BY <1>2, <3>1, <3>3, <3>4 DEF PostRows
  <2> QED
    BY <2>1, <2>2
<1>4. /\ EndCall(k) /\ UNCHANGED section
      /\ post' = [p \in Published \cup {call[k].post} |->
                     IF p = call[k].post THEN PostWritten(call[k]) ELSE post[p]]
  BY DEF WritePost
<1>5. CircleRowsTyped'
  BY <1>1, <1>2, <1>3, <1>4 DEF CircleRowsTyped, Opened, Published
<1>6. CircleLocksTyped' /\ \A j \in CircleCalls : HoldsItsRows(j)'
  BY <1>4, EndCallKeeps DEF Opened
<1>7. RootsOpened'
  BY <1>4 DEF CircleInv, RootsOpened, Opened
<1> QED
  BY <1>5, <1>6, <1>7 DEF CircleInv, CircleTyped

\* A step that changes rows of posts only, and creates none.
LEMMA PostRowKeeps ==
    ASSUME CircleInv, NEW p \in Published, NEW row \in PostRows, post' = [post EXCEPT ![p] = row],
           UNCHANGED <<section, call, shared, sectionLock>>
    PROVE  CircleInv'
<1>1. CircleRowsTyped'
  BY DEF CircleInv, CircleTyped, CircleRowsTyped, Opened, Published
<1>2. CircleLocksTyped' /\ RootsOpened'
  BY DEF CircleInv, CircleTyped, CircleLocksTyped, RootsOpened, Opened
<1>3. ASSUME NEW k \in CircleCalls
      PROVE  HoldsItsRows(k)'
  BY OthersKeepRows DEF Opened, Published
<1> QED
  BY <1>1, <1>2, <1>3 DEF CircleInv, CircleTyped

LEMMA SettlePostKeeps ==
    ASSUME CircleInv, NEW p \in Published, NEW version \in 1 .. MaxPostVersion,
           NEW status \in {"pending_review", "rejected", "withdrawn"}, SettlePost(p, version, status)
    PROVE  CircleInv'
<1> PICK next : next = post[p].version + 1
  OBVIOUS
<1> PICK row : row = [post[p] EXCEPT !.status = status, !.version = next]
  OBVIOUS
<1>1. post[p] \in PostRows /\ next \in Nat
  BY DEF CircleInv, CircleTyped, CircleRowsTyped, PostRows
<1>2. row \in PostRows
  BY <1>1 DEF PostRows
<1>3. post' = [post EXCEPT ![p] = row] /\ UNCHANGED <<section, call, shared, sectionLock>>
  BY <1>1 DEF SettlePost, PostRows, Published
<1> QED
  BY <1>2, <1>3, PostRowKeeps

LEMMA LikePostKeeps ==
    ASSUME CircleInv, NEW p \in Published, NEW u \in Authors, NEW liked \in BOOLEAN,
           LikePost(p, u, liked)
    PROVE  CircleInv'
<1> PICK likes : likes = IF liked THEN post[p].likes \cup {u} ELSE post[p].likes \ {u}
  OBVIOUS
<1> PICK row : row = [post[p] EXCEPT !.likes = likes]
  OBVIOUS
<1>1. post[p] \in PostRows
  BY DEF CircleInv, CircleTyped, CircleRowsTyped
<1>2. likes \in SUBSET Authors
  BY <1>1 DEF PostRows
<1>3. row \in PostRows
  BY <1>1, <1>2 DEF PostRows
<1>4. post' = [post EXCEPT ![p] = row] /\ UNCHANGED <<section, call, shared, sectionLock>>
  BY <1>1 DEF LikePost, PostRows, Published
<1> QED
  BY <1>3, <1>4, PostRowKeeps

LEMMA CreateSectionKeeps ==
    ASSUME CircleInv, NEW s \in Sections, NEW parent \in {0} \cup Opened, CreateSection(s, parent)
    PROVE  CircleInv'
<1> PICK row : row = [parent |-> parent, status |-> "active", version |-> 1]
  OBVIOUS
<1>1. CircleRowsTyped /\ RootsOpened /\ CircleLocksTyped
  BY DEF CircleInv, CircleTyped
<1>2. row \in SectionRows /\ row.parent = parent
  BY <1>1, CircleNumbers DEF SectionRows, CircleRowsTyped
<1>3. /\ section' = [t \in Opened \cup {s} |-> IF t = s THEN row ELSE section[t]]
      /\ s \notin Opened /\ UNCHANGED <<post, call, shared, sectionLock>>
  BY DEF CreateSection
<1>4. DOMAIN section' = Opened \cup {s} /\ \A t \in Opened : section'[t] = section[t]
  BY <1>3
<1>5. CircleRowsTyped'
  BY <1>1, <1>2, <1>3 DEF CircleRowsTyped, Opened, Published
<1>6. RootsOpened'
  BY <1>1, <1>2, <1>3 DEF RootsOpened, Opened
<1>7. ASSUME NEW k \in CircleCalls
      PROVE  HoldsItsRows(k)'
  BY <1>3, <1>4, OthersKeepRows DEF Published
<1>8. CircleLocksTyped'
  BY <1>1, <1>3 DEF CircleLocksTyped
<1> QED
  BY <1>5, <1>6, <1>7, <1>8 DEF CircleInv, CircleTyped

\* A section is saved with a status and its next version.
LEMMA SectionRowSaved ==
    ASSUME CircleInv, NEW s \in Opened, NEW status \in {"active", "archived"},
           section' = [section EXCEPT ![s].status = status, ![s].version = @ + 1], UNCHANGED post
    PROVE  /\ CircleRowsTyped' /\ RootsOpened' /\ DOMAIN section' = Opened
           /\ \A t \in Opened : section'[t].parent = section[t].parent
           /\ \A t \in Opened : t # s => section'[t] = section[t]
           /\ section'[s].status = status
<1> PICK next : next = section[s].version + 1
  OBVIOUS
<1> PICK row : row = [section[s] EXCEPT !.status = status, !.version = next]
  OBVIOUS
<1>1. CircleRowsTyped /\ RootsOpened /\ section[s] \in SectionRows /\ next \in Nat
  BY DEF CircleInv, CircleTyped, CircleRowsTyped, SectionRows
<1>2. row \in SectionRows /\ row.parent = section[s].parent /\ row.status = status
  BY <1>1 DEF SectionRows
<1>3. section' = [section EXCEPT ![s] = row]
  BY <1>1 DEF SectionRows, Opened
<1>4. /\ DOMAIN section' = Opened /\ section'[s] = row
      /\ \A t \in Opened : t # s => section'[t] = section[t]
  BY <1>3 DEF Opened
<1>5. CircleRowsTyped'
  BY <1>1, <1>2, <1>4 DEF CircleRowsTyped, Opened, Published
<1>6. \A t \in Opened : section'[t].parent = section[t].parent
  BY <1>2, <1>4
<1>7. RootsOpened'
  BY <1>1, <1>4, <1>6 DEF RootsOpened, Opened
<1> QED
  BY <1>2, <1>4, <1>5, <1>6, <1>7

LEMMA SaveSectionKeeps ==
    ASSUME CircleInv, NEW s \in Opened, NEW version, NEW status \in {"active", "archived"},
           SaveSection(s, version, status)
    PROVE  CircleInv'
<1>1. /\ section' = [section EXCEPT ![s].status = status, ![s].version = @ + 1]
      /\ UNCHANGED <<post, call, shared, sectionLock>> /\ shared[s] = {}
  BY DEF SaveSection
<1>2. /\ CircleRowsTyped' /\ RootsOpened' /\ DOMAIN section' = Opened
      /\ \A t \in Opened : section'[t].parent = section[t].parent
      /\ \A t \in Opened : t # s => section'[t] = section[t]
  BY <1>1, SectionRowSaved
<1>3. ASSUME NEW k \in CircleCalls
      PROVE  HoldsItsRows(k)'
  <2>1. \A t \in Opened : k \in shared[t] => section'[t] = section[t]
    BY <1>1, <1>2
  <2> QED
    BY <1>1, <1>2, <2>1, OthersKeepRows DEF Published
<1>4. CircleLocksTyped'
  BY <1>1 DEF CircleInv, CircleTyped, CircleLocksTyped
<1> QED
  BY <1>2, <1>3, <1>4 DEF CircleInv, CircleTyped

LEMMA ActivateKeeps ==
    ASSUME CircleInv, NEW k \in CircleCalls, Activate(k)
    PROVE  CircleInv'
<1> PICK s : s = call[k].section
  OBVIOUS
<1>1. s \in Opened
  BY DEF CircleInv, HoldsItsRows, Activate
<1>2. /\ EndCall(k) /\ UNCHANGED post
      /\ \/ section' = [section EXCEPT ![s].status = "active", ![s].version = @ + 1]
         \/ section' = section
  BY DEF Activate
<1>3. CASE section' = section
  BY <1>2, <1>3, RefusedKeeps
<1>4. CASE section' = [section EXCEPT ![s].status = "active", ![s].version = @ + 1]
  <2>1. /\ CircleRowsTyped' /\ RootsOpened' /\ DOMAIN section' = Opened
        /\ \A t \in Opened : section'[t].parent = section[t].parent
        /\ \A t \in Opened : t # s => section'[t] = section[t]
        /\ section'[s].status = "active"
    BY <1>1, <1>2, <1>4, SectionRowSaved
  <2>2. CircleLocksTyped' /\ \A j \in CircleCalls : HoldsItsRows(j)'
    BY <1>2, <2>1, EndCallKeeps DEF Published
  <2> QED
    BY <2>1, <2>2 DEF CircleInv, CircleTyped
<1> QED
  BY <1>2, <1>3, <1>4

LEMMA CircleNextInv == CircleInv /\ [CircleNext]_circleVars => CircleInv'
<1> SUFFICES ASSUME CircleInv, [CircleNext]_circleVars
             PROVE  CircleInv'
  OBVIOUS
<1>1. ASSUME NEW k \in CircleCalls, NEW op \in PostOps, NEW p \in Posts, NEW s \in Opened,
             NEW u \in Authors, BeginPost(k, op, p, s, u)
      PROVE  CircleInv'
  BY <1>1, BeginPostKeeps
<1>2. ASSUME NEW k \in CircleCalls, NEW s \in Opened, BeginActivate(k, s)
      PROVE  CircleInv'
  BY <1>2, BeginActivateKeeps
<1>3. ASSUME NEW k \in CircleCalls, CallStep(k)
      PROVE  CircleInv'
  BY <1>3, LockPostKeeps, ShareSectionKeeps, ShareRootKeeps, WritePostKeeps, ActivateKeeps
     DEF CallStep
<1>4. ASSUME NEW p \in Published, NEW version \in 1 .. MaxPostVersion,
             \/ \E u \in Authors : WithdrawPost(p, u, version)
             \/ RejectPost(p, version)
             \/ RevokePostReview(p, version)
      PROVE  CircleInv'
  <2>1. PICK status \in {"pending_review", "rejected", "withdrawn"} : SettlePost(p, version, status)
    BY <1>4 DEF WithdrawPost, RejectPost, RevokePostReview
  <2> QED
    BY <2>1, SettlePostKeeps
<1>5. ASSUME NEW p \in Published, NEW u \in Authors, NEW liked \in BOOLEAN, LikePost(p, u, liked)
      PROVE  CircleInv'
  BY <1>5, LikePostKeeps
<1>6. ASSUME NEW s \in Sections, NEW parent \in {0} \cup Opened, CreateSection(s, parent)
      PROVE  CircleInv'
  BY <1>6, CreateSectionKeeps
<1>7. ASSUME NEW s \in Opened, NEW version \in 1 .. MaxSectionVersion,
             UpdateSection(s, version) \/ ArchiveSection(s, version)
      PROVE  CircleInv'
  <2>1. section[s].status \in {"active", "archived"}
    BY DEF CircleInv, CircleTyped, CircleRowsTyped, SectionRows
  <2>2. PICK status \in {"active", "archived"} : SaveSection(s, version, status)
    BY <1>7, <2>1 DEF UpdateSection, ArchiveSection
  <2> QED
    BY <2>2, SaveSectionKeeps
<1>8. CASE UNCHANGED circleVars
  <2>1. CircleLocksTyped'
    BY <1>8 DEF circleVars, CircleInv, CircleTyped, CircleLocksTyped
  <2>2. ASSUME NEW k \in CircleCalls
        PROVE  HoldsItsRows(k)'
    BY <1>8, OthersKeepRows DEF circleVars, Opened, Published
  <2> QED
    BY <1>8, <2>1, <2>2, RowsStay DEF circleVars, CircleInv, CircleTyped
<1> QED
  BY <1>1, <1>2, <1>3, <1>4, <1>5, <1>6, <1>7, <1>8 DEF CircleNext

LEMMA CircleSpecInv == CircleSpec => []CircleInv
BY CircleInitInv, CircleNextInv, PTL DEF CircleSpec

\* The rows of sections and posts have their types, and two transactions never hold
\* one section for update.
THEOREM CircleTypeCorrect == CircleSpec => []CircleTypeOK
<1>1. CircleInv => CircleTypeOK
  <2> SUFFICES ASSUME CircleInv
               PROVE  CircleTypeOK
    OBVIOUS
  <2>1. CircleRowsTyped /\ CircleLocksTyped
    BY DEF CircleInv, CircleTyped
  <2>2. ASSUME NEW s \in Sections
        PROVE  Cardinality(sectionLock[s]) <= 1
    <3>1. CASE sectionLock[s] = {}
      BY <3>1, FS_EmptySet
    <3>2. CASE sectionLock[s] # {}
      <4>1. PICK k : k \in sectionLock[s]
        BY <3>2
      <4>2. sectionLock[s] = {k}
        BY <2>1, <4>1 DEF CircleLocksTyped
      <4>3. Cardinality({k}) = 1
        BY FS_Singleton
      <4> QED
        BY <4>2, <4>3
    <3> QED
      BY <3>1, <3>2
  <2> QED
    BY <2>1, <2>2 DEF CircleTypeOK, CircleRowsTyped, CircleLocksTyped
<1> QED
  BY <1>1, CircleSpecInv, PTL

\* No post is created, moved, resubmitted or approved in a section that is archived
\* when the write is committed, or whose root is: WritePost finds the section and
\* the root as ensureSectionAcceptsPosts found them, since both are still shared
\* and an archiving transaction waits.
THEOREM WrittenInOpenSections == CircleSpec => PostsEnterOpenSections
<1> DEFINE Enters(p) ==
              /\ p \in DOMAIN post'
              /\ \/ p \notin Published
                 \/ post'[p].section # post[p].section
                 \/ post[p].status = "rejected" /\ post'[p].status = "pending_review"
                    /\ \E k \in CircleCalls : call[k].post = p /\ call[k].at = "write" /\ call'[k] # call[k]
                 \/ post[p].status # "approved" /\ post'[p].status = "approved"
           Open(p) == \E r \in DOMAIN SectionTree' : post'[p].section \in SectionTree'[r]
<1>1. ASSUME CircleInv, [CircleNext]_circleVars
      PROVE  \A p \in Posts : Enters(p) => Open(p)
  <2>1. ASSUME UNCHANGED post, NEW p \in Posts
        PROVE  ~Enters(p)
    BY <2>1 DEF Published
  <2>2. ASSUME NEW q \in Published, NEW version, NEW status \in {"pending_review", "rejected", "withdrawn"},
               SettlePost(q, version, status), NEW p \in Posts
        PROVE  ~Enters(p)
    <3>1. /\ post' = [post EXCEPT ![q].status = status, ![q].version = @ + 1]
          /\ UNCHANGED call
      BY <2>2 DEF SettlePost
    <3>2. post[q] \in PostRows
      BY <1>1 DEF CircleInv, CircleTyped, CircleRowsTyped
    <3>3. /\ DOMAIN post' = Published /\ post'[q].section = post[q].section /\ post'[q].status = status
          /\ \A r \in Published : r # q => post'[r] = post[r]
      BY <3>1, <3>2 DEF Published, PostRows
    <3> QED
      BY <3>1, <3>3
  <2>3. ASSUME NEW q \in Published, NEW u \in Authors, NEW liked \in BOOLEAN, LikePost(q, u, liked),
               NEW p \in Posts
        PROVE  ~Enters(p)
    <3>1. /\ post' = [post EXCEPT ![q].likes = IF liked THEN @ \cup {u} ELSE @ \ {u}]
          /\ UNCHANGED call
      BY <2>3 DEF LikePost
    <3>2. post[q] \in PostRows
      BY <1>1 DEF CircleInv, CircleTyped, CircleRowsTyped
    <3>3. /\ DOMAIN post' = Published
          /\ post'[q].section = post[q].section /\ post'[q].status = post[q].status
          /\ \A r \in Published : r # q => post'[r] = post[r]
      BY <3>1, <3>2 DEF Published, PostRows
    <3> QED
      BY <3>1, <3>3
  <2>4. ASSUME NEW k \in CircleCalls, WritePost(k), NEW p \in Posts, Enters(p)
        PROVE  Open(p)
    <3>1. /\ UNCHANGED section /\ call[k].at = "write"
          /\ post' = [q \in Published \cup {call[k].post} |->
                         IF q = call[k].post THEN PostWritten(call[k]) ELSE post[q]]
      BY <2>4 DEF WritePost
    <3>2. CASE p = call[k].post
      <4>1. HoldsItsRows(k) /\ CircleRowsTyped /\ RootsOpened
        BY <1>1 DEF CircleInv, CircleTyped
      <4>2. PICK s \in Opened : s = call[k].section
        BY <3>1, <4>1 DEF HoldsItsRows, PostSteps
      <4>3. CanAcceptPosts(s) /\ section[s].parent \in Opened
        BY <3>1, <4>1, <4>2 DEF HoldsItsRows, RootsOpened
      <4>4. PostWritten(call[k]).section = s
        <5>1. CASE call[k].op = "create_post"
          BY <4>2, <5>1 DEF PostWritten
        <5>2. CASE call[k].op # "create_post"
          <6>1. post[call[k].post] \in PostRows
            BY <3>1, <4>1, <5>2 DEF HoldsItsRows, PostSteps, CircleRowsTyped
          <6> QED
            BY <4>2, <5>2, <6>1 DEF PostWritten, PostRows
        <5> QED
          BY <5>1, <5>2
      <4>5. post'[p].section = s
        BY <3>1, <3>2, <4>4
      <4>6. section[s].parent \in DOMAIN SectionTree' /\ s \in SectionTree'[section[s].parent]
        BY <3>1, <4>2, <4>3 DEF SectionTree, CanAcceptPosts, Opened
      <4> QED
        BY <4>5, <4>6
    <3>3. CASE p # call[k].post
      <4>1. p \in Published /\ post'[p] = post[p]
        BY <2>4, <3>1, <3>3
      <4>2. PICK j \in CircleCalls : call[j].post = p /\ call'[j] # call[j]
        BY <2>4, <4>1
      <4>3. j = k
        BY <1>1, <2>4, <4>2 DEF WritePost, EndCall, CircleInv, CircleTyped, CircleLocksTyped
      <4> QED
        BY <3>3, <4>2, <4>3
    <3> QED
      BY <3>2, <3>3
  <2> HIDE DEF Enters, Open
  <2>5. ASSUME NEW k \in CircleCalls, CallStep(k), ~WritePost(k)
        PROVE  UNCHANGED post
    BY <2>5 DEF CallStep, LockPost, ShareSection, ShareRoot, Activate
  <2>6. ASSUME NEW q \in Published, NEW version \in 1 .. MaxPostVersion,
               \/ \E u \in Authors : WithdrawPost(q, u, version)
               \/ RejectPost(q, version)
               \/ RevokePostReview(q, version)
        PROVE  \E status \in {"pending_review", "rejected", "withdrawn"} : SettlePost(q, version, status)
    BY <2>6 DEF WithdrawPost, RejectPost, RevokePostReview
  <2>7. ASSUME NEW k \in CircleCalls,
               \/ \E op \in PostOps, p \in Posts, s \in Opened, u \in Authors : BeginPost(k, op, p, s, u)
               \/ \E s \in Opened : BeginActivate(k, s)
        PROVE  UNCHANGED post
    BY <2>7 DEF BeginPost, BeginActivate
  <2>8. ASSUME \/ \E s \in Sections, parent \in {0} \cup Opened : CreateSection(s, parent)
               \/ \E s \in Opened, version \in 1 .. MaxSectionVersion :
                     UpdateSection(s, version) \/ ArchiveSection(s, version)
               \/ UNCHANGED circleVars
        PROVE  UNCHANGED post
    BY <2>8 DEF CreateSection, UpdateSection, ArchiveSection, SaveSection, circleVars
  <2> QED
    BY <1>1, <2>1, <2>2, <2>3, <2>4, <2>5, <2>6, <2>7, <2>8 DEF CircleNext
<1>2. CircleInv /\ [CircleNext]_circleVars => [\A p \in Posts : Enters(p) => Open(p)]_circleVars
  BY <1>1
<1> QED
  BY <1>2, CircleSpecInv, PTL DEF CircleSpec, PostsEnterOpenSections
-----------------------------------------------------------------------------
(* Comment: the tree of replies and the pins.                               *)

\* Row c hangs where its columns say: a root is its own root; a reply is newer than
\* its parent and shares the parent's root and target, and the root's target.
RowInTree(c) ==
    /\ comment[c].depth <= CommentMaxDepth
    /\ comment[c].root \in Written
    /\ comment[comment[c].root].target = comment[c].target
    /\ comment[c].parent = 0 => comment[c].root = c
    /\ comment[c].parent # 0 =>
          /\ comment[c].parent \in Written /\ comment[c].parent < c
          /\ comment[comment[c].parent].root = comment[c].root

\* The pin of g names an approved root of g.
PinIsRoot(g) ==
    pin[g] # 0 => /\ pin[g] \in Written
                  /\ comment[pin[g]].status = "approved"
                  /\ comment[pin[g]].parent = 0
                  /\ comment[pin[g]].target = g

\* The inductive invariant: ids are given out in order, every row hangs in its tree
\* and every pin is a root.
CommentInv ==
    /\ CommentTypeOK
    /\ \A c \in Written, d \in CommentIds : d < c => d \in Written
    /\ \A c \in Written : RowInTree(c)
    /\ \A g \in Targets : PinIsRoot(g)

\* What the proofs use of the constants.
LEMMA CommentNumbers ==
    /\ CommentIds \subseteq Nat /\ 0 \notin CommentIds /\ IsFiniteSet(CommentIds)
    /\ TargetOwner \in [Targets -> CommentUsers]
    /\ CommentMaxDepth \in Nat /\ MaxCommentVersion \in Nat
BY CommentAssumption

\* No comment and no pin at first.
LEMMA CommentInitInv == CommentInit => CommentInv
<1> SUFFICES ASSUME CommentInit PROVE CommentInv
  OBVIOUS
<1>1. Written = {}
  BY DEF CommentInit, Written
<1>2. pin \in [Targets -> Nat] /\ \A g \in Targets : pin[g] = 0
  BY DEF CommentInit
<1> QED
  BY <1>1, <1>2 DEF CommentInv, CommentTypeOK, PinIsRoot

\* The row Create inserts hangs under its parent.
LEMMA CreateCommentKeeps ==
    ASSUME CommentInv, NEW c \in CommentIds, NEW u \in CommentUsers, NEW g \in Targets,
           NEW p \in {0} \cup Written, CreateComment(c, u, g, p)
    PROVE  CommentInv'
<1> USE CommentNumbers
<1> DEFINE row == NewComment(c, u, g, p)
<1>1. c \notin Written /\ Written' = Written \cup {c}
  BY DEF CreateComment, MayCreateComment, Written
<1>2. comment'[c] = row /\ \A d \in Written : comment'[d] = comment[d]
  BY <1>1 DEF CreateComment, MayCreateComment, Written
<1>3. Written \subseteq CommentIds /\ \A d \in Written : comment[d] \in CommentRows
  BY DEF CommentInv, CommentTypeOK
<1>4. p # 0 => /\ p \in Written /\ p < c
               /\ comment[p].target = g
               /\ comment[p].depth + 1 <= CommentMaxDepth
  <2>1. p # 0 => /\ p \in Written
                 /\ comment[p].target = g
                 /\ comment[p].depth + 1 <= CommentMaxDepth
    BY DEF CreateComment, MayCreateComment
  <2>2. ASSUME p \in Written PROVE p < c
    <3>1. p \in Nat /\ c \in Nat /\ p # c /\ ~(c < p)
      BY <2>2, <1>1, <1>3 DEF CommentInv
    <3> QED
      BY <3>1
  <2> QED
    BY <2>1, <2>2
<1>5. row \in CommentRows
  <2>1. CASE p = 0
    BY <2>1 DEF NewComment, CommentRows, CommentStatuses
  <2>2. CASE p # 0
    <3>1. comment[p].root \in Nat /\ comment[p].depth \in Nat
      BY <2>2, <1>4, <1>3 DEF CommentRows
    <3>2. p \in Nat
      BY <2>2, <1>4, <1>3
    <3> QED
      BY <2>2, <3>1, <3>2 DEF NewComment, CommentRows, CommentStatuses
  <2> QED
    BY <2>1, <2>2
<1>6. /\ row.target = g /\ row.parent = p
      /\ row.root = (IF p = 0 THEN c ELSE comment[p].root)
      /\ row.depth = (IF p = 0 THEN 0 ELSE comment[p].depth + 1)
  BY DEF NewComment
<1> HIDE DEF row
<1>7. CommentTypeOK'
  <2>1. (Written \subseteq CommentIds)'
    BY <1>1, <1>3
  <2>2. (\A d \in Written : comment[d] \in CommentRows)'
    BY <1>1, <1>2, <1>3, <1>5 DEF CommentRows
  <2>3. (pin \in [Targets -> Nat])'
    BY DEF CreateComment, MayCreateComment, CommentInv, CommentTypeOK
  <2> QED
    BY <2>1, <2>2, <2>3 DEF CommentTypeOK
<1>8. (\A d \in Written, e \in CommentIds : e < d => e \in Written)'
  BY <1>1 DEF CreateComment, MayCreateComment, CommentInv
<1>9. ASSUME NEW d \in Written' PROVE RowInTree(d)'
  <2>1. CASE d \in Written
    <3>1. RowInTree(d)
      BY <2>1 DEF CommentInv
    <3> QED
      BY <2>1, <3>1, <1>1, <1>2 DEF RowInTree
  <2>2. CASE d = c /\ p = 0
    BY <2>2, <1>1, <1>2, <1>6 DEF RowInTree
  <2>3. CASE d = c /\ p # 0
    <3>1. RowInTree(p) /\ p \in Written
      BY <2>3, <1>4 DEF CommentInv
    <3>2. p # c /\ comment[p].root # c
      BY <3>1, <1>1 DEF RowInTree
    <3> QED
      BY <2>3, <3>1, <3>2, <1>1, <1>2, <1>4, <1>6 DEF RowInTree
  <2> QED
    BY <2>1, <2>2, <2>3, <1>1
<1>10. ASSUME NEW h \in Targets PROVE PinIsRoot(h)'
  <2>1. PinIsRoot(h) /\ pin' = pin
    BY DEF CommentInv, CreateComment, MayCreateComment
  <2> QED
    BY <2>1, <1>1, <1>2 DEF PinIsRoot
<1> QED
  BY <1>7, <1>8, <1>9, <1>10 DEF CommentInv

\* A write of a comment changes its status and its version.
LEMMA SaveCommentEffect ==
    ASSUME CommentInv, NEW c \in Written, NEW status \in CommentStatuses,
           SaveComment(c, status)
    PROVE  /\ Written' = Written
           /\ \A d \in Written : comment'[d] \in CommentRows
           /\ \A d \in Written :
                 /\ comment'[d].target = comment[d].target
                 /\ comment'[d].parent = comment[d].parent
                 /\ comment'[d].root = comment[d].root
                 /\ comment'[d].depth = comment[d].depth
           /\ comment'[c].status = status
           /\ \A d \in Written : d # c => comment'[d] = comment[d]
<1>1. comment[c] \in CommentRows
  BY DEF CommentInv, CommentTypeOK
<1>2. PICK next : next = comment[c].version + 1
  OBVIOUS
<1>3. next \in Nat
  BY <1>1, <1>2 DEF CommentRows
<1>4. comment' = [comment EXCEPT ![c] = [comment[c] EXCEPT !.status = status, !.version = next]]
  BY <1>2 DEF SaveComment
<1>5. Written' = Written /\ \A d \in Written : d # c => comment'[d] = comment[d]
  BY <1>4 DEF Written
<1>6. comment'[c] = [comment[c] EXCEPT !.status = status, !.version = next]
  BY <1>4 DEF Written
<1>7. comment'[c] \in CommentRows
  BY <1>1, <1>3, <1>6 DEF CommentRows
<1>8. /\ comment'[c].target = comment[c].target
      /\ comment'[c].parent = comment[c].parent
      /\ comment'[c].root = comment[c].root
      /\ comment'[c].depth = comment[c].depth
      /\ comment'[c].status = status
  BY <1>1, <1>6 DEF CommentRows
<1>9. \A d \in Written : comment'[d] \in CommentRows
  BY <1>5, <1>7 DEF CommentInv, CommentTypeOK
<1> QED
  BY <1>5, <1>8, <1>9

\* A write that leaves the comment approved, or takes its pin away, or finds it in
\* a status no pinned comment has, keeps the invariant.
LEMMA CommentWriteKeeps ==
    ASSUME CommentInv, NEW c \in Written, NEW status \in CommentStatuses,
           SaveComment(c, status),
           \/ removePin(c)
           \/ comment[c].status # "approved" /\ UNCHANGED pin
    PROVE  CommentInv'
<1> USE CommentNumbers
<1>1. /\ Written' = Written
      /\ \A d \in Written : comment'[d] \in CommentRows
      /\ \A d \in Written :
                 /\ comment'[d].target = comment[d].target
                 /\ comment'[d].parent = comment[d].parent
                 /\ comment'[d].root = comment[d].root
                 /\ comment'[d].depth = comment[d].depth
      /\ \A d \in Written : d # c => comment'[d] = comment[d]
  BY SaveCommentEffect
<1>2. Written \subseteq CommentIds /\ pin \in [Targets -> Nat]
  BY DEF CommentInv, CommentTypeOK
<1>3. CommentTypeOK'
  <2>1. (Written \subseteq CommentIds)' /\ (\A d \in Written : comment[d] \in CommentRows)'
    BY <1>1, <1>2
  <2>2. pin' \in [Targets -> Nat]
    BY <1>2 DEF removePin
  <2> QED
    BY <2>1, <2>2 DEF CommentTypeOK
<1>4. (\A d \in Written, e \in CommentIds : e < d => e \in Written)'
  BY <1>1 DEF CommentInv
<1>5. ASSUME NEW d \in Written' PROVE RowInTree(d)'
  <2>1. RowInTree(d) /\ d \in Written
    BY <1>1 DEF CommentInv
  <2> QED
    BY <2>1, <1>1 DEF RowInTree
<1>6. ASSUME NEW g \in Targets PROVE PinIsRoot(g)'
  <2>1. PinIsRoot(g)
    BY DEF CommentInv
  <2>2. pin'[g] = 0 \/ (pin'[g] = pin[g] /\ pin[g] # c)
    BY <2>1, <1>2 DEF removePin, PinIsRoot
  <2>3. CASE pin'[g] = 0
    BY <2>3 DEF PinIsRoot
  <2>4. CASE pin'[g] # 0
    <3>1. pin'[g] = pin[g] /\ pin[g] # c /\ pin[g] \in Written
      BY <2>1, <2>2, <2>4 DEF PinIsRoot
    <3>2. comment'[pin[g]] = comment[pin[g]]
      BY <3>1, <1>1
    <3> QED
      BY <2>1, <3>1, <3>2, <1>1 DEF PinIsRoot
  <2> QED
    BY <2>3, <2>4
<1> QED
  BY <1>3, <1>4, <1>5, <1>6 DEF CommentInv

\* Pin and Unpin write no comment.
LEMMA PinKeeps ==
    ASSUME CommentInv, NEW c \in Written, NEW u, NEW version,
           PinComment(c, u, version) \/ UnpinComment(c, u, version)
    PROVE  CommentInv'
<1> USE CommentNumbers
<1>1. comment' = comment /\ Written' = Written
  BY DEF PinComment, MayPinComment, UnpinComment, MayUnpinComment, Written
<1>2. /\ c \in Nat /\ 0 \in Nat /\ c # 0
      /\ comment[c].target \in Targets /\ pin \in [Targets -> Nat]
  BY DEF CommentInv, CommentTypeOK, CommentRows
<1>3. pin' \in [Targets -> Nat]
  BY <1>2 DEF PinComment, MayPinComment, UnpinComment, MayUnpinComment
<1>4. CommentTypeOK'
  BY <1>1, <1>3 DEF CommentInv, CommentTypeOK
<1>5. (\A d \in Written, e \in CommentIds : e < d => e \in Written)'
  BY <1>1 DEF CommentInv
<1>6. ASSUME NEW d \in Written' PROVE RowInTree(d)'
  <2>1. RowInTree(d)
    BY <1>1 DEF CommentInv
  <2> QED
    BY <2>1, <1>1 DEF RowInTree
<1>7. ASSUME NEW g \in Targets PROVE PinIsRoot(g)'
  <2>1. PinIsRoot(g)
    BY DEF CommentInv
  <2> QED
    BY <2>1, <1>1, <1>2 DEF PinIsRoot, PinComment, MayPinComment, UnpinComment, MayUnpinComment
<1> QED
  BY <1>4, <1>5, <1>6, <1>7 DEF CommentInv

\* Every write keeps the tree and the pins.
LEMMA CommentStep == CommentInv /\ [CommentNext]_commentVars => CommentInv'
<1> SUFFICES ASSUME CommentInv, [CommentNext]_commentVars PROVE CommentInv'
  OBVIOUS
<1>1. CASE UNCHANGED commentVars
  BY <1>1 DEF commentVars, CommentInv, CommentTypeOK, Written, RowInTree, PinIsRoot
<1>2. CASE \E c \in CommentIds, u \in CommentUsers, g \in Targets, p \in {0} \cup Written :
              CreateComment(c, u, g, p)
  BY <1>2, CreateCommentKeeps
<1>3. ASSUME NEW c \in Written, NEW version, NEW u \in CommentUsers,
             \/ UpdateComment(c, u, version)
             \/ WithdrawComment(c, u, version)
             \/ SubmitCommentReview(c, u, version)
      PROVE  CommentInv'
  <2>1. "pending_review" \in CommentStatuses /\ "withdrawn" \in CommentStatuses
    BY DEF CommentStatuses
  <2>2. "rejected" # "approved"
    OBVIOUS
  <2> QED
    BY <1>3, <2>1, <2>2, CommentWriteKeeps DEF UpdateComment, WithdrawComment, SubmitCommentReview, MaySubmitCommentReview
<1>4. ASSUME NEW c \in Written, NEW version, NEW approved \in BOOLEAN,
             ReviewComment(c, version, approved)
      PROVE  CommentInv'
  <2>1. PICK status : status = IF approved THEN "approved" ELSE "rejected"
    OBVIOUS
  <2>2. status \in CommentStatuses /\ SaveComment(c, status)
    BY <1>4, <2>1 DEF ReviewComment, CommentStatuses
  <2>3. removePin(c) \/ (comment[c].status # "approved" /\ UNCHANGED pin)
    BY <1>4 DEF ReviewComment
  <2> QED
    BY <2>2, <2>3, CommentWriteKeeps
<1>5. ASSUME NEW c \in Written, NEW version, RevokeCommentReview(c, version)
      PROVE  CommentInv'
  <2>1. "pending_review" \in CommentStatuses
    BY DEF CommentStatuses
  <2> QED
    BY <1>5, <2>1, CommentWriteKeeps DEF RevokeCommentReview
<1> QED
  BY <1>1, <1>2, <1>3, <1>4, <1>5, PinKeeps DEF CommentNext

\* The invariant of the comments.
LEMMA CommentInvariant == CommentSpec => []CommentInv
BY CommentInitInv, CommentStep, PTL DEF CommentSpec

\* Rows of comments and pins always have their types.
THEOREM CommentTypeCorrect == CommentSpec => []CommentTypeOK
<1>1. CommentInv => CommentTypeOK
  BY DEF CommentInv
<1> QED
  BY <1>1, CommentInvariant, PTL

\* A set of natural numbers that is not empty has a least element.
LEMMA LeastId ==
    ASSUME NEW S \in SUBSET Nat, S # {}
    PROVE  \E m \in S : \A n \in S : m <= n
<1>1. PICK m \in S : \A n \in S : ~(<<n, m>> \in OpToRel(<, Nat))
  BY NatLessThanWellFounded, WFMin
<1>2. \A n \in S : ~(n < m)
  BY <1>1 DEF OpToRel
<1> QED
  BY <1>2

\* R holds, of the rows below n, those in Start and those in Open whose parent it holds.
ReachedBelow(W, parent, Start, Open, R, n) ==
    \A c \in W : c < n => (c \in R <=> (c \in Start \/ (c \in Open /\ parent[c] \in R)))

\* Below any number there is such a set, because a parent has a smaller number than
\* its reply.
LEMMA ReachedBelowExists ==
    ASSUME NEW W \in SUBSET Nat, NEW parent, NEW Start, NEW Open,
           \A c \in W : parent[c] \in W => parent[c] < c, NEW n \in Nat
    PROVE  \E R \in SUBSET W : ReachedBelow(W, parent, Start, Open, R, n)
<1> DEFINE Bad == {k \in Nat : ~ \E R \in SUBSET W : ReachedBelow(W, parent, Start, Open, R, k)}
<1> SUFFICES ASSUME Bad # {} PROVE FALSE
  OBVIOUS
<1>1. PICK m \in Bad : \A k \in Bad : m <= k
  BY LeastId
<1>2. m \in Nat
  OBVIOUS
<1>3. m # 0
  <2>1. ReachedBelow(W, parent, Start, Open, {}, 0)
    BY DEF ReachedBelow
  <2> QED
    BY <2>1
<1>4. PICK k \in Nat : m = k + 1
  BY <1>2, <1>3
<1>5. k \notin Bad
  BY <1>1, <1>4
<1>6. PICK R \in SUBSET W : ReachedBelow(W, parent, Start, Open, R, k)
  BY <1>5
<1> DEFINE holds == k \in Start \/ (k \in Open /\ parent[k] \in R)
           S == IF k \in W /\ holds THEN R \cup {k} ELSE R \ {k}
<1>7. S \in SUBSET W
  OBVIOUS
<1>8. \A c \in W : c # k => (c \in S <=> c \in R)
  OBVIOUS
<1>9. k \in W => (k \in S <=> holds)
  OBVIOUS
<1>10. ReachedBelow(W, parent, Start, Open, S, m)
  <2> SUFFICES ASSUME NEW c \in W, c < m
               PROVE  c \in S <=> (c \in Start \/ (c \in Open /\ parent[c] \in S))
    BY DEF ReachedBelow
  <2> HIDE DEF S, Bad
  <2>1. parent[c] \in W => parent[c] # k
    BY <1>4
  <2>2. parent[c] \in S <=> parent[c] \in R
    BY <2>1, <1>7, <1>8
  <2>3. CASE c = k
    BY <2>2, <2>3, <1>9
  <2>4. CASE c # k
    <3>1. c < k
      BY <2>4, <1>2, <1>4
    <3> QED
      BY <3>1, <2>4, <2>2, <1>6, <1>8 DEF ReachedBelow
  <2> QED
    BY <2>3, <2>4
<1> QED
  BY <1>7, <1>10

\* Two such sets agree below the number.
LEMMA ReachedBelowUnique ==
    ASSUME NEW W \in SUBSET Nat, NEW parent, NEW Start, NEW Open,
           \A c \in W : parent[c] \in W => parent[c] < c,
           NEW m \in Nat, NEW n \in Nat, m <= n,
           NEW R \in SUBSET W, ReachedBelow(W, parent, Start, Open, R, m),
           NEW S \in SUBSET W, ReachedBelow(W, parent, Start, Open, S, n),
           NEW c \in W, c < m
    PROVE  c \in R <=> c \in S
<1> DEFINE Bad == {d \in W : d < m /\ ~(d \in R <=> d \in S)}
<1> SUFFICES ASSUME Bad # {} PROVE FALSE
  OBVIOUS
<1>1. PICK d \in Bad : \A e \in Bad : d <= e
  BY LeastId
<1>2. d \in W /\ d < m /\ d < n /\ ~(d \in R <=> d \in S)
  OBVIOUS
<1>3. parent[d] \in R <=> parent[d] \in S
  <2>1. CASE parent[d] \in W
    <3> HIDE DEF Bad
    <3>1. parent[d] \in Nat /\ d \in Nat /\ parent[d] < d
      BY <2>1, <1>2
    <3>2. parent[d] < m /\ ~(d <= parent[d])
      BY <3>1, <1>2
    <3>3. parent[d] \notin Bad
      BY <3>2, <1>1
    <3> QED
      BY <3>2, <3>3, <2>1 DEF Bad
  <2>2. CASE parent[d] \notin W
    BY <2>2
  <2> QED
    BY <2>1, <2>2
<1> QED
  BY <1>2, <1>3 DEF ReachedBelow

\* What is reached from Start over the rows of Open, each from its parent, is a set.
ReachedSet(W, parent, Start, Open) ==
    \E R \in SUBSET W : \A c \in W :
       c \in R <=> (c \in Start \/ (c \in Open /\ parent[c] \in R))

LEMMA ReachedSetExists ==
    ASSUME NEW W \in SUBSET Nat, NEW parent, NEW Start, NEW Open,
           \A c \in W : parent[c] \in W => parent[c] < c
    PROVE  ReachedSet(W, parent, Start, Open)
<1> DEFINE Good(R, n) == ReachedBelow(W, parent, Start, Open, R, n)
           All == {c \in W : \E R \in SUBSET W : Good(R, c + 1) /\ c \in R}
<1> SUFFICES ASSUME NEW c \in W
             PROVE  c \in All <=> (c \in Start \/ (c \in Open /\ parent[c] \in All))
  BY DEF ReachedSet
<1>0. \A d \in W : d + 1 \in Nat
  OBVIOUS
<1>1. PICK R \in SUBSET W : Good(R, c + 1)
  BY <1>0, ReachedBelowExists
<1>2. ASSUME NEW d \in W, d <= c PROVE d \in All <=> d \in R
  <2>1. ASSUME NEW S \in SUBSET W, Good(S, d + 1) PROVE d \in S <=> d \in R
    <3>1. d + 1 \in Nat /\ c + 1 \in Nat /\ d + 1 <= c + 1 /\ d < d + 1
      BY <1>2
    <3> QED
      BY <3>1, <2>1, <1>1, ReachedBelowUnique
  <2>2. \E S \in SUBSET W : Good(S, d + 1)
    BY <1>0, ReachedBelowExists
  <2> HIDE DEF Good
  <2> QED
    BY <2>1, <2>2
<1>3. c \in R <=> (c \in Start \/ (c \in Open /\ parent[c] \in R))
  BY <1>1 DEF ReachedBelow
<1>4. parent[c] \in All <=> parent[c] \in R
  <2>1. All \subseteq W
    OBVIOUS
  <2> HIDE DEF All
  <2>2. ASSUME parent[c] \in W PROVE parent[c] <= c
    <3>1. parent[c] \in Nat /\ c \in Nat /\ parent[c] < c
      BY <2>2
    <3> QED
      BY <3>1
  <2> QED
    BY <2>1, <2>2, <1>2
<1>5. c \in All <=> c \in R
  BY <1>2
<1> HIDE DEF All
<1> QED
  BY <1>3, <1>4, <1>5


\* depthFirst is well defined: what it keeps is the set its recursion describes.
LEMMA ThreadCommentsAre ==
    ASSUME CommentInv, NEW r, NEW u
    PROVE  \E R \in SUBSET Written :
              /\ ThreadComments(r, u) = R \ {r}
              /\ \A c \in Written :
                    c \in R <=> \/ c = r
                                \/ c \in ThreadRows(r, u) /\ comment[c].parent \in R
<1> DEFINE parent == [c \in Written |-> comment[c].parent]
           G(f) == [c \in Written |->
                      \/ c = r
                      \/ c \in ThreadRows(r, u) /\ comment[c].parent \in Written /\ f[comment[c].parent]]
           F == CHOOSE f : f = G(f)
<1>1. Written \in SUBSET Nat /\ \A c \in Written : parent[c] \in Written => parent[c] < c
  BY CommentNumbers DEF CommentInv, CommentTypeOK, RowInTree
<1>2. ReachedSet(Written, parent, {r}, ThreadRows(r, u))
  <2> HIDE DEF parent
  <2> QED
    BY <1>1, ReachedSetExists
<1>3. PICK R \in SUBSET Written : \A c \in Written :
           c \in R <=> (c \in {r} \/ (c \in ThreadRows(r, u) /\ parent[c] \in R))
  BY <1>2 DEF ReachedSet
<1> DEFINE H == [c \in Written |-> c \in R]
<1>4. ASSUME NEW c \in Written PROVE H[c] = G(H)[c]
  <2>1. parent[c] = comment[c].parent
    OBVIOUS
  <2>2. c \in R <=> \/ c = r
                    \/ c \in ThreadRows(r, u) /\ comment[c].parent \in R
    <3> HIDE DEF parent, H
    <3> QED
      BY <1>3, <2>1
  <2>3. comment[c].parent \in R <=> comment[c].parent \in Written /\ H[comment[c].parent]
    OBVIOUS
  <2>4. PICK p, Open, W, h : p = comment[c].parent /\ Open = ThreadRows(r, u) /\ W = Written /\ h = H
    OBVIOUS
  <2>5. /\ H[c] = (c \in R)
        /\ G(H)[c] = (c = r \/ (c \in Open /\ p \in W /\ h[p]))
    BY <2>4
  <2> HIDE DEF H, G, parent
  <2>6. c \in R <=> (c = r \/ (c \in Open /\ p \in W /\ h[p]))
    BY <2>2, <2>3, <2>4
  <2>7. (c \in R) = (c = r \/ (c \in Open /\ p \in W /\ h[p]))
    BY <2>6
  <2> QED
    BY <2>5, <2>7
<1>5. F = G(F)
  <2>1. H = G(H)
    BY <1>4
  <2> QED
    BY <2>1
<1>6. ThreadComments(r, u) = {c \in Written \ {r} : F[c]}
  BY DEF ThreadComments
<1> DEFINE S == {c \in Written : F[c]}
<1> HIDE DEF F
<1>7. \A c \in Written : F[c] = (\/ c = r
                                 \/ c \in ThreadRows(r, u) /\ comment[c].parent \in Written /\ F[comment[c].parent])
  BY <1>5
<1>8. \A c \in Written :
           c \in S <=> \/ c = r
                       \/ c \in ThreadRows(r, u) /\ comment[c].parent \in S
  BY <1>7
<1>9. ThreadComments(r, u) = S \ {r} /\ S \in SUBSET Written
  BY <1>6
<1> HIDE DEF S
<1> QED
  BY <1>8, <1>9

\* So is the reference: what hangs under r is the set its recursion describes.
LEMMA HangingUnderIs ==
    ASSUME CommentInv, NEW r, NEW u
    PROVE  \A c \in Written :
              c \in HangingUnder(r, u) <=>
                 VisibleTo(c, u) /\ (comment[c].parent = r \/ comment[c].parent \in HangingUnder(r, u))
<1> DEFINE parent == [c \in Written |-> comment[c].parent]
           Open == {c \in Written : VisibleTo(c, u)}
           Start == {c \in Open : comment[c].parent = r}
           G(f) == [c \in Written |->
                      /\ VisibleTo(c, u)
                      /\ \/ comment[c].parent = r
                         \/ comment[c].parent \in Written /\ f[comment[c].parent]]
           F == CHOOSE f : f = G(f)
<1>1. Written \in SUBSET Nat /\ \A c \in Written : parent[c] \in Written => parent[c] < c
  BY CommentNumbers DEF CommentInv, CommentTypeOK, RowInTree
<1>2. ReachedSet(Written, parent, Start, Open)
  <2> HIDE DEF parent, Start, Open
  <2> QED
    BY <1>1, ReachedSetExists
<1>3. PICK R \in SUBSET Written : \A c \in Written :
           c \in R <=> (c \in Start \/ (c \in Open /\ parent[c] \in R))
  BY <1>2 DEF ReachedSet
<1> DEFINE H == [c \in Written |-> c \in R]
<1>4. ASSUME NEW c \in Written PROVE H[c] = G(H)[c]
  <2>1. /\ parent[c] = comment[c].parent
        /\ c \in Open <=> VisibleTo(c, u)
        /\ c \in Start <=> VisibleTo(c, u) /\ comment[c].parent = r
    OBVIOUS
  <2>2. c \in R <=> VisibleTo(c, u) /\ (comment[c].parent = r \/ comment[c].parent \in R)
    <3> HIDE DEF parent, Open, Start, H
    <3> QED
      BY <1>3, <2>1
  <2>3. comment[c].parent \in R <=> comment[c].parent \in Written /\ H[comment[c].parent]
    OBVIOUS
  <2>4. PICK p, V, W, h : p = comment[c].parent /\ V = Open /\ W = Written /\ h = H
    OBVIOUS
  <2>5. H[c] = (c \in R)
    OBVIOUS
  <2>6. G(H)[c] = (VisibleTo(c, u) /\ (p = r \/ (p \in W /\ h[p])))
    BY <2>4
  <2> HIDE DEF H, G, parent, Open, Start
  <2>7. c \in R <=> (c \in V /\ (p = r \/ (p \in W /\ h[p])))
    BY <2>1, <2>2, <2>3, <2>4
  <2>8. VisibleTo(c, u) = (c \in V)
    BY <2>1, <2>4 DEF VisibleTo
  <2>9. (c \in R) = (c \in V /\ (p = r \/ (p \in W /\ h[p])))
    BY <2>7
  <2> QED
    BY <2>5, <2>6, <2>8, <2>9
<1>5. F = G(F)
  <2>1. H = G(H)
    BY <1>4
  <2> QED
    BY <2>1
<1>6. HangingUnder(r, u) = {c \in Written : F[c]}
  BY DEF HangingUnder
<1> HIDE DEF F
<1>7. \A c \in Written : F[c] = (/\ VisibleTo(c, u)
                                 /\ \/ comment[c].parent = r
                                    \/ comment[c].parent \in Written /\ F[comment[c].parent])
  BY <1>5
<1> QED
  BY <1>6, <1>7

\* The walk over the rows selected by root_id finds what hangs under the root.
LEMMA ThreadIsWhatHangs ==
    ASSUME CommentInv, NEW r \in Written, comment[r].parent = 0, NEW u
    PROVE  ThreadComments(r, u) = HangingUnder(r, u)
<1> USE CommentNumbers
<1>1. PICK R \in SUBSET Written :
              /\ ThreadComments(r, u) = R \ {r}
              /\ \A c \in Written :
                    c \in R <=> \/ c = r
                                \/ c \in ThreadRows(r, u) /\ comment[c].parent \in R
  BY ThreadCommentsAre
<1>2. PICK S : S = HangingUnder(r, u)
  OBVIOUS
<1>3. S \in SUBSET Written
  BY <1>2 DEF HangingUnder
<1>4. \A c \in Written : c \in S <=> VisibleTo(c, u) /\ (comment[c].parent = r \/ comment[c].parent \in S)
  BY <1>2, HangingUnderIs
<1>5. Written \in SUBSET Nat /\ 0 \notin Written
  BY DEF CommentInv, CommentTypeOK
<1> DEFINE Bad == {c \in Written : ~(c \in R \ {r} <=> c \in S)}
<1>6. Bad = {}
  <2> SUFFICES ASSUME Bad # {} PROVE FALSE
    OBVIOUS
  <2>1. PICK c \in Bad : \A d \in Bad : c <= d
    BY <1>5, LeastId
  <2>2. c \in Written /\ ~(c \in R \ {r} <=> c \in S)
    OBVIOUS
  <2>3. c # r
    BY <1>3, <1>4, <1>5, <2>2
  <2>4. CASE comment[c].parent = 0
    BY <1>1, <1>3, <1>4, <1>5, <2>2, <2>3, <2>4
  <2>5. CASE comment[c].parent # 0
    <3>1. PICK p : p = comment[c].parent
      OBVIOUS
    <3>2. /\ p \in Written /\ p < c
          /\ comment[p].root = comment[c].root
      BY <2>2, <2>5, <3>1 DEF CommentInv, RowInTree
    <3>3. p \in R \ {r} <=> p \in S
      <4>1. p \in Nat /\ c \in Nat /\ ~(c <= p)
        BY <3>2, <2>2, <1>5
      <4> HIDE DEF Bad
      <4>2. p \notin Bad
        BY <4>1, <2>1
      <4> QED
        BY <4>2, <3>2 DEF Bad
    <3>4. c \in ThreadRows(r, u) <=> comment[c].root = r /\ VisibleTo(c, u)
      BY <2>2, <2>3 DEF ThreadRows
    <3>5. c \in R <=> c \in ThreadRows(r, u) /\ p \in R
      BY <1>1, <2>2, <2>3, <3>1
    <3>6. c \in S <=> VisibleTo(c, u) /\ (p = r \/ p \in S)
      BY <1>4, <2>2, <3>1
    <3>7. comment[r].root = r /\ r \in R
      BY <1>1 DEF CommentInv, RowInTree
    <3>8. p \in R => comment[p].root = r
      BY <1>1, <3>2, <3>7 DEF ThreadRows
    <3> QED
      BY <2>2, <2>3, <3>2, <3>3, <3>4, <3>5, <3>6, <3>7, <3>8
  <2> QED
    BY <2>4, <2>5
<1> QED
  BY <1>1, <1>2, <1>3, <1>6

\* The invariant says what readers see.
LEMMA CommentInvSuffices == CommentInv => ReadersSeeTheVisibleTree
<1> SUFFICES ASSUME CommentInv PROVE ReadersSeeTheVisibleTree
  OBVIOUS
<1> USE CommentNumbers
<1>1. ASSUME NEW r \in Written, comment[r].parent = 0, NEW u \in CommentUsers
      PROVE  /\ ThreadComments(r, u) = HangingUnder(r, u)
             /\ \A c \in ThreadComments(r, u) :
                   /\ comment[c].depth <= CommentMaxDepth
                   /\ comment[c].target = comment[r].target
             /\ Cardinality(ThreadComments(r, u)) <= ReplyCount(r, u)
  <2>1. ThreadComments(r, u) \subseteq ThreadRows(r, u)
    BY <1>1, ThreadCommentsAre
  <2>2. \A c \in ThreadRows(r, u) :
           /\ comment[c].depth <= CommentMaxDepth
           /\ comment[c].target = comment[r].target
    BY DEF ThreadRows, CommentInv, RowInTree
  <2>3. ReplyCount(r, u) = Cardinality(ThreadRows(r, u))
    <3>1. ThreadRows(r, u) = {d \in Written : /\ IF comment[r].parent = 0 THEN comment[d].root = r /\ d # r
                                                 ELSE comment[d].parent = r
                                              /\ VisibleTo(d, u)}
      BY <1>1 DEF ThreadRows
    <3> QED
      BY <3>1 DEF ReplyCount
  <2>4. IsFiniteSet(ThreadRows(r, u))
    <3>1. ThreadRows(r, u) \subseteq CommentIds
      BY DEF ThreadRows, CommentInv, CommentTypeOK
    <3> QED
      BY <3>1, FS_Subset
  <2>5. Cardinality(ThreadComments(r, u)) <= Cardinality(ThreadRows(r, u))
    BY <2>1, <2>4, FS_Subset
  <2> QED
    BY <1>1, <2>1, <2>2, <2>3, <2>5, ThreadIsWhatHangs
<1>2. ASSUME NEW g \in Targets
      PROVE  /\ pin[g] # 0 => /\ pin[g] \in Written
                              /\ comment[pin[g]].status = "approved"
                              /\ comment[pin[g]].parent = 0 /\ comment[pin[g]].target = g
             /\ \A u \in CommentUsers : \A c \in ListRoots(g, u) : VisibleTo(c, u)
  <2>1. PinIsRoot(g)
    BY DEF CommentInv
  <2> QED
    BY <2>1 DEF PinIsRoot, ListRoots, VisibleTo
<1> QED
  BY <1>1, <1>2 DEF ReadersSeeTheVisibleTree

\* A thread selected by root_id and walked by parent_id is exactly what hangs under its
\* root through comments the viewer may see, within the depth limit and on the root's
\* target, and a pin names an approved root of its target, so nobody is shown a hidden
\* one: for any numbers of comments, members and targets, and any depth limit.
THEOREM ReadersSeeTheTree == CommentSpec => []ReadersSeeTheVisibleTree
BY CommentInvariant, CommentInvSuffices, PTL
-----------------------------------------------------------------------------
(* Offers: what a page offers against what the store accepts.                *)

\* A trip goes at a time and with the seats some input gave it.
TripInputsKept ==
    \A t \in Created : /\ trip[t].departure \in TripTimes
                       /\ trip[t].total \in TripSeats /\ trip[t].total \in 1 .. 20

\* No write changes them but an edit, which has an input of its own.
LEMMA TripInputsStep == CarpoolInv /\ TripInputsKept /\ [CarpoolNext]_carpoolVars => TripInputsKept'
<1> SUFFICES ASSUME CarpoolInv, TripInputsKept, [CarpoolNext]_carpoolVars PROVE TripInputsKept'
  OBVIOUS
<1>1. CASE UNCHANGED trip
  BY <1>1 DEF TripInputsKept, Created
<1>2. CASE \E t \in Trips, u \in Organizers, d \in TripTimes, s \in TripSeats : CreateTrip(t, u, d, s)
  BY <1>2 DEF CreateTrip, ValidTripInput, TripInputsKept, Created
<1>3. ASSUME NEW t, NEW row, SaveTrip(t, row),
             t \in Created => row.departure = trip[t].departure /\ row.total = trip[t].total
      PROVE  TripInputsKept'
  <2>1. Created' = Created /\ \A s \in Created : trip'[s] = IF s = t THEN row ELSE trip[s]
    BY <1>3 DEF SaveTrip, Created
  <2> QED
    BY <1>3, <2>1 DEF TripInputsKept
<1>4. ASSUME NEW t \in Created, NEW version, NEW u, NEW d \in TripTimes, NEW s \in TripSeats,
             UpdateTrip(t, u, version, d, s)
      PROVE  TripInputsKept'
  <2>1. trip[t] \in TripRows
    BY DEF CarpoolInv, CarpoolTypeOK
  <2>2. PICK next : next = trip[t].version + 1
    OBVIOUS
  <2>3. trip' = [trip EXCEPT ![t] = [trip[t] EXCEPT !.departure = d, !.total = s,
                                                    !.review = "draft", !.version = next]]
    BY <1>4, <2>2 DEF UpdateTrip, SaveTrip
  <2>4. trip'[t].departure = d /\ trip'[t].total = s
    BY <2>1, <2>3 DEF TripRows, Created
  <2>5. Created' = Created /\ \A r \in Created : r # t => trip'[r] = trip[r]
    BY <2>3 DEF Created
  <2>6. s \in 1 .. 20
    BY <1>4 DEF UpdateTrip, MayUpdateTrip, ValidTripInput
  <2> QED
    BY <2>4, <2>5, <2>6 DEF TripInputsKept
<1>5. ASSUME NEW t \in Created, NEW version, NEW u,
             \/ SubmitTripReview(t, u, version)
             \/ JoinTrip(t, u, version)
             \/ LeaveTrip(t, u, version)
             \/ CancelTrip(t, u, version)
             \/ \E approved \in BOOLEAN : ReviewTrip(t, version, approved)
             \/ RevokeTripReview(t, version)
      PROVE  TripInputsKept'
  <2>1. trip[t] \in TripRows
    BY DEF CarpoolInv, CarpoolTypeOK
  <2>2. CASE SubmitTripReview(t, u, version) \/ RevokeTripReview(t, version)
    <3>1. PICK row : row = [trip[t] EXCEPT !.review = "pending_review", !.version = @ + 1]
      OBVIOUS
    <3>2. SaveTrip(t, row)
      BY <2>2, <3>1 DEF SubmitTripReview, RevokeTripReview
    <3>3. row.departure = trip[t].departure /\ row.total = trip[t].total
      BY <2>1, <3>1 DEF TripRows
    <3> QED
      BY <3>2, <3>3, <1>3
  <2>3. CASE JoinTrip(t, u, version)
    <3>1. PICK row : row = [trip[t] EXCEPT !.occupied = @ + 1, !.version = @ + 1,
                                           !.status = IF trip[t].occupied + 1 = trip[t].total
                                                      THEN "full" ELSE @]
      OBVIOUS
    <3>2. SaveTrip(t, row)
      BY <2>3, <3>1 DEF JoinTrip
    <3>3. row.departure = trip[t].departure /\ row.total = trip[t].total
      BY <2>1, <3>1 DEF TripRows
    <3> QED
      BY <3>2, <3>3, <1>3
  <2>4. CASE LeaveTrip(t, u, version)
    <3>1. PICK row : row = [trip[t] EXCEPT !.occupied = @ - 1, !.version = @ + 1, !.status = "open"]
      OBVIOUS
    <3>2. SaveTrip(t, row)
      BY <2>4, <3>1 DEF LeaveTrip
    <3>3. row.departure = trip[t].departure /\ row.total = trip[t].total
      BY <2>1, <3>1 DEF TripRows
    <3> QED
      BY <3>2, <3>3, <1>3
  <2>5. CASE CancelTrip(t, u, version)
    <3>1. PICK row : row = [trip[t] EXCEPT !.status = "cancelled", !.version = @ + 1]
      OBVIOUS
    <3>2. SaveTrip(t, row)
      BY <2>5, <3>1 DEF CancelTrip
    <3>3. row.departure = trip[t].departure /\ row.total = trip[t].total
      BY <2>1, <3>1 DEF TripRows
    <3> QED
      BY <3>2, <3>3, <1>3
  <2>6. CASE \E approved \in BOOLEAN : ReviewTrip(t, version, approved)
    <3>1. PICK approved \in BOOLEAN : ReviewTrip(t, version, approved)
      BY <2>6
    <3>2. PICK row : row = [trip[t] EXCEPT !.review = IF approved THEN "approved" ELSE "rejected",
                                           !.version = @ + 1]
      OBVIOUS
    <3>3. SaveTrip(t, row)
      BY <3>1, <3>2 DEF ReviewTrip
    <3>4. row.departure = trip[t].departure /\ row.total = trip[t].total
      BY <2>1, <3>2 DEF TripRows
    <3> QED
      BY <3>3, <3>4, <1>3
  <2> QED
    BY <1>5, <2>2, <2>3, <2>4, <2>5, <2>6
<1>7. CASE CompleteTrip
  <2>1. PICK t : t = Min(due)
    OBVIOUS
  <2>2. PICK row : row = [trip[t] EXCEPT !.status = "completed", !.version = @ + 1]
    OBVIOUS
  <2>3. UNCHANGED trip \/ SaveTrip(t, row)
    BY <1>7, <2>1, <2>2 DEF CompleteTrip
  <2>4. t \in Created => trip[t] \in TripRows
    BY DEF CarpoolInv, CarpoolTypeOK
  <2>5. t \in Created => row.departure = trip[t].departure /\ row.total = trip[t].total
    BY <2>2, <2>4 DEF TripRows
  <2> QED
    BY <2>3, <2>5, <1>1, <1>3
<1>8. CASE SelectDue \/ CompleteDueFails \/ TripTick \/ UNCHANGED carpoolVars
  BY <1>8, <1>1 DEF SelectDue, CompleteDueFails, TripTick, carpoolVars
<1> QED
  BY <1>2, <1>4, <1>5, <1>7, <1>8 DEF CarpoolNext, MemberWrites

\* The times and seats of trips are those of inputs.
LEMMA TripInputsInvariant == CarpoolSpec => []TripInputsKept
<1>1. CarpoolInit => TripInputsKept
  BY DEF CarpoolInit, TripInputsKept, Created
<1> QED
  BY <1>1, TripInputsStep, CarpoolInvariant, PTL DEF CarpoolSpec

\* Where the seats agree with the riders, the checks of an offered call pass; an edit
\* passes at least with the time and the seats the trip has.
LEMMA TripOffersFollow == CarpoolInv /\ TripInputsKept => TripOffersAccepted
<1> SUFFICES ASSUME CarpoolInv, TripInputsKept, NEW t \in Created, NEW u \in TripUsers,
                    trip[t].version < MaxTripVersion
             PROVE  LET offered == TripActions(t, u, tripClock)
                        v == trip[t].version
                    IN  /\ "edit" \in offered => \E d \in TripTimes, s \in TripSeats : MayUpdateTrip(t, u, v, d, s)
                        /\ "submit_review" \in offered => MaySubmitTripReview(t, u, v)
                        /\ "cancel" \in offered => MayCancelTrip(t, u, v)
                        /\ "join" \in offered => MayJoinTrip(t, u, v)
                        /\ "leave" \in offered => MayLeaveTrip(t, u, v)
  BY DEF TripOffersAccepted
<1> DEFINE offered == TripActions(t, u, tripClock)
           v == trip[t].version
<1>1. trip[t] \in TripRows /\ tripClock \in Nat
  BY CarpoolNumbers DEF CarpoolInv, CarpoolTypeOK
<1>2. tripClock \in Times
  BY <1>1, CarpoolAssumption DEF Times
<1>3. offered # {} => trip[t].departure > tripClock /\ ActiveTrip(t)
  BY <1>1 DEF TripActions, TripRows
<1>4. offered # {} => Underway(t, v)
  BY <1>2, <1>3 DEF Underway
<1>5. "edit" \in offered => \E d \in TripTimes, s \in TripSeats : MayUpdateTrip(t, u, v, d, s)
  <2> SUFFICES ASSUME "edit" \in offered
               PROVE  MayUpdateTrip(t, u, v, trip[t].departure, trip[t].total)
    BY DEF TripInputsKept
  <2>1. trip[t].organizer = u /\ trip[t].status = "open" /\ trip[t].occupied = 0
    BY DEF TripActions, TripRelation
  <2>2. ValidTripInput(trip[t].departure, trip[t].total, tripClock)
    BY <1>3 DEF ValidTripInput, TripInputsKept
  <2> QED
    BY <1>2, <1>3, <2>1, <2>2 DEF MayUpdateTrip, Reviewable
<1>6. "submit_review" \in offered => MaySubmitTripReview(t, u, v)
  <2> SUFFICES ASSUME "submit_review" \in offered PROVE MaySubmitTripReview(t, u, v)
    OBVIOUS
  <2>1. /\ trip[t].organizer = u /\ trip[t].status = "open"
        /\ trip[t].review \in {"draft", "rejected"}
    BY DEF TripActions, TripRelation
  <2> QED
    BY <1>3, <2>1 DEF MaySubmitTripReview, Reviewable
<1>7. "cancel" \in offered => MayCancelTrip(t, u, v)
  <2> SUFFICES ASSUME "cancel" \in offered PROVE MayCancelTrip(t, u, v)
    OBVIOUS
  <2>1. trip[t].organizer = u
    BY DEF TripActions, TripRelation
  <2> QED
    BY <1>4, <2>1 DEF MayCancelTrip
<1>8. "join" \in offered => MayJoinTrip(t, u, v)
  <2> SUFFICES ASSUME "join" \in offered PROVE MayJoinTrip(t, u, v)
    OBVIOUS
  <2>1. /\ TripRelation(t, u) = "none"
        /\ trip[t].review = "approved" /\ trip[t].occupied < trip[t].total
    BY DEF TripActions, TripRelation
  <2>2. trip[t].organizer # u /\ rider[t][u] # "joined"
    BY <2>1 DEF TripRelation, JoinedTrips
  <2> QED
    BY <1>4, <2>1, <2>2 DEF MayJoinTrip
<1>9. "leave" \in offered => MayLeaveTrip(t, u, v)
  <2> SUFFICES ASSUME "leave" \in offered PROVE MayLeaveTrip(t, u, v)
    OBVIOUS
  <2>1. TripRelation(t, u) = "participant"
    BY DEF TripActions, TripRelation
  <2>2. rider[t][u] = "joined"
    BY <2>1 DEF TripRelation, JoinedTrips
  <2> QED
    BY <1>4, <2>2 DEF MayLeaveTrip
<1> QED
  BY <1>5, <1>6, <1>7, <1>8, <1>9

\* Whatever AvailableActions of carpool/domain offers a viewer of a trip, UpdateTrip,
\* SubmitReview, Cancel, Join and Leave accept from that viewer at that moment.
THEOREM TripOffersHold == CarpoolSpec => []TripOffersAccepted
BY TripOffersFollow, TripInputsInvariant, CarpoolInvariant, PTL

\* A draft has no registration, so every capacity an edit names suffices.
LEMMA ActivityOffersFollow == ActivityInv => ActivityOffersAccepted
<1> SUFFICES ASSUME ActivityInv, NEW i \in Known, NEW u \in ActivityUsers
             PROVE  LET offered == ActivityActions(i, u, activityClock)
                        v == activity[i].version
                        r == registration[i][u]
                    IN  /\ v < MaxActivityVersion =>
                              /\ "edit" \in offered =>
                                    \A s \in Schedules, c \in Capacities :
                                        ValidActivityInput(s, c, activityClock) => MayUpdateActivity(i, u, v, s, c)
                              /\ "submit_review" \in offered => MaySubmitActivityReview(i, u, v)
                              /\ "cancel" \in offered => MayCancelActivity(i, u, v)
                        /\ r.version < MaxRegistrations =>
                              /\ "register" \in offered =>
                                    \A key \in RegistrationKeys \ {r.key} : MayRegister(i, u, key)
                              /\ "cancel_registration" \in offered /\ EventAccepted(i) =>
                                    MayCancelRegistration(i, u, r.version)
  BY DEF ActivityOffersAccepted
<1> DEFINE offered == ActivityActions(i, u, activityClock)
           v == activity[i].version
           r == registration[i][u]
<1>1. activity[i] \in ActivityRows /\ activityClock \in Nat
  BY ActivityNumbers DEF ActivityInv, ActivityTypeOK
<1>2. activityClock \in ActivityTimes
  BY <1>1, ActivityAssumption DEF ActivityTimes
<1>3. /\ "edit" \in offered => activity[i].owner = u /\ CanEdit(activity[i])
      /\ "submit_review" \in offered => activity[i].owner = u /\ CanSubmitReview(activity[i])
      /\ "cancel" \in offered => activity[i].owner = u /\ CanCancel(activity[i])
  BY DEF ActivityActions, ActivityRelation
<1>4. "register" \in offered => /\ activity[i].owner # u /\ registration[i][u].status # "active"
                                /\ RegistrationAllowed(activity[i], activityClock)
  BY DEF ActivityActions, ActivityRelation, IsViewerRegistered, Registered
<1>5. "cancel_registration" \in offered => CancellationAllowed(registration[i][u], activity[i], activityClock)
  BY DEF ActivityActions, ActivityRelation, IsViewerRegistered, Registered, CancellationAllowed
<1>6. ASSUME v < MaxActivityVersion, "edit" \in offered, NEW s \in Schedules, NEW c \in Capacities,
             ValidActivityInput(s, c, activityClock)
      PROVE  MayUpdateActivity(i, u, v, s, c)
  <2>1. Registered(i) = {}
    BY <1>3, <1>6 DEF CanEdit, ActivityInv, ActivityFits
  <2>2. activity[i].registered = 0
    BY <2>1, FS_EmptySet DEF ActivityInv, ActivityFits
  <2>3. c >= activity[i].registered
    BY <2>2, <1>6, ActivityNumbers
  <2> HIDE DEF offered
  <2> QED
    BY <1>2, <1>3, <1>6, <2>3 DEF MayUpdateActivity, AtVersion
<1> HIDE DEF offered
<1>7. v < MaxActivityVersion =>
         /\ "submit_review" \in offered => MaySubmitActivityReview(i, u, v)
         /\ "cancel" \in offered => MayCancelActivity(i, u, v)
  BY <1>3 DEF MaySubmitActivityReview, MayCancelActivity, AtVersion
<1>8. r.version < MaxRegistrations =>
         /\ "register" \in offered =>
               \A key \in RegistrationKeys \ {r.key} : MayRegister(i, u, key)
         /\ "cancel_registration" \in offered /\ EventAccepted(i) => MayCancelRegistration(i, u, r.version)
  BY <1>2, <1>4, <1>5 DEF MayRegister, MayCancelRegistration
<1> QED
  BY <1>6, <1>7, <1>8 DEF offered

\* An open task has no order, so no key of an acceptance is taken.
LEMMA TaskOffersFollow == ErrandInv => TaskOffersAccepted
<1> SUFFICES ASSUME ErrandInv, NEW t \in Posted, NEW u \in ErrandUsers, task[t].version < MaxTaskVersion
             PROVE  LET offered == TaskActions(t, u)
                        v == task[t].version
                    IN  /\ "edit" \in offered =>
                              \A d \in Deadlines : d > errandClock => MayUpdateTask(t, u, v, d)
                        /\ "submit_review" \in offered => MaySubmitTaskReview(t, u, v)
                        /\ "accept" \in offered => \A key \in AcceptKeys : MayAcceptTask(t, u, v, key)
                        /\ "pickup" \in offered => MayMoveOn(t, u, v, "accepted")
                        /\ "deliver" \in offered => MayMoveOn(t, u, v, "picked_up")
                        /\ "complete" \in offered => MayFinish(t, u, v, "completed")
                        /\ "cancel" \in offered => MayFinish(t, u, v, "cancelled")
  BY DEF TaskOffersAccepted
<1> DEFINE offered == TaskActions(t, u)
           v == task[t].version
           rel == TaskRelation(t, u)
<1>1. /\ rel = "publisher" => u = task[t].requester
      /\ rel = "runner" => u = task[t].runner
      /\ rel = "none" => u # task[t].requester
  BY DEF TaskRelation
<1>2. ASSUME task[t].status = "open", NEW key PROVE ~KeyUsed(t, key)
  <2>1. task[t].order = 0
    BY <1>2 DEF ErrandInv, TaskFits
  <2>2. \A n \in DOMAIN errandOrder : n # 0
    BY DEF ErrandInv, ErrandTypeOK
  <2> QED
    BY <2>1, <2>2 DEF KeyUsed, ErrandInv, OrdersHaveTasks
<1>3. \A x \in offered :
         /\ x = "edit" => rel = "publisher" /\ CanEditTask(task[t])
         /\ x = "submit_review" => rel = "publisher" /\ task[t].status = "open" /\ task[t].review \in {"draft", "rejected"}
         /\ x = "accept" => rel = "none" /\ t \in ListOpenTasks
         /\ x = "pickup" => rel = "runner" /\ task[t].status = "accepted"
         /\ x = "deliver" => rel = "runner" /\ task[t].status = "picked_up"
         /\ x = "complete" => rel = "publisher" /\ task[t].status = "delivered"
         /\ x = "cancel" => rel \in {"publisher", "runner"} /\ task[t].status \in {"open", "accepted"}
  BY DEF TaskActions
<1> HIDE DEF offered, rel
<1>4. "edit" \in offered => \A d \in Deadlines : d > errandClock => MayUpdateTask(t, u, v, d)
  BY <1>1, <1>3 DEF MayUpdateTask, Mutable, CanEditTask
<1>5. "submit_review" \in offered => MaySubmitTaskReview(t, u, v)
  BY <1>1, <1>3 DEF MaySubmitTaskReview, Mutable
<1>6. "accept" \in offered => \A key \in AcceptKeys : MayAcceptTask(t, u, v, key)
  BY <1>1, <1>2, <1>3 DEF MayAcceptTask, Mutable, ListOpenTasks
<1>7. /\ "pickup" \in offered => MayMoveOn(t, u, v, "accepted")
      /\ "deliver" \in offered => MayMoveOn(t, u, v, "picked_up")
  BY <1>1, <1>3 DEF MayMoveOn, Mutable
<1>8. /\ "complete" \in offered => MayFinish(t, u, v, "completed")
      /\ "cancel" \in offered => MayFinish(t, u, v, "cancelled")
  BY <1>1, <1>3 DEF MayFinish
<1> QED
  BY <1>4, <1>5, <1>6, <1>7, <1>8 DEF offered

\* An approved comment can be answered while an id is left and the depth allows it.
LEMMA CommentOffersFollow == CommentInv => CommentOffersAccepted
<1> SUFFICES ASSUME CommentInv, NEW c \in Written, NEW u \in CommentUsers
             PROVE  LET offered == CommentActions(c, u)
                        v == comment[c].version
                    IN  /\ v < MaxCommentVersion =>
                              /\ "edit" \in offered \/ "withdraw" \in offered => MayChangeComment(c, u, v)
                              /\ "submit_review" \in offered => MaySubmitCommentReview(c, u, v)
                        /\ "reply" \in offered /\ Written # CommentIds /\ comment[c].depth < CommentMaxDepth =>
                              \E d \in CommentIds : MayCreateComment(d, u, comment[c].target, c)
                        /\ "pin_comment" \in offered => MayPinComment(c, u, v)
                        /\ "unpin_comment" \in offered => MayUnpinComment(c, u, v)
  BY DEF CommentOffersAccepted
<1> DEFINE offered == CommentActions(c, u)
           v == comment[c].version
<1>1. \A x \in offered :
         /\ x \in {"edit", "withdraw"} => comment[c].author = u /\ comment[c].status # "withdrawn"
         /\ x = "submit_review" => comment[c].author = u /\ comment[c].status = "rejected"
         /\ x = "reply" => comment[c].status = "approved"
         /\ x \in {"pin_comment", "unpin_comment"} =>
               /\ TargetOwner[comment[c].target] = u
               /\ comment[c].parent = 0 /\ comment[c].status = "approved"
         /\ x = "unpin_comment" => pin[comment[c].target] = c
  BY DEF CommentActions
<1> HIDE DEF offered
<1>2. v < MaxCommentVersion =>
         /\ "edit" \in offered \/ "withdraw" \in offered => MayChangeComment(c, u, v)
         /\ "submit_review" \in offered => MaySubmitCommentReview(c, u, v)
  BY <1>1 DEF MayChangeComment, MaySubmitCommentReview, CommentAtVersion
<1>3. ASSUME "reply" \in offered, Written # CommentIds, comment[c].depth < CommentMaxDepth
      PROVE  \E d \in CommentIds : MayCreateComment(d, u, comment[c].target, c)
  <2>1. Written \subseteq CommentIds /\ comment[c] \in CommentRows
    BY DEF CommentInv, CommentTypeOK
  <2>2. CommentIds \ Written # {} /\ CommentIds \ Written \in SUBSET Nat
    BY <2>1, <1>3, CommentNumbers
  <2>3. PICK d \in CommentIds \ Written : \A e \in CommentIds \ Written : d <= e
    BY <2>2, LeastId
  <2>4. \A e \in CommentIds : e < d => e \in Written
    BY <2>3, CommentNumbers
  <2>5. comment[c].depth + 1 <= CommentMaxDepth
    BY <2>1, <1>3, CommentNumbers DEF CommentRows
  <2>6. comment[c].status # "withdrawn" /\ VisibleTo(c, u)
    BY <1>1, <1>3 DEF VisibleTo
  <2> QED
    BY <2>3, <2>4, <2>5, <2>6 DEF MayCreateComment
<1>4. /\ "pin_comment" \in offered => MayPinComment(c, u, v)
      /\ "unpin_comment" \in offered => MayUnpinComment(c, u, v)
  BY <1>1 DEF MayPinComment, MayUnpinComment, VisibleTo
<1> QED
  BY <1>2, <1>3, <1>4 DEF offered

\* Whatever AvailableActions of activities, errands and comments offers a viewer, their
\* stores accept from that viewer at that moment; but for a cancelled registration whose
\* event is refused, and a reply below the last level.
THEOREM OffersHold == ActivitySpec /\ ErrandSpec /\ CommentSpec => []OffersAccepted
<1>1. ActivityInv /\ ErrandInv /\ CommentInv => OffersAccepted
  BY ActivityOffersFollow, TaskOffersFollow, CommentOffersFollow DEF OffersAccepted
<1> QED
  BY <1>1, ActivityInvariant, ErrandInvariant, CommentInvariant, PTL
=============================================================================
