SPECIFICATION WorkersSpec
CONSTANTS
    a1 = a1
    a2 = a2
    a3 = a3
    a4 = a4
    NoAttempt = NoAttempt
    Attempts = {a1, a2, a3, a4}
    Scope <- MCScope
    RequestHash <- MCRequestHash
    Instances = {i1, i2}
    Watched = {i1}
    Nobody = Nobody
    Gone = Gone
    MaxVersion = 1
    MaxFaults = 2
    Trips = {1, 2}
    TripUsers = {u1, u2, u3}
    Organizers = {u1}
    TripSeats = {2}
    TripTimes = {1}
    MaxTripVersion = 4
    MaxTripClock = 2
    MaxLockWait = 1
    TripBatch = 1
    MaxTripFaults = 1
    Students = {s1, s2}
    StudentNos = {n1, n2}
    MaterialIds = {1}
    RequestIds = {1, 2}
    Cleaners = {w1, w2}
    CleanupBatch = 2
    MaxIdentityVersion = 3
    MaxCleanupFaults = 1
INVARIANTS
    WorkersTypeOK
    SeatsMatchRiders
    TripOffersAccepted
    PendingMaterialKept
    MembershipHasItsRequest
PROPERTIES
    KeepsItsPromise
    EnforcerNeverGoesBack
    TripEndsOnce
    EveryAttemptEnds
    Converges
    EveryChangeDispatched
    DepartedTripsComplete
    DueMaterialsDeleted
CHECK_DEADLOCK FALSE
