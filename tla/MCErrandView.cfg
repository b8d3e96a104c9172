SPECIFICATION ErrandSpec
CONSTANTS
    Tasks = {1, 2}
    ErrandUsers = {w1, w2}
    Requesters = {w1}
    AcceptKeys = {k1}
    Deadlines = {1}
    MaxTaskVersion = 6
    MaxErrandClock = 1
    NoUser = NoUser
INVARIANTS
    VisibleTaskIsTheOneAsked
CHECK_DEADLOCK FALSE
