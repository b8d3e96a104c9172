SPECIFICATION ActivitySpec
CONSTANTS
    Activities = {1}
    ActivityUsers = {v1, v2, v3}
    Publishers = {v1}
    RegistrationKeys = {k1, k2}
    Schedules <- MCSchedules
    Capacities = {2}
    MaxActivityVersion = 6
    MaxRegistrations = 3
    MaxActivityClock = 3
    MaxActivityWait = 1
INVARIANTS
    ReEmitsCollapse
CHECK_DEADLOCK FALSE
