SPECIFICATION ServicesSpec
CONSTANTS
    FirstAdmin = u1
    Users = {u1, u2}
    editor = editor
    Wishes <- MCWishes
    Students = {u2}
    CustomRoles = {editor}
    Requests = {q1, q2}
    Processes = {p1}
    MaxOpened = 3
    Activities = {1}
    ActivityUsers = {v1, v2, v3}
    Publishers = {v1}
    RegistrationKeys = {k1, k2}
    Schedules <- MCSchedules
    Capacities = {1, 2}
    MaxActivityVersion = 6
    MaxRegistrations = 3
    MaxActivityClock = 3
    MaxActivityWait = 1
    Tasks = {1, 2}
    ErrandUsers = {w1, w2}
    Requesters = {w1}
    AcceptKeys = {k1}
    Deadlines = {1}
    MaxTaskVersion = 6
    MaxErrandClock = 1
    NoUser = NoUser
    CommentIds = {1, 2, 3}
    CommentUsers = {c1, c2}
    Targets = {t1}
    TargetOwner <- MCTargetOwner
    CommentMaxDepth = 2
    MaxCommentVersion = 3
    Sections = {1, 2}
    Posts = {1}
    Authors = {a1}
    CircleCalls = {k1, k2}
    MaxPostVersion = 3
    MaxSectionVersion = 3
    Accounts = {x1}
    SessionIds = {1, 2}
    Callers = {y1, y2}
    MaxActiveSessions = 1
    RefreshTTL = 2
    MaxSessionVersion = 2
    MaxGeneration = 3
    MaxAuthClock = 2
    ConfigKeys = {g1}
    JsonValues = {j1}
    TextValues = {s1}
    Editors = {e1, e2}
    MaxConfigId = 2
    MaxConfigVersion = 3
    Columns = {"a", "b", "c"}
    KeyColumns = {"a"}
    WideColumns = {"b"}
    Tables = {"p", "c"}
    Parent = "p"
    IndexNames = {"i"}
    NoColumn = ""
    DraftNames = {"x", "y"}
    MaxMigrationClock = 1
    VersionAttempts = 2
    MaxMigrationFaults = 2
SYMMETRY Symmetry
INVARIANTS
    ServicesTypeOK
    OneBaseRole
    CountMatchesRegistrations
    TaskAndOrderAgree
    ReadersSeeTheVisibleTree
    OffersAccepted
    PlanWorks
    OldPasswordLocksOut
    RefreshedOnce
    FailedPromoteLeavesNothing
PROPERTIES
    PostsEnterOpenSections
    EditsCompose
    HistoryKept
CHECK_DEADLOCK FALSE
