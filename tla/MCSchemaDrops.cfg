SPECIFICATION PlanSpec
CONSTANTS
    Columns = {"a", "b"}
    KeyColumns = {"a"}
    WideColumns = {"b"}
    Tables = {"p", "c"}
    Parent = "p"
    IndexNames = {"i"}
    NoColumn = ""
INVARIANTS
    DropsAreConfirmed
CHECK_DEADLOCK FALSE
