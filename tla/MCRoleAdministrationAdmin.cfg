SPECIFICATION Spec
CONSTANTS
    FirstAdmin = u1
    Users = {u1, u2}
    editor = editor
    Wishes <- MCWishes
    Students = {u2}
    CustomRoles = {editor}
    Requests = {q1, q2}
    Processes = {p1}
    MaxOpened = 3
INVARIANTS
    PreservesSuperAdmin
CHECK_DEADLOCK FALSE
