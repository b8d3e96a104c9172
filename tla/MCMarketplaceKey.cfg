SPECIFICATION Spec
CONSTANTS
    l1 = l1
    l2 = l2
    u1 = u1
    u2 = u2
    u3 = u3
    Listings = {l1, l2}
    Users = {u1, u2, u3}
    Owner <- MCOwner
    Keys = {k1, k2}
    Orders = {1, 2}
    Admins = {a1}
    Workers = {w1}
    ExpireLimit = 1
    MaxEdits = 2
INVARIANTS
    KeyScopedToBuyer
CHECK_DEADLOCK FALSE
