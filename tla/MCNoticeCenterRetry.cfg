SPECIFICATION Spec
CONSTANTS
    n1 = n1
    u1 = u1
    u2 = u2
    g1 = g1
    h1 = h1
    h2 = h2
    r1 = r1
    r2 = r2
    Notices = {n1}
    Users = {u1}
    Drafts <- SomeDraft
    RoleMembers <- MCRoleMembers
    Relays = {r1}
    Slots = {h1, h2}
    MaxRetry = 1
    MaxRequeues = 1
    MaxLeases = 2
    MaxFaults = 1
    MaxDisabled = 1
INVARIANTS
    KeepsRetryable
CHECK_DEADLOCK FALSE
