SPECIFICATION MCSpec
CONSTANTS
    r1 = r1
    r2 = r2
    Events = {1, 2}
    Relays = {r1, r2}
    Skew <- MCSkew
    Payload <- MCPayload
    ListingOwner <- MCListingOwner
    BatchSize = 2
    LeasePeriod = 1
    MaxAttempts = 2
    MaxTime = 6
    MaxUnhurried = 4
    WriteUntil = 0
    MaxCrashes = 1
INVARIANTS
    LeaseExclusive
    NoticeOnce
PROPERTIES
    DeliversEvents
    PromptRelaysSettle
