SPECIFICATION FairSpec
CONSTANTS
    Servers = {s1}
    Keys <- SomeTexts
    Numeric <- JustSeven
    Value <- SomeValue
    PgInt <- JustSeven
    Absent = Absent
    Pending = Pending
    MaxPosts = 2
    MaxFaults = 3
INVARIANTS
    PendingExplained
    SeenHasEntry
PROPERTIES
    PendingEnds
CHECK_DEADLOCK FALSE
