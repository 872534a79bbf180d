SPECIFICATION FairSpec
CONSTANTS
    Posts = {a, b}
    Poison = {b}
    Gets = {g, h}
    SPLIT = SPLIT
    HALF = HALF
    Durable = FALSE
    MaxFaults = 2
CHECK_DEADLOCK FALSE
INVARIANTS
    BreaksOnlyEarly
PROPERTIES
    EveryRequestEnds
