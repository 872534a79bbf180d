SPECIFICATION Spec
CONSTANTS
    Posts = {a, b}
    Poison = {}
    Gets = {g}
    SPLIT = SPLIT
    HALF = HALF
    Durable = TRUE
    MaxFaults = 1
CHECK_DEADLOCK FALSE
INVARIANTS
    LastEntryEmpty
