SPECIFICATION Spec
CONSTANTS
    Posts = {a, b, x}
    Poison = {x}
    Gets = {g, h}
    SPLIT = SPLIT
    HALF = HALF
    Durable = TRUE
    MaxFaults = 1
CHECK_DEADLOCK FALSE
SYMMETRY RequestSymmetry
INVARIANTS
    StoredIsListed
    FailedNeverListed
    OnlyTornOrPoisonSpoils
    FetchKeepsShown
PROPERTIES
    ImplementsTaskService
