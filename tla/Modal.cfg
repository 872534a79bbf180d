SPECIFICATION FairSpec
CONSTANTS
    MaxOpens = 3
CHECK_DEADLOCK FALSE
INVARIANTS
    InOrder
PROPERTIES
    DragKeepsOpen
    Closes
