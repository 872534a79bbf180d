SPECIFICATION FairSpec
CONSTANTS
    Requests = {r1, r2}
    Products = {b1, b2}
    NaN = NaN
    Variants <- AllVariants
    MaxFaults = 2
CHECK_DEADLOCK FALSE
INVARIANTS
    AnsweredOnce
    AnswerTraced
PROPERTIES
    NoStepBack
    EveryRequestEnds
    StopEnds
