SPECIFICATION Spec
CONSTANTS
    Count = 3
    MaxClicks = 6
    Size = 3
    MaxAsks = 4
    MaxMoves = 3
    MaxTexts = 3
    MaxPosts = 3
    Calls = {r1, r2}
    MaxCrashes = 2
    Pods = {p1, p2}
    Stories = {t1, t2}
    Reads = {g1}
    MaxEnds = 2
CHECK_DEADLOCK FALSE
INVARIANTS
    OneOpen
    Steady
    TakenOrKept
    StoredIsRead
    ReadyStops
PROPERTIES
    Reached
    NeverResent
    CallsAnswered
    SignalEnds
