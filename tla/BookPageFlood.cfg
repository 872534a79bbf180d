SPECIFICATION Spec
CONSTANTS
    Pages = {p1}
    FloodFactor = 2
    PageTimeout = 6
    Versions <- AllVersions
    Routes <- NoRoutes
    Rated <- AllRated
    RatingsTimeout <- AllTimeouts
    Delays <- NoDelay
    Lags <- NoLag
    RatingsKinds <- GoodKinds
    ReviewsMayFail = FALSE
    MaxRatings = 0
CHECK_DEADLOCK FALSE
INVARIANTS
    FloodAsynchronous
