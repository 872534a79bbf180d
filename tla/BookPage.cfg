SPECIFICATION FairSpec
CONSTANTS
    Pages = {p1}
    FloodFactor = 0
    PageTimeout = 4
    Versions <- AllVersions
    Routes <- NoRoutes
    Rated <- AllRated
    RatingsTimeout <- ShortTimeouts
    Delays <- NoDelay
    Lags <- Lagging
    RatingsKinds <- AllKinds
    ReviewsMayFail = TRUE
    MaxRatings = 1
CHECK_DEADLOCK FALSE
INVARIANTS
    ShownFresh
PROPERTIES
    PageRendered
