SPECIFICATION Spec
CONSTANTS
    Pages = {p1}
    FloodFactor = 1
    PageTimeout = 4
    Versions <- AllVersions
    Routes <- VirtualServices
    Rated <- AllRated
    RatingsTimeout <- ShortTimeouts
    Delays <- FaultDelays
    Lags <- Lagging
    RatingsKinds <- GoodKinds
    ReviewsMayFail = FALSE
    MaxRatings = 0
CHECK_DEADLOCK FALSE
INVARIANTS
    PageInTime
    ReviewsAlwaysShown
    OpenBounded
    DelayHidesReviews
