SPECIFICATION FairSpec
CONSTANTS
    Requests = {1, 2}
    Drivers = {1, 2}
    Points <- MCPlaces
    StraightLine <- MCStraightLine
    Approach <- MCApproach
    Radius = 4
    MaxCandidates = 2
    MaxApproach = 2
    Freshness = 1
    Minute = 1
    Weights <- MCWeights
    Pickup <- MCPickup
    Dropoff <- MCDropoff
    Processes = {p}
    OfferTtl = 1
    Window = 2
    RejectionWindow = 1
    WorkloadWindow = 2
    ExpireLimit = 1
    RetryLimit = 1
    MaxDeeds = 1
    LastDeed = 1
    LastInstant = 2
    LastRequest = 0
    Start <- MCStart
    None = None
CHECK_DEADLOCK FALSE
PROPERTY NobodyIsForgotten
PROPERTY OverdueOffersEnd
PROPERTY MatchesComeInTime
PROPERTY ProximityWins
