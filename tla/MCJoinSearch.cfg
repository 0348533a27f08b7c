SPECIFICATION Spec
CONSTANTS
  Rides = {1, 2, 3}
  Pools = {1, 2}
  Workers = {w1, w2}
  w1 = w1
  w2 = w2
  From <- MCFrom
  To <- MCTo
  DriverAt <- MCDriverAt
  Travel <- MCTravel
  Rush = {1}
  Near <- MCNear
  Capacity = 3
  Limits <- MCLimits
  Weights <- MCWeights
  Window = 1
  MaxCandidates = 2
  OfferTtl = 2
  LastRequest = 0
  LastInstant = 2
SYMMETRY Symmetry
CHECK_DEADLOCK FALSE
INVARIANTS
  KindToAll
  WaitHolds
  RewriteIsClean
PROPERTY OfferIsTheBest
