SPECIFICATION Spec
CONSTANTS
  Rides = {1, 2, 3}
  Pools = {1, 2}
  Capacity = 2
  From <- MCFrom
  To <- MCTo
  Route <- MCRoute
  Rush = {1}
  Policies <- OneUnit
  LastInstant = 1
  LastRule = 2
  SweepLimit = 1
  OldFare <- OneOldFare
  OldPool <- OneOldPool
INVARIANTS
  OneAnswer
  FaresStayInBounds
  PaysForOwnLegs
  ChecksNeverRefuse
PROPERTY SettledForGood
CHECK_DEADLOCK FALSE
