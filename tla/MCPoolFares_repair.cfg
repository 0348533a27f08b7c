SPECIFICATION Spec
CONSTANTS
  Rides = {1}
  Pools = {1}
  Capacity = 2
  From <- MCFrom
  To <- MCTo
  Route <- MCRoute
  Rush = {1}
  Policies <- OneUnit
  LastInstant = 0
  LastRule = 2
  SweepLimit = 1
  OldFare <- NoOldFare
  OldPool <- NoOldPool
PROPERTY RepairRepairs
CHECK_DEADLOCK FALSE
