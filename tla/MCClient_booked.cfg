SPECIFICATION Spec
CONSTANTS
  Journeys = {home, work}
  None = None
  MaxHides = 1
  MaxLost = 1
  MaxDeeds = 3
  MaxRides = 1
  MaxOffers = 2
CHECK_DEADLOCK FALSE
PROPERTY BookedAsChosen
