SPECIFICATION Spec
CONSTANTS
    Requests = {r1, r2, r3}
    Drivers = {d1}
    Workers = {w1}
    Offers = {1, 2, 3}
    Capacity = 2
    None = None
SYMMETRY Symmetry
INVARIANTS
    RideAgrees
    JoinOffersAreCurrent
    FareCoversPlan
    AcceptedOfferIsTheSeat
PROPERTIES
    OfferFinality
    PromiseKept
