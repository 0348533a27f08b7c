SPECIFICATION Spec
CONSTANTS
    Requests = {r1, r2}
    Drivers = {d1, d2}
    Workers = {w1, w2}
    Offers = {1, 2}
    Capacity = 2
    None = None
SYMMETRY Symmetry
INVARIANTS
    DriverCommitment
    SingleOffer
