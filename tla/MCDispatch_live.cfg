SPECIFICATION FairSpec
CONSTANTS
    Requests = {r1, r2}
    Drivers = {d1}
    Workers = {w1}
    Offers = {1, 2, 3}
    Capacity = 2
    None = None
PROPERTIES
    OffersEnd
    SearchEnds
