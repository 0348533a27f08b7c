CONSTANTS
    Requests = {r1, r2, r3, r4}
    Driver = d1
    Seats = 3
    None = None
SPECIFICATION Spec
CHECK_DEADLOCK FALSE
INVARIANTS
    RidersFollowThePlan
    ButtonsWork
    TripCanGoOn
PROPERTIES
    RetriesSucceed
    OrderIsKept
    PromiseKept
