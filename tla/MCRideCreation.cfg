CONSTANTS
    p1 = p1
    p2 = p2
    q1 = q1
    q2 = q2
    q3 = q3
    Passengers = {p1, p2}
    Quotes = {q1, q2, q3}
    Owner <- Owners
    Keys = {k1, k2}
    Calls = {c1, c2}
    None = None
SPECIFICATION Spec
SYMMETRY Symmetry
INVARIANT InsertsHold
PROPERTIES
    RetryIsNoConflict
    LedgerKept
