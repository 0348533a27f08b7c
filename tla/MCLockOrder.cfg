CONSTANTS
    Requests = {r1, r2, r3}
    Transactions = {t1, t2, t3}
    None = None
SPECIFICATION Spec
SYMMETRY Symmetry
INVARIANTS
    OnlyDeparturesCollide
    ChecksStayTrue
    DepartedIsClosed
PROPERTY NobodyJoinsUnderWay
