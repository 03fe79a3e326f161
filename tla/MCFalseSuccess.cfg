CONSTANTS
    Replica = {r1, r2, r3}
    Call = {c1, c2}
    None = None
    MaxTerm = 2
    MaxLog = 2
    MaxExtras = 0
SYMMETRY Symmetry
SPECIFICATION Spec
INVARIANTS AckedIsPersisted
CHECK_DEADLOCK FALSE
