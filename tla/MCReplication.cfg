CONSTANTS
    Replica = {r1, r2, r3}
    Call = {c1, c2}
    None = None
    MaxTerm = 2
    MaxLog = 2
    MaxExtras = 1
CONSTRAINT Bounded
SYMMETRY Symmetry
SPECIFICATION Spec
INVARIANTS TypeOK LogMatching CommittedAgree AckedStays NextIndexInLog
CHECK_DEADLOCK FALSE
