CONSTANTS
    N = 4
    Peer = {p1, p2, p3}
    MaxTries = 2
SPECIFICATION FairSpec
INVARIANTS TypeOK  FailureIsFinal OneVerdict
PROPERTY CallerIsTold
CHECK_DEADLOCK FALSE
