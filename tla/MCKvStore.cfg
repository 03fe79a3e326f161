CONSTANTS
    k1 = k1
    k2 = k2
    k3 = k3
    b1 = b1
    b2 = b2
    Key = {k1, k2, k3}
    Bucket = {b1, b2}
    Hash <- MCHash
    Empty = Empty
    Invalid = Invalid
    Value = {v1, v2, Empty, Invalid}
    None = None
    NoPair = NoPair
    Exists = Exists
    Done = Done
    MaxNodes = 3
SPECIFICATION Spec
INVARIANTS TypeOK OnlyInvalidHidden
PROPERTIES IsMap
CHECK_DEADLOCK FALSE
