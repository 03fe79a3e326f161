CONSTANTS
    MaxRequests = 2
    Client = {a, b}
    Key = {k}
    Value = {v}
    None = None
    MaxInherited = 0
    MaxFailures = 0
SYMMETRY Symmetry
SPECIFICATION Spec
INVARIANTS AnsweredIsPerformed
CHECK_DEADLOCK FALSE
