CONSTANTS
    MaxRequests = 2
    Client = {a}
    Key = {k}
    Value = {v}
    None = None
    MaxInherited = 1
    MaxFailures = 1
SPECIFICATION FairSpec
INVARIANTS TypeOK ReadSeesAnswered RepeatedIsReplicated
PROPERTIES ChangesExistingKey RequestsAnswered
CHECK_DEADLOCK FALSE
