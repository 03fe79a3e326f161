CONSTANTS
    MaxElections = 2
    MaxResets = 2
SPECIFICATION Spec
PROPERTIES TimeoutStartsElection
CHECK_DEADLOCK FALSE
