CONSTANTS
    Replica = {r1, r2, r3, r4}
    NoVote = NoVote
    MaxTerm = 2
    MaxElections = 2
    MaxAppends = 0
    MaxRestarts = 0
SYMMETRY Symmetry
SPECIFICATION Spec
INVARIANTS LeaderHasMajority
CHECK_DEADLOCK FALSE
