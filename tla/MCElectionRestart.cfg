CONSTANTS
    Replica = {r1, r2, r3}
    NoVote = NoVote
    MaxTerm = 2
    MaxElections = 2
    MaxAppends = 2
    MaxRestarts = 1
SYMMETRY Symmetry
SPECIFICATION Spec
INVARIANTS TypeOK MajorityElectionSafety LeaderHasMajority
PROPERTIES TermNeverDecreases VoteForOtherStands
CHECK_DEADLOCK FALSE
