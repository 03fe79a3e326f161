CONSTANTS
    MaxLog = 3
    Term <- MCTerm
    Log <- MCLog
    Commit <- MCCommit
SPECIFICATION Spec
INVARIANTS TypeOK LoopsMerge StaleAnswer WriteInRange LateCopiesChangeNothing
CHECK_DEADLOCK FALSE
