CONSTANTS
    MaxLog = 4
    MaxFailures = 1
    MaxCrashes = 2
SPECIFICATION FairSpec
INVARIANTS TypeOK CommitsAccounted OnlyOrphansOverrun AppliedIsRecorded AppliedOnce
PROPERTIES AppliedInOrder CommittedIsAppliedOrStuck
CHECK_DEADLOCK FALSE
