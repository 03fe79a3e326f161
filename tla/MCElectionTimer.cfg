CONSTANTS
    MaxElections = 3
    MaxResets = 3
SPECIFICATION FairSpec
INVARIANTS TypeOK OneTimer
PROPERTIES LeaderNeverCampaigns SilenceBringsElections
CHECK_DEADLOCK FALSE
