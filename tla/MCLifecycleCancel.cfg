SPECIFICATION FairSpec
CHECK_DEADLOCK FALSE
CONSTANTS
    MaxJobs = 2
    MaxFaults = 1
PROPERTY
    CancelEndsLogin
