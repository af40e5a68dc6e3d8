SPECIFICATION FairSpec
CHECK_DEADLOCK FALSE
CONSTANTS
    MaxJobs = 2
    MaxFaults = 2
INVARIANTS
    TypeOK
    OwnersLive
    DownMeansDown
PROPERTIES
    TaskEnds
    StatusSettles
