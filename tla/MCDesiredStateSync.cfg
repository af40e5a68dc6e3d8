SPECIFICATION FairSpec
CONSTANTS
    Workers <- OneWorker
    MaxIntents = 3
    MaxQuarantines = 2
    MaxFaults = 2
    w1 = w1
    w2 = w2
INVARIANTS
    TypeOK
    NoGenerationConflict
PROPERTIES
    ClearNotForgotten
    DesiredReachesAgent
