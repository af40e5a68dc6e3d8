SPECIFICATION FairSpec
CONSTANTS
    Workers <- TwoWorkers
    MaxIntents = 2
    MaxQuarantines = 0
    MaxFaults = 0
    w1 = w1
    w2 = w2
PROPERTY DesiredReachesAgent
