SPECIFICATION FairSpec
CONSTANTS
    Workers <- TwoWorkers
    MaxIntents = 2
    MaxQuarantines = 1
    MaxFaults = 0
    w1 = w1
    w2 = w2
PROPERTY DesiredReachesAgentUnlessRaced
