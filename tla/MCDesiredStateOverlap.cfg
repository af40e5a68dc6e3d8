SPECIFICATION Spec
CONSTANTS
    Workers <- TwoWorkers
    MaxIntents = 3
    MaxQuarantines = 2
    MaxFaults = 0
    w1 = w1
    w2 = w2
INVARIANTS
    TypeOK
    NoGenerationConflict
PROPERTIES
    ClearNotForgotten
SYMMETRY SessionSymmetry
