SPECIFICATION Spec
CHECK_DEADLOCK FALSE
CONSTANTS
    Users <- TwoUsers
    Callers <- OneCaller
    NoRoom = NoRoom
    MaxRooms = 1
    MaxAttempts = 2
    MaxFaults = 1
    caller = caller
    callee = callee
CONSTRAINT Bounded
INVARIANTS
    TypeOK
    EveryLineIsHeld
    NoRingingForNobody
    GoneMeansOver
