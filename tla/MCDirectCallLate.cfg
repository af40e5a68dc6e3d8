SPECIFICATION Spec
CHECK_DEADLOCK FALSE
CONSTANTS
    Users <- TwoUsers
    Callers <- OneCaller
    NoRoom = NoRoom
    MaxRooms = 1
    MaxAttempts = 2
    MaxFaults = 0
    caller = caller
    callee = callee
INVARIANT LateReturnsAreHarmless
