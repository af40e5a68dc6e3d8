SPECIFICATION Spec
CHECK_DEADLOCK FALSE
CONSTANTS
    Users <- TwoUsers
    Callers <- OneCaller
    NoRoom = NoRoom
    MaxRooms = 2
    MaxAttempts = 1
    MaxFaults = 0
    caller = caller
    callee = callee
INVARIANT UnansweredCallsEnd
