SPECIFICATION Spec
CHECK_DEADLOCK FALSE
CONSTANTS
    Types <- MCTypes
    MaxIncidents = 2
    MaxAttempts = 2
    Retention = 1
    MaxFaults = 0
INVARIANT AcknowledgedWasCommitted
