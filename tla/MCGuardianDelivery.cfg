SPECIFICATION FairSpec
CHECK_DEADLOCK FALSE
CONSTANTS
    Types <- MCTypes
    MaxIncidents = 2
    MaxAttempts = 1
    Retention = 1
    MaxFaults = 1
INVARIANTS
    TypeOK
    CommittedBeforeAcknowledged
    OccurrencesCountDeliveries
    CommittedIsRecorded
PROPERTIES
    HistoryOnlyGrows
    EveryIncidentArrives
    LogPromise
