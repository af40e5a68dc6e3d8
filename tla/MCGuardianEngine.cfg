SPECIFICATION Spec
CONSTANTS
    Failures <- MCFailures
    ProbeFailures <- MCProbeFailures
    LogFailures <- MCLogFailures
    Policy <- MCPolicy
    MaxAttempts = 2
    Window = 2
    Cooldown = 1
    Grace = 0
    StartTimeout = 1
    Successes = 1
    MinHealthy = 1
    VerifyTimeout = 1
    PanelLease = 1
    LocalLease = 1
    MaxGeneration = 2
    None = None
INVARIANTS
    TypeOK
    EveryActionOnRecord
    BudgetRespected
    LadderBelongsToIncident
PROPERTIES
    CooldownRespected
    RecoveryAuthorised
    QuarantineNeedsClear
