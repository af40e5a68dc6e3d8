SPECIFICATION FairSpec
CONSTANTS
    Failures <- MCFailures
    ProbeFailures <- MCProbeFailures
    LogFailures <- MCLogFailures
    Policy <- MCPolicy
    MaxAttempts = 1
    Window = 1
    Cooldown = 1
    Grace = 0
    StartTimeout = 1
    Successes = 1
    MinHealthy = 1
    VerifyTimeout = 1
    PanelLease = 0
    LocalLease = 1
    MaxGeneration = 1
    None = None
PROPERTY DesiredStopConverges
