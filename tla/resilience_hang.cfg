SPECIFICATION FairSpec
CONSTANTS
    Lookups = {l1, l2}
    PermitLimit = 1
    MaxRetryAttempts = 1
    AttemptTimeout = 2
    LookupTimeout = 3
    BreakDuration = 4
    MinimumThroughput = 2
    MaxDelay = 1
    MaxSample = 3
PROPERTIES
    HangsAreCounted
CHECK_DEADLOCK FALSE
