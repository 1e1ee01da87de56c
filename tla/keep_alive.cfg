SPECIFICATION FairSpec
CONSTANTS
    KeepAliveRate = 3
    KeepAlivesUntilDeath = 3
    Options = {0, 2}
    MaxDelay = 1
    MaxReloads = 1
    MaxChanges = 1
INVARIANTS EndsAgree LiveIsKept
PROPERTIES GoneIsNoticed
CHECK_DEADLOCK FALSE
