SPECIFICATION FairSpec
CONSTANTS
    Main = main
    Other = {service}
    Early = {}
    OneShot = {alarm}
    Recurring = {beat}
    NULL = NULL
    Durations = {1, 2}
    MaxPosts = 3
    MaxNow = 2
INVARIANTS NumbersFit
PROPERTIES OrderSpec NoTimerIsEarly NothingWaitsForEver
CHECK_DEADLOCK FALSE
