SPECIFICATION MuxFairSpec
CONSTANTS
    Caller = {t1, t2}
    Service = Service
    Socket = {s1, s2}
    Job = {read, write}
    NULL = NULL
    MaxCalls = 3
INVARIANTS ListFits OneAtTheList
PROPERTIES OnlyTheLockerGetsIt TableSpec ServiceYields
CHECK_DEADLOCK FALSE
