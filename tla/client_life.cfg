SPECIFICATION FairSpec
CONSTANTS
    MaxSuspends = 3
    MaxErrors = 1
INVARIANTS ClientFits RestartsAreCounted
PROPERTIES ComesBack
CHECK_DEADLOCK FALSE
