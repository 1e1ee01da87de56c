SPECIFICATION FairSpec
CONSTANTS
    MaxClients = 2
    MaxFailures = 2
    MaxChanges = 4
    MaxErrors = 1
INVARIANTS PartsFit
PROPERTIES ClosingEnds ServesAgain
CHECK_DEADLOCK FALSE
