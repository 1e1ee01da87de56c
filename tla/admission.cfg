SPECIFICATION FairSpec
CONSTANTS
    Conn = {c1, c2}
    MaxRestarts = 1
INVARIANTS ConnectionsAreOwned
PROPERTIES EveryConnectionSettles
CHECK_DEADLOCK FALSE
