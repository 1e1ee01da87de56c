SPECIFICATION FairSpec
CONSTANTS
    Socket = {listener, data}
    Listener = listener
    Me = data
    NULL = NULL
    MaxSent = 2
    MaxWritten = 2
    MaxConnections = 2
INVARIANTS SocketsArePolled NothingIsLost
PROPERTIES FlushReturns PeersAreHeard
CHECK_DEADLOCK FALSE
