SPECIFICATION FairSpec
CONSTANTS
    p1 = p1
    p2 = p2
    p3 = p3
    Proxy = {p1, p2, p3}
    Primary = Primary
    NoScreen = NoScreen
    NoName = NoName
    Name = {"server", "a", "b"}
    RawName = {"server", "a", "b"}
    Lane = {1}
    Direction = {"kLeft", "kRight"}
    RawNameOf <- MCRawNameOf
    PrimaryName = "server"
    Configurations <- Reloads
    Feature = {"hotkey", "lock", "drag", "leavefails", "overshoot", "reconnect", "saver", "reload", "stop"}
    SaverExclusive = TRUE
    MaxSeq = 4
INVARIANTS StateFits ActiveIsConnected OneScreenEntered NoUseAfterDelete IndexesAgree CloseIsAnnounced
PROPERTIES CursorSpec ClosedClientsGo
CHECK_DEADLOCK FALSE
