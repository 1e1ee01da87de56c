SPECIFICATION Spec
CONSTANTS
    p1 = p1
    p2 = p2
    p3 = p3
    Proxy = {p1, p2, p3}
    Primary = Primary
    NoScreen = NoScreen
    NoName = NoName
    Name = {"server", "a", "b"}
    RawName = {"server", "a", "b"}
    Lane = {1}
    Direction = {"kLeft", "kRight"}
    RawNameOf <- MCRawNameOf
    PrimaryName = "server"
    Configurations <- DelayedOnly
    Feature = {}
    SaverExclusive = TRUE
    MaxSeq = 4
INVARIANTS
    NoUseAfterDelete
CHECK_DEADLOCK FALSE
