SPECIFICATION Spec
CONSTANTS
    p1 = p1
    p2 = p2
    p3 = p3
    Proxy = {p1, p3}
    Primary = Primary
    NoScreen = NoScreen
    NoName = NoName
    Name = {"server", "a", "b"}
    RawName = {"server", "a", "b", "a2"}
    Lane = {1}
    Direction = {"kLeft", "kRight"}
    RawNameOf <- AliasRawNameOf
    PrimaryName = "server"
    Configurations <- GateConfigurations
    Feature = {"lock", "drag", "corner", "reload", "saver"}
    SaverExclusive = TRUE
    MaxSeq = 3
INVARIANTS
    GateFollowsOptions
PROPERTIES
    LockHolds
CHECK_DEADLOCK FALSE
