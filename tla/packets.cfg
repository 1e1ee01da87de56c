SPECIFICATION PacketFairSpec
CONSTANTS
    Header = 2
    Base = 2
    MaxPackets = 3
    MaxSize = 2
INVARIANTS PacketsAreWhole
PROPERTIES StreamSpec EverythingIsTold
CHECK_DEADLOCK FALSE
