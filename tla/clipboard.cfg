SPECIFICATION Spec
CONSTANTS
    c1 = c1
    c2 = c2
    v1 = v1
    Client = {c1, c2}
    Primary = Primary
    Value = {v1}
    Nothing = Nothing
    MaxSeq = 3
    MaxCopies = 2
    MaxAway = 1
    MaxConnections = 2
    Background = {Primary}
SYMMETRY Symmetric
INVARIANTS ScreensAgree PasteGetsLatest LaterCopyWins
CHECK_DEADLOCK FALSE
