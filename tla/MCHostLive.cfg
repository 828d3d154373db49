SPECIFICATION FairSpec
CONSTANTS
    s1 = s1
    s2 = s2
    h1 = h1
    h2 = h2
    Macs = {h1, h2}
    Broadcast = Broadcast
    Switches = {s1, s2}
    Ports = {1, 2}
    Place <- MCPlace
    Frames <- Talk
    None = None
    MaxConn = 1
    MaxFrames = 3
    MaxMoves = 0
PROPERTY
    KnownIsReached
CHECK_DEADLOCK FALSE
