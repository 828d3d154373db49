SPECIFICATION Spec
CONSTANTS
    s1 = s1
    s2 = s2
    h1 = h1
    h2 = h2
    Macs = {h1, h2}
    Broadcast = Broadcast
    Switches = {s1, s2}
    Ports = {1, 2, 3}
    Place <- MCPlace
    Frames <- SomeFrames
    None = None
    MaxConn = 2
    MaxFrames = 3
    MaxMoves = 1
INVARIANTS
    TypeOK
    HostsUnique
    FlowsFollowTable
    LeadsHome
    SessionFlowsMatch
CHECK_DEADLOCK FALSE
