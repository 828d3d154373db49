SPECIFICATION FairSpec
CONSTANTS
    s1 = s1
    s2 = s2
    h1 = h1
    h2 = h2
    Macs = {h1, h2}
    Broadcast = Broadcast
    Switches = {s1, s2}
    PortsOf <- MCPortsOf
    Nodes <- MCNodes
    Traffic <- LldpTraffic
    Threads = {t1}
    Main = Main
    None = None
    Signals = {SIGINT}
    WaitLimit = 1
    MaxConn = 1
    MaxTraffic = 0
PROPERTY
    ExitFreesMemory
CHECK_DEADLOCK FALSE
