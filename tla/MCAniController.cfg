SPECIFICATION Spec
CONSTANTS
    s1 = s1
    s2 = s2
    h1 = h1
    h2 = h2
    Macs = {h1, h2}
    Broadcast = Broadcast
    Switches = {s1, s2}
    PortsOf <- MCPortsOf
    Nodes <- MCNodes
    Traffic <- AllTraffic
    Threads = {t1, t2}
    Main = Main
    None = None
    Signals = {}
    WaitLimit = 1
    MaxConn = 2
    MaxTraffic = 1
SYMMETRY Symmetry
INVARIANTS
    TypeOK
    MutexDiscipline
    RaceOnlyInUnlockedFree
    PortsOfThisSwitch
    SharersPerConnection
PROPERTIES
    ImplementsLinkTable
    HealthySessionStays
CHECK_DEADLOCK FALSE
