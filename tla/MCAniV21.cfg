SPECIFICATION Spec
CONSTANTS
    s1 = s1
    s2 = s2
    s3 = s3
    h1 = h1
    h2 = h2
    Switches = {s1, s2, s3}
    PortsOf <- MCPortsOf
    Macs = {h1, h2}
    Broadcast = Broadcast
    Traffic <- MCTraffic
    MaxThreads = 2
    None = None
    Signals = {SIGINT}
    MaxConn = 3
    MaxTraffic = 1
INVARIANTS TablesOK PairOfOneSwitch WrongSwitchOnlyFromEarlier NodeThreadsPerConnection
CHECK_DEADLOCK FALSE
