SPECIFICATION Spec
CONSTANTS
    h1 = h1
    h2 = h2
    Macs = {h1, h2}
    Broadcast = Broadcast
    Traffic <- MCTraffic
    SIGINT = SIGINT
    Signals = {SIGINT, SIGTERM}
    NULL = NULL
    Junk = Junk
    Raw = Raw
    MaxTraffic = 3
    MaxFails = 1
INVARIANTS ListsOK FaultOnlyWhenTorn EndsClean ShowsRows
PROPERTY FlowsFollowTable
CHECK_DEADLOCK FALSE
