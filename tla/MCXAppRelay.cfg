SPECIFICATION FairSpec
CONSTANTS
    MaxMessages = 2
    MaxInterrupts = 1
    MaxStops = 1
INVARIANTS
    ProcessesOK
PROPERTIES
    ImplementsChannels
    
    StrayKillOnlyAtFork
    BothDirectionsLast
CHECK_DEADLOCK FALSE
