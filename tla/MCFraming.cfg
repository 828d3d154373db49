SPECIFICATION FairSpec
CONSTANTS
    Messages <- MCMessages
    MaxMessages = 3
INVARIANTS
    BufferOK
    HandlesMessages
PROPERTY
    WalkEnds
CHECK_DEADLOCK FALSE
