SPECIFICATION CommSpec
CONSTANTS
    Givens <- MCGivens
    Lengths = {0, 2}
    Capacity = 1
    BufferCap = 1
    EintrLimit = 1
    Written = 3
    Interrupts = 2
    WriteErrors <- MCWriteErrors
INVARIANTS
    BufferHolds
    NothingLost
PROPERTIES
    CommunicateReturns
CHECK_DEADLOCK FALSE
