SPECIFICATION FairSpec
CONSTANTS
    Harts <- MCHarts
    Payload <- MCPayload
    BatchSize = 2
    QueueCapacity = 2
    MaxEvents = 12
INVARIANTS
    TypeOK
    StreamIntact
PROPERTIES
    ImplementsStream
    FlushDelivers
    ShutdownReturns
CHECK_DEADLOCK FALSE
