SPECIFICATION PipelineSpec
CONSTANTS
    Harts <- MCHarts
    Payload <- MCPayload
    BatchSize = 2
    QueueCapacity = 2
    MaxEvents = 20
    Boot = 0
    Rank <- Apart
    Programs <- MCPrograms
    FetchWidth = 2
INVARIANTS
    PipelineTypeOK
    OneWakeSource
    BlockedOnSyscall
    NextPcFollows
PROPERTIES
    MeetsChannel
CHECK_DEADLOCK FALSE
