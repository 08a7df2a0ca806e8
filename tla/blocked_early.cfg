SPECIFICATION PipelineSpec
CONSTANTS
    Harts <- MCHarts
    Payload <- MCPayload
    BatchSize = 2
    QueueCapacity = 2
    MaxEvents = 20
    Boot = 0
    Rank <- Apart
    Programs <- EarlySyscallPrograms
    FetchWidth = 2
INVARIANT
    BlockedOnSyscall
CHECK_DEADLOCK FALSE
