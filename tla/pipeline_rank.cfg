SPECIFICATION PipelineFairSpec
CONSTANTS
    Harts <- MCHarts
    Payload <- MCPayload
    BatchSize = 2
    QueueCapacity = 2
    MaxEvents = 20
    Boot = 0
    Rank <- Together
    Programs <- JoinedPrograms
    FetchWidth = 2
INVARIANTS
    CompletedDrained
    RetiredAll
PROPERTIES
    RetireInOrder
    AllComplete
CHECK_DEADLOCK FALSE
