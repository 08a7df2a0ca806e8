SPECIFICATION FairBootSpec
CONSTANTS
    CPUs = 3
    Word = 8
    MaxProcesses = 3
    Requests <- MCRequests
    PipeSize = 1
    Outputs <- MCOutputs
INVARIANTS
    BootTypeOK
    HartsAssigned
    CompletedHaveEnded
PROPERTIES
    HartsStay
    ProcessesComplete
CHECK_DEADLOCK FALSE
