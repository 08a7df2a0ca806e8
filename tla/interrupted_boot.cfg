SPECIFICATION BootSpec
CONSTANTS
    CPUs = 3
    Word = 8
    MaxProcesses = 3
    Requests <- MCRequests
    PipeSize = 1
    Outputs <- MCOutputs
INVARIANT ExitsCleanly
CHECK_DEADLOCK FALSE
