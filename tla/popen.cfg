SPECIFICATION PopenSpec
CONSTANTS
    Popens <- MCPopens
    Usages <- MCUsages
    MaxFd = 15
    EintrLimit = 1
    Interrupts = 2
INVARIANTS
    ChildStreams
    EndsArePrivate
    ConstructorTells
PROPERTIES
    ConstructorReturns
    KilledIsReaped
CHECK_DEADLOCK FALSE
