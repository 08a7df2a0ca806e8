SPECIFICATION FairSpec
CONSTANTS
    w1 = w1
    w2 = w2
    w3 = w3
    c1 = c1
    c2 = c2
    t1 = t1
    t2 = t2
    t3 = t3
    t4 = t4
    NoTask = NoTask
    Workers <- MCWorkers
    Clients <- MCClients
    Tasks <- MCTasks
    Needs <- MCNeeds
INVARIANTS
    TypeOK
    EachTaskInOnePlace
    NoLostWakeup
    NothingAbandoned
PROPERTIES
    EveryFutureReady
    DestructorReturns
CHECK_DEADLOCK FALSE
