SPECIFICATION RoundsFairSpec
CONSTANTS
    w1 = w1
    w2 = w2
    b1 = b1
    b2 = b2
    v1 = v1
    v2 = v2
    Main = Main
    NoTask = NoTask
    MaxRounds <- MCRounds
    BoundRanks <- MCBoundRanks
    WeaveRanks <- MCWeaveRanks
    Workers <- MCWorkers
    Clients <- MCClients
    Tasks <- MCTasks
    Needs <- MCNeeds
INVARIANTS
    RoundsTypeOK
    OneRunPerScheduler
PROPERTIES
    ImplementsLockStep
    SimulationStops
CHECK_DEADLOCK FALSE
