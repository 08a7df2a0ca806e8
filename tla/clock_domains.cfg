SPECIFICATION DomainsSpec
CONSTANTS
    Movable <- MCObjects
    RankNumbers = {0, 1}
    Frequencies = {2}
    SystemFreq = 1
    Threads = {0, 1}
    MaxNodes = 3
    MaxSettings = 3
INVARIANTS
    ClockFollowsTree
    HartsClocked
PROPERTIES
    PoolFitsPhases
CHECK_DEADLOCK FALSE
