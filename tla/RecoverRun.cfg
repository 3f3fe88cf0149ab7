SPECIFICATION FairSpec
CONSTANTS
    Nibble = 4
    MaxSize = 2
    Starts <- AllStarts
    Chains <- AllChains
    Objects <- AllObjects
    Dest = 2
    Depth = 3
    ClusterSize = 4
    Buffer = 3
CHECK_DEADLOCK FALSE
INVARIANTS
    TypeOK
    RecoveredIsRecord
    LocatedFirst
    NothingMissed
    NamesSurvive
    WritesApart
PROPERTIES
    RunEnds
