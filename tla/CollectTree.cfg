SPECIFICATION Spec
CONSTANTS
    Records <- ThreeRecords
    Root = 1
    Names <- ThreeNames
    Keys = {1, 3}
    Key <- CaseKeys
    Indexes <- ThreeRows
    Commits <- OneRow
CHECK_DEADLOCK FALSE
INVARIANTS
    TypeOK
    UniqueOutputs
    ParentsFirst
    EachEntryOnce
    NothingLeftOut
    CollisionIsReal
