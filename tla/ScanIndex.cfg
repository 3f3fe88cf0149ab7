SPECIFICATION FairSpec
CONSTANTS
    Scans = {s1, s2}
    Names = {long, dos}
    Size = 3
    NoScan = NoScan
    s1 = s1
    s2 = s2
    long = long
    dos = dos
CHECK_DEADLOCK FALSE
INVARIANTS
    TypeOK
    CountIsIndexed
    NoLockLeft
PROPERTIES
    ScansEnd
    Implements
