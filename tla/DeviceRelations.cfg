SPECIFICATION Spec
CONSTANTS
    Devices <- FourDevices
    Topologies <- AllMachines
CHECK_DEADLOCK FALSE
INVARIANTS
    TypeOK
    RefusedForReason
    PassedIsApart
