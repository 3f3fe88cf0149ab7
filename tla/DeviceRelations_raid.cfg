SPECIFICATION Spec
CONSTANTS
    Devices <- FourDevices
    Topologies <- PartitionedRaid
CHECK_DEADLOCK FALSE
INVARIANTS
    NeverOnSource
