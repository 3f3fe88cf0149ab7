------------------------- MODULE DeviceRelationsMC -------------------------
(***************************************************************************)
(* Instances of DeviceRelations for TLC: every machine of four devices in  *)
(* which a device lies in, or is made of, lower-numbered ones; a partition *)
(* has one disk above it and no slaves/ of its own.                        *)
(***************************************************************************)
EXTENDS DeviceRelations

FourDevices == 1..4

Machines(lists) ==
    {t \in [parents : [FourDevices -> {{}} \cup {{d} : d \in FourDevices}],
            slaves : [FourDevices -> SUBSET (1..3)],
            listed : lists] :
        \A d \in FourDevices :
            /\ \A e \in t.parents[d] \cup t.slaves[d] : e < d
            /\ t.parents[d] # {} => t.slaves[d] = {}
            /\ \A e \in t.parents[d] : t.parents[e] = {}}

AllMachines == Machines({FourDevices, {1, 2, 3}})

\* A RAID of a disk's partition, partitioned itself: 1 the disk, 2 its
\* partition, 3 the array, 4 the array's partition.
PartitionedRaid ==
    {[parents |-> <<{}, {1}, {}, {3}>>, slaves |-> <<{}, {}, {2}, {}>>, listed |-> FourDevices]}
=============================================================================
