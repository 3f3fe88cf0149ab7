-------------------------- MODULE DeviceRelations --------------------------
(***************************************************************************)
(* path_safety: is the storage behind an output path related to the source *)
(* device?  devices_are_related walks sysfs from both device numbers with  *)
(* add_device_relations and looks for a common one; reject_source_storage  *)
(* refuses the path when there is one.                                     *)
(*                                                                         *)
(* sysfs shows, for a block device, the devices whose directories lie      *)
(* above its own (a partition's disk) and in slaves/ the devices a stacked *)
(* device (RAID, LVM, dm-crypt) is made of.  The walk is the code's        *)
(* recursion: work is its call stack, a frame being the entries of slaves/ *)
(* not visited yet, which come in any order.                               *)
(***************************************************************************)
EXTENDS Naturals, Sequences

CONSTANTS
    Devices,        \* device numbers
    Topologies      \* the machines considered, see TopologyAssumption

ASSUME DevicesAssumption == 0 \notin Devices  \* 0:0 is no block device
ASSUME TopologyAssumption ==
    Topologies \subseteq
        [parents : [Devices -> SUBSET Devices],  \* devices above it in sysfs
         slaves  : [Devices -> SUBSET Devices],  \* what it is made of
         listed  : SUBSET Devices]               \* has an entry in /sys/dev/block

VARIABLES
    topology,   \* the machine
    faulty,     \* whether reading sysfs may fail
    source,     \* st_rdev of the recovery source
    storage,    \* st_dev of the path's nearest existing ancestor
    phase,      \* which walk is running, or the verdict
    relations,  \* relations[w]: the std::set that walk w fills
    work        \* the running walk's call stack

vars == <<topology, faulty, source, storage, phase, relations, work>>
machine == <<topology, faulty, source, storage>>

Walks == {"source", "storage"}
Phases == Walks \cup {"start", "compare", "related", "unrelated"}

\* Every variable has its type: the walk records only devices there are.
TypeOK ==
    /\ topology \in Topologies /\ faulty \in BOOLEAN
    /\ source \in Devices /\ storage \in Devices
    /\ phase \in Phases
    /\ relations \in [Walks -> SUBSET Devices]
    /\ work \in Seq(SUBSET Devices)

-----------------------------------------------------------------------------
\* Slips: wrong versions of the operators around, used by no behaviour here.
\* A missing "dev" file reads as device 0:0 instead of as no device.
SlipAdded(d, found) == found \cup {d, 0}

\* slaves/ is looked for under the disk and never found.
SlipSlaves(d, found) == {}

\* A call add_device_relations(d, found) before it recurses: nothing for a
\* device already in the set, else d and, where sysfs lists it, what is above.
Added(d, found) ==
    IF d \in found THEN found
    ELSE found \cup {d} \cup (IF d \in topology.listed THEN topology.parents[d] ELSE {})

\* The slaves/ entries that call goes on to visit.
Slaves(d, found) ==
    IF d \in found \/ d \notin topology.listed THEN {} ELSE topology.slaves[d]

Init ==
    /\ topology \in Topologies /\ faulty \in BOOLEAN
    /\ source \in Devices /\ storage \in Devices
    /\ phase = "start"
    /\ relations = [w \in Walks |-> {}]
    /\ work = <<>>

SameDevice ==
    /\ phase = "start" /\ source = storage
    /\ phase' = "related"
    /\ UNCHANGED <<machine, relations, work>>

\* Slip: both walks fill one std::set.
SlipWalk(w, d) ==
    /\ phase' = w
    /\ relations' = [relations EXCEPT ![w] = relations["source"] \cup Added(d, {})]
    /\ work' = <<Slaves(d, {})>>
    /\ UNCHANGED machine

\* The outermost call of walk w, from device d.
Walk(w, d) ==
    /\ phase' = w
    /\ relations' = [relations EXCEPT ![w] = Added(d, {})]
    /\ work' = <<Slaves(d, {})>>
    /\ UNCHANGED machine

WalkSource == phase = "start" /\ source # storage /\ Walk("source", source)
WalkStorage == phase = "source" /\ work = <<>> /\ Walk("storage", storage)

VisitSlave ==
    /\ phase \in Walks /\ work # <<>>
    /\ \E d \in Head(work) :
        /\ work' = <<Slaves(d, relations[phase])>> \o (<<Head(work) \ {d}>> \o Tail(work))
        /\ relations' = [relations EXCEPT ![phase] = Added(d, @)]
    /\ UNCHANGED <<machine, phase>>

\* canonical() or the "dev" file of an entry fails: continue with the next.
SkipSlave ==
    /\ phase \in Walks /\ work # <<>> /\ faulty
    /\ \E d \in Head(work) : work' = <<Head(work) \ {d}>> \o Tail(work)
    /\ UNCHANGED <<machine, phase, relations>>

Return ==
    /\ phase \in Walks /\ work # <<>> /\ Head(work) = {}
    /\ work' = Tail(work)
    /\ UNCHANGED <<machine, phase, relations>>

Compare ==
    /\ phase = "storage" /\ work = <<>>
    /\ phase' = IF relations["source"] \cap relations["storage"] = {}
                THEN "unrelated" ELSE "related"
    /\ UNCHANGED <<machine, relations, work>>

Next ==
    \/ SameDevice \/ WalkSource \/ WalkStorage
    \/ VisitSlave \/ SkipSlave \/ Return \/ Compare

Spec == Init /\ [][Next]_vars

-----------------------------------------------------------------------------
(* What the walk is about.                                                 *)

\* A set of devices with everything they lie on.
Closed(S) == \A d \in S : topology.parents[d] \cup topology.slaves[d] \subseteq S

\* All devices that d's blocks may lie on, however many layers down.
Below(d) == {e \in Devices : \A S \in SUBSET Devices : d \in S /\ Closed(S) => e \in S}

\* Sysfs lists every device, and a device that others lie in (a partitioned
\* disk) is not itself made of slaves.
Plain ==
    /\ topology.listed = Devices
    /\ \A d, e \in Devices : e \in topology.parents[d] =>
           topology.slaves[e] = {} /\ topology.parents[e] = {}

-----------------------------------------------------------------------------
(* Properties.                                                             *)

\* A path is refused for a reason: the source and the storage do share a
\* device, whatever sysfs read failed on the way.
RefusedForReason ==
    phase = "related" => Below(source) \cap Below(storage) # {}

\* README "Validates database and recovery paths against the open source
\* device before writing": on a plain machine whose sysfs can be read, a path
\* that passes lies on no device the source lies on, in whatever order the
\* directory iterator gave the slaves.
PassedIsApart ==
    Plain /\ ~faulty /\ phase = "unrelated" => Below(source) \cap Below(storage) = {}

\* README "does not write to the source partition", on every machine: a path
\* that passes is not stored on the source.  The code does not keep this: the
\* disk above a partition is put in the set and its own slaves/ are not read.
NeverOnSource ==
    ~faulty /\ phase = "unrelated" => source \notin Below(storage)
=============================================================================
