----------------------------- MODULE RecoverRun -----------------------------
(***************************************************************************)
(* One Recover::run, whole: open the source, check where it will write,    *)
(* list the tree, make the destination, locate the records of its files on *)
(* the source, then item by item make the directory and copy the data.     *)
(*                                                                         *)
(* The index is what parse made of the source when it was scanned; since   *)
(* then records may have been torn and places become unreadable.  Items    *)
(* are those of CollectTree, given by the place of their record and the    *)
(* depth of their directory (of the file's one) along the output path.     *)
(* What AtomicFile does with a copy is in the module of that name.         *)
(*                                                                         *)
(* Other processes may change the file system between two items: mount,    *)
(* unmount, replace a directory by a link, remove it; and, while the run   *)
(* opens the source, what its path names.                                  *)
(***************************************************************************)
EXTENDS MftRecord, PathSafety

CONSTANTS
    Starts,         \* what runs begin with: [world, fs, named]
    Chains,         \* the states of the output path, functions on 0..Depth
    Objects,        \* what the path of the source may name
    Dest,           \* how many components the destination has
    Depth,          \* how many the deepest output directory has
    ClusterSize,    \* bytes in a cluster of the volume
    Buffer          \* bytes copied at a time

ASSUME SizeAssumption ==
    /\ Dest \in Nat \ {0} /\ Depth \in Nat /\ Dest <= Depth
    /\ ClusterSize \in Nat \ {0} /\ Buffer \in Nat \ {0}

Worlds == {s.world : s \in Starts}

Kinds == {"absent", "dangling", "file", "source", "dir", "link"}
Storages == UNION {{chain[d].dev : d \in 0..Depth} : chain \in Chains}
Paths == [0..Depth -> [kind : Kinds, dev : Storages]]

\* An image is no storage, and a database is written where its path leads.
ASSUME StartAssumption ==
    /\ Chains \subseteq Paths
    /\ \A s \in Starts : s.fs \in Chains /\ s.named \in Objects
    /\ \A o \in Objects : o.kind = "file" => o.id \notin Storages
    /\ \A w \in Worlds : w.database.kind \in {"file", "absent"} =>
          w.database.target = w.database.dev /\ w.database.dev \in Storages

Records == UNION {Range(w.places) : w \in Worlds}
Attributes == UNION {Range(raw.attributes) : raw \in Records}

ASSUME RecordAssumption ==
    /\ \A w \in Worlds : w.places \in Seq(Records) /\ w.size \in Nat
    /\ Records \subseteq [file : BOOLEAN, usa : BOOLEAN, usn : Nat, trailers : Seq(Nat),
                         number : Nat, attributes : Seq(Attributes)]
    /\ \A a \in Attributes : IsAttribute(a)

\* The two fields of the boot sector that tell a cluster's bytes, as they are now.
ASSUME BootAssumption ==
    \A w \in Worlds :
        w.boot \in [read : BOOLEAN, bytes_per_sector : Nat, sectors_per_cluster : Nat]

\* Every item is a row of the index.
ASSUME ItemAssumption ==
    \A w \in Worlds :
        /\ w.items \in Seq([dir : BOOLEAN, depth : Dest..Depth, place : DOMAIN w.places])
        /\ \A i \in DOMAIN w.items :
              parse(w.places[w.items[i].place], w.items[i].place) # <<>>

\* Where the root directory is on the source, the first component exists: it is
\* created before anything is looked at below it.
ASSUME RootAssumption ==
    \A chain \in Chains, o \in Objects :
        chain[1].kind = "absent" /\ o.kind = "block" => chain[0].dev # o.id

VARIABLES
    world,      \* what does not change: the source, the index, the options
    fs,         \* the output path
    named,      \* the object that the path of the source names
    before,     \* what it named when the run looked
    source,     \* what the run opened
    pc,
    item,       \* the item at hand, 0 for the destination
    depth,      \* ensure_safe_directory: the component at hand
    place,      \* locate_records: the place at hand
    found,      \* locate_records: number -> place
    data,       \* recover_file: the attribute it copies
    run,        \* copy_nonresident: the data run at hand
    offset,     \* where on the source its next byte is
    to_copy,    \* bytes of it to copy
    remaining,  \* bytes of the file to copy
    out,        \* bytes written
    outcome,    \* of each item
    copies,     \* history: what the file recovered for each item holds
    written     \* history: the storages and objects written to

opening == <<named, before, source>>
locating == <<place, found>>
copying == <<data, run, offset, to_copy, remaining, out>>
results == <<outcome, copies>>
Ended == {"done", "failed"}
vars == <<world, fs, opening, pc, item, depth, locating, copying, results, written>>

NoData == [resident |-> TRUE, real_size |-> 0, resident_data |-> <<>>, runs |-> <<>>]

Init ==
    /\ \E s \in Starts : world = s.world /\ fs = s.fs /\ named = s.named
    /\ before = named /\ source = named
    /\ pc = "stat" /\ item = 0 /\ depth = 1
    /\ place = 1 /\ found = <<>>
    /\ data = NoData /\ run = 0 /\ offset = 0 /\ to_copy = 0 /\ remaining = 0 /\ out = <<>>
    /\ outcome = [i \in DOMAIN world.items |-> "none"]
    /\ copies = [i \in DOMAIN world.items |-> <<>>]
    /\ written = {}

-----------------------------------------------------------------------------
(* The source now, and the index.                                          *)

\* Another write of a torn record ended after its first sector.
Now(p) == IF p \in world.torn THEN [world.places[p] EXCEPT !.trailers[2] = @ + 1]
          ELSE world.places[p]

Row(i) == parse(world.places[world.items[i].place], world.items[i].place)[1]

Wanted == {Row(i).record_id_guess : i \in {j \in DOMAIN world.items : ~world.items[j].dir}}

\* read_exact_at for data.
Readable(from, count) ==
    /\ from + count <= world.size
    /\ \A byte \in world.damaged : byte \notin from..(from + count - 1)

checked_mul(lhs, rhs) == IF lhs * rhs > Maximum THEN Overflow ELSE lhs * rhs

\* A slip: bytes are taken for sectors.
Slip_read_cluster_size(boot) == boot.sectors_per_cluster

\* 16 bits times 8 stay below 2^64.
read_cluster_size(boot) == boot.bytes_per_sector * boot.sectors_per_cluster

cluster_size == read_cluster_size(world.boot)

\* What a byte of the source is told apart by; sparse runs are 0.
Bytes(from, count) == [k \in 1..count |-> from + k]
Zeros(count) == [k \in 1..count |-> 0]

-----------------------------------------------------------------------------
(* Before the first item.                                                  *)

Goto(to) == pc' = to /\ UNCHANGED world

SourceStat ==
    /\ pc = "stat"
    /\ before' = named
    /\ Goto(IF named.kind \in {"file", "block"} THEN "open" ELSE "failed")
    /\ UNCHANGED <<fs, named, source, item, depth, locating, copying, results, written>>

SourceOpen ==
    /\ pc = "open"
    /\ IF named.kind # "gone" /\ same_opened_object(before, named)
       THEN source' = named /\ Goto("validate")
       ELSE UNCHANGED source /\ Goto("failed")
    /\ UNCHANGED <<fs, named, before, item, depth, locating, copying, results, written>>

\* From here on the destination is its canonical path.
ValidatePaths ==
    /\ pc = "validate"
    /\ IF /\ validate_database_path(source, world.database)
          /\ validate_destination_path(source, fs, Dest)
       THEN fs' = canonicalize(fs, Dest) /\ Goto("database")
       ELSE UNCHANGED fs /\ Goto("failed")
    /\ UNCHANGED <<opening, item, depth, locating, copying, results, written>>

\* SQLite creates or writes the database, at a dangling link's target.
OpenDatabase ==
    /\ pc = "database"
    /\ written' = written \cup {world.database.target}
    /\ Goto("boot")
    /\ UNCHANGED <<fs, opening, item, depth, locating, copying, results>>

\* Either count may be wrong, but not zero.
ReadClusterSize ==
    /\ pc = "boot"
    /\ Goto(IF world.boot.read /\ cluster_size # 0 THEN "plan" ELSE "failed")
    /\ UNCHANGED <<fs, opening, item, depth, locating, copying, results, written>>

Plan ==
    /\ pc = "plan"
    /\ Goto(IF world.dry_run THEN "done" ELSE "ensure")
    /\ UNCHANGED <<fs, opening, item, depth, locating, copying, results, written>>

\* The database, the root record or a collision throws.
PlanFails ==
    /\ world.faulty /\ pc \in {"database", "plan"}
    /\ Goto("failed")
    /\ UNCHANGED <<fs, opening, item, depth, locating, copying, results, written>>

-----------------------------------------------------------------------------
(* Items.                                                                  *)

Skip ==
    /\ outcome' = [outcome EXCEPT ![item] = "skipped"]
    /\ Goto("next")
    /\ UNCHANGED copies

\* An exception in ensure_safe_directory ends the run for the destination.
GiveUp == IF item = 0 THEN UNCHANGED results /\ Goto("failed") ELSE Skip

Goal == IF item = 0 THEN Dest ELSE world.items[item].depth

\* mkdir where lstat says ENOENT.
Made == IF fs[depth].kind = "absent"
        THEN [fs EXCEPT ![depth] = [kind |-> "dir", dev |-> fs[depth - 1].dev]]
        ELSE fs

\* A slip: components are not validated one by one.
SlipSafeComponent(chain, d) == chain[d].kind = "dir"

SafeComponent(chain, d) ==
    chain[d].kind = "dir" /\ validate_destination_path(source, chain, d)

EnsureComponent ==
    /\ pc = "ensure" /\ depth <= Goal
    /\ fs' = Made
    /\ written' = IF Made = fs THEN written ELSE written \cup {fs[depth - 1].dev}
    /\ IF SafeComponent(Made, depth)
       THEN depth' = depth + 1 /\ Goto("ensure") /\ UNCHANGED results
       ELSE UNCHANGED depth /\ GiveUp
    /\ UNCHANGED <<opening, item, locating, copying>>

MkdirFails ==
    /\ pc = "ensure" /\ depth <= Goal
    /\ world.faulty /\ fs[depth].kind = "absent"
    /\ GiveUp
    /\ UNCHANGED <<fs, opening, item, depth, locating, copying, written>>

EnsureDone ==
    /\ pc = "ensure" /\ depth > Goal
    /\ Goto(IF item = 0 THEN "locate" ELSE IF world.items[item].dir THEN "next" ELSE "check")
    /\ UNCHANGED <<fs, opening, item, depth, locating, copying, results, written>>

\* A slip: a place without a record is looked at again.
SlipAfter(p) == IF restored_record(Now(p)) THEN p + 1 ELSE p

After(p) == p + 1

\* A slip: the search ends at the first place without a record.
SlipReadExactly(p) == p \notin world.unreadable /\ restored_record(Now(p))

ReadExactly(p) == p \notin world.unreadable

\* Place 0 is the boot sector.
LocateRecord ==
    /\ pc = "locate"
    /\ IF /\ Cardinality(DOMAIN found) < Cardinality(Wanted)
          /\ place <= Len(world.places) /\ ReadExactly(place)
       THEN LET raw == Now(place) IN
            /\ place' = After(place)
            /\ found' = IF restored_record(raw) /\ raw.number \in Wanted \ DOMAIN found
                        THEN [n \in DOMAIN found \cup {raw.number} |->
                                 IF n \in DOMAIN found THEN found[n] ELSE place]
                        ELSE found
            /\ Goto("locate")
       ELSE UNCHANGED locating /\ Goto("next")
    /\ UNCHANGED <<fs, opening, item, depth, copying, results, written>>

NextItem ==
    /\ pc = "next"
    /\ IF item = Len(world.items)
       THEN UNCHANGED <<item, depth>> /\ Goto("done")
       ELSE item' = item + 1 /\ depth' = 1 /\ Goto("ensure")
    /\ UNCHANGED <<fs, opening, locating, copying, results, written>>

\* The data attributes of the record located for an item.
Located(number) ==
    IF number \in DOMAIN found THEN data_attributes(Now(found[number])) ELSE <<>>

\* Up to the constructor of AtomicFile: a record with data was located, and it is
\* no larger than the index says.
OpenOutput ==
    /\ pc = "check"
    /\ \E row \in {Row(item)} : \E attributes \in {Located(row.record_id_guess)} :
       IF /\ validate_destination_path(source, fs, Goal)
          /\ attributes # <<>>
          /\ row.real_size = 0 \/ row.real_size >= attributes[1].real_size
       THEN /\ written' = written \cup {fs[Goal].dev}
            /\ data' = attributes[1] /\ remaining' = attributes[1].real_size
            /\ run' = 0 /\ offset' = 0 /\ to_copy' = 0 /\ out' = <<>>
            /\ Goto("copy") /\ UNCHANGED results
       ELSE Skip /\ UNCHANGED <<copying, written>>
    /\ UNCHANGED <<fs, opening, item, depth, locating>>

\* AtomicFile throws, anywhere.
OutputFails ==
    /\ pc = "copy" /\ world.faulty
    /\ Skip
    /\ UNCHANGED <<fs, opening, item, depth, locating, copying, written>>

\* real_size is the length of the content, so count == bytes_to_copy.
CopyResident ==
    /\ pc = "copy" /\ data.resident /\ remaining > 0
    /\ out' = data.resident_data /\ remaining' = 0
    /\ Goto("copy")
    /\ UNCHANGED <<fs, opening, item, depth, locating, data, run, offset, to_copy, results,
                   written>>

\* A slip: a run is copied to its end although the file ends earlier.
SlipPortion(run_bytes) == run_bytes

Portion(run_bytes) == Min({remaining, run_bytes})

NextRun ==
    /\ pc = "copy" /\ ~data.resident
    /\ to_copy = 0 /\ remaining > 0 /\ run < Len(data.runs)
    /\ LET next == data.runs[run + 1]
           run_bytes == checked_mul(next.cluster_count, cluster_size)
           start == checked_mul(next.lcn, cluster_size)
       IN  IF run_bytes = Overflow \/ (~next.sparse /\ start = Overflow)
           THEN Skip /\ UNCHANGED copying
           ELSE /\ run' = run + 1 /\ Goto("copy") /\ UNCHANGED <<data, results>>
                /\ IF next.sparse
                   THEN /\ out' = out \o Zeros(Portion(run_bytes))
                        /\ remaining' = remaining - Portion(run_bytes)
                        /\ UNCHANGED <<offset, to_copy>>
                   ELSE /\ offset' = start /\ to_copy' = Portion(run_bytes)
                        /\ UNCHANGED <<remaining, out>>
    /\ UNCHANGED <<fs, opening, item, depth, locating, written>>

CopyChunk ==
    /\ pc = "copy" /\ to_copy > 0
    /\ LET chunk == Min({to_copy, Buffer}) IN
       IF Readable(offset, chunk)
       THEN /\ out' = out \o Bytes(offset, chunk)
            /\ offset' = offset + chunk
            /\ to_copy' = to_copy - chunk /\ remaining' = remaining - chunk
            /\ Goto("copy") /\ UNCHANGED <<data, run, results>>
       ELSE Skip /\ UNCHANGED copying
    /\ UNCHANGED <<fs, opening, item, depth, locating, written>>

\* commit, if the runs gave all of the file.
CopyEnds ==
    /\ pc = "copy" /\ to_copy = 0
    /\ remaining = 0 \/ (~data.resident /\ run = Len(data.runs))
    /\ IF remaining = 0
       THEN /\ outcome' = [outcome EXCEPT ![item] = "recovered"]
            /\ copies' = [copies EXCEPT ![item] = out]
            /\ Goto("next")
       ELSE Skip
    /\ UNCHANGED <<fs, opening, item, depth, locating, copying, written>>

-----------------------------------------------------------------------------
(* Other processes.                                                        *)

ChangePath ==
    /\ world.restless
    /\ pc = "plan" \/ (pc = "next" /\ item < Len(world.items))
    /\ fs' \in Chains /\ fs' # fs
    /\ UNCHANGED <<world, opening, pc, item, depth, locating, copying, results, written>>

SwapSource ==
    /\ world.restless /\ pc = "open"
    /\ named' \in Objects \ {named}
    /\ UNCHANGED <<world, fs, before, source, pc, item, depth, locating, copying, results,
                   written>>

Opening == SourceStat \/ SourceOpen \/ ValidatePaths \/ OpenDatabase \/ ReadClusterSize
           \/ Plan \/ PlanFails
Listing == EnsureComponent \/ MkdirFails \/ EnsureDone \/ LocateRecord \/ NextItem
Copying == OpenOutput \/ OutputFails \/ CopyResident \/ NextRun \/ CopyChunk \/ CopyEnds
Step == Opening \/ Listing \/ Copying

Next == Step \/ ChangePath \/ SwapSource

Spec == Init /\ [][Next]_vars

\* The run is a thread that waits for nobody.
FairSpec == Spec /\ WF_vars(Step)

-----------------------------------------------------------------------------
(* What the volume holds, stated without the parser.                       *)

\* Its sectors are all of one write, and say so.
IsWhole(raw) ==
    /\ raw.file /\ raw.usa
    /\ \A s \in DOMAIN raw.trailers : raw.trailers[s] = raw.usn

Whole(p) == IsWhole(Now(p))

\* The boot sector is the volume's own, and its sectors are a plain count (NTFS takes
\* one above 0x80 for a power of two, negated).
GoodBoot ==
    world.boot.bytes_per_sector * world.boot.sectors_per_cluster = ClusterSize

\* The size that data runs count in: the volume's, if the boot sector tells it; else
\* nobody but the run has a size for them, and its own says which bytes they are.
Clusters == IF GoodBoot THEN ClusterSize ELSE cluster_size

\* The bytes of an extent and of a stream in clusters of c bytes.
ExtentBytes(e, c) ==
    IF e.lcn = Hole THEN Zeros(e.count * c) ELSE Bytes(e.lcn * c, e.count * c)

AllBytes(a, c) ==
    IF a.resident THEN a.content
    ELSE FlattenSeq([i \in DOMAIN a.extents |-> ExtentBytes(a.extents[i], c)])

IsStream(a) == a.type = "data" /\ a.plain /\ a.sound

\* The sound contents of the record at place p.
Truths(p, c) ==
    {SubSeq(AllBytes(a, c), 1, a.size) :
        a \in {b \in Range(Now(p).attributes) :
                    IsStream(b) /\ Len(AllBytes(b, c)) >= b.size}}

\* Every byte of a stream can be had, and its integers are within their width.
Obtainable(a, c) ==
    LET all == AllBytes(a, c) IN
    /\ Len(all) >= a.size
    /\ \/ a.resident
       \/ /\ \A e \in Range(a.extents) :
                e.count * c <= Maximum /\ e.lcn * c <= Maximum
          /\ \A k \in 1..a.size : all[k] = 0 \/ Readable(all[k] - 1, 1)

\* The record at place p has a stream to recover, no larger than the index says.
Intact(p, real_size, c) ==
    LET attributes == Now(p).attributes
        streams == {i \in DOMAIN attributes :
                        /\ IsStream(attributes[i])
                        /\ \A j \in 1..i : attributes[j].fits}
    IN  /\ streams # {}
        /\ \A i \in streams : /\ Obtainable(attributes[i], c)
                              /\ real_size = 0 \/ attributes[i].size <= real_size

\* Not every directory of the item is one of its own, off the source.
Unsafe(it) ==
    \E d \in 1..it.depth : \/ fs[d].kind # "dir"
                           \/ reject_source_storage(source, fs[d])

-----------------------------------------------------------------------------
(* Properties.                                                             *)

\* Every variable has its type: counts never go below zero, whatever the runs say.
TypeOK ==
    /\ world \in Worlds /\ fs \in Paths /\ {named, before, source} \subseteq Objects
    /\ pc \in {"stat", "open", "validate", "database", "boot", "plan", "ensure", "locate",
               "next", "check", "copy"} \cup Ended
    /\ item \in 0..Len(world.items) /\ depth \in 1..(Depth + 1)
    /\ place \in 1..(Len(world.places) + 1)
    /\ DOMAIN found \subseteq Wanted /\ Range(found) \subseteq 1..Len(world.places)
    /\ {run, offset, to_copy, remaining} \subseteq Nat
    /\ out \in Seq(Nat)
    /\ outcome \in [DOMAIN world.items -> {"none", "recovered", "skipped"}]
    /\ copies \in [DOMAIN world.items -> Seq(Nat)]

\* What recover_file calls recovered is byte for byte a stream of a whole record
\* with the item's number, whatever runs, torn records and duplicates the source
\* has; and of the very record the index knows, if that has a number in its
\* header and no other place on the source has the same.  Resident streams are those of
\* the volume whatever the boot sector says.  Data runs are where the volume has them if
\* the product of the two fields is its cluster size; with another boot sector, they are
\* at the run's own size, and wrong bytes may be called recovered.
RecoveredIsRecord ==
    \A i \in DOMAIN world.items : outcome[i] = "recovered" =>
        \E p \in DOMAIN world.places :
            /\ Whole(p) /\ Now(p).number = Row(i).record_id_guess
            /\ copies[i] \in Truths(p, Clusters)
            /\ LET own == world.items[i].place
                   number == world.places[own].number
               IN  number # 0 /\ (\A q \in DOMAIN world.places \ {own} :
                                     world.places[q].number # number)
                   => p = own

\* The record located for a number is whole, and the first of the source with that
\* number: a torn record before it is passed over, and locate_records never gets
\* beyond a place it cannot read.
LocatedFirst ==
    \A n \in DOMAIN found :
        /\ found[n] \in DOMAIN world.places
        /\ Whole(found[n]) /\ Now(found[n]).number = n
        /\ \A p \in 1..found[n] : p \notin world.unreadable
        /\ \A p \in 1..(found[n] - 1) :
              ~(Whole(p) /\ Now(p).number = n)

\* Where nothing fails and nobody interferes, a file is skipped only for a reason:
\* an unsafe directory, no whole record with its number before the first place
\* that cannot be read, or no stream in the first such record that can be copied.
NothingMissed ==
    \/ world.faulty \/ world.restless
    \/ \A i \in DOMAIN world.items : outcome[i] = "skipped" =>
          LET row == Row(i)
              candidates == {p \in DOMAIN world.places :
                                /\ \A q \in 1..p : q \notin world.unreadable
                                /\ Whole(p) /\ Now(p).number = row.record_id_guess}
          IN  \/ Unsafe(world.items[i])
              \/ ~world.items[i].dir
                 /\ (candidates = {} \/ ~Intact(Min(candidates), row.real_size, Clusters))

\* The names in the index are those on the volume, character for character, in
\* well-formed UTF-8, unpaired surrogates as U+FFFD and NULs dropped: no name of a
\* whole record is lost by utf16le_to_utf8 or by parse.
NamesSurvive ==
    \A p \in DOMAIN world.places : IsWhole(world.places[p]) =>
        LET raw == world.places[p]
            rows == parse(raw, p)
            IsName(i) == LET a == raw.attributes[i] IN
                         /\ a.type = "name" /\ a.resident /\ a.inside
                         /\ Characters(a.units) # <<>>
                         /\ \A j \in 1..i : raw.attributes[j].fits
            names == FlattenSeq([i \in DOMAIN raw.attributes |->
                                    IF IsName(i) THEN <<raw.attributes[i]>> ELSE <<>>])
        IN  /\ DOMAIN rows = DOMAIN names
            /\ \A i \in DOMAIN rows : IsUtf8Of(rows[i].name, Characters(names[i].units))

\* Nothing is ever created on the storage of a source that is a block device, nor
\* in a source that is an image, whatever is mounted or linked between items; save
\* by a database path that is a dangling link to there, which the validator takes.
WritesApart ==
    source.kind \in {"block", "file"} /\ source.id \in written =>
        world.database.kind = "dangling"

\* Every run comes to its end, whatever the records say.
RunEnds == <>(pc \in Ended)
=============================================================================
