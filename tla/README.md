# JustGiveMyDisk in TLA+

A specification of JustGiveMyDisk, the NTFS recovery helper of this repository, kept beside
the code: TLA+ modules of its components, TLC configurations that check them on small
instances, and proofs for every value of the constants, checked by TLAPS.

Every definition follows the C++ in `src/src`; `PROJECT.json` says which lines each one stands
for. Paths below are relative to `src/` unless they name a module.

Running it, in this directory:

    tlc -workers 2 -config AtomicFile_sequential.cfg AtomicFileMC.tla
    tlapm AtomicFile_proofs.tla


## 1. The system

JustGiveMyDisk is one program with a command line (`main.cpp`) and a terminal interface
(`Tui.cpp`). It reads a damaged device, stores the names it finds in an SQLite database, and
copies directory trees out of the device into a destination directory.

| Part | State it keeps | Operations | Talks to |
|---|---|---|---|
| **Recovery output** (`RecoveryOutput.cpp`) | the destination directory: `<name>`, `<name>.partial`; `fd_`, `committed_` | constructor, `write`, `commit`, destructor, `rename_without_replacement`; `sanitize_name`, `CollisionTracker::add` | the file system |
| **Recovery run** (`Recover.cpp`) | list of items, statistics, MFT records located | `run`: `collect_tree`, `locate_records`, then one `AtomicFile` per file item | database, source, path safety, output |
| **Path safety** (`PathSafety.cpp`) | the open source, its device number and identity | `Source`, `add_device_relations`, `devices_are_related`, the two validators | `/sys/dev/block` |
| **Scanner** (`Scanner.cpp`) | offset, counters, a write transaction | `run`: read a record, parse, insert its names; commit | source, parser, database |
| **Database** (`Database.cpp`) | table `records` | `begin`, `insert_record`, `commit`; queries by name, id, record, parent | SQLite |
| **MFT record parser** (`MftRecord.cpp`) | none | `parse`, `record_number`, fixup, data runs | - |
| **UTF-16 conversion** (`Utf.cpp`) | none | one function | - |
| **Terminal interface** (`Tui.cpp`) | page, selections, results, scan flags, `logs`, a worker thread, `state_mutex` | one handler per key and page; the worker of a scan; rendering | all of the above |
| **Command line**, device detection, build | - | - | - |

How they interact: the terminal interface runs `Scanner::run` in a worker thread and
`Recover::run` in the event handler of its own thread; the two threads share the page's
variables and the database *file*, not a connection. Several processes may use the same
database and the same destination. All other calls are plain function calls; errors travel as
exceptions, and destructors (of `AtomicFile`, `Database`, `Source`) do the cleaning up.

### What is hard in it, and what makes each part correct

* **Output.** A destination name must show nothing or one whole file, whatever fails, is killed or
  loses power, and whoever else creates entries meanwhile. Between the constructor's look at the
  two names and the publication many system calls pass. The count "recovered" must be true and stay
  true; incomplete partials must go.
* **Listing a tree.** Parent references come from a damaged volume: cycles, records that are their
  own parent, several names per record, rows of repeated scans, a scan committing during the
  walk. The list must be complete, ordered parents first, and free of two items that a
  destination would take for one file.
* **Path safety.** A walk over two graphs (partitions and stacked devices) in arbitrary order with
  one shared visited set decides whether storage is on the source. The source is looked at, opened
  and looked at again, since its path may change; the destination is judged as a path, then
  component by component as directories are made, while others mount and link.
* **Scan and database.** A transaction per scan, with read errors that commit what was read and then
  throw, failing inserts and commits, kills, and a second scan at the same time.
* **Terminal interface.** Shortcut keys work on every page and skip the menus that check the
  selection; a thread runs across pages; the recovery needs a dry run first; `std::thread` must
  be joined on every way out.
* **Record identity and parsing.** The scanner files a record under its header number or, when that
  is 0, under its position; recovery looks for header numbers only, takes the first match and
  stops at the first place it cannot read. Records may be torn. Data runs are signed,
  variable-width and accumulated, and may be shorter or longer than the file. What is called
  recovered must be what the volume holds, and what is skipped must have a reason.
* **Names.** UTF-16 from a damaged volume has NULs and halves of surrogate pairs; a name is a
  directory entry later.

`PROJECT.json` lists these hazards one by one, at their lines, with the properties that cover them.


## 2. Modules

| Module | Models | Checked by | Proofs |
|---|---|---|---|
| `OutputPromise` | abstract: what recovery output promises a reader of the destination | as `Implements` of `AtomicFile` | |
| `AtomicFile` | `AtomicFile` and the item loop of `Recover::run`, one action per system call; kills, power loss, users, several runs | `AtomicFileMC` | `AtomicFile_proofs` |
| `DeviceRelations` | the device-relation walk and its verdict | `DeviceRelationsMC` | `DeviceRelations_proofs` |
| `Utf` | `utf16le_to_utf8`, and a decoder to compare it with | `RecoverRunMC` | `MftRecord_proofs` |
| `MftRecord` | `MftRecordParser`: fixup, attribute walk, names, data runs | `RecoverRunMC` | `MftRecord_proofs` |
| `PathSafety` | the two validators and what they are made of | `RecoverRunMC` | `RecoverRun_proofs` |
| `RecoverRun` | one `Recover::run` from the open source to the last copied byte | `RecoverRunMC` | `RecoverRun_proofs` |
| `CollectTree` | `collect_tree`, `dedup_children`, `CollisionTracker`, `children_of` | `CollectTreeMC` | `CollectTree_proofs` |
| `IndexPromise` | abstract: what the index promises its readers | as `Implements` of `ScanIndex` | |
| `ScanIndex` | `Scanner::run` and the write transaction | `ScanIndexMC` | `ScanIndex_proofs` |
| `Tui` | pages, keys, worker thread, mutex | `TuiMC` | `Tui_proofs` |

`DataInduction` has no model: it holds the induction over numbers and loops that the proofs about
recursive functions rest on.

`RecoverRun` extends `MftRecord` (which extends `Utf`) and `PathSafety`. It takes the list that
`CollectTree` makes as given, and stops at the constructor of `AtomicFile` on one side and at the
verdict of `DeviceRelations` on the other: storage is related to the source or it is not.

Definitions named `Slip...` are plausible wrong versions of the definition they stand near. No
behaviour uses them; they are there to substitute for it, and each property is
violated by at least one substitution (`mutants` in `PROJECT.json`), which shows that it
depends on the code.

### AtomicFile

State. `dir[n]` is the inode that a directory entry refers to and `size[i]` the blocks in an inode;
`journal` and `synced` are the parts of both that a power loss cannot take. Directory and data become
durable independently: `JournalCommit` may happen at any moment, data is safe only after
`Fsync`. `pc[r]` and `item[r]` are run `r`'s position in `Recover::run`'s loop and in `AtomicFile`,
`outcome` its statistics. Inode `<<r, f>>` is the file that run `r` creates for output `f`: a run
tries each item once.

Actions. `CheckFinal`, `CheckPartial`, `UnlinkStale`, `OpenPartial` are the constructor (lines
123-163 of `RecoveryOutput.cpp`); `CopyBlock`, `CopyDone`, `CopyFails` stand for `write` and the two
functions that call it; `Fsync`, `Close`, `PublishReplacing`, `PublishNoReplace`, `LinkFinal`,
`UnlinkPartial`, `UnlinkPartialFails`, `UndoLink`, `CommitFails` for `commit` and
`rename_without_replacement` with its `link`/`unlink` fallback; `Cleanup` for the destructor;
`SkipItem` for everything that gives an item up before it has a partial. `rename` and the destructor's
`unlink` act on *names*, as in the code, so they take whatever file has the name by then.

### DeviceRelations

A machine is, for each device, the devices whose sysfs directories lie above its own (`parents`) and
its `slaves`, and which devices `/sys/dev/block` lists. `work` is the call stack of
`add_device_relations`; a frame is the set of `slaves/` entries still to visit, in any order.
`SkipSlave` is an entry that cannot be read. `Below(d)` is defined without the
walk, as the least closed set, and the verdict is compared with it.

### RecoverRun, MftRecord, Utf, PathSafety

A *world* is what does not change in a run: the records on the source, what the index made of
them, the list of items, the database path, options, and the damage. A record is given as the fields that
the parser branches on, and a stream also as the extents it has on the volume; the bytes of its
data runs are parsed by the model of the code and compared with the extents by the properties. `parse`
made the index when the source was scanned; since then a record may have been torn (`Now`: its
second sector is of an older write) and places may have become unreadable.
The loops of the parser and of the conversion are functions of their turns (`ReadRun`, `Convert`), one
turn of the C++ loop each, so that they can be reasoned about as well as evaluated.

`fs` is the file system along one output path, component by component: a directory, a link, a file, a
link that leads nowhere, or nothing, and the storage behind it. `written` collects every storage and
object in which the run created something.

Actions. `SourceStat`, `SourceOpen` are `Source`'s constructor, between which another process may make
the path name something else (`SwapSource`). `ValidatePaths`, `OpenDatabase`, `ReadClusterSize`, `Plan`,
`PlanFails` follow `Recover::run` to the end of a dry run. `EnsureComponent`, `MkdirFails`, `EnsureDone` are one turn of
`ensure_safe_directory`, for the destination (`item = 0`) and for each item. `LocateRecord` is one
turn of `locate_records`. `OpenOutput` is what leads to the constructor of `AtomicFile`; `CopyResident`,
`NextRun`, `CopyChunk`, `CopyEnds` are `recover_file` and `copy_nonresident`; `OutputFails` is an
exception of `AtomicFile` anywhere. `ChangePath` changes the output path between two items to
any other: mounts, links, removed directories.

The cluster size that the code multiplies by (`cluster_size`) is the product of two fields of the boot sector,
as they are on the source now, and the volume's own (`ClusterSize`) is a constant: the two are compared by the
properties and never confused by the actions.

Integers keep a width: a byte has two digits of base `Nibble`, a wide integer `MaxSize` bytes
(16 and 8 in the code), so that sign extension, the overflow checks and the limits of a header's sizes
are those of the code with smaller numbers.

### CollectTree

`db` is the sequence of committed rows; `stack` the active calls of `collect_tree` with the children
still to come. `TakeChild` is the loop body: collision check, item, recursive call. The order of
`dedup_children`'s result is followed (`Precedes`), equals in any order as `std::sort` leaves
them. `sanitize_name` and `collision_key` are a function `Key` on names: the properties need only
which names they make equal. `collision_key` folds ASCII letters only (`RecoveryOutput.cpp:26`), so what
`UniqueOutputs` says of a destination without case is about names in ASCII.
`ScanCommits` is a scan of another process or of the worker
thread that commits between two queries. A failing `sqlite3_step` ends the rows like the last one does
(`Database.cpp:172`), so `children_of` may answer with any subset of the rows, which includes every
prefix of them in the query's order; `lost` remembers where that happened, and `NothingLeftOut` is about
the other directories only.

### ScanIndex

A device is, place by place, the set of names that the record there parses to; `damaged` places
cannot be read, and any read may fail. A scan's steps follow `Scanner::run`: `Begin`, `Read`,
`Insert` per name, `Advance`, then `Commit`; `ReadFails` leads to a commit of what was read and then
to the exception, as lines 84-91 of `Scanner.cpp` have it. `writer` and `pending` are SQLite's
write lock and open transaction. SQLite is external: modelled are `BEGIN IMMEDIATE` without a busy
timeout, `COMMIT`, and the rollback of a closed or dead connection.

### Tui

One action per key and page. `ui` says what the interface thread is doing: a handler that joins the
worker or runs a recovery has its own beginning and end, and while it runs no other key is handled.
`worker` is the thread of a scan, including that a finished thread is still joinable until joined.
An exception that leaves a handler (`ui = "threw"`: `current_path` without a working directory, `std::thread`
without a thread to be had) goes past `join_worker` to the catch of `main`, unless a joinable `std::thread` is
destroyed on the way; `Leave` decides between the two.
Menu positions are not state (they move freely), texts are not modelled except the destination,
which input events change on any page. `scanned`, `attempted` and `preview` are history variables.


## 3. What the runs check

With two workers `recover` takes some two minutes, the others less than a minute each.

| Run | Instance | Shows |
|---|---|---|
| `atomic_sequential` | two runs one after the other, the second with `--overwrite`; one item of 2 blocks; regular, special and torn entries in the way; user, kills, power loss; liveness | `PublishedWhole`, `OthersKept`, `RecoveredTruthful`, `RecoveredKept`, `NoForgottenPartial`, `RunsFinish`, `Implements` |
| `atomic_overlap` | two runs without `--overwrite` at the same time; `unlink` may fail; the user also creates special entries | `PublishedWhole`, `OthersKept`, `Implements` |
| `devices` | all machines of four devices, read errors or not, any pair of devices | `RefusedForReason`, `PassedIsApart` |
| `tree` | all indexes of up to three rows over a root, a directory and a record that is a file in one row and a directory in another; a scan adding a row during the walk, and queries that fail | `UniqueOutputs`, `ParentsFirst`, `EachEntryOnce`, `NothingLeftOut`, `CollisionIsReal` |
| `scan` | two scans; every device of three places and two names with every set of damaged places; liveness | `CountIsIndexed`, `NoLockLeft`, `ScansEnd`, `Implements` |
| `tui` | two devices, two folders, a file, one typed destination; one progress message per scan; exceptions of `current_path` and `std::thread`; liveness | `JoinedUnlessThrown`, `SelectionUsable`, `RecoverFromScanned`, `RealAfterDryRun`, `ScanReported`, `JoinsEnd` |
| `recover` | six families of worlds, see below; liveness | `RecoveredIsRecord`, `LocatedFirst`, `NothingMissed`, `NamesSurvive`, `WritesApart`, `RunEnds` |
| `atomic_two_overwriting` | two overwriting runs at the same time | *violation* of `PublishedWhole` |
| `atomic_clash` | items written as `_.partial` and `_`, in this order; one overwriting run | *violation* of `RecoveredKept` |
| `devices_raid` | a partitioned array over a partition | *violation* of `NeverOnSource` |
| `tui_confirm` | as `tui` | *violation* of `ConfirmAfterPreview` |
| `tui_quit` | as `tui`, under `QSpec` | *violation* of `LeavesByQ` |

Bounds and why they are enough. *AtomicFile:* items of a run do not share names with each
other except through a clash, which has its own run; so one item brings all interactions of
two runs, and two blocks are the least for which a file can be torn without being empty. *Devices:*
three levels of stacking plus a partition are the depth at which visiting order and sharing
matter; the theorems cover any depth. *Tree:* three rows suffice for a cycle reached from the root, a
record with two names, a repeated row and a collision; one more row comes from the scan. *Scan:*
three places have a beginning, a damaged middle and an end. Rows of one index are
taken in one order for each entry, which is the order that `better_name` looks at. *Recover:* each family
varies one thing while the others are plain. Streams: every list of up to two extents of one or two clusters, and of
three of one cluster, sparse, adjacent, backwards and beyond the source, encoded with one- and two-byte integers,
with every file size around the end of the runs; malformed runs of every kind the parser refuses;
integers that overflow when multiplied by the cluster; damaged bytes. Records: three places with
every assignment of the numbers 0 to 3, places without a record, torn before or after the scan, and
unreadable places. Boot sectors: the volume's own, in three ways of making four, damaged ones, one with 2^2 in
NTFS's form of a power of two, invalid and unreadable ones, for streams of one and two extents. Paths: every output path of three components, with and without interference and
failing calls, for lists of no, and of two, items at different depths. Given paths: every kind of
database path and of source object. Names: every name of up to four code units out of NUL, one-, two-
and three-byte characters and the two halves of a pair. Bytes have base 4 digits, integers two bytes, clusters four
bytes, and the buffer three, so that a cluster takes two reads. *Tui:* two devices and two folders
are what "another one than before" needs; the `Ticks` bound only limits how often the worker takes
the mutex.

Deadlock is checked in the two `AtomicFile` runs that pass, where `JournalCommit` is always possible and
`RunsFinish` speaks of the runs. The others switch it off: a walk, the scans, a recovery and the
terminal interface really end.

### What the violations show

1. **Two overwriting runs** (`atomic_two_overwriting`). With `--overwrite` the constructor unlinks an
   existing `.partial` no matter who is writing it (`RecoveryOutput.cpp:143`), and `commit` renames
   whatever then has that name (line 206). One run so publishes the other's unfinished file.
2. **Clashing names** (`atomic_clash`). Items are sorted by their names on the volume
   (`Recover.cpp:95-100`) and written under their sanitized names. A file named byte 1 followed by `.partial`
   sorts before a file `_` and is written as `_.partial`, which is the name of `_`'s partial: under
   `--overwrite` the item just recovered is unlinked as stale, stays counted, and nothing brings it back. With
   plain names the order is `a`, `a.partial` and one run does no harm; but a second overwriting run
   removes the first one's `a.partial` when it comes to `a`, long before it writes its own.
3. **Partitioned arrays** (`devices_raid`). `add_device_relations` records the devices above the walked
   one without looking at *their* slaves (lines 109-116): a partition of an array made of
   the source partition passes as unrelated.
4. **"Dry-run completed"** (`tui_confirm`). The confirmation page appears whatever the dry run did
   (`Tui.cpp:734-739`), threw or never started, and the destination can still change.
5. **"q back/quit"** (`tui_quit`). From Search `q` leads to Results and back again, for ever.

### What some properties leave out, because the code does

* `WritesApart` excepts a database path that is a *dangling link*. `weakly_canonical` does not follow a
  link whose target does not exist (`PathSafety.cpp:37`), so such a path is judged by the directory
  the link lies in, and SQLite then creates the file at its target, which may be on the source's file
  system. The run has such worlds; without the exception TLC finds them.
* `RecoveredIsRecord` promises a record with the row's number, and the very record of the row only if
  that has a number of its own in its header. A record with header number 0 is indexed under its position
  (`MftRecord.cpp:141-143`), and recovery may find another record that has this number in its header.
* `RecoveredIsRecord` and `NothingMissed` take data runs to be in clusters of the volume only where the
  two fields of the boot sector multiply to the volume's cluster size (`GoodBoot`). `read_cluster_size`
  checks no more than that neither is zero (`Recover.cpp:51`). With a damaged boot sector, or
  one that counts the sectors of a cluster as a power of two (NTFS writes 2^k sectors as 256 - k, which line 54 multiplies
  as a plain count), data runs are read at other places, and bytes that are not the file's are counted as recovered. For
  such boot sectors the two properties say no more than that these bytes are where the run's own cluster
  size puts them (`Clusters`); resident streams are right in any case. Without the distinction TLC finds the wrong copy.
* `JoinedUnlessThrown` excepts one way out of `run_tui`: `current_path` throws where the working directory
  is gone (`Tui.cpp:662`, 670, 723, 728), which happens for a selected folder and no destination. The
  exception passes `join_worker` (line 755), and a worker that runs, or has ended and was not joined since,
  makes `~thread` call `std::terminate`. A scan, `/`, a search, a folder and `r` are enough. `std::thread`'s own exception
  does no such harm: it comes right after `join_worker`.


## 4. Fairness

* `AtomicFile!FairSpec`: a started run that is not killed keeps taking steps (weak fairness
  of each run's next step: it is a thread that waits for nobody). `CopyBlock` may not go on for ever
  because a file has a size.
* `ScanIndex!FairSpec`: weak fairness of each scan. No step waits: a locked database is an error
  at once, no busy timeout being set.
* `RecoverRun!FairSpec`: weak fairness of the run's own steps; it waits for nobody. Others may change the
  paths any number of times, but not keep the run from its next step.
* `Tui!FairSpec`: handlers and frames end (weak), and the worker gets the mutex (strong): the
  interface thread waits for events without holding it between frames. `ScanReported` and `JoinsEnd` need no
  fairness of keys. A handler's end includes that `Recover::run` returns. `ScanReported` allows for a program that
  an exception ended before the scan did.
* `Tui!QSpec` adds that a user who keeps pressing `q` is heard (strong, since frames come in between);
  its `LeavesByQ` is the one liveness property found violated.


## 5. What is proved

Eight modules, checked by `tlapm` without open leaves. *Every* invariant, action property and refinement that a
passing run checks is proved for all values of the constants, under the named assumptions of the
modules. What is left to TLC is liveness.

**AtomicFile_proofs.** `TypeCorrect` holds without further assumption. The others assume
`SafeRegime`: no output has another's partial name (`DistinctNames`); if runs overlap, none
overwrites; and if one overwrites, the user creates no special files meanwhile (the check of a
special entry and its replacement are two steps). Without each of the first two the property fails:
those are the first two violations above. The third excludes a race of the same kind, which
`path_exists`/`rename` cannot close. Any number of runs, items, blocks and foreign files is allowed,
with failing `unlink`s.
`PublishedWhole` is not inductive: a step that publishes shows a whole file only because the
partial's name still refers to the run's own inode (`HoldsPartial`), which `fsync` made safe
before (`SyncedFirst`); a power loss keeps it only because the journal is safe too (`ShownSafe`).
`OneAtATime`, `StillReplaceable`, `ModeKept`, `PendingAhead` and `OwnFilePlaced` carry what overwriting
runs rely on and where a run's files can be. From that invariant (`Safe`) follow `WholeFilesOnly`,
`NothingOfOthersReplaced`, `CountsAreTrue`, `RecoveredStay`, `PartialsRemoved` and, step by step,
that the system calls implement `OutputPromise` (`PromiseKept`).

**DeviceRelations_proofs.** The invariant says that a walk finds only what lies `Below` its device
(`FindsBelow`) and that, on a plain machine, whatever it found has its parents and slaves
in the set or still on the call stack (`ExploresAll`); when the stack is empty the set is closed.
Hence `RefusalsHaveReason` for all machines and `PassesAreApart` for plain ones, with the set
being *exactly* what matters at any depth and in any order. "Plain" means that sysfs lists every
device and that a device others lie in is not itself stacked: the third violation shows why.

**ScanIndex_proofs.** The invariant ties the transaction to its scan: a scan between `BEGIN` and
`COMMIT` is the writer (`Locked`), and `pending` is exactly what it has read, up to the record at hand
(`PendingIsRead`). With it `CountsAreIndexed`, `LocksReleased`, and
`PromiseKept`: scans, failures and kills implement `IndexPromise`. That the transaction holds rows of one
connection only is SQLite's own doing, part of the model (`pending` and `writer`) and no result.

**CollectTree_proofs.** From `CollectAssumption` alone: any index, any names, any scan. The invariant
`IInv` has four parts. `Prefix`, `Fresh`, `Finished` and `RootEntered` say what the walk may be in the middle of:
the index only grows, before the root nothing is listed, an empty stack is a finished
walk, the root was entered. `Placed`: the collision index holds exactly the keys of the list (`KeysOfItems`) and
every active call's base is the path of a directory already listed (`FramesPlaced`), from
which `UniqueOutputs` and `ParentsFirst` follow. `Once`: the children still to come belong to directories
that were entered, no two calls wait for children of one directory (`RestApart`), and none of them
is listed yet (`RestNew`); so cycles and repeated scans list nothing twice. `Complete`: every row of
an entered directory is listed, still to come, or merged with one that is, unless
its query failed (`Kept`), and every directory listed is entered (`DirsEntered`). Hence `OutputsApart`,
`DirectoriesFirst`, `EntriesOnce`, `WholeTree`, and `RefusalsReal`.

**RecoverRun_proofs.** `NothingOnSource`: for any source, any output path and any change of it between items,
nothing is created on the source. A directory is made in its parent, and a file in its directory, so
the invariant says of each that it is apart from the source at the moment it is about to be used (`NextApart`):
it has just been validated component by component. It needs `StartAssumption` (an image is no
storage; an ordinary database path is written where it leads) and `RootAssumption`: `mkdir` of the first
component comes before any look at `/` itself, so where the root directory is on the source that
component must exist. `FirstRecordWins` needs no assumption: a place in
`found` was read, restored and had the number, and all places before it were passed and did not.

The other four of a recovery depend on what the parsers compute, so they rest on `RecordAssumption` (what the fields
of a record can be; a data attribute's bytes either encode its extents or are malformed, and
`RunsDecided` shows that all bytes are one or the other) and on the next section.

* `Types`. The inductive part is `Typing`: what is to be copied of a run never exceeds what remains of the file
  (`to_copy <= remaining`), so that the unsigned subtractions of `copy_nonresident` cannot wrap,
  whatever runs were parsed.
* `RecoveredTruly`. `CopyInv` says of a copy in progress that it is of a sound stream in the record located
  for the item (`ChosenFor`), that its runs are those of the stream's extents, and where in them it is
  in clusters of the size that the run read (`Position`): what is out is a start of the stream (`StartsWith`), as long as what does not remain; between
  runs it ends where an extent ends, within a run the offset on the source is that of the
  next byte (`Inside`). With `remaining = 0` that start is the file. Where the row's own record is the only one
  with its number, `LocateInv` makes it the one that was located. `CopyInv` holds for every boot sector; that
  the run's cluster size is the one the property measures with (`ClustersTyped`) is by definition where the boot sector
  is wrong, and the volume's where it is right. `BootAssumption` says only what the two fields are.
* `SkippedForReason`. `SkipInv` follows the reasons: a directory that `ensure_safe_directory` refuses stays unsafe
  until the end of an undisturbed run (`Spoilt`: only entries that are absent are ever made), the search for
  records ended behind the last place or at an unreadable one before the first item, and a copy that fails is of a stream that is not
  `Obtainable`: too short, of an overflowing run, or with a byte that cannot be read.
* `NamesKept`. The rows of a whole record and its names on the volume are made by two different walks; each
  attribute adds one entry to both or none (`RowSays`), so the two lists stay alongside (`Alongside`).

Three things came out of these proofs. The fixup also refuses a record whose update sequence array is out of
bounds; the properties' idea of a whole record had not said so, and "whole" and "restorable" differed. `NamesSurvive` had been about
records that are whole *after* the tear, of which a later write may look whole by accident; it is about
records as they were scanned (`IsWhole(world.places[p])`). And `TypeOK` did not hold for just any records: what a record's
fields can be had to be said, which `RecordAssumption` does, and TLC checks it of every record in the run.

**MftRecord_proofs, DataInduction.** What the parsers compute for *every* input, at every width of integers.
`EncodedRuns`: bytes that encode a list of extents, by the definition that does not mention the parser
(`Encodes`: headers, counts, distances in two's complement), are parsed to exactly these. `MalformedRuns`: extents
followed by neither an end nor another extent are refused. `RunsDecided`: there are no other bytes, since extents that
cannot be continued have an end or a fault behind them. Hence `RunsAccepted`: `parse_data_runs` accepts exactly what
encodes extents. `NameConverted`: `utf16le_to_utf8` returns well-formed UTF-8
for the characters of the code units, whatever they are, and nothing only where there are no
characters. The argument follows the loops: after `k` turns the parser stands behind the `k`-th extent with its runs
(`ReadsExtents`), and a turn that accepts finds an extent there (`AcceptedExtent`); after each turn of the
conversion the decoder has read what is out to the end (`ConvertFollows`), for which `ShapeOne` to `ShapeFour` say what the
bytes of a character are.

The library's induction theorems take an operator as a parameter, which the provers cannot instantiate.
`DataInduction` therefore derives what is needed from the one first-order fact that `<` is well-founded on
the naturals: a set of naturals has a least element (`Least`), sets closed under successor are all
(`Induct`), a loop given by its turns computes something (`Iterate`), what each turn keeps, the loop keeps
(`Kept`), and what `FlattenSeq` yields (`Flattened`, `FlatFrom`, `FlatFirst`, `Alongside`).

**Tui_proofs.** `ExitsJoined`, `SelectionKept`, `DeviceKept` and `DryRunFirst`, from `TuiAssumption`. No one of them
is inductive: `ExitsJoined` rests on what the interface thread leaves with (`Joined`): at its return no
worker, at an exception none either unless a folder was selected and the destination empty; a
selection at a recovery page by what the dry run was of (`DryRunSelected`), the device by
the device page not being reachable after a scan (`DevicesLeft`), and a real recovery by what the confirmation page
was reached with (`ConfirmsAttempted`, `NotConfirmed`).

Only model-checked: liveness (`RunsFinish`, `ScansEnd`, `ScanReported`, `JoinsEnd`, `RunEnds`), which is
beyond the prover.


## 6. What is not modelled, and why

* Bytes of a record that only carry offsets (`read_le`): a record is its fields, and "the length fits"
  is a field. The fixup compares sector trailers, it does not put words back. Attribute lists, VCNs and
  compressed or encrypted streams are outside the code as well. In `AtomicFile` a copy is whole or fails;
  which it is, is `RecoverRun`'s subject, where in turn the calls of `AtomicFile` are one exception.
* A change of the output path *within* an item, between its checks and the system calls that follow. The code works
  by name there and cannot exclude it, nor does it say so. `RecoverRun` changes paths between items.
* The relation of `RecoverRun`'s item list to an index: `CollectTree` shows what the list is, `RecoverRun` takes any list.
* Exceptions for want of memory, anywhere, and those that the interface library may throw itself.
* Text typed in the interface. `/`, `q`, `d` and `r` are shortcuts on every page, seen before the inputs are
  (`Tui.cpp:640-674`), so they never reach a search or a destination.
* Command line, device detection (`lsblk` output), rendering, `print_tree`, build and tests: no protocol state.
  `CMakeLists.txt` and tests were read for what they say of the code.
* Contents of `logs`. `run_recover` clears and appends to it without `state_mutex` while the worker
  appends under it; both can happen at once in `Tui`, but no property is about the text.
* Users only create entries, they do not delete or rename; a user can always remove files.
* The power-loss model: metadata is written back in one consistent snapshot, data
  blocks independently. Weaker file systems are not covered.
* SQLite, beyond what is said above.


## 7. Plan

The most important behaviour came first: what is written to the user's disk (`OutputPromise`,
`AtomicFile`), what must never be written to (`DeviceRelations`), the only concurrency inside the process
(`Tui`), what is recovered and where (`CollectTree`), where the list comes from (`IndexPromise`, `ScanIndex`),
and then a run as a whole over the bytes of the volume (`Utf`, `MftRecord`, `PathSafety`, `RecoverRun`), with proofs
for each.

Left:

1. The composition of `CollectTree` with `ScanIndex`: that the indexes and commits `CollectTree` takes as constants
   are those `IndexPromise` allows, and of `RecoverRun` with `CollectTree`'s list.
2. The steps behind the liveness properties that are not temporal: that a variant of `RecoverRun` (items, places,
   runs and bytes still to come) falls with every step, from which `RunEnds` follows by fairness alone.
3. A change of path inside an item, once the code opens directories instead of naming them.
