---------------------------- MODULE AtomicFile ----------------------------
(***************************************************************************)
(* Recovery runs (Recover::run) writing their file items through           *)
(* recovery_output::AtomicFile into one destination directory.             *)
(*                                                                         *)
(* A run walks its items in order.  For each it looks at the final name    *)
(* and at "<final>.partial", creates the partial exclusively, copies the   *)
(* data into it, syncs and closes it, renames it to the final name, and    *)
(* counts the item as recovered; on any failure the destructor unlinks the *)
(* partial and the item counts as skipped.  Every system call that touches *)
(* the directory is an action of its own, so that runs, a user creating    *)
(* files, a killed process and a power loss can come between any two.      *)
(*                                                                         *)
(* A directory entry holds an inode; an inode is known by who made it:     *)
(* <<r, f>> is the file run r creates for output f (each run tries each    *)
(* output once).  Data is counted in blocks; a file is whole when all its  *)
(* blocks are in it.  The directory and the data become durable            *)
(* independently: journal is the directory a power loss would leave,       *)
(* synced the blocks that fsync has made safe.                             *)
(*                                                                         *)
(* EINTR retries leave everything unchanged and are stuttering steps.      *)
(***************************************************************************)
EXTENDS Naturals, Sequences

CONSTANTS
    Runs,           \* recovery processes, each of them one Recover::run
    OverwriteRuns,  \* the runs given --overwrite
    Overlap,        \* whether a run may start while another one is active
    Items,          \* the file items of a run, in order: output names
    Partial,        \* Partial[f]: the name f + ".partial"
    Foreign,        \* inodes not made by these runs
    Special,        \* foreign inodes that are no regular file
    Torn,           \* partials left by runs killed before these started
    Blocks,         \* the blocks of data of an item
    UserMakes,      \* the entries a user may create while runs are active
    UnlinkFaults,   \* whether unlink may fail (I/O error, read-only remount)
    NoFile          \* the directory has no such entry

VARIABLES
    dir,        \* dir[n]: the inode that name n refers to, or NoFile
    journal,    \* the directory a power loss would leave
    size,       \* size[i]: blocks written to inode i
    synced,     \* synced[i]: blocks of inode i a power loss cannot take
    pc,         \* pc[r]: where run r is, a step of Recover::run or AtomicFile
    item,       \* item[r]: the index in Items of the item run r is at
    outcome     \* outcome[r][f]: what run r counted for f in RecoverStats

vars == <<dir, journal, size, synced, pc, item, outcome>>
files == <<dir, journal, size, synced>>

Outputs == {Items[k] : k \in DOMAIN Items}
Names == Outputs \cup {Partial[f] : f \in Outputs}
Own(r) == {r} \X Outputs
Inodes == Runs \X Outputs \cup Foreign

ASSUME RunsAssumption == OverwriteRuns \subseteq Runs /\ Overlap \in BOOLEAN
ASSUME ItemsAssumption ==
    /\ Items \in Seq(Outputs)
    /\ \A j, k \in DOMAIN Items : Items[j] = Items[k] => j = k
ASSUME PartialAssumption ==
    /\ \A f \in Outputs : Partial[f] # f
    /\ \A f, g \in Outputs : Partial[f] = Partial[g] => f = g
ASSUME InodeAssumption ==
    /\ Special \subseteq Foreign /\ Torn \subseteq Foreign
    /\ UserMakes \subseteq Foreign
    /\ (Special \cup UserMakes) \cap Torn = {}
    /\ (Runs \X Outputs) \cap Foreign = {}
    /\ NoFile \notin Inodes
ASSUME BlocksAssumption == Blocks \in Nat \ {0}
ASSUME FaultAssumption == UnlinkFaults \in BOOLEAN

\* No output has the name another output's partial needs.
DistinctNames == \A f, g \in Outputs : Partial[f] # g

Steps == {"idle", "next", "checkFinal", "checkPartial", "unlinkStale", "open",
          "copy", "fsync", "close", "publish", "unlinkPartial", "undoLink",
          "count", "cleanup", "done", "killed"}

\* Every variable has its type; in particular write() puts no item past its size.
TypeOK ==
    /\ dir \in [Names -> Inodes \cup {NoFile}]
    /\ journal \in [Names -> Inodes \cup {NoFile}]
    /\ size \in [Inodes -> 0..Blocks]
    /\ synced \in [Inodes -> 0..Blocks]
    /\ pc \in [Runs -> Steps]
    /\ item \in [Runs -> 1..(Len(Items) + 1)]
    /\ outcome \in [Runs -> [Outputs -> {"pending", "recovered", "skipped"}]]

-----------------------------------------------------------------------------
final(r) == Items[item[r]]
partial(r) == Partial[final(r)]
inode(r) == <<r, final(r)>>

Active(r) == pc[r] \notin {"idle", "done", "killed"}
Whole(i) == size[i] = Blocks
Goto(r, step) == pc' = [pc EXCEPT ![r] = step]

\* ++stats.recovered or ++stats.skipped, and on to the next item.
Count(r, result) ==
    /\ outcome' = [outcome EXCEPT ![r][final(r)] = result]
    /\ item' = [item EXCEPT ![r] = @ + 1]
    /\ Goto(r, "next")

-----------------------------------------------------------------------------
(* Slips: a plausible wrong version of some of the actions below.  No         *)
(* behaviour of this specification uses them; each is there to show which     *)
(* property catches it.                                                       *)

\* write() does not stop at the item's size.
SlipCopyBlock(r) ==
    /\ pc[r] = "copy"
    /\ size' = [size EXCEPT ![inode(r)] = @ + 1]
    /\ UNCHANGED <<dir, journal, synced, pc, item, outcome>>

\* commit() closes without fsync.
SlipFsync(r) ==
    /\ pc[r] = "fsync"
    /\ Goto(r, "close")
    /\ UNCHANGED <<files, item, outcome>>

\* Plain rename() although --overwrite was not given.
SlipPublishNoReplace(r) ==
    /\ pc[r] = "publish" /\ r \notin OverwriteRuns
    /\ dir[partial(r)] # NoFile
    /\ dir' = [dir EXCEPT ![final(r)] = dir[partial(r)], ![partial(r)] = NoFile]
    /\ Goto(r, "count")
    /\ UNCHANGED <<journal, size, synced, item, outcome>>

\* commit() ignores what its system calls return.
SlipCommitIgnoresErrors(r) ==
    /\ pc[r] \in {"fsync", "close", "publish"}
    /\ Goto(r, "count")
    /\ UNCHANGED <<files, item, outcome>>

\* committed_ is set before the publication, so the destructor does nothing.
SlipCommitForgetsPartial(r) ==
    /\ pc[r] \in {"fsync", "close", "publish"}
    /\ Count(r, "skipped")
    /\ UNCHANGED files

\* A failed commit starts over.
SlipCommitRetries(r) ==
    /\ pc[r] \in {"fsync", "close", "publish"}
    /\ Goto(r, "copy")
    /\ UNCHANGED <<files, item, outcome>>

\* The destructor unlinks final_path_ instead of partial_path_.
SlipCleanup(r) ==
    /\ pc[r] = "cleanup"
    /\ dir' = [dir EXCEPT ![final(r)] = NoFile]
    /\ Count(r, "skipped")
    /\ UNCHANGED <<journal, size, synced>>

\* reject_unsafe_existing_output is not called.
SlipReplaceable(r, n) == r \in OverwriteRuns

Init ==
    /\ dir \in [Names -> Foreign \cup {NoFile}]
    /\ \A f \in Outputs : dir[f] \notin Torn
    /\ journal = dir
    /\ size = [i \in Inodes |-> IF i \in Foreign \ Torn THEN Blocks ELSE 0]
    /\ synced = size
    /\ pc = [r \in Runs |-> "idle"]
    /\ item = [r \in Runs |-> 1]
    /\ outcome = [r \in Runs |-> [f \in Outputs |-> "pending"]]

-----------------------------------------------------------------------------
(* Recover::run: the loop over the items.                                  *)

Start(r) ==
    /\ pc[r] = "idle"
    /\ Overlap \/ \A q \in Runs : ~Active(q)
    /\ Goto(r, "next")
    /\ UNCHANGED <<files, item, outcome>>

\* The parent directory is safe and the MFT record was located: the output
\* may be opened.
BeginItem(r) ==
    /\ pc[r] = "next" /\ item[r] <= Len(Items)
    /\ Goto(r, "checkFinal")
    /\ UNCHANGED <<files, item, outcome>>

\* Everything that skips an item before its partial exists: an unsafe parent
\* directory, no MFT record, no usable $DATA, and every throw of AtomicFile's
\* constructor (whose object then has no destructor to run).
SkipItem(r) ==
    /\ pc[r] \in {"next", "checkFinal", "checkPartial", "unlinkStale", "open"}
    /\ item[r] <= Len(Items)
    /\ Count(r, "skipped")
    /\ UNCHANGED files

Finish(r) ==
    /\ pc[r] = "next" /\ item[r] > Len(Items)
    /\ Goto(r, "done")
    /\ UNCHANGED <<files, item, outcome>>

-----------------------------------------------------------------------------
(* AtomicFile::AtomicFile: look at both names, then create the partial.    *)

\* path_exists, reject_unsafe_existing_output and the overwrite_ test: what is
\* at n may be replaced by run r.
Replaceable(r, n) == r \in OverwriteRuns /\ dir[n] \notin Special

CheckFinal(r) ==
    /\ pc[r] = "checkFinal"
    /\ dir[final(r)] = NoFile \/ Replaceable(r, final(r))
    /\ Goto(r, "checkPartial")
    /\ UNCHANGED <<files, item, outcome>>

CheckPartial(r) ==
    /\ pc[r] = "checkPartial"
    /\ \/ dir[partial(r)] = NoFile /\ Goto(r, "open")
       \/ dir[partial(r)] # NoFile /\ Replaceable(r, partial(r)) /\ Goto(r, "unlinkStale")
    /\ UNCHANGED <<files, item, outcome>>

UnlinkStale(r) ==
    /\ pc[r] = "unlinkStale"
    /\ dir[partial(r)] # NoFile
    /\ dir' = [dir EXCEPT ![partial(r)] = NoFile]
    /\ Goto(r, "open")
    /\ UNCHANGED <<journal, size, synced, item, outcome>>

\* O_CREAT | O_EXCL: an entry that appeared since the check is an error.
OpenPartial(r) ==
    /\ pc[r] = "open"
    /\ dir[partial(r)] = NoFile
    /\ dir' = [dir EXCEPT ![partial(r)] = inode(r)]
    /\ Goto(r, "copy")
    /\ UNCHANGED <<journal, size, synced, item, outcome>>

-----------------------------------------------------------------------------
(* AtomicFile::write, called by recover_file and copy_nonresident.         *)

CopyBlock(r) ==
    /\ pc[r] = "copy" /\ size[inode(r)] < Blocks
    /\ size' = [size EXCEPT ![inode(r)] = @ + 1]
    /\ UNCHANGED <<dir, journal, synced, pc, item, outcome>>

\* The copy loop ends with remaining = 0: the file goes to commit().
CopyDone(r) ==
    /\ pc[r] = "copy" /\ Whole(inode(r))
    /\ Goto(r, "fsync")
    /\ UNCHANGED <<files, item, outcome>>

\* The source cannot be read, the data runs end early, a write fails or makes
\* no progress: the function is left and the destructor runs.
CopyFails(r) ==
    /\ pc[r] = "copy" /\ ~Whole(inode(r))
    /\ Goto(r, "cleanup")
    /\ UNCHANGED <<files, item, outcome>>

-----------------------------------------------------------------------------
(* AtomicFile::commit: fsync, close, publish.                              *)

Fsync(r) ==
    /\ pc[r] = "fsync"
    /\ synced' = [synced EXCEPT ![inode(r)] = size[inode(r)]]
    /\ Goto(r, "close")
    /\ UNCHANGED <<dir, journal, size, item, outcome>>

Close(r) ==
    /\ pc[r] = "close"
    /\ Goto(r, "publish")
    /\ UNCHANGED <<files, item, outcome>>

\* rename(2) takes whatever entry the partial's name has now; between two links
\* to the same inode it succeeds and does nothing.
Rename(r) ==
    /\ dir[partial(r)] # NoFile
    /\ IF dir[partial(r)] = dir[final(r)]
       THEN UNCHANGED dir
       ELSE dir' = [dir EXCEPT ![final(r)] = dir[partial(r)], ![partial(r)] = NoFile]

PublishReplacing(r) ==
    /\ pc[r] = "publish" /\ r \in OverwriteRuns
    /\ Rename(r)
    /\ Goto(r, "count")
    /\ UNCHANGED <<journal, size, synced, item, outcome>>

\* renameat2 with RENAME_NOREPLACE.
PublishNoReplace(r) ==
    /\ pc[r] = "publish" /\ r \notin OverwriteRuns
    /\ dir[final(r)] = NoFile
    /\ Rename(r)
    /\ Goto(r, "count")
    /\ UNCHANGED <<journal, size, synced, item, outcome>>

\* The file system has no RENAME_NOREPLACE (EINVAL, ENOSYS): link, which fails
\* on an existing name, then unlink.
LinkFinal(r) ==
    /\ pc[r] = "publish" /\ r \notin OverwriteRuns
    /\ dir[final(r)] = NoFile /\ dir[partial(r)] # NoFile
    /\ dir' = [dir EXCEPT ![final(r)] = dir[partial(r)]]
    /\ Goto(r, "unlinkPartial")
    /\ UNCHANGED <<journal, size, synced, item, outcome>>

UnlinkPartial(r) ==
    /\ pc[r] = "unlinkPartial"
    /\ dir[partial(r)] # NoFile
    /\ dir' = [dir EXCEPT ![partial(r)] = NoFile]
    /\ Goto(r, "count")
    /\ UNCHANGED <<journal, size, synced, item, outcome>>

UnlinkPartialFails(r) ==
    /\ pc[r] = "unlinkPartial"
    /\ UnlinkFaults \/ dir[partial(r)] = NoFile
    /\ Goto(r, "undoLink")
    /\ UNCHANGED <<files, item, outcome>>

\* unlink(to), its result ignored.
UndoLink(r) ==
    /\ pc[r] = "undoLink"
    /\ \/ dir' = [dir EXCEPT ![final(r)] = NoFile]
       \/ UnlinkFaults /\ UNCHANGED dir
    /\ Goto(r, "cleanup")
    /\ UNCHANGED <<journal, size, synced, item, outcome>>

\* fsync, close, rename or link fails and commit() throws.
CommitFails(r) ==
    /\ pc[r] \in {"fsync", "close", "publish"}
    /\ Goto(r, "cleanup")
    /\ UNCHANGED <<files, item, outcome>>

CountRecovered(r) ==
    /\ pc[r] = "count"
    /\ Count(r, "recovered")
    /\ UNCHANGED files

\* ~AtomicFile of an uncommitted file: unlink by name, result ignored.
Cleanup(r) ==
    /\ pc[r] = "cleanup"
    /\ \/ dir' = [dir EXCEPT ![partial(r)] = NoFile]
       \/ UnlinkFaults /\ UNCHANGED dir
    /\ Count(r, "skipped")
    /\ UNCHANGED <<journal, size, synced>>

-----------------------------------------------------------------------------
(* Around the runs: a killed process, a power loss, the file system's own  *)
(* writing back of metadata, and a user creating files.                    *)

Kill(r) ==
    /\ Active(r)
    /\ Goto(r, "killed")
    /\ UNCHANGED <<files, item, outcome>>

JournalCommit ==
    /\ journal' = dir
    /\ UNCHANGED <<dir, size, synced, pc, item, outcome>>

\* The directory falls back to the journal, any file may lose what was not
\* synced, what is left is on the disk, and every process is gone.
PowerLoss ==
    /\ dir' = journal
    /\ \E lost \in SUBSET Inodes :
           size' = [i \in Inodes |-> IF i \in lost THEN synced[i] ELSE size[i]]
    /\ synced' = size'
    /\ pc' = [r \in Runs |-> IF Active(r) THEN "killed" ELSE pc[r]]
    /\ UNCHANGED <<journal, item, outcome>>

UserCreates(n) ==
    /\ dir[n] = NoFile
    /\ \E i \in UserMakes : dir' = [dir EXCEPT ![n] = i]
    /\ UNCHANGED <<journal, size, synced, pc, item, outcome>>

RunStep(r) ==
    \/ Start(r) \/ BeginItem(r) \/ SkipItem(r) \/ Finish(r)
    \/ CheckFinal(r) \/ CheckPartial(r) \/ UnlinkStale(r) \/ OpenPartial(r)
    \/ CopyBlock(r) \/ CopyDone(r) \/ CopyFails(r)
    \/ Fsync(r) \/ Close(r) \/ PublishReplacing(r) \/ PublishNoReplace(r)
    \/ LinkFinal(r) \/ UnlinkPartial(r) \/ UnlinkPartialFails(r) \/ UndoLink(r)
    \/ CommitFails(r) \/ CountRecovered(r) \/ Cleanup(r)

Next ==
    \/ \E r \in Runs : RunStep(r) \/ Kill(r)
    \/ \E n \in Names : UserCreates(n)
    \/ JournalCommit
    \/ PowerLoss

Spec == Init /\ [][Next]_vars

\* A started run is a running thread: it keeps taking its next step.
FairSpec == Spec /\ \A r \in Runs : WF_vars(Active(r) /\ RunStep(r))

-----------------------------------------------------------------------------
(* Properties.                                                             *)

\* README "Publishes recovered files atomically": whatever a reader of the
\* directory finds under an output's name is a whole file, never a partial
\* one, at every moment and also after a kill or a power loss (commit() syncs
\* the data before it publishes the name).
PublishedWhole == \A f \in Outputs : dir[f] # NoFile => Whole(dir[f])

\* README "without overwriting by default", and reject_unsafe_existing_output:
\* a run without --overwrite never takes away or replaces an entry it did not
\* make itself, not one of the user's and not one of another run, also when
\* the entry appeared after the constructor's check; and no run at all
\* replaces a symlink or another entry that is no regular file.
OthersKept ==
    [][\A r \in Runs : RunStep(r) =>
           \A n \in Names : dir[n] # NoFile /\ dir'[n] # dir[n] =>
               /\ r \notin OverwriteRuns => dir[n] \in Own(r)
               /\ dir[n] \notin Special]_vars

\* A "recovered" line of the log is true: at the moment an item is counted,
\* its output name holds the very file this run wrote for it, whole and synced.
RecoveredTruthful ==
    [][\A r \in Runs, f \in Outputs :
           outcome[r][f] # "recovered" /\ outcome'[r][f] = "recovered" =>
               dir[f] = <<r, f>> /\ synced[dir[f]] = Blocks]_vars

\* What was reported as recovered is not lost again: short of a power loss, a
\* recovered file leaves its name only by being replaced with a later run's
\* whole version of it.
RecoveredKept ==
    [][PowerLoss \/
       \A r \in Runs, f \in Outputs :
           outcome[r][f] = "recovered" /\ dir[f] = <<r, f>> =>
               \E q \in Runs : dir'[f] = <<q, f>>]_vars

\* README "Incomplete writes are removed": once a run has counted an item,
\* as recovered or as skipped, no partial of its own is left behind.  (Only
\* where unlink works: the destructor ignores a failing one.)
NoForgottenPartial ==
    [][~UnlinkFaults =>
       \A r \in Runs, f \in Outputs :
           outcome[r][f] = "pending" /\ outcome'[r][f] # "pending" =>
               dir'[Partial[f]] # <<r, f>>]_vars

\* No failure, name conflict or crash leaves a run looping or waiting: every
\* started run comes to its summary line unless it is killed.
RunsFinish ==
    \A r \in Runs : pc[r] # "idle" ~> pc[r] \in {"done", "killed"}

\* What a reader of the directory is promised, and that the system calls and
\* crashes above keep it: a name shows its inode when that is whole.
Showing(d, bytes) ==
    [f \in Outputs |-> IF d[f] = NoFile \/ bytes[d[f]] = Blocks THEN d[f] ELSE <<"torn", f>>]

Promise == INSTANCE OutputPromise WITH
    Files <- Outputs,
    VersionsOf <- [f \in Outputs |-> (Runs \X {f}) \cup (Foreign \ Torn)],
    MayReplace <- OverwriteRuns \X Outputs,
    Recovered <- Runs \X Outputs,
    Protected <- Special,
    Absent <- NoFile,
    shown <- Showing(dir, size),
    kept <- Showing(journal, synced),
    reported <- {v \in Runs \X Outputs : outcome[v[1]][v[2]] = "recovered"}
Implements == Promise!Spec
=============================================================================
