------------------------- MODULE AtomicFile_proofs -------------------------
(***************************************************************************)
(* Proofs about AtomicFile, for any set of runs, any items and any size.   *)
(***************************************************************************)
EXTENDS AtomicFile, TLAPS

(***************************************************************************)
(* What the code's promises rest on: no output has the name of another's   *)
(* partial, overlapping runs are all without --overwrite, and nobody puts  *)
(* a symlink or a device at a name an overwriting run has already checked. *)
(* The runs AtomicFile_two_overwriting and AtomicFile_clash show what      *)
(* happens without the first two.                                          *)
(***************************************************************************)
SafeRegime ==
    /\ DistinctNames
    /\ Overlap => OverwriteRuns = {}
    /\ OverwriteRuns = {} \/ UserMakes \cap Special = {}

Working == Steps \ {"idle", "next", "done", "killed"}
Holding == {"copy", "fsync", "close", "publish", "unlinkPartial", "undoLink", "cleanup"}
Linked == {"unlinkPartial", "undoLink", "count"}
Checked == {"checkPartial", "unlinkStale", "open"} \cup Holding

\* A run between "next" and its count is at one of its items.
AtItem == \A r \in Runs : pc[r] \in Working => item[r] <= Len(Items)

\* From its creation to its publication or removal the partial's name holds
\* the run's own file: nobody else's, and not nothing.
HoldsPartial == \A r \in Runs : pc[r] \in Holding => dir[partial(r)] = inode(r)

\* Once published, the output's name holds the run's own file until it counts.
HoldsFinal == \A r \in Runs : pc[r] \in Linked => dir[final(r)] = inode(r)

\* The steps of commit(): a file is whole before fsync and safe after it.
\* A foreign file that is no old partial is safe all along.
SyncedFirst ==
    /\ \A i \in Inodes : synced[i] <= size[i]
    /\ \A i \in Foreign \ Torn : synced[i] = Blocks
    /\ \A r \in Runs :
          /\ pc[r] = "fsync" => size[inode(r)] = Blocks
          /\ pc[r] \in {"close", "publish"} \cup Linked => synced[inode(r)] = Blocks

\* What stands behind PublishedWhole: an output's name, now and in the journal,
\* refers to a file that no power loss can shorten.
ShownSafe ==
    \A f \in Outputs :
        /\ dir[f] # NoFile => synced[dir[f]] = Blocks
        /\ journal[f] # NoFile => synced[journal[f]] = Blocks

OneAtATime == Overlap \/ \A q, r \in Runs : Active(q) /\ Active(r) => q = r

\* What an overwriting run found replaceable still is.
StillReplaceable ==
    \A r \in OverwriteRuns :
        /\ pc[r] \in Checked => dir[final(r)] \notin Special
        /\ pc[r] = "unlinkStale" => dir[partial(r)] \notin Special

\* Only --overwrite unlinks a stale partial; only its absence links and unlinks.
ModeKept ==
    \A r \in Runs : /\ pc[r] = "unlinkStale" => r \in OverwriteRuns
                    /\ pc[r] \in {"unlinkPartial", "undoLink"} => r \notin OverwriteRuns

\* A run has counted nothing from its current item on.
PendingAhead ==
    \A r \in Runs : \A k \in DOMAIN Items :
        item[r] <= k => outcome[r][Items[k]] = "pending"

\* A run's own file has the partial's name only while the run holds it there,
\* and the output's name only once it is published, or else after the run has
\* counted that item; a run that has not started made nothing.
OwnFilePlaced ==
    \A r \in Runs :
        /\ pc[r] \notin {"done", "killed"} => \A k \in DOMAIN Items :
              dir[Partial[Items[k]]] = <<r, Items[k]>> =>
                  k < item[r] \/ (k = item[r] /\ pc[r] \in Holding)
        /\ pc[r] \notin {"done", "killed"} => \A k \in DOMAIN Items :
              dir[Items[k]] = <<r, Items[k]>> =>
                  k < item[r] \/ (k = item[r] /\ pc[r] \in Linked \cup {"cleanup"})
        /\ pc[r] = "idle" => /\ item[r] = 1
                            /\ \A n \in Names : journal[n] \notin Own(r) /\ dir[n] \notin Own(r)

IInv ==
    /\ TypeOK /\ AtItem /\ HoldsPartial /\ HoldsFinal /\ SyncedFirst /\ ShownSafe
    /\ OneAtATime /\ StillReplaceable /\ ModeKept /\ PendingAhead
    /\ OwnFilePlaced

-----------------------------------------------------------------------------
(* Type correctness.                                                       *)

\* An item number inside Items names an output; its partial and the run's
\* inode for it are in the model's sets, and the inode is nobody's file.
LEMMA ItemFacts ==
    ASSUME TypeOK, NEW r \in Runs, item[r] <= Len(Items)
    PROVE  /\ item[r] \in DOMAIN Items
           /\ final(r) \in Outputs /\ final(r) \in Names
           /\ partial(r) \in Names
           /\ inode(r) \in Inodes /\ inode(r) \notin Foreign /\ inode(r) # NoFile
           /\ inode(r) \in Runs \X Outputs
  <1>1. item[r] \in 1..Len(Items)
    BY ItemsAssumption DEF TypeOK
  <1>2. item[r] \in DOMAIN Items
    BY <1>1, ItemsAssumption
  <1>3. final(r) \in Outputs
    BY <1>2 DEF final, Outputs
  <1> QED
    BY <1>2, <1>3, InodeAssumption DEF partial, inode, Names, Inodes

LEMMA ItemStep ==
    ASSUME TypeOK, NEW r \in Runs, item[r] <= Len(Items)
    PROVE  item[r] + 1 \in 1..(Len(Items) + 1)
  BY ItemsAssumption DEF TypeOK

LEMMA TypeInit == Init => TypeOK
  <1> SUFFICES ASSUME Init PROVE TypeOK
    OBVIOUS
  <1>1. Len(Items) \in Nat
    BY ItemsAssumption
  <1> QED
    BY <1>1, BlocksAssumption, InodeAssumption
    DEF Init, TypeOK, Inodes, Steps, Names

LEMMA AtItemInit == Init => AtItem
  BY DEF Init, AtItem, Working

\* Every step of a run keeps the types and keeps a working run at an item.
LEMMA TypeRunStep ==
    ASSUME TypeOK, AtItem, NEW r \in Runs, RunStep(r)
    PROVE  TypeOK' /\ AtItem'
  <1> USE DEF TypeOK, AtItem, Goto, Count, files, Steps, Working, Active
  <1>0. Len(Items) \in Nat /\ Blocks \in Nat \ {0}
    BY ItemsAssumption, BlocksAssumption
  <1>1. CASE Start(r)
    BY <1>1 DEF Start
  <1>2. CASE BeginItem(r)
    BY <1>2 DEF BeginItem
  <1>3. CASE SkipItem(r)
    BY <1>0, <1>3, ItemFacts, ItemStep DEF SkipItem
  <1>4. CASE Finish(r)
    BY <1>4 DEF Finish
  <1>5. CASE CheckFinal(r)
    BY <1>5 DEF CheckFinal
  <1>6. CASE CheckPartial(r)
    BY <1>6 DEF CheckPartial
  <1>7. CASE UnlinkStale(r)
    BY <1>7, ItemFacts DEF UnlinkStale
  <1>8. CASE OpenPartial(r)
    BY <1>8, ItemFacts DEF OpenPartial
  <1>9. CASE CopyBlock(r)
    <2>1. inode(r) \in Inodes
      BY <1>9, ItemFacts DEF CopyBlock
    <2>2. size[inode(r)] \in 0..Blocks /\ size[inode(r)] < Blocks
      BY <2>1, <1>9 DEF CopyBlock
    <2>3. size[inode(r)] + 1 \in 0..Blocks
      BY <1>0, <2>2
    <2> QED
      BY <2>1, <2>3, <1>9 DEF CopyBlock
  <1>10. CASE CopyDone(r)
    BY <1>10 DEF CopyDone
  <1>11. CASE CopyFails(r)
    BY <1>11 DEF CopyFails
  <1>12. CASE Fsync(r)
    <2>1. size[inode(r)] \in 0..Blocks
      BY <1>12, ItemFacts DEF Fsync
    <2> QED
      BY <2>1, <1>12, ItemFacts DEF Fsync
  <1>13. CASE Close(r)
    BY <1>13 DEF Close
  <1>14. CASE PublishReplacing(r)
    BY <1>14, ItemFacts DEF PublishReplacing, Rename
  <1>15. CASE PublishNoReplace(r)
    BY <1>15, ItemFacts DEF PublishNoReplace, Rename
  <1>16. CASE LinkFinal(r)
    BY <1>16, ItemFacts DEF LinkFinal
  <1>17. CASE UnlinkPartial(r)
    BY <1>17, ItemFacts DEF UnlinkPartial
  <1>18. CASE UnlinkPartialFails(r)
    BY <1>18 DEF UnlinkPartialFails
  <1>19. CASE UndoLink(r)
    BY <1>19, ItemFacts DEF UndoLink
  <1>20. CASE CommitFails(r)
    BY <1>20 DEF CommitFails
  <1>21. CASE CountRecovered(r)
    BY <1>0, <1>21, ItemFacts, ItemStep DEF CountRecovered
  <1>22. CASE Cleanup(r)
    BY <1>0, <1>22, ItemFacts, ItemStep DEF Cleanup
  <1> QED
    BY <1>1, <1>2, <1>3, <1>4, <1>5, <1>6, <1>7, <1>8, <1>9, <1>10, <1>11, <1>12, <1>13,
       <1>14, <1>15, <1>16, <1>17, <1>18, <1>19, <1>20, <1>21, <1>22 DEF RunStep

\* The steps of the surroundings: a kill, a user, the journal, a power loss.
LEMMA TypeOtherStep ==
    ASSUME TypeOK, AtItem,
           \/ \E r \in Runs : Kill(r)
           \/ \E n \in Names : UserCreates(n)
           \/ JournalCommit
           \/ PowerLoss
    PROVE  TypeOK' /\ AtItem'
  <1> USE DEF TypeOK, AtItem, Goto, files, Steps, Working, Active
  <1>1. ASSUME NEW r \in Runs, Kill(r) PROVE TypeOK' /\ AtItem'
    BY <1>1 DEF Kill
  <1>2. ASSUME NEW n \in Names, UserCreates(n) PROVE TypeOK' /\ AtItem'
    BY <1>2, InodeAssumption DEF UserCreates, Inodes
  <1>3. CASE JournalCommit
    BY <1>3 DEF JournalCommit
  <1>4. CASE PowerLoss
    BY <1>4 DEF PowerLoss
  <1> QED
    BY <1>1, <1>2, <1>3, <1>4

LEMMA TypeStep == TypeOK /\ AtItem /\ [Next]_vars => TypeOK' /\ AtItem'
  <1> SUFFICES ASSUME TypeOK, AtItem, [Next]_vars PROVE TypeOK' /\ AtItem'
    OBVIOUS
  <1>1. CASE UNCHANGED vars
    BY <1>1 DEF vars, TypeOK, AtItem, Working
  <1>2. CASE Next
    BY <1>2, TypeRunStep, TypeOtherStep DEF Next
  <1> QED
    BY <1>1, <1>2

\* Every variable keeps its type, and a working run is at one of its items.
THEOREM TypeCorrect == Spec => []TypeOK
  <1>1. Init => TypeOK /\ AtItem
    BY TypeInit, AtItemInit
  <1> QED
    BY <1>1, TypeStep, PTL DEF Spec

-----------------------------------------------------------------------------
(* The inductive invariant.                                                *)

\* Two working runs: neither's partial has an output's name, and they share a
\* partial only when they are at the same output; inodes tell them apart.
LEMMA NamesApart ==
    ASSUME TypeOK, AtItem, DistinctNames, NEW q \in Runs, NEW r \in Runs,
           pc[q] \in Working, pc[r] \in Working
    PROVE  /\ final(r) \in Outputs /\ final(r) \in Names /\ partial(r) \in Names
           /\ inode(r) \in Inodes /\ inode(r) \notin Foreign /\ inode(r) # NoFile
           /\ partial(q) # final(r)
           /\ partial(q) = partial(r) => final(q) = final(r)
           /\ inode(q) = inode(r) => q = r
  <1>1. item[q] <= Len(Items) /\ item[r] <= Len(Items)
    BY DEF AtItem
  <1>2. /\ final(q) \in Outputs /\ final(r) \in Outputs /\ final(r) \in Names
        /\ partial(r) \in Names
        /\ inode(r) \in Inodes /\ inode(r) \notin Foreign /\ inode(r) # NoFile
    BY <1>1, ItemFacts
  <1>3. partial(q) # final(r) /\ (partial(q) = partial(r) => final(q) = final(r))
    BY <1>2, PartialAssumption DEF DistinctNames, partial
  <1>4. inode(q) = inode(r) => q = r
    BY DEF inode
  <1> QED
    BY <1>1, <1>2, <1>3, <1>4

\* A run moves nobody but itself, and never touches the journal.
LEMMA OthersStay ==
    ASSUME TypeOK, NEW r \in Runs, RunStep(r), NEW q \in Runs, q # r
    PROVE  /\ pc'[q] = pc[q] /\ item'[q] = item[q] /\ outcome'[q] = outcome[q]
  <1> USE DEF TypeOK, Goto, Count, files
  <1>1. pc'[q] = pc[q]
    BY DEF RunStep, Start, BeginItem, SkipItem, Finish, CheckFinal, CheckPartial, 
           CopyBlock, CopyDone, CopyFails, Fsync, Close, 
           UnlinkPartialFails, CommitFails, CountRecovered, UnlinkStale, 
           OpenPartial, PublishReplacing, PublishNoReplace, LinkFinal, 
           UnlinkPartial, UndoLink, Cleanup
  <1>2. item'[q] = item[q] /\ outcome'[q] = outcome[q]
    BY DEF RunStep, Start, BeginItem, SkipItem, Finish, CheckFinal, CheckPartial, 
           CopyBlock, CopyDone, CopyFails, Fsync, Close, 
           UnlinkPartialFails, CommitFails, CountRecovered, UnlinkStale, 
           OpenPartial, PublishReplacing, PublishNoReplace, LinkFinal, 
           UnlinkPartial, UndoLink, Cleanup
  <1> QED
    BY <1>1, <1>2

\* All that a step of a run may do to the directory.
Touches(r, n) ==
    \/ n = partial(r) /\ dir[n] = NoFile /\ dir'[n] = inode(r) /\ pc[r] = "open"
    \/ n = partial(r) /\ dir'[n] = NoFile /\ dir[n] # NoFile /\ pc[r] = "unlinkStale"
    \/ n = partial(r) /\ dir'[n] = NoFile /\ dir[n] = inode(r)
    \/ n = final(r) /\ dir'[n] = inode(r) /\ pc[r] = "publish"
       /\ (r \in OverwriteRuns \/ dir[n] = NoFile)
    \/ n = final(r) /\ dir'[n] = NoFile /\ dir[n] = inode(r) /\ pc[r] = "undoLink"

LEMMA Footprint ==
    ASSUME IInv, DistinctNames, NEW r \in Runs, RunStep(r),
           NEW n \in Names, dir'[n] # dir[n]
    PROVE  pc[r] \in Working /\ Touches(r, n)
  <1> USE DEF IInv
  <1>1. pc[r] \in Working
    BY DEF RunStep, files, Start, BeginItem, SkipItem, Finish, CheckFinal, CheckPartial, 
           CopyBlock, CopyDone, CopyFails, Fsync, Close, 
           UnlinkPartialFails, CommitFails, CountRecovered, UnlinkStale, OpenPartial, PublishReplacing,
           PublishNoReplace, LinkFinal, UnlinkPartial, UndoLink, Cleanup, Working, Steps
  <1>2. /\ final(r) \in Names /\ partial(r) \in Names /\ partial(r) # final(r)
    BY <1>1, NamesApart
  <1>3. dir \in [Names -> Inodes \cup {NoFile}]
    BY DEF TypeOK
  <1>4. pc[r] \in Holding => dir[partial(r)] = inode(r)
    BY DEF HoldsPartial
  <1>5. pc[r] \in Linked => dir[final(r)] = inode(r)
    BY DEF HoldsFinal
  <1>6. \/ UnlinkStale(r) \/ OpenPartial(r) \/ PublishReplacing(r) \/ PublishNoReplace(r)
        \/ LinkFinal(r) \/ UnlinkPartial(r) \/ UndoLink(r) \/ Cleanup(r)
    BY DEF RunStep, files, Start, BeginItem, SkipItem, Finish, CheckFinal, CheckPartial, 
           CopyBlock, CopyDone, CopyFails, Fsync, Close, 
           UnlinkPartialFails, CommitFails, CountRecovered
  <1>7. CASE UnlinkStale(r)
    BY <1>1, <1>2, <1>3, <1>7 DEF UnlinkStale, Touches
  <1>8. CASE OpenPartial(r)
    BY <1>1, <1>2, <1>3, <1>8 DEF OpenPartial, Touches
  <1>9. CASE PublishReplacing(r) \/ PublishNoReplace(r)
    BY <1>1, <1>2, <1>3, <1>4, <1>9 DEF PublishReplacing, PublishNoReplace, Rename, Touches, Holding
  <1>10. CASE LinkFinal(r)
    BY <1>1, <1>2, <1>3, <1>4, <1>10 DEF LinkFinal, Touches, Holding
  <1>11. CASE UnlinkPartial(r)
    BY <1>1, <1>2, <1>3, <1>4, <1>11 DEF UnlinkPartial, Touches, Holding
  <1>12. CASE UndoLink(r)
    BY <1>1, <1>2, <1>3, <1>5, <1>12 DEF UndoLink, Touches, Linked
  <1>13. CASE Cleanup(r)
    BY <1>1, <1>2, <1>3, <1>4, <1>13 DEF Cleanup, Touches, Holding
  <1> QED
    BY <1>1, <1>6, <1>7, <1>8, <1>9, <1>10, <1>11, <1>12, <1>13

\* What it does to the data: only the run's own file is written, and nothing
\* that was synced becomes less so.
LEMMA DataSteps ==
    ASSUME IInv, DistinctNames, NEW r \in Runs, RunStep(r), NEW i \in Inodes
    PROVE  /\ synced'[i] <= size'[i]
           /\ synced[i] = Blocks => synced'[i] = Blocks
           /\ size[i] = Blocks => size'[i] = Blocks
  <1> USE DEF IInv
  <1>1. /\ size[i] \in 0..Blocks /\ synced[i] \in 0..Blocks /\ synced[i] <= size[i]
        /\ Blocks \in Nat
    BY BlocksAssumption DEF TypeOK, SyncedFirst
  <1>2. CASE CopyBlock(r)
    <2>1. size' = [size EXCEPT ![inode(r)] = size[inode(r)] + 1] /\ synced' = synced
      BY <1>2 DEF CopyBlock
    <2>2. size'[i] = IF i = inode(r) THEN size[i] + 1 ELSE size[i]
      BY <2>1 DEF TypeOK
    <2>3. i = inode(r) => size[i] < Blocks
      BY <1>2 DEF CopyBlock
    <2> QED
      BY <1>1, <2>1, <2>2, <2>3
  <1>3. CASE Fsync(r)
    <2>1. synced' = [synced EXCEPT ![inode(r)] = size[inode(r)]] /\ size' = size
      BY <1>3 DEF Fsync
    <2>2. synced'[i] = IF i = inode(r) THEN size[i] ELSE synced[i]
      BY <2>1 DEF TypeOK
    <2> QED
      BY <1>1, <2>1, <2>2
  <1>4. CASE size' = size /\ synced' = synced
    BY <1>1, <1>4
  <1>5. CopyBlock(r) \/ Fsync(r) \/ (size' = size /\ synced' = synced)
    BY DEF RunStep, files, Start, BeginItem, SkipItem, Finish, CheckFinal, CheckPartial, 
           CopyDone, CopyFails, Close, UnlinkPartialFails, CommitFails, 
           CountRecovered, UnlinkStale, OpenPartial, PublishReplacing, 
           PublishNoReplace, LinkFinal, UnlinkPartial, UndoLink, 
           Cleanup, Rename
  <1> QED
    BY <1>2, <1>3, <1>4, <1>5

LEMMA OwnStep ==
    ASSUME TypeOK, NEW r \in Runs, RunStep(r)
    PROVE  /\ pc'[r] \in Working => item'[r] = item[r]
           /\ pc'[r] \in Holding => pc[r] \in Holding \cup {"open"}
           /\ pc'[r] \in Linked => pc[r] \in Linked \cup {"publish"}
           /\ pc'[r] = "unlinkStale" => pc[r] = "checkPartial" /\ Replaceable(r, partial(r))
           /\ pc'[r] \in {"unlinkPartial", "undoLink"} =>
                 pc[r] \in {"unlinkPartial", "undoLink"} \/ r \notin OverwriteRuns
           /\ pc'[r] \in Checked =>
                 \/ pc[r] \in Checked
                 \/ pc[r] = "checkFinal" /\ (dir[final(r)] = NoFile \/ Replaceable(r, final(r)))
  <1> USE DEF TypeOK, Goto, Count, files, Working, Holding, Linked, Checked, Steps
  <1>1. pc'[r] \in Working => item'[r] = item[r]
    BY DEF RunStep, Start, BeginItem, SkipItem, Finish, CheckFinal, CheckPartial, 
           CopyBlock, CopyDone, CopyFails, Fsync, Close, 
           UnlinkPartialFails, CommitFails, CountRecovered, UnlinkStale, 
           OpenPartial, PublishReplacing, PublishNoReplace, LinkFinal, 
           UnlinkPartial, UndoLink, Cleanup
  <1>2. pc'[r] \in Holding => pc[r] \in Holding \cup {"open"}
    BY DEF RunStep, Start, BeginItem, SkipItem, Finish, CheckFinal, CheckPartial, 
           CopyBlock, CopyDone, CopyFails, Fsync, Close, 
           UnlinkPartialFails, CommitFails, CountRecovered, UnlinkStale, 
           OpenPartial, PublishReplacing, PublishNoReplace, LinkFinal, 
           UnlinkPartial, UndoLink, Cleanup
  <1>3. pc'[r] \in Linked => pc[r] \in Linked \cup {"publish"}
    BY DEF RunStep, Start, BeginItem, SkipItem, Finish, CheckFinal, CheckPartial, 
           CopyBlock, CopyDone, CopyFails, Fsync, Close, 
           UnlinkPartialFails, CommitFails, CountRecovered, UnlinkStale, 
           OpenPartial, PublishReplacing, PublishNoReplace, LinkFinal, 
           UnlinkPartial, UndoLink, Cleanup
  <1>4. pc'[r] = "unlinkStale" => pc[r] = "checkPartial" /\ Replaceable(r, partial(r))
    BY DEF RunStep, Start, BeginItem, SkipItem, Finish, CheckFinal, CheckPartial, 
           CopyBlock, CopyDone, CopyFails, Fsync, Close, 
           UnlinkPartialFails, CommitFails, CountRecovered, UnlinkStale, 
           OpenPartial, PublishReplacing, PublishNoReplace, LinkFinal, 
           UnlinkPartial, UndoLink, Cleanup
  <1>5. pc'[r] \in Checked =>
              \/ pc[r] \in Checked
              \/ pc[r] = "checkFinal" /\ (dir[final(r)] = NoFile \/ Replaceable(r, final(r)))
    BY DEF RunStep, Start, BeginItem, SkipItem, Finish, CheckFinal, CheckPartial, 
           CopyBlock, CopyDone, CopyFails, Fsync, Close, 
           UnlinkPartialFails, CommitFails, CountRecovered, UnlinkStale, 
           OpenPartial, PublishReplacing, PublishNoReplace, LinkFinal, 
           UnlinkPartial, UndoLink, Cleanup
  <1>6. pc'[r] \in {"unlinkPartial", "undoLink"} =>
              pc[r] \in {"unlinkPartial", "undoLink"} \/ r \notin OverwriteRuns
    BY DEF RunStep, Start, BeginItem, SkipItem, Finish, CheckFinal, CheckPartial, 
           CopyBlock, CopyDone, CopyFails, Fsync, Close, 
           UnlinkPartialFails, CommitFails, CountRecovered, UnlinkStale, 
           OpenPartial, PublishReplacing, PublishNoReplace, LinkFinal, 
           UnlinkPartial, UndoLink, Cleanup
  <1> QED
    BY <1>1, <1>2, <1>3, <1>4, <1>5, <1>6

-----------------------------------------------------------------------------
(* One lemma per part of the invariant: a step of a run preserves it.      *)

LEMMA HoldsPartialStep ==
    ASSUME IInv, TypeOK', AtItem', SafeRegime, NEW r \in Runs, RunStep(r)
    PROVE  HoldsPartial'
  <1> USE DEF IInv, SafeRegime
  <1> SUFFICES ASSUME NEW q \in Runs, pc'[q] \in Holding
               PROVE  dir'[partial(q)'] = inode(q)'
    BY DEF HoldsPartial
  <1>1. pc'[q] \in Working
    BY DEF Holding, Working, Steps
  <1>2. item'[q] = item[q]
    BY <1>1, OthersStay, OwnStep
  <1>3. partial(q)' = partial(q) /\ inode(q)' = inode(q)
    BY <1>2 DEF partial, inode, final
  <1>4. CASE pc[q] \in Holding
    <2>1. dir[partial(q)] = inode(q) /\ pc[q] \in Working
      BY <1>4 DEF HoldsPartial, Holding, Working, Steps
    <2>2. SUFFICES ASSUME dir'[partial(q)] # dir[partial(q)] PROVE FALSE
      BY <1>3, <2>1
    <2>3. partial(q) \in Names /\ inode(q) # NoFile
      BY <2>1, NamesApart
    <2>4. pc[r] \in Working /\ Touches(r, partial(q))
      BY <2>2, <2>3, Footprint
    <2>5. partial(q) # final(r) /\ (inode(q) = inode(r) => q = r)
      BY <2>1, <2>4, NamesApart
    <2>6. CASE pc[r] = "unlinkStale"
      <3>1. r \in OverwriteRuns /\ Active(r) /\ Active(q)
        BY <2>6, <1>4 DEF ModeKept, Active, Holding
      <3>2. q = r
        BY <3>1 DEF OneAtATime
      <3> QED
        BY <3>2, <2>6, <1>4 DEF Holding
    <2>7. CASE dir[partial(q)] = inode(r) /\ dir'[partial(q)] = NoFile
      <3>1. q = r
        BY <2>1, <2>5, <2>7
      <3>2. pc'[r] \notin Holding \/ UNCHANGED dir \/ UndoLink(r) \/ LinkFinal(r)
        BY <1>4, <3>1 DEF RunStep, files, Goto, Count, TypeOK, Holding, Start, BeginItem, SkipItem, Finish, CheckFinal, CheckPartial, 
           CopyBlock, CopyDone, CopyFails, Fsync, Close, 
           UnlinkPartialFails, CommitFails, CountRecovered, UnlinkStale, 
           OpenPartial, PublishReplacing, PublishNoReplace, LinkFinal, 
           UnlinkPartial, UndoLink, Cleanup
      <3>3. ~UndoLink(r) /\ ~LinkFinal(r)
        BY <2>2, <2>5, <2>3 DEF UndoLink, LinkFinal, TypeOK
      <3> QED
        BY <2>2, <3>1, <3>2, <3>3
    <2> QED
      BY <2>1, <2>3, <2>4, <2>5, <2>6, <2>7 DEF Touches
  <1>5. CASE pc[q] \notin Holding
    <2>1. q = r /\ pc[r] = "open"
      BY <1>5, OthersStay, OwnStep
    <2>2. OpenPartial(r)
      BY <2>1 DEF RunStep, Goto, Count, TypeOK, Holding, Start, BeginItem, SkipItem, Finish, CheckFinal, CheckPartial, 
           CopyBlock, CopyDone, CopyFails, Fsync, Close, 
           UnlinkPartialFails, CommitFails, CountRecovered, UnlinkStale, 
           OpenPartial, PublishReplacing, PublishNoReplace, LinkFinal, 
           UnlinkPartial, UndoLink, Cleanup
    <2>3. pc[r] \in Working
      BY <2>1 DEF Working, Steps
    <2> QED
      BY <1>3, <2>1, <2>2, <2>3, NamesApart DEF OpenPartial, TypeOK
  <1> QED
    BY <1>4, <1>5

LEMMA HoldsFinalStep ==
    ASSUME IInv, TypeOK', AtItem', SafeRegime, NEW r \in Runs, RunStep(r)
    PROVE  HoldsFinal'
  <1> USE DEF IInv, SafeRegime
  <1> SUFFICES ASSUME NEW q \in Runs, pc'[q] \in Linked
               PROVE  dir'[final(q)'] = inode(q)'
    BY DEF HoldsFinal
  <1>1. pc'[q] \in Working
    BY DEF Linked, Working, Steps
  <1>2. item'[q] = item[q]
    BY <1>1, OthersStay, OwnStep
  <1>3. final(q)' = final(q) /\ inode(q)' = inode(q)
    BY <1>2 DEF inode, final
  <1>4. CASE pc[q] \in Linked
    <2>1. dir[final(q)] = inode(q) /\ pc[q] \in Working
      BY <1>4 DEF HoldsFinal, Linked, Working, Steps
    <2>2. SUFFICES ASSUME dir'[final(q)] # dir[final(q)] PROVE FALSE
      BY <1>3, <2>1
    <2>3. final(q) \in Names /\ inode(q) # NoFile
      BY <2>1, NamesApart
    <2>4. pc[r] \in Working /\ Touches(r, final(q))
      BY <2>2, <2>3, Footprint
    <2>5. partial(r) # final(q) /\ (inode(q) = inode(r) => q = r)
      BY <2>1, <2>4, NamesApart
    <2>6. CASE pc[r] = "publish" /\ r \in OverwriteRuns
      <3>1. Active(r) /\ Active(q)
        BY <2>6, <1>4 DEF Active, Linked
      <3>2. q = r
        BY <2>6, <3>1 DEF OneAtATime
      <3> QED
        BY <3>2, <2>6, <1>4 DEF Linked
    <2>7. CASE pc[r] = "undoLink" /\ dir[final(q)] = inode(r)
      <3>1. q = r
        BY <2>1, <2>5, <2>7
      <3>2. pc'[r] \notin Linked
        BY <2>7 DEF RunStep, Goto, Count, TypeOK, Linked, Start, BeginItem, SkipItem, Finish, CheckFinal, CheckPartial, 
           CopyBlock, CopyDone, CopyFails, Fsync, Close, 
           UnlinkPartialFails, CommitFails, CountRecovered, UnlinkStale, 
           OpenPartial, PublishReplacing, PublishNoReplace, LinkFinal, 
           UnlinkPartial, UndoLink, Cleanup
      <3> QED
        BY <3>1, <3>2
    <2> QED
      BY <2>1, <2>3, <2>4, <2>5, <2>6, <2>7 DEF Touches
  <1>5. CASE pc[q] \notin Linked
    <2>1. q = r /\ pc[r] = "publish"
      BY <1>5, OthersStay, OwnStep
    <2>2. PublishReplacing(r) \/ PublishNoReplace(r) \/ LinkFinal(r)
      BY <2>1 DEF RunStep, Goto, Count, TypeOK, Linked, Start, BeginItem, SkipItem, Finish, CheckFinal, CheckPartial, 
           CopyBlock, CopyDone, CopyFails, Fsync, Close, 
           UnlinkPartialFails, CommitFails, CountRecovered, UnlinkStale, 
           OpenPartial, PublishReplacing, PublishNoReplace, LinkFinal, 
           UnlinkPartial, UndoLink, Cleanup
    <2>3. pc[r] \in Working /\ dir[partial(r)] = inode(r)
      BY <2>1 DEF Working, Steps, HoldsPartial, Holding
    <2>4. final(r) \in Names /\ partial(r) # final(r)
      BY <2>3, NamesApart
    <2>5. CASE PublishReplacing(r) \/ PublishNoReplace(r)
      BY <1>3, <2>1, <2>3, <2>4, <2>5 DEF PublishReplacing, PublishNoReplace, Rename, TypeOK
    <2>6. CASE LinkFinal(r)
      BY <1>3, <2>1, <2>3, <2>4, <2>6 DEF LinkFinal, TypeOK
    <2> QED
      BY <2>2, <2>5, <2>6
  <1> QED
    BY <1>4, <1>5

LEMMA SyncedFirstStep ==
    ASSUME IInv, TypeOK', AtItem', SafeRegime, NEW r \in Runs, RunStep(r)
    PROVE  SyncedFirst'
  <1> USE DEF IInv, SafeRegime
  <1>1. /\ \A i \in Inodes : synced'[i] <= size'[i]
        /\ \A i \in Foreign \ Torn : synced'[i] = Blocks
    BY DataSteps DEF SyncedFirst, Inodes
  <1>2. ASSUME NEW q \in Runs, pc'[q] = "fsync" PROVE size'[inode(q)'] = Blocks
    <2>1. item'[q] = item[q]
      BY <1>2, OthersStay, OwnStep DEF Working, Steps
    <2>2. inode(q)' = inode(q)
      BY <2>1 DEF inode, final
    <2>3. pc[q] \in Working /\ size[inode(q)] = Blocks
      <3>1. CASE q = r
        BY <1>2, <3>1 DEF RunStep, Goto, Count, TypeOK, Working, Steps, Whole, Start, BeginItem, SkipItem, Finish, CheckFinal, CheckPartial, 
           CopyBlock, CopyDone, CopyFails, Fsync, Close, 
           UnlinkPartialFails, CommitFails, CountRecovered, UnlinkStale, 
           OpenPartial, PublishReplacing, PublishNoReplace, LinkFinal, 
           UnlinkPartial, UndoLink, Cleanup
      <3>2. CASE q # r
        BY <1>2, <3>2, OthersStay DEF SyncedFirst, Working, Steps
      <3> QED
        BY <3>1, <3>2
    <2> QED
      BY <2>2, <2>3, NamesApart, DataSteps
  <1>3. ASSUME NEW q \in Runs, pc'[q] \in {"close", "publish"} \cup Linked
        PROVE  synced'[inode(q)'] = Blocks
    <2>1. item'[q] = item[q]
      BY <1>3, OthersStay, OwnStep DEF Working, Steps, Linked
    <2>2. inode(q)' = inode(q)
      BY <2>1 DEF inode, final
    <2>3. CASE pc[q] \in {"close", "publish"} \cup Linked
      BY <2>2, <2>3, NamesApart, DataSteps DEF SyncedFirst, Working, Steps, Linked
    <2>4. CASE pc[q] \notin {"close", "publish"} \cup Linked
      <3>1. q = r
        BY <1>3, <2>4, OthersStay
      <3>2. Fsync(r)
        BY <1>3, <2>4, <3>1 DEF RunStep, Goto, Count, TypeOK, Linked, Start, BeginItem, SkipItem, Finish, CheckFinal, CheckPartial, 
           CopyBlock, CopyDone, CopyFails, Fsync, Close, 
           UnlinkPartialFails, CommitFails, CountRecovered, UnlinkStale, 
           OpenPartial, PublishReplacing, PublishNoReplace, LinkFinal, 
           UnlinkPartial, UndoLink, Cleanup
      <3>3. size[inode(r)] = Blocks /\ inode(r) \in Inodes
        BY <3>2, NamesApart DEF Fsync, SyncedFirst, Working, Steps
      <3> QED
        BY <2>2, <3>1, <3>2, <3>3 DEF Fsync, TypeOK
    <2> QED
      BY <2>3, <2>4
  <1> QED
    BY <1>1, <1>2, <1>3 DEF SyncedFirst

LEMMA ShownSafeStep ==
    ASSUME IInv, TypeOK', AtItem', SafeRegime, NEW r \in Runs, RunStep(r)
    PROVE  ShownSafe'
  <1> USE DEF IInv, SafeRegime
  <1>1. \A f \in Outputs : f \in Names /\ dir[f] \in Inodes \cup {NoFile}
                                     /\ journal[f] \in Inodes \cup {NoFile}
    BY DEF TypeOK, Names
  <1>2. journal' = journal
    BY DEF RunStep, files, Start, BeginItem, SkipItem, Finish, CheckFinal, CheckPartial, 
           CopyBlock, CopyDone, CopyFails, Fsync, Close, 
           UnlinkPartialFails, CommitFails, CountRecovered, UnlinkStale, 
           OpenPartial, PublishReplacing, PublishNoReplace, LinkFinal, 
           UnlinkPartial, UndoLink, Cleanup
  <1>3. ASSUME NEW f \in Outputs, journal'[f] # NoFile PROVE synced'[journal'[f]] = Blocks
    BY <1>1, <1>2, <1>3, DataSteps DEF ShownSafe
  <1>4. ASSUME NEW f \in Outputs, dir'[f] # NoFile PROVE synced'[dir'[f]] = Blocks
    <2>1. CASE dir'[f] = dir[f]
      BY <1>1, <1>4, <2>1, DataSteps DEF ShownSafe
    <2>2. CASE dir'[f] # dir[f]
      <3>1. pc[r] \in Working /\ Touches(r, f)
        BY <1>1, <2>2, Footprint
      <3>2. f # partial(r) /\ inode(r) \in Inodes
        BY <3>1, NamesApart DEF DistinctNames, partial
      <3>3. pc[r] = "publish" /\ dir'[f] = inode(r)
        BY <1>4, <3>1, <3>2 DEF Touches
      <3> QED
        BY <3>2, <3>3, DataSteps DEF SyncedFirst
    <2> QED
      BY <2>1, <2>2
  <1> QED
    BY <1>3, <1>4 DEF ShownSafe

LEMMA OneAtATimeStep ==
    ASSUME IInv, TypeOK', AtItem', SafeRegime, NEW r \in Runs, RunStep(r)
    PROVE  OneAtATime'
  <1> USE DEF IInv
  <1>1. \A q \in Runs : q # r => pc'[q] = pc[q]
    BY OthersStay
  <1>2. Active(r) \/ Start(r)
    BY DEF RunStep, Active, Start, BeginItem, SkipItem, Finish, CheckFinal, CheckPartial, 
           CopyBlock, CopyDone, CopyFails, Fsync, Close, 
           UnlinkPartialFails, CommitFails, CountRecovered, UnlinkStale, 
           OpenPartial, PublishReplacing, PublishNoReplace, LinkFinal, 
           UnlinkPartial, UndoLink, Cleanup
  <1> QED
    BY <1>1, <1>2 DEF OneAtATime, Active, Start

LEMMA ModeKeptStep ==
    ASSUME IInv, TypeOK', AtItem', SafeRegime, NEW r \in Runs, RunStep(r)
    PROVE  ModeKept'
  BY OthersStay, OwnStep DEF IInv, ModeKept, Replaceable

LEMMA StillReplaceableStep ==
    ASSUME IInv, TypeOK', AtItem', SafeRegime, NEW r \in Runs, RunStep(r)
    PROVE  StillReplaceable'
  <1> USE DEF IInv, SafeRegime
  <1> SUFFICES ASSUME NEW q \in OverwriteRuns, pc'[q] \in Checked
               PROVE  /\ dir'[final(q)'] \notin Special
                      /\ pc'[q] = "unlinkStale" => dir'[partial(q)'] \notin Special
    BY DEF StillReplaceable, Checked
  <1>1. q \in Runs
    BY RunsAssumption
  <1>2. item'[q] = item[q] /\ pc[q] \in Working
    BY <1>1, OthersStay, OwnStep DEF Checked, Holding, Working, Steps
  <1>3. final(q)' = final(q) /\ partial(q)' = partial(q)
    BY <1>2 DEF partial, final
  <1>4. final(q) \in Names /\ partial(q) \in Names
    BY <1>1, <1>2, NamesApart
  <1>5. ~Overlap
    OBVIOUS
  <1>6. q = r
    BY <1>1, <1>2, <1>5, OthersStay, OneAtATimeStep DEF OneAtATime, Active, Working, RunStep, Start, BeginItem, SkipItem, Finish, CheckFinal, CheckPartial, 
           CopyBlock, CopyDone, CopyFails, Fsync, Close, 
           UnlinkPartialFails, CommitFails, CountRecovered, UnlinkStale, 
           OpenPartial, PublishReplacing, PublishNoReplace, LinkFinal, 
           UnlinkPartial, UndoLink, Cleanup
  <1>7. dir[final(q)] \notin Special
    BY <1>6, OwnStep, InodeAssumption DEF StillReplaceable, Replaceable, Inodes
  <1>8. ASSUME NEW n \in Names, dir[n] \notin Special PROVE dir'[n] \notin Special
    <2>1. inode(r) \notin Special /\ NoFile \notin Special
      BY <1>1, <1>2, <1>6, NamesApart, InodeAssumption DEF Inodes
    <2> QED
      BY <1>8, <2>1, Footprint DEF Touches
  <1>9. pc'[q] = "unlinkStale" => dir[partial(q)] \notin Special
    BY <1>6, OwnStep DEF Replaceable
  <1> QED
    BY <1>3, <1>4, <1>7, <1>8, <1>9

LEMMA PendingAheadStep ==
    ASSUME IInv, TypeOK', AtItem', SafeRegime, NEW r \in Runs, RunStep(r)
    PROVE  PendingAhead'
  <1> USE DEF IInv
  <1> SUFFICES ASSUME NEW q \in Runs, NEW k \in DOMAIN Items, item'[q] <= k
               PROVE  outcome'[q][Items[k]] = "pending"
    BY DEF PendingAhead
  <1>0. k \in 1..Len(Items) /\ Items[k] \in Outputs /\ item[q] \in 1..(Len(Items) + 1)
        /\ Len(Items) \in Nat
    BY ItemsAssumption DEF Outputs, TypeOK
  <1>1. CASE item'[q] = item[q] /\ outcome'[q] = outcome[q]
    BY <1>1 DEF PendingAhead
  <1>2. CASE q = r /\ ~(item'[q] = item[q] /\ outcome'[q] = outcome[q])
    <2>1. \E result \in {"recovered", "skipped"} : Count(r, result) /\ item[r] <= Len(Items)
      BY <1>2 DEF RunStep, AtItem, Working, Steps, Cleanup, CountRecovered, SkipItem, files, Start, BeginItem, Finish, CheckFinal, CheckPartial, 
           CopyBlock, CopyDone, CopyFails, Fsync, Close, 
           UnlinkPartialFails, CommitFails, UnlinkStale, OpenPartial, 
           PublishReplacing, PublishNoReplace, LinkFinal, UnlinkPartial, 
           UndoLink, Rename
    <2>2. item'[r] = item[r] + 1 /\ item[r] \in DOMAIN Items /\ final(r) \in Outputs
      BY <2>1, ItemFacts DEF Count, TypeOK
    <2>3. item[r] <= k /\ item[r] # k
      BY <1>0, <1>2, <2>2
    <2>4. Items[k] # final(r)
      BY <2>2, <2>3, ItemsAssumption DEF final
    <2>5. outcome'[r][Items[k]] = outcome[r][Items[k]]
      BY <1>0, <2>1, <2>2, <2>4 DEF Count, TypeOK
    <2> QED
      BY <1>2, <2>3, <2>5 DEF PendingAhead
  <1> QED
    BY <1>1, <1>2, OthersStay

LEMMA OwnFilePlacedStep ==
    ASSUME IInv, TypeOK', AtItem', SafeRegime, NEW r \in Runs, RunStep(r)
    PROVE  OwnFilePlaced'
  <1> USE DEF IInv, SafeRegime
  <1>1. \A f \in Outputs : f \in Names /\ Partial[f] \in Names
    BY DEF Names
  <1>2. \A q \in Runs : pc'[q] = "idle" => q # r /\ pc[q] = "idle" /\ item'[q] = item[q]
    BY OthersStay DEF RunStep, Goto, Count, TypeOK, Start, BeginItem, SkipItem, Finish, CheckFinal, CheckPartial, 
           CopyBlock, CopyDone, CopyFails, Fsync, Close, 
           UnlinkPartialFails, CommitFails, CountRecovered, UnlinkStale, 
           OpenPartial, PublishReplacing, PublishNoReplace, LinkFinal, 
           UnlinkPartial, UndoLink, Cleanup
  <1>3. ASSUME NEW q \in Runs, pc'[q] = "idle", NEW n \in Names
        PROVE  journal'[n] \notin Own(q) /\ dir'[n] \notin Own(q)
    <2>1. journal' = journal
      BY DEF RunStep, files, Start, BeginItem, SkipItem, Finish, CheckFinal, CheckPartial, 
           CopyBlock, CopyDone, CopyFails, Fsync, Close, 
           UnlinkPartialFails, CommitFails, CountRecovered, UnlinkStale, 
           OpenPartial, PublishReplacing, PublishNoReplace, LinkFinal, 
           UnlinkPartial, UndoLink, Cleanup
    <2>2. dir'[n] # dir[n] => dir'[n] \in {inode(r), NoFile}
      BY Footprint DEF Touches
    <2>3. inode(r) \notin Own(q) /\ NoFile \notin Own(q)
      BY <1>2, <1>3, InodeAssumption DEF Own, inode, Inodes
    <2> QED
      BY <1>2, <1>3, <2>1, <2>2, <2>3 DEF OwnFilePlaced
  <1>4. ASSUME NEW q \in Runs, pc'[q] \notin {"done", "killed"}, NEW k \in DOMAIN Items,
               dir'[Partial[Items[k]]] = <<q, Items[k]>>
        PROVE  k < item'[q] \/ (k = item'[q] /\ pc'[q] \in Holding)
    <2>0. Items[k] \in Outputs /\ Partial[Items[k]] \in Names /\ k \in Nat
      BY <1>1, ItemsAssumption DEF Outputs
    <2>1. CASE dir'[Partial[Items[k]]] # dir[Partial[Items[k]]]
      <3>1. pc[r] \in Working /\ Touches(r, Partial[Items[k]])
        BY <2>0, <2>1, Footprint
      <3>2. Partial[Items[k]] # final(r) /\ <<q, Items[k]>> # NoFile
        BY <1>4, <2>0, <3>1, NamesApart, InodeAssumption DEF DistinctNames, Inodes
      <3>3. pc[r] = "open" /\ <<q, Items[k]>> = inode(r)
        BY <1>4, <2>0, <2>1, <3>1, <3>2 DEF Touches
      <3>4. q = r /\ Items[k] = Items[item[r]] /\ item[r] \in DOMAIN Items
        BY <3>1, <3>3, ItemFacts DEF inode, final, AtItem
      <3>5. k = item[r]
        BY <3>4, ItemsAssumption
      <3>6. OpenPartial(r)
        BY <2>1, <3>3 DEF RunStep, files, Start, BeginItem, SkipItem, Finish, CheckFinal, CheckPartial, 
           CopyBlock, CopyDone, CopyFails, Fsync, Close, 
           UnlinkPartialFails, CommitFails, CountRecovered, UnlinkStale, PublishReplacing,
           PublishNoReplace, LinkFinal, UnlinkPartial, UndoLink, Cleanup
      <3> QED
        BY <3>4, <3>5, <3>6 DEF OpenPartial, Goto, TypeOK, Holding
    <2>2. CASE dir'[Partial[Items[k]]] = dir[Partial[Items[k]]]
      <3>1. pc[q] \notin {"done", "killed"}
        BY <1>4, OthersStay DEF RunStep, Start, BeginItem, SkipItem, Finish, CheckFinal, CheckPartial, 
           CopyBlock, CopyDone, CopyFails, Fsync, Close, 
           UnlinkPartialFails, CommitFails, CountRecovered, UnlinkStale, 
           OpenPartial, PublishReplacing, PublishNoReplace, LinkFinal, 
           UnlinkPartial, UndoLink, Cleanup
      <3>2. k < item[q] \/ (k = item[q] /\ pc[q] \in Holding)
        BY <1>4, <2>2, <3>1 DEF OwnFilePlaced
      <3>3. CASE q # r
        BY <3>2, <3>3, OthersStay
      <3>4. CASE q = r
        <4>1. item[r] \in Nat /\ item'[r] \in {item[r], item[r] + 1}
          BY ItemsAssumption DEF TypeOK, RunStep, Count, Start, BeginItem, SkipItem, Finish, CheckFinal, CheckPartial, 
           CopyBlock, CopyDone, CopyFails, Fsync, Close, 
           UnlinkPartialFails, CommitFails, CountRecovered, UnlinkStale, 
           OpenPartial, PublishReplacing, PublishNoReplace, LinkFinal, 
           UnlinkPartial, UndoLink, Cleanup
        <4>2. SUFFICES ASSUME k = item[r], pc[r] \in Holding, item'[r] = item[r]
                       PROVE  pc'[r] \in Holding
          BY <2>0, <3>2, <3>4, <4>1
        <4>3. dir[partial(r)] = dir'[partial(r)] /\ dir[partial(r)] = inode(r)
          BY <2>2, <4>2 DEF HoldsPartial, partial, final
        <4>4. pc[r] \in Working
          BY <4>2 DEF Holding, Working, Steps
        <4>5. inode(r) # NoFile /\ partial(r) \in Names /\ final(r) \in Names /\ partial(r) # final(r)
          BY <4>4, NamesApart
        <4>6. ~UnlinkPartial(r) /\ ~PublishReplacing(r) /\ ~PublishNoReplace(r)
          <5>1. ~UnlinkPartial(r)
            BY <4>3, <4>5 DEF UnlinkPartial, TypeOK
          <5>2. pc[r] = "publish" => dir[final(r)] # inode(r)
            BY <2>0, <4>2 DEF OwnFilePlaced, final, inode, Linked
          <5>3. pc[r] = "publish" /\ Rename(r) => dir'[partial(r)] = NoFile
            BY <4>3, <4>5, <5>2 DEF Rename, TypeOK
          <5> QED
            BY <4>3, <4>5, <5>1, <5>3 DEF PublishReplacing, PublishNoReplace
        <4> QED
          BY <4>1, <4>2, <4>6 DEF RunStep, Goto, Count, TypeOK, Holding, Start, BeginItem, SkipItem, Finish, CheckFinal, CheckPartial, 
           CopyBlock, CopyDone, CopyFails, Fsync, Close, 
           UnlinkPartialFails, CommitFails, CountRecovered, UnlinkStale, 
           OpenPartial, PublishReplacing, PublishNoReplace, LinkFinal, 
           UnlinkPartial, UndoLink, Cleanup
      <3> QED
        BY <3>3, <3>4
    <2> QED
      BY <2>1, <2>2
  <1>5. ASSUME NEW q \in Runs, pc'[q] \notin {"done", "killed"}, NEW k \in DOMAIN Items,
               dir'[Items[k]] = <<q, Items[k]>>
        PROVE  k < item'[q] \/ (k = item'[q] /\ pc'[q] \in Linked \cup {"cleanup"})
    <2>0. Items[k] \in Outputs /\ Items[k] \in Names /\ k \in Nat
      BY <1>1, ItemsAssumption DEF Outputs
    <2>1. CASE dir'[Items[k]] # dir[Items[k]]
      <3>1. pc[r] \in Working /\ Touches(r, Items[k])
        BY <2>0, <2>1, Footprint
      <3>2. Items[k] # partial(r) /\ <<q, Items[k]>> # NoFile
        BY <1>5, <2>0, <3>1, NamesApart, InodeAssumption DEF DistinctNames, Inodes, partial
      <3>3. pc[r] = "publish" /\ <<q, Items[k]>> = inode(r)
        BY <1>5, <2>0, <2>1, <3>1, <3>2 DEF Touches
      <3>4. q = r /\ Items[k] = Items[item[r]] /\ item[r] \in DOMAIN Items
        BY <3>1, <3>3, ItemFacts DEF inode, final, AtItem
      <3>5. k = item[r]
        BY <3>4, ItemsAssumption
      <3>6. PublishReplacing(r) \/ PublishNoReplace(r) \/ LinkFinal(r)
        BY <2>1, <3>3 DEF RunStep, files, Start, BeginItem, SkipItem, Finish, CheckFinal, CheckPartial, 
           CopyBlock, CopyDone, CopyFails, Fsync, Close, 
           UnlinkPartialFails, CommitFails, CountRecovered, UnlinkStale, OpenPartial,
           UnlinkPartial, UndoLink, Cleanup
      <3> QED
        BY <3>4, <3>5, <3>6 DEF PublishReplacing, PublishNoReplace, LinkFinal, Goto, TypeOK, Linked
    <2>2. CASE dir'[Items[k]] = dir[Items[k]]
      <3>1. pc[q] \notin {"done", "killed"}
        BY <1>5, OthersStay DEF RunStep, Start, BeginItem, SkipItem, Finish, CheckFinal, CheckPartial, 
           CopyBlock, CopyDone, CopyFails, Fsync, Close, 
           UnlinkPartialFails, CommitFails, CountRecovered, UnlinkStale, 
           OpenPartial, PublishReplacing, PublishNoReplace, LinkFinal, 
           UnlinkPartial, UndoLink, Cleanup
      <3>2. k < item[q] \/ (k = item[q] /\ pc[q] \in Linked \cup {"cleanup"})
        BY <1>5, <2>2, <3>1 DEF OwnFilePlaced
      <3>3. CASE q # r
        BY <3>2, <3>3, OthersStay
      <3>4. CASE q = r
        <4>1. item[r] \in Nat /\ item'[r] \in {item[r], item[r] + 1}
          BY ItemsAssumption DEF TypeOK, RunStep, Count, Start, BeginItem, SkipItem, Finish, CheckFinal, CheckPartial, 
           CopyBlock, CopyDone, CopyFails, Fsync, Close, 
           UnlinkPartialFails, CommitFails, CountRecovered, UnlinkStale, 
           OpenPartial, PublishReplacing, PublishNoReplace, LinkFinal, 
           UnlinkPartial, UndoLink, Cleanup
        <4>2. SUFFICES ASSUME k = item[r], pc[r] \in Linked \cup {"cleanup"}, item'[r] # item[r] + 1
                       PROVE  pc'[r] \in Linked \cup {"cleanup"}
          BY <2>0, <3>2, <3>4, <4>1
        <4> QED
          BY <4>1, <4>2 DEF RunStep, Goto, Count, TypeOK, Linked, Start, BeginItem, SkipItem, Finish, CheckFinal, CheckPartial, 
           CopyBlock, CopyDone, CopyFails, Fsync, Close, 
           UnlinkPartialFails, CommitFails, CountRecovered, UnlinkStale, 
           OpenPartial, PublishReplacing, PublishNoReplace, LinkFinal, 
           UnlinkPartial, UndoLink, Cleanup
      <3> QED
        BY <3>3, <3>4
    <2> QED
      BY <2>1, <2>2
  <1> QED
    BY <1>2, <1>3, <1>4, <1>5 DEF OwnFilePlaced

LEMMA SafeRunStep ==
    ASSUME IInv, TypeOK', AtItem', SafeRegime, NEW r \in Runs, RunStep(r)
    PROVE  IInv'
  BY HoldsPartialStep, HoldsFinalStep, SyncedFirstStep, ShownSafeStep, OneAtATimeStep,
     ModeKeptStep, StillReplaceableStep, PendingAheadStep,
     OwnFilePlacedStep DEF IInv

-----------------------------------------------------------------------------
(* The surroundings preserve the invariant as well.                        *)

LEMMA KillStep ==
    ASSUME IInv, TypeOK', AtItem', NEW r \in Runs, Kill(r)
    PROVE  IInv'
  <1> USE DEF IInv
  <1>1. /\ \A q \in Runs : q # r => pc'[q] = pc[q]
        /\ pc'[r] = "killed"
        /\ UNCHANGED <<files, item, outcome>>
    BY DEF Kill, Goto, TypeOK
  <1>2. HoldsPartial' /\ HoldsFinal'
    BY <1>1 DEF HoldsPartial, HoldsFinal, Holding, Linked, files, partial, inode, final
  <1>3. SyncedFirst' /\ ShownSafe'
    BY <1>1 DEF SyncedFirst, ShownSafe, Linked, files, inode, final
  <1>4. OneAtATime'
    BY <1>1 DEF OneAtATime, Active
  <1>5. StillReplaceable' /\ ModeKept' /\ PendingAhead'
    BY <1>1, RunsAssumption
    DEF StillReplaceable, ModeKept, PendingAhead, Checked, Holding, files,
        partial, final
  <1>6. OwnFilePlaced'
    BY <1>1 DEF OwnFilePlaced, files, Kill, Active
  <1> QED
    BY <1>2, <1>3, <1>4, <1>5, <1>6

LEMMA UserStep ==
    ASSUME IInv, TypeOK', AtItem', SafeRegime, NEW n \in Names, UserCreates(n)
    PROVE  IInv'
  <1> USE DEF IInv, SafeRegime
  <1>0. UNCHANGED <<journal, size, synced, pc, item, outcome>> /\ dir[n] = NoFile
    BY DEF UserCreates
  <1>1. PICK i \in UserMakes : dir' = [dir EXCEPT ![n] = i]
    BY DEF UserCreates
  <1>2. i \in Inodes /\ i \notin Torn /\ i # NoFile
    BY InodeAssumption DEF Inodes
  <1>3. \A m \in Names : dir'[m] = IF m = n THEN i ELSE dir[m]
    BY <1>1 DEF TypeOK
  <1>4. ASSUME NEW r \in Runs, pc[r] \in Working
        PROVE  final(r) \in Names /\ partial(r) \in Names /\ inode(r) # NoFile
    BY <1>4, NamesApart
  <1>5. HoldsPartial' /\ HoldsFinal'
    BY <1>0, <1>3, <1>4
    DEF HoldsPartial, HoldsFinal, Holding, Linked, Working, Steps, partial, inode, final
  <1>6. synced[i] = Blocks
    BY <1>2, InodeAssumption DEF SyncedFirst
  <1>7. SyncedFirst' /\ ShownSafe'
    BY <1>0, <1>3, <1>6 DEF SyncedFirst, ShownSafe, Linked, inode, final, Names
  <1>8. StillReplaceable'
    BY <1>0, <1>3, <1>4, RunsAssumption
    DEF StillReplaceable, Checked, Holding, Working, Steps, partial, final
  <1>9. OneAtATime' /\ ModeKept' /\ PendingAhead'
    BY <1>0 DEF OneAtATime, Active, ModeKept, PendingAhead
  <1>10. \A r \in Runs : i \notin Own(r)
    BY <1>2, InodeAssumption DEF Own
  <1>11. OwnFilePlaced'
    <2>1. \A k \in DOMAIN Items : /\ Items[k] \in Names /\ Partial[Items[k]] \in Names
                                  /\ \A r \in Runs : <<r, Items[k]>> \in Own(r)
      BY DEF Names, Outputs, Own
    <2>2. \A r \in Runs, m \in Names : dir'[m] \in Own(r) => dir'[m] = dir[m]
      BY <1>3, <1>10
    <2>3. ASSUME NEW r \in Runs, pc[r] = "idle"
          PROVE  item[r] = 1 /\ \A m \in Names : journal[m] \notin Own(r) /\ dir'[m] \notin Own(r)
      BY <2>2, <2>3 DEF OwnFilePlaced
    <2>4. ASSUME NEW r \in Runs, NEW k \in DOMAIN Items
          PROVE  /\ dir'[Partial[Items[k]]] = <<r, Items[k]>> => dir[Partial[Items[k]]] = <<r, Items[k]>>
                 /\ dir'[Items[k]] = <<r, Items[k]>> => dir[Items[k]] = <<r, Items[k]>>
      BY <2>1, <2>2
    <2> QED
      BY <1>0, <2>3, <2>4 DEF OwnFilePlaced
  <1> QED
    BY <1>5, <1>7, <1>8, <1>9, <1>11

LEMMA JournalStep ==
    ASSUME IInv, TypeOK', AtItem', JournalCommit
    PROVE  IInv'
  <1> USE DEF IInv, JournalCommit
  <1>1. HoldsPartial' /\ HoldsFinal' /\ SyncedFirst'
    BY DEF HoldsPartial, HoldsFinal, SyncedFirst, Linked, partial, inode, final
  <1>2. ShownSafe' /\ OneAtATime'
    BY DEF ShownSafe, OneAtATime, Active
  <1>3. StillReplaceable' /\ ModeKept' /\ PendingAhead'
    BY DEF StillReplaceable, ModeKept, PendingAhead, partial, final
  <1>4. OwnFilePlaced'
    BY DEF OwnFilePlaced
  <1> QED
    BY <1>1, <1>2, <1>3, <1>4

LEMMA PowerLossStep ==
    ASSUME IInv, TypeOK', AtItem', PowerLoss
    PROVE  IInv'
  <1> USE DEF IInv
  <1>1. \A i \in Inodes : /\ synced'[i] = size'[i]
                          /\ synced[i] = Blocks => synced'[i] = Blocks
    <2> TAKE i \in Inodes
    <2>1. /\ synced[i] \in 0..Blocks /\ size[i] \in 0..Blocks /\ synced[i] <= size[i]
          /\ Blocks \in Nat
      BY BlocksAssumption DEF TypeOK, SyncedFirst
    <2>2. size'[i] \in {synced[i], size[i]} /\ synced' = size'
      BY DEF PowerLoss
    <2> QED
      BY <2>1, <2>2
  <1>2. \A r \in Runs : /\ pc'[r] \in {"idle", "done", "killed"}
                        /\ ~Active(r) => pc'[r] = pc[r]
    BY DEF PowerLoss, Active, TypeOK
  <1>3. dir' = journal /\ UNCHANGED <<journal, item, outcome>>
    BY DEF PowerLoss
  <1>4. HoldsPartial' /\ HoldsFinal'
    BY <1>2 DEF HoldsPartial, HoldsFinal, Holding, Linked
  <1>5. SyncedFirst'
    <2>1. \A i \in Inodes : synced'[i] \in 0..Blocks /\ synced'[i] <= size'[i]
      BY <1>1, BlocksAssumption DEF TypeOK
    <2> QED
      BY <1>1, <1>2, <2>1 DEF SyncedFirst, Linked, Inodes
  <1>6. ShownSafe'
    BY <1>1, <1>3 DEF ShownSafe, TypeOK, Names
  <1>7. OneAtATime'
    BY <1>2 DEF OneAtATime, Active
  <1>8. StillReplaceable' /\ ModeKept' /\ PendingAhead'
    BY <1>2, <1>3, RunsAssumption
    DEF StillReplaceable, ModeKept, PendingAhead, Checked, Holding
  <1>9. OwnFilePlaced'
    <2>1. \A k \in DOMAIN Items : /\ Items[k] \in Names /\ Partial[Items[k]] \in Names
                                  /\ \A r \in Runs : <<r, Items[k]>> \in Own(r)
      BY DEF Names, Outputs, Own
    <2>2. \A r \in Runs : pc'[r] = "idle" => pc[r] = "idle"
      BY DEF PowerLoss, Active, TypeOK
    <2> QED
      BY <1>2, <1>3, <2>1, <2>2 DEF OwnFilePlaced
  <1> QED
    BY <1>4, <1>5, <1>6, <1>7, <1>8, <1>9

LEMMA SafeInit == Init => IInv
  <1> SUFFICES ASSUME Init PROVE IInv
    OBVIOUS
  <1>1. TypeOK /\ AtItem
    BY TypeInit, AtItemInit
  <1>2. HoldsPartial /\ HoldsFinal /\ OneAtATime /\ StillReplaceable /\ ModeKept
    BY RunsAssumption DEF Init, HoldsPartial, HoldsFinal, OneAtATime, StillReplaceable,
       ModeKept, Holding, Linked, Checked, Active
  <1>3. \A i \in Inodes : synced[i] \in 0..Blocks /\ size[i] = synced[i]
    BY <1>1 DEF Init, TypeOK
  <1>4. SyncedFirst
    <2>1. \A i \in Foreign \ Torn : synced[i] = Blocks
      BY DEF Init, Inodes
    <2>2. \A i \in Inodes : synced[i] <= size[i]
      BY <1>3, BlocksAssumption
    <2>3. \A r \in Runs : pc[r] = "idle"
      BY DEF Init
    <2> QED
      BY <2>1, <2>2, <2>3 DEF SyncedFirst, Linked
  <1>5. ShownSafe
    BY <1>4 DEF Init, ShownSafe, SyncedFirst, Names
  <1>6. PendingAhead
    BY ItemsAssumption DEF Init, PendingAhead, Outputs
  <1>7. OwnFilePlaced
    <2>1. \A r \in Runs : \A n \in Names : dir[n] \notin Own(r)
      BY InodeAssumption DEF Init, Own, Inodes
    <2>2. \A k \in DOMAIN Items : /\ Items[k] \in Names /\ Partial[Items[k]] \in Names
                                  /\ \A r \in Runs : <<r, Items[k]>> \in Own(r)
      BY DEF Names, Outputs, Own
    <2>3. \A r \in Runs : \A k \in DOMAIN Items :
             dir[Items[k]] # <<r, Items[k]>> /\ dir[Partial[Items[k]]] # <<r, Items[k]>>
      BY <2>1, <2>2
    <2>4. journal = dir /\ \A r \in Runs : item[r] = 1
      BY DEF Init
    <2> QED
      BY <2>1, <2>3, <2>4 DEF OwnFilePlaced
  <1> QED
    BY <1>1, <1>2, <1>4, <1>5, <1>6, <1>7 DEF IInv

LEMMA SafeStep ==
    ASSUME SafeRegime
    PROVE  IInv /\ [Next]_vars => IInv'
  <1> SUFFICES ASSUME IInv, [Next]_vars PROVE IInv'
    OBVIOUS
  <1>1. TypeOK' /\ AtItem'
    BY TypeStep DEF IInv
  <1>2. CASE UNCHANGED vars
    BY <1>2 DEF vars, IInv, TypeOK, AtItem, HoldsPartial, HoldsFinal, SyncedFirst, ShownSafe,
                OneAtATime, StillReplaceable, ModeKept, PendingAhead,
                OwnFilePlaced, Active, partial, inode, final
  <1>3. CASE Next
    BY <1>1, <1>3, SafeRunStep, KillStep, UserStep, JournalStep, PowerLossStep DEF Next
  <1> QED
    BY <1>2, <1>3

\* The invariant the safety theorems below are read off.
THEOREM Safe ==
    ASSUME SafeRegime
    PROVE  Spec => []IInv
  BY SafeInit, SafeStep, PTL DEF Spec

-----------------------------------------------------------------------------
(* The properties the runs check, for every instance.                      *)

LEMMA ShownWhole == IInv => PublishedWhole
  <1> SUFFICES ASSUME IInv, NEW f \in Outputs, dir[f] # NoFile PROVE Whole(dir[f])
    BY DEF PublishedWhole
  <1>1. dir[f] \in Inodes /\ synced[dir[f]] = Blocks
    BY DEF IInv, TypeOK, ShownSafe, Names
  <1>2. size[dir[f]] \in 0..Blocks /\ Blocks \in Nat /\ synced[dir[f]] <= size[dir[f]]
    BY <1>1, BlocksAssumption DEF IInv, TypeOK, SyncedFirst
  <1> QED
    BY <1>1, <1>2 DEF Whole

\* Publication is atomic: a reader never finds part of a file under an output's
\* name, whatever is killed and whenever the power fails.
THEOREM WholeFilesOnly ==
    ASSUME SafeRegime
    PROVE  Spec => []PublishedWhole
  BY Safe, ShownWhole, PTL

\* A run without --overwrite takes nothing away from anybody, and no run
\* replaces a symlink or a device.
THEOREM NothingOfOthersReplaced ==
    ASSUME SafeRegime
    PROVE  Spec => OthersKept
  <1> DEFINE Keeps == \A r \in Runs : RunStep(r) =>
           \A n \in Names : dir[n] # NoFile /\ dir'[n] # dir[n] =>
               /\ r \notin OverwriteRuns => dir[n] \in Own(r)
               /\ dir[n] \notin Special
  <1>1. IInv /\ [Next]_vars => [Keeps]_vars
    <2> SUFFICES ASSUME IInv, NEW r \in Runs, RunStep(r), NEW n \in Names,
                        dir[n] # NoFile, dir'[n] # dir[n]
                 PROVE  /\ r \notin OverwriteRuns => dir[n] \in Own(r)
                        /\ dir[n] \notin Special
      OBVIOUS
    <2> USE DEF IInv, SafeRegime
    <2>1. pc[r] \in Working /\ Touches(r, n)
      BY Footprint
    <2>2. inode(r) \in Own(r) /\ inode(r) \notin Special
      BY <2>1, NamesApart, InodeAssumption DEF Own, inode
    <2> QED
      BY <2>1, <2>2 DEF Touches, ModeKept, StillReplaceable, Checked, Holding
  <1>2. OthersKept <=> [][Keeps]_vars
    BY DEF OthersKept
  <1> HIDE DEF Keeps
  <1> QED
    BY Safe, <1>1, <1>2, PTL DEF Spec

\* A run only counts an item as recovered while its own whole and synced file
\* is what the output's name shows.
THEOREM CountsAreTrue ==
    ASSUME SafeRegime
    PROVE  Spec => RecoveredTruthful
  <1> DEFINE Truth == \A r \in Runs, f \in Outputs :
           outcome[r][f] # "recovered" /\ outcome'[r][f] = "recovered" =>
               dir[f] = <<r, f>> /\ synced[dir[f]] = Blocks
  <1>1. IInv /\ [Next]_vars => [Truth]_vars
    <2> SUFFICES ASSUME IInv, Next, NEW r \in Runs, NEW f \in Outputs,
                        outcome[r][f] # "recovered", outcome'[r][f] = "recovered"
                 PROVE  dir[f] = <<r, f>> /\ synced[dir[f]] = Blocks
      BY DEF vars
    <2> USE DEF IInv
    <2>1. PICK q \in Runs : RunStep(q)
      BY DEF Next, Kill, UserCreates, JournalCommit, PowerLoss
    <2>2. q = r
      BY <2>1, OthersStay
    <2>3. CountRecovered(r) /\ f = final(r)
      BY <2>1, <2>2 DEF RunStep, TypeOK, Count, SkipItem, Cleanup, CountRecovered, files, Start, BeginItem, Finish, CheckFinal, CheckPartial, 
           CopyBlock, CopyDone, CopyFails, Fsync, Close, 
           UnlinkPartialFails, CommitFails, UnlinkStale, OpenPartial, 
           PublishReplacing, PublishNoReplace, LinkFinal, UnlinkPartial, 
           UndoLink, Rename
    <2> QED
      BY <2>3 DEF CountRecovered, HoldsFinal, SyncedFirst, Linked, inode
  <1>2. RecoveredTruthful <=> [][Truth]_vars
    BY DEF RecoveredTruthful
  <1> HIDE DEF Truth
  <1> QED
    BY Safe, <1>1, <1>2, PTL DEF Spec

\* Short of a power loss, what was counted as recovered stays until a later
\* run's whole file replaces it.
THEOREM RecoveredStay ==
    ASSUME SafeRegime
    PROVE  Spec => RecoveredKept
  <1> DEFINE Keeps == PowerLoss \/
       \A r \in Runs, f \in Outputs :
           outcome[r][f] = "recovered" /\ dir[f] = <<r, f>> =>
               \E q \in Runs : dir'[f] = <<q, f>>
  <1>1. IInv /\ [Next]_vars => [Keeps]_vars
    <2> SUFFICES ASSUME IInv, Next, ~PowerLoss, NEW r \in Runs, NEW f \in Outputs,
                        outcome[r][f] = "recovered", dir[f] = <<r, f>>, dir'[f] # dir[f]
                 PROVE  \E q \in Runs : dir'[f] = <<q, f>>
      BY DEF vars
    <2> USE DEF IInv, SafeRegime
    <2>1. f \in Names /\ dir[f] # NoFile
      BY InodeAssumption DEF Names, Inodes
    <2>2. PICK q \in Runs : RunStep(q)
      BY <2>1 DEF Next, Kill, UserCreates, JournalCommit, files, TypeOK
    <2>3. pc[q] \in Working /\ Touches(q, f)
      BY <2>1, <2>2, Footprint
    <2>4. f # partial(q)
      BY <2>3, NamesApart DEF DistinctNames, partial
    <2>5. f = final(q) /\ (dir'[f] = inode(q) \/ dir[f] = inode(q))
      BY <2>3, <2>4 DEF Touches
    <2>6. CASE dir'[f] = inode(q)
      BY <2>5, <2>6 DEF inode
    <2>7. CASE dir[f] = inode(q)
      <3>1. q = r /\ item[r] <= Len(Items)
        BY <2>3, <2>7 DEF inode, AtItem
      <3>2. item[r] \in DOMAIN Items /\ item[r] <= item[r]
        BY <3>1, ItemFacts DEF TypeOK
      <3>3. outcome[r][final(r)] = "pending"
        BY <3>2 DEF PendingAhead, final
      <3> QED
        BY <2>5, <3>1, <3>3
    <2> QED
      BY <2>5, <2>6, <2>7
  <1>2. RecoveredKept <=> [][Keeps]_vars
    BY DEF RecoveredKept
  <1> HIDE DEF Keeps
  <1> QED
    BY Safe, <1>1, <1>2, PTL DEF Spec

\* Where unlink works, no counted item leaves the run's own partial behind.
THEOREM PartialsRemoved ==
    ASSUME SafeRegime
    PROVE  Spec => NoForgottenPartial
  <1> DEFINE Clean == ~UnlinkFaults =>
       \A r \in Runs, f \in Outputs :
           outcome[r][f] = "pending" /\ outcome'[r][f] # "pending" =>
               dir'[Partial[f]] # <<r, f>>
  <1>1. IInv /\ [Next]_vars => [Clean]_vars
    <2> SUFFICES ASSUME IInv, Next, ~UnlinkFaults, NEW r \in Runs, NEW f \in Outputs,
                        outcome[r][f] = "pending", outcome'[r][f] # "pending"
                 PROVE  dir'[Partial[f]] # <<r, f>>
      BY DEF vars
    <2> USE DEF IInv
    <2>1. PICK q \in Runs : RunStep(q)
      BY DEF Next, Kill, UserCreates, JournalCommit, PowerLoss
    <2>2. q = r
      BY <2>1, OthersStay
    <2>3. Cleanup(r) \/ SkipItem(r) \/ CountRecovered(r)
      BY <2>1, <2>2 DEF RunStep, files, Start, BeginItem, Finish, CheckFinal, CheckPartial, 
           CopyBlock, CopyDone, CopyFails, Fsync, Close, 
           UnlinkPartialFails, CommitFails, UnlinkStale, OpenPartial, 
           PublishReplacing, PublishNoReplace, LinkFinal, UnlinkPartial, 
           UndoLink, Rename
    <2>4. f = final(r)
      BY <2>3 DEF TypeOK, Count, SkipItem, Cleanup, CountRecovered
    <2>5. item[r] <= Len(Items)
      BY <2>3 DEF SkipItem, Cleanup, CountRecovered, AtItem, Working, Steps
    <2>6. partial(r) \in Names /\ inode(r) # NoFile /\ item[r] \in DOMAIN Items /\ item[r] \in Nat
      BY <2>5, ItemFacts, ItemsAssumption DEF TypeOK
    <2>7. CASE Cleanup(r)
      BY <2>4, <2>6, <2>7 DEF Cleanup, partial, inode, TypeOK
    <2>8. CASE SkipItem(r) \/ CountRecovered(r)
      <3>1. dir' = dir /\ pc[r] \notin Holding /\ pc[r] \notin {"done", "killed"}
        BY <2>8 DEF SkipItem, CountRecovered, files, Holding
      <3>2. dir[partial(r)] # inode(r)
        BY <2>6, <3>1 DEF OwnFilePlaced, partial, inode, final
      <3> QED
        BY <2>4, <3>1, <3>2 DEF partial, inode
    <2> QED
      BY <2>3, <2>7, <2>8
  <1> QED
    BY Safe, <1>1, PTL DEF Spec, NoForgottenPartial

-----------------------------------------------------------------------------
(* AtomicFile keeps OutputPromise.                                         *)

Recovered == {v \in Runs \X Outputs : outcome[v[1]][v[2]] = "recovered"}

\* Where files are whole, what is shown is what the directory holds.
ShowsDirectory ==
    /\ Showing(dir, size) = [f \in Outputs |-> dir[f]]
    /\ Showing(journal, synced) = [f \in Outputs |-> journal[f]]

LEMMA WholeShows == IInv => ShowsDirectory
  <1> SUFFICES ASSUME IInv PROVE ShowsDirectory
    OBVIOUS
  <1>1. \A f \in Outputs : dir[f] = NoFile \/ size[dir[f]] = Blocks
    BY ShownWhole DEF PublishedWhole, Whole
  <1>2. \A f \in Outputs : journal[f] = NoFile \/ synced[journal[f]] = Blocks
    BY DEF IInv, ShownSafe
  <1> QED
    BY <1>1, <1>2 DEF Showing, ShowsDirectory

LEMMA WholeShowsNext == IInv' => ShowsDirectory'
  BY WholeShows, PTL

LEMMA PromiseInit == Init => Promise!Init
  <1> SUFFICES ASSUME Init PROVE Promise!Init
    OBVIOUS
  <1>1. IInv
    BY SafeInit
  <1>2. /\ Showing(dir, size) = [f \in Outputs |-> dir[f]]
        /\ Showing(journal, synced) = [f \in Outputs |-> dir[f]]
    BY <1>1, WholeShows DEF Init, ShowsDirectory
  <1>3. Recovered = {}
    BY DEF Init, Recovered
  <1>4. \A f \in Outputs : dir[f] \in (Foreign \ Torn) \cup {NoFile}
    BY DEF Init, Names
  <1> DEFINE VersionsOf == [f \in Outputs |-> (Runs \X {f}) \cup (Foreign \ Torn)]
  <1>5. \A f \in Outputs : dir[f] \in VersionsOf[f] \cup {NoFile}
    BY <1>4
  <1>6. \A f \in Outputs : dir[f] \in (UNION {VersionsOf[g] : g \in Outputs}) \cup {NoFile}
    <2> TAKE f \in Outputs
    <2>1. dir[f] = NoFile \/ (dir[f] \in VersionsOf[f] /\ VersionsOf[f] \in {VersionsOf[g] : g \in Outputs})
      BY <1>5
    <2> HIDE DEF VersionsOf
    <2> QED
      BY <2>1
  <1>7. [f \in Outputs |-> dir[f]]
           \in {s \in [Outputs -> (UNION {VersionsOf[f] : f \in Outputs}) \cup {NoFile}] :
                    \A f \in Outputs : s[f] \in VersionsOf[f] \cup {NoFile}}
    <2> HIDE DEF VersionsOf
    <2> QED
      BY <1>5, <1>6
  <1> QED
    BY <1>2, <1>3, <1>7 DEF Promise!Init, Recovered

\* A step of a run publishes, reports, withdraws or is invisible.
LEMMA PromiseRunStep ==
    ASSUME IInv, IInv', SafeRegime, NEW r \in Runs, RunStep(r)
    PROVE  [Promise!Next]_(Promise!vars)
  <1> USE DEF SafeRegime
  <1> DEFINE now == [f \in Outputs |-> dir[f]]
             next == [f \in Outputs |-> dir'[f]]
  <1>1. /\ Showing(dir, size) = now /\ Showing(dir, size)' = next
        /\ Showing(journal, synced)' = Showing(journal, synced)
    <2>1. journal' = journal
      BY DEF RunStep, files, Start, BeginItem, SkipItem, Finish, CheckFinal, CheckPartial, 
           CopyBlock, CopyDone, CopyFails, Fsync, Close, 
           UnlinkPartialFails, CommitFails, CountRecovered, UnlinkStale, 
           OpenPartial, PublishReplacing, PublishNoReplace, LinkFinal, 
           UnlinkPartial, UndoLink, Cleanup
    <2> QED
      BY <2>1, WholeShows, WholeShowsNext DEF ShowsDirectory
  <1>2. CASE CountRecovered(r)
    <2>1. /\ final(r) \in Outputs /\ inode(r) \in Runs \X Outputs
      BY <1>2, ItemFacts DEF IInv, AtItem, CountRecovered, Working, Steps
    <2>2. dir[final(r)] = inode(r) /\ dir' = dir
      BY <1>2 DEF IInv, HoldsFinal, CountRecovered, Linked, files
    <2>3. outcome' = [outcome EXCEPT ![r][final(r)] = "recovered"]
      BY <1>2 DEF CountRecovered, Count
    <2>4. Recovered' = Recovered \cup {inode(r)}
      BY <2>1, <2>3 DEF Recovered, IInv, TypeOK, inode
    <2>5. now[final(r)] = inode(r) /\ next = now
      BY <2>1, <2>2
    <2>6. \E f \in Outputs : Promise!Report(f)
      BY <1>1, <2>1, <2>4, <2>5 DEF Promise!Report, Recovered
    <2> QED
      BY <2>6 DEF Promise!Next
  <1>3. CASE ~CountRecovered(r)
    <2>1. Recovered' = Recovered
      <3>1. CASE outcome' = outcome
        BY <3>1 DEF Recovered
      <3>2. CASE outcome' # outcome
        <4>1. Count(r, "skipped") /\ item[r] <= Len(Items)
          BY <1>3, <3>2 DEF RunStep, IInv, AtItem, Working, Steps, Cleanup, SkipItem, files, Start, BeginItem, Finish, CheckFinal, CheckPartial, 
           CopyBlock, CopyDone, CopyFails, Fsync, Close, 
           UnlinkPartialFails, CommitFails, UnlinkStale, OpenPartial, 
           PublishReplacing, PublishNoReplace, LinkFinal, UnlinkPartial, 
           UndoLink, Rename
        <4>2. item[r] \in DOMAIN Items /\ final(r) \in Outputs /\ item[r] <= item[r]
          BY <4>1, ItemFacts DEF IInv, TypeOK
        <4>3. outcome[r][final(r)] = "pending"
          BY <4>2 DEF IInv, PendingAhead, final
        <4> QED
          BY <4>1, <4>2, <4>3 DEF Count, Recovered, IInv, TypeOK
      <3> QED
        BY <3>1, <3>2
    <2>2. CASE \A f \in Outputs : dir'[f] = dir[f]
      BY <1>1, <2>1, <2>2 DEF Promise!vars, Recovered
    <2>3. CASE \E f \in Outputs : dir'[f] # dir[f]
      <3>1. PICK f \in Outputs : dir'[f] # dir[f]
        BY <2>3
      <3>2. f \in Names
        BY DEF Names
      <3>3. pc[r] \in Working /\ Touches(r, f)
        BY <3>1, <3>2, Footprint
      <3>4. /\ \A g \in Outputs : g \in Names /\ g # partial(r)
            /\ final(r) \in Outputs /\ inode(r) \in Runs \X Outputs /\ inode(r) # NoFile
        BY <3>3, ItemFacts DEF DistinctNames, partial, Names, IInv, AtItem
      <3>5. f = final(r)
        BY <3>3, <3>4 DEF Touches
      <3>6. \A g \in Outputs : g # f => dir'[g] = dir[g]
        BY <3>4, <3>5, Footprint DEF Touches
      <3>7. next = [now EXCEPT ![f] = dir'[f]] /\ now[f] = dir[f]
        BY <3>6
      <3>8. outcome[r][f] = "pending"
        <4>1. item[r] \in DOMAIN Items /\ item[r] <= item[r]
          BY <3>3, ItemFacts DEF IInv, AtItem, TypeOK
        <4> QED
          BY <3>5, <4>1 DEF IInv, PendingAhead, final
      <3>9. inode(r) \notin Recovered /\ inode(r) = <<r, f>>
        BY <3>5, <3>8 DEF Recovered, inode
      <3>10. CASE dir'[f] = inode(r) /\ pc[r] = "publish" /\ (r \in OverwriteRuns \/ dir[f] = NoFile)
        <4>1. r \in OverwriteRuns => dir[f] \notin Special
          BY <3>5, <3>10 DEF IInv, StillReplaceable, Checked, Holding
        <4>2. inode(r) \in [g \in Outputs |-> (Runs \X {g}) \cup (Foreign \ Torn)][f] \ Recovered
          BY <3>9
        <4>3. now[f] = NoFile \/ (inode(r) \in OverwriteRuns \X Outputs /\ now[f] \notin Special)
          BY <3>7, <3>9, <3>10, <4>1
        <4>4. Promise!Publish(f, inode(r))
          BY <1>1, <2>1, <3>7, <3>10, <4>2, <4>3 DEF Promise!Publish, Recovered
        <4> QED
          BY <4>2, <4>4 DEF Promise!Next
      <3>11. CASE dir'[f] = NoFile /\ dir[f] = inode(r) /\ pc[r] = "undoLink"
        <4>1. r \notin OverwriteRuns
          BY <3>11 DEF IInv, ModeKept
        <4>2. now[f] \in (Runs \X Outputs) \ (Recovered \cup OverwriteRuns \X Outputs)
          BY <3>4, <3>7, <3>9, <3>11, <4>1
        <4>3. Promise!Withdraw(f)
          BY <1>1, <2>1, <3>7, <3>11, <4>2 DEF Promise!Withdraw, Recovered
        <4> QED
          BY <4>3 DEF Promise!Next
      <3> QED
        BY <3>3, <3>4, <3>5, <3>10, <3>11 DEF Touches
    <2> QED
      BY <2>2, <2>3
  <1> QED
    BY <1>2, <1>3

LEMMA PromiseStep ==
    ASSUME IInv, IInv', SafeRegime, [Next]_vars
    PROVE  [Promise!Next]_(Promise!vars)
  <1>1. CASE UNCHANGED vars
    BY <1>1 DEF vars, Promise!vars, Showing
  <1>2. ASSUME NEW r \in Runs, RunStep(r) PROVE [Promise!Next]_(Promise!vars)
    BY <1>2, PromiseRunStep
  <1>3. ASSUME NEW r \in Runs, Kill(r) PROVE [Promise!Next]_(Promise!vars)
    BY <1>3 DEF Kill, files, Promise!vars, Showing
  <1>4. ASSUME NEW n \in Names, UserCreates(n) PROVE [Promise!Next]_(Promise!vars)
    <2>1. PICK i \in UserMakes : dir' = [dir EXCEPT ![n] = i]
      BY <1>4 DEF UserCreates
    <2>2. dir[n] = NoFile /\ journal' = journal /\ outcome' = outcome
      BY <1>4 DEF UserCreates
    <2>3. \A f \in Outputs : f \in Names /\ dir'[f] = IF f = n THEN i ELSE dir[f]
      BY <2>1 DEF IInv, TypeOK, Names
    <2>4. /\ Showing(dir, size) = [f \in Outputs |-> dir[f]]
          /\ Showing(dir, size)' = [f \in Outputs |-> dir'[f]]
          /\ Showing(journal, synced)' = Showing(journal, synced)
      BY <2>2, WholeShows, WholeShowsNext DEF ShowsDirectory
    <2>5. CASE n \notin Outputs
      BY <2>2, <2>3, <2>4, <2>5 DEF Promise!vars
    <2>6. CASE n \in Outputs
      <3>1. i \in (Runs \X {n}) \cup (Foreign \ Torn) /\ i \notin Recovered
        BY InodeAssumption DEF Recovered
      <3>2. [f \in Outputs |-> dir'[f]] = [[f \in Outputs |-> dir[f]] EXCEPT ![n] = i]
        BY <2>3
      <3>3. Promise!Publish(n, i)
        BY <2>2, <2>4, <2>6, <3>1, <3>2 DEF Promise!Publish, Recovered
      <3> QED
        BY <2>6, <3>1, <3>3 DEF Promise!Next
    <2> QED
      BY <2>5, <2>6
  <1>5. CASE JournalCommit
    <2>1. Showing(journal, synced)' = Showing(dir, size) /\ Showing(dir, size)' = Showing(dir, size)
      BY <1>5, WholeShows, WholeShowsNext DEF ShowsDirectory, JournalCommit, Showing
    <2>2. Promise!Persist
      BY <1>5, <2>1 DEF Promise!Persist, JournalCommit
    <2> QED
      BY <2>2 DEF Promise!Next
  <1>6. CASE PowerLoss
    <2>1. /\ Showing(dir, size)' = Showing(journal, synced)
          /\ Showing(journal, synced)' = Showing(journal, synced)
      BY <1>6, WholeShows, WholeShowsNext DEF ShowsDirectory, PowerLoss
    <2>2. Promise!PowerLoss
      BY <1>6, <2>1 DEF Promise!PowerLoss, PowerLoss
    <2> QED
      BY <2>2 DEF Promise!Next
  <1> QED
    BY <1>1, <1>2, <1>3, <1>4, <1>5, <1>6 DEF Next

\* The system calls of Recover::run and AtomicFile, with kills, power losses and
\* a user in between, never do to a reader of the directory what the promise
\* does not allow.
THEOREM PromiseKept ==
    ASSUME SafeRegime
    PROVE  Spec => Implements
  <1>1. Init => Promise!Init
    BY PromiseInit
  <1>2. IInv /\ IInv' /\ [Next]_vars => [Promise!Next]_(Promise!vars)
    BY PromiseStep
  <1> QED
    BY <1>1, <1>2, Safe, PTL DEF Spec, Implements, Promise!Spec
=============================================================================
