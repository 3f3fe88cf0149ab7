------------------------- MODULE RecoverRun_proofs -------------------------
(***************************************************************************)
(* Proofs about RecoverRun, for any source, index, output path and sizes.  *)
(***************************************************************************)
EXTENDS RecoverRun, MftRecord_proofs

Apart(storage) == source.kind \in {"block", "file"} => storage # source.id

Early == {"stat", "open", "validate", "database"}

\* Everyone is where the code can be.
Placed ==
    /\ world \in Worlds /\ fs \in Paths
    /\ named \in Objects /\ before \in Objects /\ source \in Objects
    /\ item \in 0..Len(world.items)
    /\ depth \in 1..(Depth + 1)
    /\ pc \in Early \cup {"boot", "plan"} => item = 0 /\ depth = 1
    /\ pc = "ensure" => depth <= Goal + 1

\* What mkdir may be called on without having been looked at.
RootApart ==
    fs[1].kind = "absent" => \A o \in Objects : o.kind = "block" => fs[0].dev # o.id

\* The storage about to be written to is not the source's.
NextApart ==
    /\ pc = "database" /\ world.database.kind # "dangling" => Apart(world.database.target)
    /\ pc = "ensure" /\ depth > 1 => Apart(fs[depth - 1].dev)
    /\ pc = "check" => Apart(fs[Goal].dev)

IInv ==
    /\ Placed /\ RootApart /\ NextApart
    /\ pc \in Early => written = {}
    /\ WritesApart

-----------------------------------------------------------------------------
\* The nearest existing ancestor of a directory is the directory itself.
LEMMA OwnAncestor ==
    ASSUME NEW path \in Paths, NEW d \in 0..Depth, path[d].kind = "dir"
    PROVE  existing_ancestor(path, d) = path[d]
<1> DEFINE above == {k \in 0..d : Exists(path[k])}
<1>1. d \in above
    BY SizeAssumption DEF Exists
<1>2. \A x \in above : (\A y \in above : x >= y) <=> x = d
    BY <1>1, SizeAssumption
<1>3. Max(above) = d
    BY <1>1, <1>2 DEF Max
<1> QED
    BY <1>3 DEF existing_ancestor

\* A directory that validate_destination_path passes is not on the source.
LEMMA PassedApart ==
    ASSUME NEW path \in Paths, NEW d \in 0..Depth, path[d].kind = "dir",
           source \in Objects, validate_destination_path(source, path, d)
    PROVE  Apart(path[d].dev)
<1>1. path[d].dev \in Storages
    BY DEF Paths
<1>2. CASE source.kind = "block"
    BY <1>2, OwnAncestor DEF validate_destination_path, reject_source_storage, Apart
<1>3. CASE source.kind = "file"
    BY <1>1, <1>3, StartAssumption DEF Apart
<1> QED
    BY <1>2, <1>3 DEF Apart

LEMMA GoalDepth ==
    ASSUME Placed PROVE Goal \in 1..Depth
<1> DEFINE Kind == [dir : BOOLEAN, depth : Dest..Depth, place : DOMAIN world.places]
<1>1. world.items \in Seq(Kind)
    BY ItemAssumption DEF Placed
<1>2. item # 0 => world.items[item] \in Kind
  <2> HIDE DEF Kind
  <2> QED
    BY <1>1 DEF Placed
<1> QED
    BY <1>2, SizeAssumption DEF Placed, Goal

LEMMA MadeIsPath ==
    ASSUME Placed, depth <= Depth PROVE Made \in Paths
<1>1. depth - 1 \in 0..Depth /\ depth \in 0..Depth
    BY SizeAssumption DEF Placed
<1>2. fs[depth - 1].dev \in Storages
    BY <1>1 DEF Placed, Paths
<1>3. [kind |-> "dir", dev |-> fs[depth - 1].dev] \in [kind : Kinds, dev : Storages]
    BY <1>2 DEF Kinds
<1> QED
    BY <1>1, <1>3 DEF Made, Placed, Paths

LEMMA InitInv == ASSUME Init PROVE IInv
<1>1. PICK s \in Starts : world = s.world /\ fs = s.fs /\ named = s.named
    BY DEF Init
<1>2. fs \in Chains /\ fs \in Paths /\ named \in Objects /\ world \in Worlds
    BY <1>1, StartAssumption DEF Worlds
<1>3. RootApart
    BY <1>2, RootAssumption DEF RootApart
<1>4. world.items \in Seq([dir : BOOLEAN, depth : Dest..Depth, place : DOMAIN world.places])
    BY <1>2, ItemAssumption
<1> QED
    BY <1>2, <1>3, <1>4, SizeAssumption
    DEF Init, IInv, Placed, NextApart, WritesApart

-----------------------------------------------------------------------------
\* The steps that change what is written to, or which storage comes next.

LEMMA SourceOpenInv == ASSUME IInv, SourceOpen PROVE IInv'
  BY DEF IInv, SourceOpen, Goto, locating, copying, results, Placed, RootApart, NextApart,
         WritesApart, Early, Apart, Goal

LEMMA ValidatePathsInv == ASSUME IInv, ValidatePaths PROVE IInv'
<1> USE DEF IInv, ValidatePaths, Goto, opening, locating, copying, results
<1>1. fs' \in Paths /\ (RootApart)'
  <2>1. canonicalize(fs, Dest) \in Paths
      BY SizeAssumption DEF canonicalize, Paths, Placed, Kinds
  <2>2. /\ canonicalize(fs, Dest)[1].kind = "absent" => fs[1].kind = "absent"
        /\ canonicalize(fs, Dest)[0].dev = fs[0].dev
      BY SizeAssumption DEF canonicalize, Paths, Placed
  <2> QED
      BY <2>1, <2>2 DEF Placed, RootApart
<1>2. pc' = "database" /\ world.database.kind # "dangling" => (Apart(world.database.target))'
  <2> HAVE pc' = "database" /\ world.database.kind # "dangling"
  <2>1. world.database.kind \in {"file", "absent"}
        /\ ~reject_source_storage(source, world.database)
      BY DEF validate_database_path
  <2>2. world.database.target = world.database.dev /\ world.database.dev \in Storages
      BY <2>1, StartAssumption DEF Placed
  <2> QED
      BY <2>1, <2>2, StartAssumption DEF Placed, reject_source_storage, Apart
<1> QED
    BY <1>1, <1>2 DEF Placed, NextApart, WritesApart, Early, Apart, Goal

LEMMA OpenDatabaseInv == ASSUME IInv, OpenDatabase PROVE IInv'
  BY DEF IInv, OpenDatabase, Goto, opening, locating, copying, results, Placed, RootApart,
         NextApart, WritesApart, Early, Apart, Goal

LEMMA EnsureComponentInv == ASSUME IInv, EnsureComponent PROVE IInv'
<1> USE DEF IInv, EnsureComponent, Goto, opening, locating, copying
<1>1. depth \in 1..Depth /\ Goal \in 1..Depth
    BY GoalDepth, SizeAssumption DEF Placed
<1>2. Made \in Paths
    BY <1>1, MadeIsPath
<1>3. (RootApart)'
  <2>1. Made[1].kind = "absent" => fs[1].kind = "absent"
      BY <1>1, SizeAssumption DEF Made, Placed, Paths
  <2>2. Made[0].dev = fs[0].dev
      BY <1>1, SizeAssumption DEF Made, Placed, Paths
  <2> QED
      BY <2>1, <2>2 DEF RootApart
<1>4. fs[depth].kind = "absent" => Apart(fs[depth - 1].dev)
  <2>1. CASE depth = 1
    <3>1. fs[0].dev \in Storages
        BY SizeAssumption DEF Placed, Paths
    <3> QED
        BY <2>1, <3>1, StartAssumption DEF Placed, RootApart, Apart
  <2>2. CASE depth > 1
      BY <2>2 DEF NextApart
  <2> QED
      BY <1>1, <2>1, <2>2
<1>5. (WritesApart)'
  <2>1. written' \subseteq written \cup {fs[depth - 1].dev}
        /\ (fs[depth].kind # "absent" => written' = written)
      BY DEF Made
  <2>2. UNCHANGED <<source, world>>
      BY DEF GiveUp, Skip
  <2> QED
      BY <1>4, <2>1, <2>2 DEF WritesApart, Apart
<1>6. CASE SafeComponent(Made, depth)
  <2>1. Apart(Made[depth].dev)
      BY <1>1, <1>2, <1>6, PassedApart DEF SafeComponent, Placed
  <2>2. fs' = Made /\ depth' = depth + 1 /\ pc' = "ensure" /\ Goal' = Goal
        /\ UNCHANGED <<world, named, before, source, item>>
      BY <1>6 DEF Goal
  <2>3. (Placed)'
    <3>1. depth' \in 1..(Depth + 1) /\ depth' <= Goal' + 1
        BY <1>1, <2>2, SizeAssumption
    <3> QED
        BY <1>2, <2>2, <3>1 DEF Placed, Early
  <2>4. (NextApart)'
      BY <1>1, <2>1, <2>2 DEF NextApart, Apart
  <2> QED
      BY <1>3, <1>5, <2>2, <2>3, <2>4 DEF Early
<1>7. CASE ~SafeComponent(Made, depth)
    BY <1>1, <1>2, <1>3, <1>5, <1>7
    DEF GiveUp, Skip, results, Placed, NextApart, Early, Apart, Goal
<1> QED
    BY <1>6, <1>7

LEMMA EnsureDoneInv == ASSUME IInv, EnsureDone PROVE IInv'
<1>1. Goal \in 1..Depth /\ depth = Goal + 1
    BY GoalDepth DEF IInv, EnsureDone, Placed
<1>2. Goal' = Goal
    BY DEF EnsureDone, Goto, Goal
<1> QED
    BY <1>1, <1>2
    DEF IInv, EnsureDone, Goto, opening, locating, copying, results, Placed, RootApart,
        NextApart, WritesApart, Early, Apart

LEMMA NextItemInv == ASSUME IInv, NextItem PROVE IInv'
<1>1. Len(world.items) \in Nat
    BY ItemAssumption DEF IInv, Placed
<1>2. item' \in 0..Len(world.items) /\ depth' \in 1..(Depth + 1)
    BY <1>1, SizeAssumption DEF IInv, NextItem, Placed
<1>3. pc' = "ensure" => depth' <= (Goal + 1)'
  <2> DEFINE Kind == [dir : BOOLEAN, depth : Dest..Depth, place : DOMAIN world.places]
  <2> HAVE pc' = "ensure"
  <2>1. item' \in 1..Len(world.items) /\ depth' = 1 /\ world' = world
      BY <1>1 DEF IInv, NextItem, Placed, Goto
  <2>2. world.items \in Seq(Kind)
      BY ItemAssumption DEF IInv, Placed
  <2>3. world.items[item'] \in Kind
    <3> HIDE DEF Kind
    <3> QED
      BY <2>1, <2>2
  <2>4. Goal' = world.items[item'].depth
      BY <2>1 DEF Goal
  <2> QED
      BY <2>1, <2>3, <2>4, SizeAssumption
<1> QED
    BY <1>2, <1>3
    DEF IInv, NextItem, Goto, opening, locating, copying, results, Placed, RootApart,
        NextApart, WritesApart, Early, Apart

LEMMA OpenOutputInv == ASSUME IInv, OpenOutput PROVE IInv'
  BY DEF IInv, OpenOutput, Skip, Goto, opening, locating, copying, results, Placed, RootApart,
         NextApart, WritesApart, Early, Apart, Goal

LEMMA ChangePathInv == ASSUME IInv, ChangePath PROVE IInv'
  BY StartAssumption, RootAssumption
  DEF IInv, ChangePath, opening, locating, copying, results, Placed, RootApart,
      NextApart, WritesApart, Early, Apart, Goal

\* The steps that only move on.
LEMMA OtherInv ==
    ASSUME IInv,
           SourceStat \/ ReadClusterSize \/ Plan \/ PlanFails \/ MkdirFails \/ LocateRecord
               \/ OutputFails \/ CopyResident \/ NextRun \/ CopyChunk \/ CopyEnds \/ SwapSource
    PROVE  IInv'
<1> USE DEF IInv, Goto, opening, locating, copying, results, Placed, RootApart, NextApart,
            WritesApart, Early, Apart, Goal
<1>1. CASE SourceStat BY <1>1 DEF SourceStat
<1>2. CASE Plan BY <1>2, SizeAssumption DEF Plan
<1>3. CASE PlanFails BY <1>3 DEF PlanFails
<1>4. CASE MkdirFails BY <1>4 DEF MkdirFails, GiveUp, Skip
<1>5. CASE LocateRecord BY <1>5 DEF LocateRecord
<1>6. CASE OutputFails BY <1>6 DEF OutputFails, Skip
<1>7. CASE CopyResident BY <1>7 DEF CopyResident
<1>8. CASE NextRun BY <1>8 DEF NextRun, Skip
<1>9. CASE CopyChunk BY <1>9 DEF CopyChunk, Skip
<1>10. CASE CopyEnds BY <1>10 DEF CopyEnds, Skip
<1>11. CASE SwapSource BY <1>11 DEF SwapSource
<1>12. CASE ReadClusterSize BY <1>12, SizeAssumption DEF ReadClusterSize
<1> QED
    BY <1>1, <1>2, <1>3, <1>4, <1>5, <1>6, <1>7, <1>8, <1>9, <1>10, <1>11, <1>12

\* Every step keeps the file system invariant.
LEMMA StepInv == ASSUME IInv, [Next]_vars PROVE IInv'
<1>1. CASE Next
    BY <1>1, SourceOpenInv, ValidatePathsInv, OpenDatabaseInv, EnsureComponentInv,
       EnsureDoneInv, NextItemInv, OpenOutputInv, ChangePathInv, OtherInv
    DEF Next, Step, Opening, Listing, Copying
<1>2. CASE UNCHANGED vars
    BY <1>2 DEF vars, opening, IInv, Placed, RootApart, NextApart, WritesApart, Early,
                Apart, Goal
<1> QED
    BY <1>1, <1>2

\* No run writes to its source, whatever is mounted, linked or removed between two
\* items, for every source, index and output path: ensure_safe_directory looks at each
\* component before it makes anything below it.
THEOREM NothingOnSource == Spec => []WritesApart
<1>1. Init => IInv
    BY InitInv
<1>2. IInv /\ [Next]_vars => IInv'
    BY StepInv
<1>3. IInv => WritesApart
    BY DEF IInv
<1> QED
    BY <1>1, <1>2, <1>3, PTL DEF Spec
-----------------------------------------------------------------------------
(* locate_records.                                                         *)

Matches(p, n) == restored_record(Now(p)) /\ Now(p).number = n

LocateInv ==
    /\ place \in Nat \ {0}
    /\ \A p \in 1..(place - 1) : p \in 1..Len(world.places) /\ p \notin world.unreadable
    /\ \A n \in DOMAIN found :
          /\ found[n] \in 1..(place - 1) /\ Matches(found[n], n)
          /\ \A p \in 1..(found[n] - 1) : ~Matches(p, n)
    /\ \A n \in Wanted \ DOMAIN found, p \in 1..(place - 1) : ~Matches(p, n)

LEMMA LocateRecordInv == ASSUME LocateInv, LocateRecord PROVE LocateInv'
<1> USE DEF LocateInv, LocateRecord, Goto, locating
<1>1. world' = world /\ Wanted' = Wanted
    BY DEF Wanted, Row
<1>2. \A p, n : Matches(p, n)' <=> Matches(p, n)
    BY <1>1 DEF Matches, Now
<1>3. CASE place' = place /\ found' = found
    BY <1>1, <1>2, <1>3
<1>4. CASE place' # place \/ found' # found
  <2>1. place' = place + 1 /\ place <= Len(world.places) /\ place \notin world.unreadable
      BY <1>4 DEF After, ReadExactly
  <2>2. \A p \in 1..(place' - 1) : p \in 1..(place - 1) \/ p = place
      BY <2>1
  <2>3. CASE restored_record(Now(place)) /\ Now(place).number \in Wanted \ DOMAIN found
    <3> DEFINE n == Now(place).number
    <3>1. found' = [m \in DOMAIN found \cup {n} |->
                       IF m \in DOMAIN found THEN found[m] ELSE place]
        BY <1>4, <2>3 DEF After, ReadExactly
    <3>2. n \notin DOMAIN found
        BY <2>3
    <3>3. Matches(place, n) /\ \A p \in 1..(place - 1) : ~Matches(p, n)
        BY <2>3 DEF Matches
    <3>4. /\ DOMAIN found' = DOMAIN found \cup {n} /\ found'[n] = place
          /\ \A m \in DOMAIN found : found'[m] = found[m]
        BY <3>1, <3>2
    <3>5. \A m \in Wanted \ DOMAIN found' : m # n /\ m \in Wanted \ DOMAIN found
        BY <3>4
    <3>6. \A m \in Wanted \ DOMAIN found' : ~Matches(place, m)
        BY <3>5 DEF Matches
    <3> HIDE DEF n
    <3> QED
        BY <1>1, <1>2, <2>1, <2>2, <3>3, <3>4, <3>5, <3>6
  <2>4. CASE ~(restored_record(Now(place)) /\ Now(place).number \in Wanted \ DOMAIN found)
    <3>1. found' = found
        BY <2>4
    <3>2. \A m \in Wanted \ DOMAIN found : ~Matches(place, m)
        BY <2>4 DEF Matches
    <3> QED
        BY <1>1, <1>2, <2>1, <2>2, <3>1, <3>2
  <2> QED
      BY <2>3, <2>4
<1> QED
    BY <1>3, <1>4

\* Every step keeps the invariant of locating.
LEMMA StepLocateInv == ASSUME LocateInv, [Next]_vars PROVE LocateInv'
<1>1. CASE LocateRecord
    BY <1>1, LocateRecordInv
<1>2. CASE UNCHANGED <<world, place, found>>
  <2>1. Wanted' = Wanted /\ \A p, n : Matches(p, n)' <=> Matches(p, n)
      BY <1>2 DEF Wanted, Row, Matches, Now
  <2> QED
      BY <1>2, <2>1 DEF LocateInv
<1>3. CASE Next /\ ~LocateRecord
  <2>1. UNCHANGED <<world, place, found>>
      BY <1>3 DEF Next, Step, Opening, Listing, Copying, Goto, locating, SourceStat,
         SourceOpen, ValidatePaths, OpenDatabase, ReadClusterSize, Plan,
           PlanFails, EnsureComponent,
         MkdirFails, EnsureDone, NextItem, OpenOutput, OutputFails, CopyResident, NextRun,
         CopyChunk, CopyEnds, ChangePath, SwapSource, Skip, GiveUp
  <2> QED
      BY <1>2, <2>1
<1> QED
    BY <1>1, <1>2, <1>3 DEF vars, locating

\* For every source: what an item is copied from is the first whole record with its
\* number, and nothing beyond an unreadable place.
THEOREM FirstRecordWins == Spec => []LocatedFirst
<1>1. Init => LocateInv
    BY DEF Init, LocateInv
<1>2. LocateInv /\ [Next]_vars => LocateInv'
    BY StepLocateInv
<1>3. LocateInv => LocatedFirst
  <2> SUFFICES ASSUME LocateInv, NEW n \in DOMAIN found
               PROVE  /\ found[n] \in DOMAIN world.places
                      /\ Whole(found[n]) /\ Now(found[n]).number = n
                      /\ \A p \in 1..found[n] : p \notin world.unreadable
                      /\ \A p \in 1..(found[n] - 1) :
                            ~(Whole(p) /\ Now(p).number = n)
      BY DEF LocatedFirst
  <2>1. \A p : restored_record(Now(p)) <=> Whole(p)
      BY DEF restored_record, restore_usa, Whole, IsWhole
  <2>2. found[n] \in 1..(place - 1) /\ Matches(found[n], n)
        /\ \A p \in 1..(found[n] - 1) : ~Matches(p, n)
      BY DEF LocateInv
  <2> QED
      BY <2>1, <2>2 DEF LocateInv, Matches
<1> QED
    BY <1>1, <1>2, <1>3, PTL DEF Spec
-----------------------------------------------------------------------------
(* Types.                                                                  *)

\* What a place holds now is a record, and differs from what the index was made of in
\* the ends of its sectors only.
LEMMA NowRecord ==
    ASSUME world \in Worlds, NEW p \in 1..Len(world.places)
    PROVE  /\ IsRecord(Now(p), Attributes) /\ IsRecord(world.places[p], Attributes)
           /\ Now(p).attributes = world.places[p].attributes
           /\ Now(p).number = world.places[p].number /\ Now(p).number \in Nat
<1> DEFINE raw == world.places[p]
<1>1. world.places \in Seq(Records)
    BY RecordAssumption
<1>2. raw \in Records
  <2> HIDE DEF raw
  <2> QED
      BY <1>1 DEF raw
<1>3. raw \in [file : BOOLEAN, usa : BOOLEAN, usn : Nat, trailers : Seq(Nat),
               number : Nat, attributes : Seq(Attributes)]
    BY <1>2, RecordAssumption
<1> HIDE DEF raw
<1>4. Now(p) = IF p \in world.torn THEN [raw EXCEPT !.trailers[2] = @ + 1] ELSE raw
    BY DEF Now, raw
<1>5. Now(p).attributes = raw.attributes /\ Now(p).number = raw.number
    BY <1>3, <1>4
<1> QED
    BY <1>3, <1>5, RecordAssumption DEF IsRecord, raw

Typing ==
    /\ data \in AttributeData
    /\ run \in Nat /\ offset \in Nat /\ to_copy \in Nat /\ remaining \in Nat
    /\ to_copy <= remaining /\ (data.resident => to_copy = 0)
    /\ out \in Seq(Nat)
    /\ outcome \in [DOMAIN world.items -> {"none", "recovered", "skipped"}]
    /\ copies \in [DOMAIN world.items -> Seq(Nat)]
    /\ DOMAIN found \subseteq Wanted
    /\ place <= Len(world.places) + 1
    /\ pc \in {"stat", "open", "validate", "database", "boot", "plan", "ensure", "locate",
               "next", "check", "copy"} \cup Ended

LEMMA Product ==
    ASSUME NEW x \in Nat, NEW y \in Nat
    PROVE  checked_mul(x, y) = Overflow \/ (checked_mul(x, y) = x * y /\ x * y \in Nat)
<1>1. x * y \in Nat
    OBVIOUS
<1> QED
    BY <1>1 DEF checked_mul

\* The least of two numbers, as recover_file takes it.
LEMMA PortionOf ==
    ASSUME NEW n \in Nat, remaining \in Nat
    PROVE  /\ Portion(n) \in Nat /\ Portion(n) <= n /\ Portion(n) <= remaining
           /\ Portion(n) = n \/ Portion(n) = remaining
<1> DEFINE T == {remaining, n}
<1>1. \E x \in T : \A y \in T : x <= y
    OBVIOUS
<1>2. Portion(n) \in T /\ \A y \in T : Portion(n) <= y
    BY <1>1 DEF Portion, Min
<1> QED
    BY <1>2

LEMMA LesserOf ==
    ASSUME NEW m \in Nat, NEW n \in Nat
    PROVE  Min({m, n}) \in Nat /\ Min({m, n}) <= m /\ Min({m, n}) <= n
           /\ (Min({m, n}) = m \/ Min({m, n}) = n)
<1> DEFINE T == {m, n}
<1>1. \E x \in T : \A y \in T : x <= y
    OBVIOUS
<1>2. Min(T) \in T /\ \A y \in T : Min(T) <= y
    BY <1>1 DEF Min
<1> QED
    BY <1>2

LEMMA ZerosTyped ==
    ASSUME NEW n \in Nat
    PROVE  Zeros(n) \in Seq(Nat) /\ Len(Zeros(n)) = n /\ \A k \in 1..n : Zeros(n)[k] = 0
  BY DEF Zeros

LEMMA BytesTyped ==
    ASSUME NEW n \in Nat, NEW from \in Nat
    PROVE  /\ Bytes(from, n) \in Seq(Nat) /\ Len(Bytes(from, n)) = n
           /\ \A k \in 1..n : Bytes(from, n)[k] = from + k
  BY DEF Bytes

\* What was located has a data attribute of the right shape.
LEMMA LocatedTyped ==
    ASSUME world \in Worlds, LocateInv, place <= Len(world.places) + 1, NEW number,
           Located(number) # <<>>
    PROVE  /\ number \in DOMAIN found /\ found[number] \in 1..Len(world.places)
           /\ Located(number) = data_attributes(Now(found[number]))
           /\ Located(number)[1] \in AttributeData
<1>1. number \in DOMAIN found /\ Located(number) = data_attributes(Now(found[number]))
    BY DEF Located
<1>2. Len(world.places) \in Nat
    BY RecordAssumption
<1>3. found[number] \in 1..Len(world.places)
    BY <1>1, <1>2 DEF LocateInv
<1>4. IsRecord(Now(found[number]), Attributes)
    BY <1>3, NowRecord
<1>5. Located(number) \in Seq(AttributeData)
    BY <1>1, <1>4, FirstData
<1>6. Located(number)[1] \in AttributeData
  <2> DEFINE s == Located(number)
  <2> HIDE DEF s
  <2>1. s \in Seq(AttributeData) /\ s # <<>> => s[1] \in AttributeData
      OBVIOUS
  <2> QED
      BY <1>5, <2>1 DEF s
<1> QED
    BY <1>1, <1>3, <1>6
LEMMA InitTyping == ASSUME Init PROVE Typing
<1>1. PICK s \in Starts : world = s.world
    BY DEF Init
<1>2. Len(world.places) \in Nat
    BY <1>1, RecordAssumption DEF Worlds
<1>3. NoData \in AttributeData
    BY DEF NoData, AttributeData, DataRuns
<1> QED
    BY <1>2, <1>3 DEF Init, Typing

LEMMA LocateTyping ==
    ASSUME world \in Worlds, LocateInv, Typing, LocateRecord PROVE Typing'
<1> USE DEF Typing, LocateRecord, Goto, copying, results, Ended
<1>1. world' = world /\ Wanted' = Wanted
    BY DEF Wanted, Row
<1>2. Len(world.places) \in Nat
    BY RecordAssumption
<1>3. place \in Nat
    BY DEF LocateInv
<1>4. place' <= Len(world.places) + 1
    BY <1>1, <1>2, <1>3 DEF After, locating
<1>5. DOMAIN found' \subseteq Wanted
    BY DEF locating
<1> QED
    BY <1>1, <1>4, <1>5

LEMMA OpenOutputTyping ==
    ASSUME world \in Worlds, LocateInv, Typing, OpenOutput PROVE Typing'
<1>1. world' = world /\ Wanted' = Wanted /\ UNCHANGED <<place, found>>
    BY DEF OpenOutput, Skip, Goto, Wanted, Row, locating
<1>2. CASE pc' = "copy"
  <2>1. PICK attributes \in {Located(Row(item).record_id_guess)} :
            /\ attributes # <<>> /\ data' = attributes[1]
            /\ remaining' = attributes[1].real_size
            /\ run' = 0 /\ offset' = 0 /\ to_copy' = 0 /\ out' = <<>> /\ UNCHANGED results
      BY <1>2 DEF OpenOutput, Skip, Goto
  <2>2. attributes[1] \in AttributeData
      BY <2>1, LocatedTyped DEF Typing
  <2>3. attributes[1].real_size \in Nat
      BY <2>2 DEF AttributeData
  <2> QED
      BY <1>1, <1>2, <2>1, <2>2, <2>3 DEF Typing, results
<1>3. CASE pc' # "copy"
  <2>1. Skip /\ UNCHANGED copying
      BY <1>3 DEF OpenOutput, Goto
  <2> QED
      BY <1>1, <2>1 DEF Skip, Goto, Typing, copying
<1> QED
    BY <1>2, <1>3

LEMMA SkipTyping ==
    ASSUME Typing, Skip, UNCHANGED <<place, found, copying>> PROVE Typing'
<1>1. Wanted' = Wanted
    BY DEF Skip, Goto, Wanted, Row
<1> QED
    BY <1>1 DEF Skip, Goto, Typing, copying

\* The size of a cluster that the boot sector gives is the one of the data runs.
LEMMA ClustersTyped ==
    ASSUME world \in Worlds PROVE cluster_size \in Nat /\ Clusters = cluster_size
<1> DEFINE bytes == world.boot.bytes_per_sector
           sectors == world.boot.sectors_per_cluster
<1>1. bytes \in Nat /\ sectors \in Nat
    BY BootAssumption
<1>2. cluster_size = bytes * sectors
    BY DEF cluster_size, read_cluster_size
<1>3. bytes * sectors \in Nat
  <2> HIDE DEF bytes, sectors
  <2> QED
      BY <1>1
<1>4. Clusters = cluster_size
    BY DEF Clusters, GoodBoot, cluster_size, read_cluster_size
<1> QED
    BY <1>2, <1>3, <1>4

LEMMA NextRunTyping == ASSUME world \in Worlds, Typing, NextRun PROVE Typing'
<1> DEFINE next == data.runs[run + 1]
           run_bytes == checked_mul(next.cluster_count, cluster_size)
           start == checked_mul(next.lcn, cluster_size)
<1>1. CASE run_bytes = Overflow \/ (~next.sparse /\ start = Overflow)
  <2>1. Skip /\ UNCHANGED <<place, found, copying>>
      BY <1>1 DEF NextRun, locating
  <2> QED
      BY <2>1, SkipTyping
<1>2. CASE ~(run_bytes = Overflow \/ (~next.sparse /\ start = Overflow))
  <2>1. /\ ~data.resident /\ to_copy = 0 /\ remaining > 0 /\ run < Len(data.runs)
        /\ run' = run + 1 /\ pc' = "copy" /\ UNCHANGED <<world, data, results, place, found>>
        /\ \/ /\ next.sparse
              /\ out' = out \o Zeros(Portion(run_bytes))
              /\ remaining' = remaining - Portion(run_bytes)
              /\ UNCHANGED <<offset, to_copy>>
           \/ /\ ~next.sparse
              /\ offset' = start /\ to_copy' = Portion(run_bytes)
              /\ UNCHANGED <<remaining, out>>
      BY <1>2 DEF NextRun, Goto, locating
  <2>2. data.runs \in DataRuns /\ run + 1 \in 1..Len(data.runs)
      BY <2>1 DEF Typing, AttributeData, DataRuns
  <2>3. next.cluster_count \in Nat /\ next.lcn \in Nat
    <3> DEFINE R == [cluster_count : Nat, sparse : BOOLEAN, lcn : Nat]
               runs == data.runs
    <3>1. runs \in Seq(R) /\ run + 1 \in 1..Len(runs)
        BY <2>2 DEF DataRuns
    <3>2. runs[run + 1] \in R
      <4> HIDE DEF R, runs
      <4> QED
        BY <3>1
    <3>3. next \in R
        BY <3>2
    <3> QED
        BY <3>3
  <2>4. run_bytes \in Nat /\ (~next.sparse => start \in Nat)
      BY <1>2, <2>3, Product, ClustersTyped
  <2> HIDE DEF next, run_bytes, start
  <2>5. /\ Portion(run_bytes) \in Nat /\ Portion(run_bytes) <= remaining
      BY <2>4, PortionOf DEF Typing
  <2>6. Zeros(Portion(run_bytes)) \in Seq(Nat)
      BY <2>5, ZerosTyped, BytesTyped
  <2> DEFINE n == Portion(run_bytes)
             z == Zeros(n)
  <2> HIDE DEF n, z
  <2>7. n \in Nat /\ n <= remaining /\ z \in Seq(Nat)
        /\ \/ /\ out' = out \o z /\ remaining' = remaining - n /\ UNCHANGED <<offset, to_copy>>
           \/ /\ ~next.sparse /\ offset' = start /\ to_copy' = n /\ UNCHANGED <<remaining, out>>
      BY <2>1, <2>5, <2>6 DEF n, z
  <2>8. Wanted' = Wanted
      BY <2>1 DEF Wanted, Row
  <2>9. out \in Seq(Nat) /\ remaining \in Nat /\ offset \in Nat /\ to_copy \in Nat
      BY DEF Typing
  <2>10. /\ out' \in Seq(Nat) /\ remaining' \in Nat /\ offset' \in Nat /\ to_copy' \in Nat
         /\ to_copy' <= remaining'
    <3>1. CASE UNCHANGED <<remaining, out>>
        BY <2>1, <2>4, <2>7, <2>9, <3>1
    <3>2. CASE out' = out \o z /\ remaining' = remaining - n /\ UNCHANGED <<offset, to_copy>>
        BY <2>1, <2>7, <2>9, <3>2
    <3> QED
        BY <2>7, <3>1, <3>2
  <2> QED
      BY <2>1, <2>8, <2>10 DEF Typing, results
<1> QED
    BY <1>1, <1>2

LEMMA CopyChunkTyping == ASSUME Typing, CopyChunk PROVE Typing'
<1> DEFINE chunk == Min({to_copy, Buffer})
           bytes == Bytes(offset, chunk)
<1>1. CASE ~Readable(offset, chunk)
  <2>1. Skip /\ UNCHANGED <<place, found, copying>>
      BY <1>1 DEF CopyChunk, locating
  <2> QED
      BY <2>1, SkipTyping
<1>2. CASE Readable(offset, chunk)
  <2>1. chunk \in Nat /\ chunk <= to_copy
      BY LesserOf, SizeAssumption DEF Typing
  <2>2. bytes \in Seq(Nat)
      BY <2>1, ZerosTyped, BytesTyped DEF Typing
  <2>3. /\ out' = out \o bytes /\ offset' = offset + chunk /\ to_copy' = to_copy - chunk
        /\ remaining' = remaining - chunk /\ to_copy > 0
        /\ pc' = "copy" /\ UNCHANGED <<world, data, run, results, place, found>>
      BY <1>2 DEF CopyChunk, Goto, locating
  <2>4. Wanted' = Wanted
      BY <2>3 DEF Wanted, Row
  <2> HIDE DEF chunk, bytes
  <2> QED
      BY <2>1, <2>2, <2>3, <2>4 DEF Typing, results
<1> QED
    BY <1>1, <1>2

LEMMA CopyOtherTyping ==
    ASSUME Typing, OutputFails \/ CopyResident \/ CopyEnds PROVE Typing'
<1>1. world' = world /\ Wanted' = Wanted
    BY DEF OutputFails, CopyResident, CopyEnds, Skip, Goto, Wanted, Row
<1>2. CASE OutputFails
  <2> QED
    BY <1>2, SkipTyping DEF OutputFails, locating
<1>3. CASE CopyResident
  <2>1. data.resident_data \in Seq(Nat)
      BY DEF Typing, AttributeData
  <2> QED
      BY <1>1, <1>3, <2>1 DEF CopyResident, Goto, Typing, locating, results
<1>4. CASE CopyEnds
    BY <1>1, <1>4 DEF CopyEnds, Skip, Goto, Typing, locating, copying
<1> QED
    BY <1>2, <1>3, <1>4

\* The steps that copy nothing and look at no place.
LEMMA PlainTyping ==
    ASSUME Typing,
           Opening \/ EnsureComponent \/ MkdirFails \/ EnsureDone \/ NextItem \/ ChangePath
               \/ SwapSource
    PROVE  Typing'
<1> USE DEF Goto, GiveUp, Skip, locating, results
<1>1. UNCHANGED <<world, place, found, copying>>
    BY DEF Opening, SourceStat, SourceOpen, ValidatePaths, OpenDatabase, ReadClusterSize, Plan,
           PlanFails,
           EnsureComponent, MkdirFails, EnsureDone, NextItem, ChangePath, SwapSource
<1>2. Wanted' = Wanted
    BY <1>1 DEF Wanted, Row
<1>3. UNCHANGED results \/ (outcome' = [outcome EXCEPT ![item] = "skipped"] /\ copies' = copies)
    BY DEF Opening, SourceStat, SourceOpen, ValidatePaths, OpenDatabase, ReadClusterSize, Plan,
           PlanFails,
           EnsureComponent, MkdirFails, EnsureDone, NextItem, ChangePath, SwapSource
<1>4. pc' \in {"stat", "open", "validate", "database", "boot", "plan", "ensure", "locate",
               "next", "check", "copy"} \cup Ended
    BY DEF Opening, SourceStat, SourceOpen, ValidatePaths, OpenDatabase, ReadClusterSize, Plan,
           PlanFails,
           EnsureComponent, MkdirFails, EnsureDone, NextItem, ChangePath, SwapSource, Ended,
           Typing
<1> QED
    BY <1>1, <1>2, <1>3, <1>4 DEF Typing, copying

\* Every step keeps the types.
LEMMA StepTyping == ASSUME IInv, LocateInv, Typing, [Next]_vars PROVE Typing'
<1>1. world \in Worlds
    BY DEF IInv, Placed
<1>2. CASE Next
    BY <1>1, <1>2, LocateTyping, OpenOutputTyping, NextRunTyping, CopyChunkTyping,
       CopyOtherTyping, PlainTyping
    DEF Next, Step, Listing, Copying
<1>3. CASE UNCHANGED vars
  <2>1. Wanted' = Wanted
      BY <1>3 DEF vars, Wanted, Row
  <2> QED
      BY <1>3, <2>1 DEF vars, Typing, copying, locating, results
<1> QED
    BY <1>2, <1>3

\* Every variable has its type, whatever the records and the runs say: no count of bytes
\* goes below zero, and only places of the source are located.
THEOREM Types == Spec => []TypeOK
<1>1. Init => IInv /\ LocateInv /\ Typing
  <2>1. Init => LocateInv
      BY DEF Init, LocateInv
  <2> QED
      BY <2>1, InitInv, InitTyping
<1>2. IInv /\ LocateInv /\ Typing /\ [Next]_vars => (IInv /\ LocateInv /\ Typing)'
    BY StepInv, StepLocateInv, StepTyping
<1>3. IInv /\ LocateInv /\ Typing => TypeOK
  <2> SUFFICES ASSUME IInv, LocateInv, Typing PROVE TypeOK
      OBVIOUS
  <2>1. world \in Worlds /\ fs \in Paths /\ {named, before, source} \subseteq Objects
        /\ item \in 0..Len(world.items) /\ depth \in 1..(Depth + 1)
      BY DEF IInv, Placed
  <2>2. Len(world.places) \in Nat
      BY <2>1, RecordAssumption
  <2>3. place \in 1..(Len(world.places) + 1)
      BY <2>2 DEF LocateInv, Typing
  <2>4. Range(found) \subseteq 1..Len(world.places)
    <3>1. \A n \in DOMAIN found : found[n] \in 1..(place - 1)
        BY DEF LocateInv
    <3>2. \A n \in DOMAIN found : found[n] \in 1..Len(world.places)
        BY <2>2, <2>3, <3>1
    <3> QED
        BY <3>2 DEF Range
  <2> QED
      BY <2>1, <2>3, <2>4 DEF Typing, TypeOK
<1> QED
    BY <1>1, <1>2, <1>3, PTL DEF Spec
-----------------------------------------------------------------------------
(* What the rows of a record say.                                          *)

Guess(raw, at) == IF raw.number # 0 THEN raw.number ELSE at

\* The row of a name.
RowOf(raw, at, a) ==
    [record_id_guess |-> Guess(raw, at), name |-> utf16le_to_utf8(a.units), real_size |-> a.size]

HasRow(a) == a.type = "name" /\ a.resident /\ a.inside /\ utf16le_to_utf8(a.units) # <<>>

RowsOf(raw, at, a) == IF HasRow(a) THEN <<RowOf(raw, at, a)>> ELSE <<>>

\* parse joins the rows of the attributes.
LEMMA ParseRows ==
    ASSUME NEW raw, NEW at
    PROVE  parse(raw, at) =
              IF restored_record(raw)
              THEN FlattenSeq([i \in DOMAIN Walked(raw) |-> RowsOf(raw, at, Walked(raw)[i])])
              ELSE <<>>
  BY DEF parse, RowsOf, RowOf, HasRow, Guess

\* Every row of a record has its number, or its place where it has none.
LEMMA RowNumbers ==
    ASSUME NEW raw, NEW at, NEW A, IsRecord(raw, A), parse(raw, at) # <<>>
    PROVE  parse(raw, at)[1].record_id_guess = Guess(raw, at)
<1> DEFINE V == {RowOf(raw, at, a) : a \in A}
           walked == Walked(raw)
           seqs == [i \in DOMAIN walked |-> RowsOf(raw, at, walked[i])]
           rows == FlattenSeq(seqs)
<1>1. walked \in Seq(A)
    BY WalkedPrefix DEF IsRecord
<1>2. parse(raw, at) = rows
    BY ParseRows
<1> HIDE DEF walked
<1>3. \A a \in A : RowsOf(raw, at, a) \in Seq(V)
  <2> SUFFICES ASSUME NEW a \in A PROVE RowsOf(raw, at, a) \in Seq(V)
      OBVIOUS
  <2>1. RowOf(raw, at, a) \in V
      OBVIOUS
  <2> HIDE DEF V
  <2> QED
      BY <2>1 DEF RowsOf
<1>4. SeqsOver(seqs, V)
  <2>1. \A i \in DOMAIN walked : walked[i] \in A
      BY <1>1
  <2>2. \A i \in DOMAIN walked : RowsOf(raw, at, walked[i]) \in Seq(V)
      BY <1>3, <2>1
  <2>3. DOMAIN walked = 1..Len(walked) /\ Len(walked) \in Nat
      BY <1>1
  <2> HIDE DEF V
  <2> QED
      BY <2>2, <2>3 DEF SeqsOver
<1> HIDE DEF seqs
<1>5. rows \in Seq(V)
  <2> HIDE DEF V
  <2> QED
      BY <1>4, Flattened
<1> HIDE DEF rows
<1>6. rows[1] \in V
  <2> HIDE DEF V
  <2> QED
      BY <1>2, <1>5
<1>7. PICK a \in A : rows[1] = RowOf(raw, at, a)
    BY <1>6
<1> QED
    BY <1>2, <1>7 DEF RowOf

\* An item has the number its record is indexed with.
LEMMA ItemPlace ==
    ASSUME world \in Worlds, NEW i \in DOMAIN world.items
    PROVE  /\ world.items[i].place \in 1..Len(world.places)
           /\ Row(i).record_id_guess =
                 Guess(world.places[world.items[i].place], world.items[i].place)
<1> DEFINE Kind == [dir : BOOLEAN, depth : Dest..Depth, place : DOMAIN world.places]
           own == world.items[i].place
<1>1. world.items \in Seq(Kind)
    BY ItemAssumption
<1>2. world.items[i] \in Kind
  <2> HIDE DEF Kind
  <2> QED
      BY <1>1
<1>3. DOMAIN world.places = 1..Len(world.places)
    BY RecordAssumption
<1>4. own \in 1..Len(world.places)
    BY <1>2, <1>3
<1>5. IsRecord(world.places[own], Attributes)
    BY <1>4, NowRecord
<1>6. parse(world.places[own], own) # <<>>
    BY ItemAssumption
<1>7. Row(i) = parse(world.places[own], own)[1]
    BY DEF Row
<1> HIDE DEF own
<1>8. Row(i).record_id_guess = Guess(world.places[own], own)
    BY <1>5, <1>6, <1>7, RowNumbers
<1> QED
    BY <1>4, <1>8 DEF own
-----------------------------------------------------------------------------
(* Copying.                                                                *)

ExtentSeqs(a, c) == [i \in DOMAIN a.extents |-> ExtentBytes(a.extents[i], c)]

\* Where the bytes of the i-th extent are among those of the stream: behind the first
\* at[i - 1].
RunLayout(at, a, i, c) ==
    LET e == a.extents[i] IN
    /\ e.count \in Nat /\ (e.lcn \in Nat \/ e.lcn = Hole)
    /\ at[i - 1] \in Nat /\ at[i] \in Nat
    /\ at[i] = at[i - 1] + e.count * c
    /\ at[i] <= Len(AllBytes(a, c))
    /\ \A k \in 1..(e.count * c) :
          AllBytes(a, c)[at[i - 1] + k] = IF e.lcn = Hole THEN 0 ELSE e.lcn * c + k

Layout(at, a, c) ==
    /\ Len(a.extents) \in Nat /\ AllBytes(a, c) \in Seq(Nat)
    /\ at[0] = 0 /\ at[Len(a.extents)] = Len(AllBytes(a, c))
    /\ \A i \in 1..Len(a.extents) : RunLayout(at, a, i, c)

StartsWith(whole, s) == Len(s) <= Len(whole) /\ \A k \in 1..Len(s) : s[k] = whole[k]

\* Somewhere inside the run at hand.
Inside(a, at, c) ==
    LET e == a.extents[run]
        gone == Len(out) - at[run - 1]
        size == e.count * c
    IN  /\ run # 0 /\ e.lcn # Hole
        /\ gone \in Nat /\ gone + to_copy <= size
        /\ offset = e.lcn * c + gone
        /\ gone + to_copy = size \/ to_copy = remaining

\* The first bytes of a stream are out, up to the end of a run if none is at hand.
Position(a, at, c) ==
    /\ run <= Len(a.extents)
    /\ Len(out) + remaining = a.size
    /\ StartsWith(AllBytes(a, c), out)
    /\ IF to_copy = 0 THEN Len(out) = at[run] \/ remaining = 0 ELSE Inside(a, at, c)

\* The item at hand is copied from a stream that there is to copy in the record located
\* for it.
ChosenFor(a) ==
    LET number == Row(item).record_id_guess
        raw == Now(found[number])
    IN  /\ number \in DOMAIN found /\ IsSound(a)
        /\ \E i : Gets(raw, i) /\ raw.attributes[i] = a

Follows(a, c) ==
    /\ data = DataOf(a)
    /\ IF a.resident
       THEN (remaining = a.size /\ out = <<>>) \/ (remaining = 0 /\ out = a.content)
       ELSE \E at : Layout(at, a, c) /\ Position(a, at, c)

CopyInv ==
    /\ pc \in {"check", "copy"} => item # 0
    /\ pc = "copy" =>
          \E c \in Nat, a \in Attributes : cluster_size = c /\ ChosenFor(a) /\ Follows(a, c)

\* The widest integer.
LEMMA MaximumValue == Maximum \in Nat
<1>1. MaxSize \in 0..MaxSize
    BY WidthAssumption
<1> QED
    BY <1>1, PowerStep DEF Maximum

LEMMA ExtentTyped ==
    ASSUME NEW e \in Extents, NEW c \in Nat
    PROVE  /\ e.count \in Nat /\ (e.lcn \in Nat \/ e.lcn = Hole)
           /\ e.count * c \in Nat
           /\ e.lcn # Hole => e.lcn * c \in Nat
<1>1. e.count \in 0..Maximum /\ e.lcn \in 0..(Maximum \div 2) \cup {Hole}
    BY DEF Extents
<1>2. e.count \in Nat /\ (e.lcn \in Nat \/ e.lcn = Hole)
    BY <1>1, MaximumValue
<1> DEFINE count == e.count
           lcn == e.lcn
<1> HIDE DEF count, lcn
<1>3. count \in Nat => count * c \in Nat
    OBVIOUS
<1>4. lcn \in Nat => lcn * c \in Nat
    OBVIOUS
<1> QED
    BY <1>2, <1>3, <1>4 DEF count, lcn

LEMMA ExtentBytesTyped ==
    ASSUME NEW e \in Extents, NEW c \in Nat
    PROVE  /\ ExtentBytes(e, c) \in Seq(Nat)
           /\ Len(ExtentBytes(e, c)) = e.count * c
           /\ \A k \in 1..(e.count * c) :
                 ExtentBytes(e, c)[k] = IF e.lcn = Hole THEN 0 ELSE e.lcn * c + k
<1> DEFINE n == e.count * c
           from == e.lcn * c
<1>1. n \in Nat /\ (e.lcn # Hole => from \in Nat)
    BY ExtentTyped
<1>2. ExtentBytes(e, c) = IF e.lcn = Hole THEN Zeros(n) ELSE Bytes(from, n)
    BY DEF ExtentBytes
<1> HIDE DEF n, from
<1>3. ExtentBytes(e, c) \in Seq(Nat) /\ Len(ExtentBytes(e, c)) = n
      /\ \A k \in 1..n : ExtentBytes(e, c)[k] = IF e.lcn = Hole THEN 0 ELSE from + k
  <2>1. CASE e.lcn = Hole
    <3>1. ExtentBytes(e, c) = Zeros(n)
        BY <1>2, <2>1
    <3> QED
        BY <1>1, <2>1, <3>1, ZerosTyped
  <2>2. CASE e.lcn # Hole
    <3>1. ExtentBytes(e, c) = Bytes(from, n)
        BY <1>2, <2>2
    <3>2. /\ Bytes(from, n) \in Seq(Nat) /\ Len(Bytes(from, n)) = n
          /\ \A k \in 1..n : Bytes(from, n)[k] = from + k
        BY <1>1, <2>2, BytesTyped
    <3> QED
        BY <2>2, <3>1, <3>2, Zenon
  <2> QED
      BY <2>1, <2>2
<1> QED
    BY <1>3 DEF n, from

\* The extents of a sound attribute.
LEMMA ExtentsOf ==
    ASSUME NEW a \in Attributes, IsSound(a), ~a.resident PROVE a.extents \in Seq(Extents)
<1>1. IsAttribute(a)
    BY RecordAssumption
<1>2. Encodes(a.bytes, a.extents, a.headers)
    BY <1>1 DEF IsAttribute, IsSound
<1> QED
    BY <1>2 DEF Encodes, HasExtents

\* The bytes of a stream are those of its extents, one behind the other.
LEMMA StreamLayout ==
    ASSUME NEW a \in Attributes, IsSound(a), ~a.resident, NEW c \in Nat
    PROVE  \E at : Layout(at, a, c)
<1> DEFINE seqs == ExtentSeqs(a, c)
           N == Len(a.extents)
           whole == AllBytes(a, c)
<1>1. a.extents \in Seq(Extents)
    BY ExtentsOf
<1>2. N \in Nat /\ DOMAIN a.extents = 1..N /\ \A i \in 1..N : a.extents[i] \in Extents
    BY <1>1
<1>3. whole = FlattenSeq(seqs)
    BY DEF AllBytes, ExtentSeqs
<1> HIDE DEF N, whole
<1>4. \A i \in 1..N : ExtentBytes(a.extents[i], c) \in Seq(Nat)
    BY <1>2, ExtentBytesTyped
<1>5. Len(seqs) = N /\ SeqsOver(seqs, Nat)
      /\ \A i \in 1..N : seqs[i] = ExtentBytes(a.extents[i], c)
    BY <1>2, <1>4 DEF ExtentSeqs, SeqsOver
<1> HIDE DEF seqs
<1>6. PICK at : Flat(at, seqs, whole)
    BY <1>3, <1>5, Flattened
<1>7. whole \in Seq(Nat)
    BY <1>3, <1>5, Flattened
<1> DEFINE len == [i \in 1..Len(seqs) |-> Len(seqs[i])]
<1>8. Sums(at, len, N) /\ at[N] = Len(whole)
      /\ \A i \in 1..N : \A k \in 1..Len(seqs[i]) : whole[at[i - 1] + k] = seqs[i][k]
    BY <1>5, <1>6 DEF Flat
<1>9. \A i \in 1..N : len[i] = Len(seqs[i])
    BY <1>5
<1> HIDE DEF len
<1>10. ASSUME NEW i \in 1..N PROVE RunLayout(at, a, i, c)
  <2> DEFINE e == a.extents[i]
             n == e.count * c
  <2>1. e \in Extents /\ seqs[i] = ExtentBytes(e, c)
      BY <1>2, <1>5
  <2>2. at[i - 1] \in Nat /\ at[i] \in Nat /\ at[i] = at[i - 1] + len[i] /\ at[0] = 0
      BY <1>2, <1>8 DEF Sums
  <2>3. at[i] <= Len(whole)
    <3>1. i \in 0..N /\ N \in i..N
        BY <1>2
    <3> QED
        BY <1>8, <3>1, SumsRise
  <2> HIDE DEF e
  <2>4. Len(seqs[i]) = n /\ \A k \in 1..n : seqs[i][k] = IF e.lcn = Hole THEN 0
                                                         ELSE e.lcn * c + k
      BY <2>1, ExtentBytesTyped
  <2>5. e.count \in Nat /\ (e.lcn \in Nat \/ e.lcn = Hole)
      BY <2>1, ExtentTyped
  <2> HIDE DEF n
  <2>6. at[i] = at[i - 1] + n
      BY <1>9, <2>2, <2>4
  <2>7. \A k \in 1..n : whole[at[i - 1] + k] = IF e.lcn = Hole THEN 0
                                               ELSE e.lcn * c + k
      BY <1>8, <2>4
  <2> QED
      BY <2>2, <2>3, <2>5, <2>6, <2>7 DEF RunLayout, e, n, whole
<1>11. at[0] = 0
    BY <1>8 DEF Sums
<1> QED
    BY <1>2, <1>7, <1>8, <1>10, <1>11 DEF Layout, N, whole

\* The same attribute is meant as long as the same is copied.
LEMMA SameChoice ==
    ASSUME UNCHANGED <<world, item, found>> PROVE \A a : (ChosenFor(a))' <=> ChosenFor(a)
  BY DEF ChosenFor, Row, Now

\* A start of the stream with what follows it is a start.
LEMMA ExtendsStart ==
    ASSUME NEW whole \in Seq(Nat), NEW s \in Seq(Nat), NEW t \in Seq(Nat),
           StartsWith(whole, s), Len(s) + Len(t) <= Len(whole),
           \A k \in 1..Len(t) : whole[Len(s) + k] = t[k]
    PROVE  StartsWith(whole, s \o t) /\ Len(s \o t) = Len(s) + Len(t)
<1> DEFINE st == s \o t
<1>1. Len(st) = Len(s) + Len(t) /\ Len(s) \in Nat /\ Len(t) \in Nat
    OBVIOUS
<1>2. ASSUME NEW k \in 1..(Len(s) + Len(t)) PROVE st[k] = whole[k]
  <2>1. CASE k <= Len(s)
    <3>1. st[k] = s[k] /\ k \in 1..Len(s)
        BY <2>1
    <3> QED
        BY <3>1 DEF StartsWith
  <2>2. CASE k > Len(s)
    <3>1. st[k] = t[k - Len(s)] /\ k - Len(s) \in 1..Len(t)
        BY <2>2
    <3>2. Len(s) + (k - Len(s)) = k
        BY <1>1
    <3> QED
        BY <3>1, <3>2
  <2> QED
      BY <1>1, <2>1, <2>2
<1> HIDE DEF st
<1> QED
    BY <1>1, <1>2 DEF StartsWith, st

\* A start is a prefix.
LEMMA StartIsSubSeq ==
    ASSUME NEW whole \in Seq(Nat), NEW s \in Seq(Nat), StartsWith(whole, s)
    PROVE  SubSeq(whole, 1, Len(s)) = s
<1> DEFINE n == Len(s)
           w == SubSeq(whole, 1, n)
<1>1. n \in Nat /\ n <= Len(whole) /\ \A k \in 1..n : s[k] = whole[k]
    BY DEF StartsWith
<1>2. w = [k \in 1..n |-> whole[k]]
    BY <1>1
<1>3. s = [k \in 1..n |-> s[k]]
    OBVIOUS
<1> HIDE DEF n, w
<1>4. w = s
    BY <1>1, <1>2, <1>3
<1> QED
    BY <1>4 DEF n, w

\* The runs of a stream, as the program has them.
LEMMA RunAt ==
    ASSUME NEW a, ~a.resident, data = DataOf(a), Len(a.extents) \in Nat
    PROVE  /\ ~data.resident /\ data.real_size = a.size /\ Len(data.runs) = Len(a.extents)
           /\ \A i \in 1..Len(a.extents) :
                 LET e == a.extents[i] IN
                 /\ data.runs[i].cluster_count = e.count
                 /\ data.runs[i].sparse <=> (e.lcn = Hole)
                 /\ e.lcn # Hole => data.runs[i].lcn = e.lcn
<1>1. data = [resident |-> FALSE, real_size |-> a.size, resident_data |-> <<>>,
              runs |-> RunsOf(a.extents, Len(a.extents))]
    BY Zenon DEF DataOf
<1>2. data.runs = [i \in 1..Len(a.extents) |-> RunOf(a.extents[i])]
    BY <1>1 DEF RunsOf
<1>3. Len(data.runs) = Len(a.extents)
    BY <1>2
<1>4. \A i \in 1..Len(a.extents) : data.runs[i] = RunOf(a.extents[i])
    BY <1>2
<1>5. ASSUME NEW i \in 1..Len(a.extents)
      PROVE  /\ data.runs[i].cluster_count = a.extents[i].count
             /\ data.runs[i].sparse <=> (a.extents[i].lcn = Hole)
             /\ a.extents[i].lcn # Hole => data.runs[i].lcn = a.extents[i].lcn
  <2>1. data.runs[i] = RunOf(a.extents[i])
      BY <1>4
  <2> DEFINE e == a.extents[i]
             r == data.runs[i]
  <2> HIDE DEF e, r
  <2>2. r = RunOf(e)
      BY <2>1 DEF e, r
  <2>3. r.cluster_count = e.count /\ (r.sparse <=> e.lcn = Hole)
        /\ (e.lcn # Hole => r.lcn = e.lcn)
      BY <2>2 DEF RunOf
  <2> QED
      BY <2>3, Zenon DEF e, r
<1>6. ~data.resident /\ data.real_size = a.size
    BY <1>1
<1> QED
    BY <1>3, <1>5, <1>6, Zenon

LEMMA ResidentData ==
    ASSUME NEW a, a.resident, data = DataOf(a)
    PROVE  data.resident /\ data.real_size = a.size /\ data.resident_data = a.content
  BY DEF DataOf

\* The step to the next run of a stream.
LEMMA NextRunFollows ==
    ASSUME Typing, NextRun, pc' = "copy", NEW c \in Nat, cluster_size = c,
           NEW a \in Attributes, Follows(a, c)
    PROVE  (Follows(a, c))'
<1> DEFINE next == data.runs[run + 1]
           run_bytes == checked_mul(next.cluster_count, c)
           start == checked_mul(next.lcn, c)
<1>1. /\ ~data.resident /\ to_copy = 0 /\ remaining > 0 /\ run < Len(data.runs)
      /\ run_bytes # Overflow /\ (~next.sparse => start # Overflow)
      /\ run' = run + 1 /\ data' = data
      /\ \/ /\ next.sparse
            /\ out' = out \o Zeros(Portion(run_bytes))
            /\ remaining' = remaining - Portion(run_bytes)
            /\ UNCHANGED <<offset, to_copy>>
         \/ /\ ~next.sparse
            /\ offset' = start /\ to_copy' = Portion(run_bytes)
            /\ UNCHANGED <<remaining, out>>
    BY DEF NextRun, Skip, Goto
<1>2. data = DataOf(a) /\ ~a.resident
    BY <1>1, ResidentData DEF Follows
<1>3. PICK at : Layout(at, a, c) /\ Position(a, at, c)
    BY <1>2 DEF Follows
<1>4. Len(a.extents) \in Nat /\ AllBytes(a, c) \in Seq(Nat)
    BY <1>3 DEF Layout
<1> DEFINE i == run + 1
           e == a.extents[i]
           size == e.count * c
           base == e.lcn * c
           whole == AllBytes(a, c)
<1>5. run \in Nat /\ i \in 1..Len(a.extents) /\ i - 1 = run
    BY <1>1, <1>2, <1>4, RunAt DEF Typing
<1>6. next.cluster_count = e.count /\ (next.sparse <=> e.lcn = Hole)
      /\ (e.lcn # Hole => next.lcn = e.lcn)
    BY <1>2, <1>4, <1>5, RunAt
<1>7. RunLayout(at, a, i, c)
    BY <1>3, <1>5 DEF Layout
<1>8. run_bytes = size /\ size \in Nat
  <2> DEFINE count == e.count
  <2>1. count \in Nat /\ c \in Nat
      BY <1>7, SizeAssumption DEF RunLayout
  <2>2. run_bytes # Overflow /\ run_bytes = checked_mul(count, c)
      BY <1>1, <1>6
  <2> HIDE DEF count, run_bytes
  <2>3. run_bytes = count * c /\ count * c \in Nat
      BY <2>1, <2>2, Product
  <2> QED
      BY <2>3 DEF count
<1>9. e.lcn # Hole => start = base /\ base \in Nat
  <2> SUFFICES ASSUME e.lcn # Hole PROVE start = base /\ base \in Nat
      OBVIOUS
  <2>1. start # Overflow /\ start = checked_mul(e.lcn, c)
      BY <1>1, <1>6
  <2>2. e.lcn \in Nat /\ c \in Nat
      BY <1>7, SizeAssumption DEF RunLayout
  <2> HIDE DEF e, start
  <2> QED
      BY <2>1, <2>2, Product
<1>10. /\ at[run] \in Nat /\ at[i] = at[run] + size /\ at[i] <= Len(whole)
       /\ \A k \in 1..size : whole[at[run] + k] = IF e.lcn = Hole THEN 0 ELSE base + k
    BY <1>5, <1>7 DEF RunLayout
<1> DEFINE n == Portion(run_bytes)
<1>11. n \in Nat /\ n <= size /\ n <= remaining /\ (n = size \/ n = remaining)
    BY <1>8, PortionOf DEF Typing
<1>12. Len(out) = at[run] /\ Len(out) + remaining = a.size /\ StartsWith(whole, out)
    BY <1>1, <1>3 DEF Position
<1> HIDE DEF next, run_bytes, start, n
<1>13. out \in Seq(Nat) /\ Len(out) \in Nat /\ remaining \in Nat
    BY DEF Typing
<1>14. CASE e.lcn = Hole
  <2>1. out' = out \o Zeros(n) /\ remaining' = remaining - n /\ to_copy' = 0
      BY <1>1, <1>6, <1>14 DEF n
  <2>2. Zeros(n) \in Seq(Nat) /\ Len(Zeros(n)) = n /\ \A k \in 1..n : Zeros(n)[k] = 0
      BY <1>11, ZerosTyped
  <2> DEFINE z == Zeros(n)
  <2> HIDE DEF z, i, e, size, base, whole
  <2>3. \A k \in 1..Len(z) : whole[Len(out) + k] = z[k]
    <3>1. \A k \in 1..Len(z) : k \in 1..size /\ z[k] = 0
        BY <1>8, <1>11, <2>2 DEF z
    <3> QED
        BY <1>10, <1>12, <1>14, <3>1
  <2>4. Len(out) + Len(z) <= Len(whole)
    <3>1. Len(whole) \in Nat /\ Len(z) = n
        BY <1>4, <2>2 DEF z, whole
    <3> QED
        BY <1>8, <1>10, <1>11, <1>12, <1>13, <3>1
  <2>5. StartsWith(whole, out') /\ Len(out') = Len(out) + n
    <3>1. whole \in Seq(Nat) /\ z \in Seq(Nat) /\ Len(z) = n
        BY <1>4, <2>2 DEF z, whole
    <3> QED
        BY <1>12, <1>13, <2>1, <2>3, <2>4, <3>1, ExtendsStart DEF z
  <2>6. Len(out') + remaining' = a.size /\ (Len(out') = at[i] \/ remaining' = 0)
      BY <1>8, <1>10, <1>11, <1>12, <1>13, <2>1, <2>5
  <2>7. run' <= Len(a.extents) /\ run' = i
      BY <1>1, <1>4, <1>5 DEF i
  <2>8. (Position(a, at, c))'
      BY <2>1, <2>5, <2>6, <2>7 DEF Position, whole
  <2> QED
      BY <1>1, <1>2, <1>3, <2>8 DEF Follows
<1>15. CASE e.lcn # Hole
  <2>1. offset' = base /\ to_copy' = n /\ UNCHANGED <<remaining, out>>
      BY <1>1, <1>6, <1>9, <1>15 DEF n
  <2>2. run' <= Len(a.extents) /\ run' = i /\ i # 0 /\ i - 1 = run
      BY <1>1, <1>4, <1>5
  <2>3. base \in Nat
      BY <1>9, <1>15
  <2>4. n = 0 => Len(out) = at[i]
      BY <1>1, <1>8, <1>10, <1>11, <1>12, <1>13
  <2>5. (Inside(a, at, c))'
    <3> DEFINE gone == Len(out) - at[run]
    <3>1. gone = 0 /\ gone \in Nat /\ gone + n <= size /\ (gone + n = size \/ n = remaining)
          /\ offset' = base + gone
      <4> HIDE DEF size, base, whole, e
      <4> QED
        BY <1>8, <1>10, <1>11, <1>12, <1>13, <2>1, <2>3
    <3>2. a.extents[run'] = e /\ Len(out') - at[run' - 1] = gone
      <4> HIDE DEF i
      <4> QED
        BY <2>1, <2>2
    <3> HIDE DEF i, e, gone
    <3> QED
        BY <1>15, <2>1, <2>2, <3>1, <3>2 DEF Inside
  <2>6. (Position(a, at, c))'
    <3> HIDE DEF i
    <3> QED
      BY <1>12, <2>1, <2>2, <2>4, <2>5 DEF Position
  <2> QED
      BY <1>1, <1>2, <1>3, <2>6 DEF Follows
<1> QED
    BY <1>14, <1>15

LEMMA Times == ASSUME NEW n \in Nat, NEW c \in Nat PROVE n * c \in Nat
  OBVIOUS

\* The bytes that are to come are those that the source has from offset on.
LEMMA BytesAhead ==
    ASSUME Typing, NEW c \in Nat, NEW a \in Attributes, NEW at, Layout(at, a, c),
           Position(a, at, c), to_copy > 0
    PROVE  \A k \in 1..to_copy : AllBytes(a, c)[Len(out) + k] = offset + k
<1> DEFINE e == a.extents[run]
           size == e.count * c
           base == e.lcn * c
           from == at[run - 1]
           gone == Len(out) - from
           whole == AllBytes(a, c)
<1>1. /\ run # 0 /\ run <= Len(a.extents) /\ e.lcn # Hole /\ gone \in Nat
      /\ gone + to_copy <= size /\ offset = base + gone
    BY DEF Position, Inside
<1>2. run \in 1..Len(a.extents)
    BY <1>1 DEF Typing, Layout
<1>3. RunLayout(at, a, run, c)
    BY <1>2 DEF Layout
<1>4. e.count \in Nat /\ e.lcn \in Nat /\ from \in Nat
    BY <1>1, <1>3 DEF RunLayout
<1>5. size \in Nat /\ base \in Nat
  <2> HIDE DEF e
  <2> QED
    BY <1>4, Times
<1>6. \A k \in 1..size : whole[from + k] = base + k
    BY <1>1, <1>3, Zenon DEF RunLayout
<1>7. Len(out) \in Nat /\ to_copy \in Nat
    BY DEF Typing
<1> HIDE DEF e, size, base, whole, from
<1>8. ASSUME NEW k \in 1..to_copy PROVE whole[Len(out) + k] = offset + k
  <2>1. k \in Nat /\ gone + k \in 1..size
      BY <1>1, <1>5, <1>7
  <2>2. from + (gone + k) = Len(out) + k /\ base + (gone + k) = offset + k
      BY <1>1, <1>4, <1>5, <1>7, <2>1
  <2> HIDE DEF gone
  <2>3. whole[from + (gone + k)] = base + (gone + k)
      BY <1>6, <2>1
  <2> QED
      BY <2>2, <2>3
<1> QED
    BY <1>8 DEF whole

\* A piece of the run at hand.
LEMMA CopyChunkFollows ==
    ASSUME Typing, CopyChunk, pc' = "copy", NEW c \in Nat, NEW a \in Attributes,
           Follows(a, c)
    PROVE  (Follows(a, c))'
<1> DEFINE chunk == Min({to_copy, Buffer})
           bytes == Bytes(offset, chunk)
           e == a.extents[run]
           size == e.count * c
           base == e.lcn * c
           whole == AllBytes(a, c)
<1>1. /\ to_copy > 0 /\ out' = out \o bytes /\ offset' = offset + chunk
      /\ to_copy' = to_copy - chunk /\ remaining' = remaining - chunk
      /\ UNCHANGED <<data, run>>
    BY DEF CopyChunk, Skip, Goto
<1>2. data = DataOf(a) /\ ~a.resident
    BY <1>1, ResidentData DEF Follows, Typing
<1>3. PICK at : Layout(at, a, c) /\ Position(a, at, c)
    BY <1>2 DEF Follows
<1> DEFINE gone == Len(out) - at[run - 1]
<1>4. /\ run # 0 /\ run <= Len(a.extents) /\ e.lcn # Hole /\ gone \in Nat
      /\ gone + to_copy <= size /\ offset = base + gone
      /\ gone + to_copy = size \/ to_copy = remaining
    BY <1>1, <1>3 DEF Position, Inside
<1>5. Len(a.extents) \in Nat /\ whole \in Seq(Nat)
    BY <1>3 DEF Layout
<1>6. run \in 1..Len(a.extents)
    BY <1>4, <1>5 DEF Typing
<1>7. RunLayout(at, a, run, c)
    BY <1>3, <1>6 DEF Layout
<1>8. /\ at[run - 1] \in Nat /\ at[run] \in Nat /\ at[run] = at[run - 1] + size
      /\ at[run] <= Len(whole) /\ size \in Nat /\ base \in Nat
  <2>1. e.count \in Nat /\ e.lcn \in Nat
      BY <1>4, <1>7 DEF RunLayout
  <2>2. size \in Nat /\ base \in Nat
    <3> HIDE DEF e
    <3> QED
      BY <2>1, Times
  <2>3. /\ at[run - 1] \in Nat /\ at[run] \in Nat /\ at[run] = at[run - 1] + size
        /\ at[run] <= Len(whole)
      BY <1>7 DEF RunLayout
  <2> QED
      BY <2>2, <2>3
<1>9. chunk \in Nat /\ chunk <= to_copy
    BY LesserOf, SizeAssumption DEF Typing
<1>10. Len(out) + remaining = a.size /\ StartsWith(whole, out)
    BY <1>3 DEF Position
<1>11. out \in Seq(Nat) /\ Len(out) \in Nat /\ remaining \in Nat /\ to_copy \in Nat
       /\ offset \in Nat /\ to_copy <= remaining
    BY DEF Typing
<1> DEFINE from == at[run - 1]
           to == at[run]
<1>12. base \in Int
    BY <1>8
<1> HIDE DEF chunk, e, size, base, whole, gone, from, to
<1>13. from \in Nat /\ to \in Nat /\ to = from + size /\ gone = Len(out) - from
    BY <1>8 DEF from, to, gone
<1>14. bytes \in Seq(Nat) /\ Len(bytes) = chunk /\ \A k \in 1..chunk : bytes[k] = offset + k
    BY <1>9, <1>11, BytesTyped
<1>15. ASSUME NEW k \in 1..chunk PROVE whole[Len(out) + k] = bytes[k]
  <2>1. k \in 1..to_copy
      BY <1>9, <1>11
  <2> QED
      BY <1>1, <1>3, <1>14, <2>1, BytesAhead DEF whole
<1>16. Len(out) + chunk <= to /\ to <= Len(whole) /\ Len(whole) \in Nat
  <2>1. to <= Len(whole) /\ Len(whole) \in Nat
      BY <1>5, <1>8 DEF to
  <2>2. Len(out) + chunk <= to
      BY <1>4, <1>8, <1>9, <1>11, <1>13
  <2> QED
      BY <2>1, <2>2
<1> HIDE DEF bytes
<1>17. StartsWith(whole, out') /\ Len(out') = Len(out) + chunk
  <2>1. whole \in Seq(Nat) /\ out \in Seq(Nat) /\ bytes \in Seq(Nat)
      BY <1>5, <1>11, <1>14
  <2>2. Len(out) + Len(bytes) <= Len(whole)
      BY <1>9, <1>11, <1>13, <1>14, <1>16
  <2>3. \A k \in 1..Len(bytes) : whole[Len(out) + k] = bytes[k]
      BY <1>14, <1>15
  <2> QED
      BY <1>1, <1>10, <1>14, <2>1, <2>2, <2>3, ExtendsStart
<1>18. Len(out') + remaining' = a.size
    BY <1>1, <1>9, <1>10, <1>11, <1>17
<1>19. to_copy' = 0 => Len(out') = to \/ remaining' = 0
  <2> SUFFICES ASSUME to_copy' = 0, ~(to_copy = remaining) PROVE Len(out') = to
      BY <1>1, <1>9, <1>11
  <2>1. chunk = to_copy /\ gone + to_copy = size
      BY <1>1, <1>4, <1>9, <1>11
  <2> QED
      BY <1>8, <1>11, <1>13, <1>17, <2>1
<1>20. (Inside(a, at, c))'
  <2> DEFINE now == Len(out') - from
  <2>1. now = gone + chunk
      BY <1>9, <1>11, <1>13, <1>17
  <2>2. now \in Nat /\ now + to_copy' <= size /\ offset' = base + now
        /\ (now + to_copy' = size \/ to_copy' = remaining')
    <3>1. gone \in Nat /\ size \in Nat /\ base \in Nat
        BY <1>4, <1>8
    <3>2. /\ gone + to_copy <= size /\ offset = base + gone
          /\ gone + to_copy = size \/ to_copy = remaining
          /\ offset' = offset + chunk /\ to_copy' = to_copy - chunk
          /\ remaining' = remaining - chunk
        BY <1>1, <1>4
    <3> HIDE DEF now
    <3> QED
        BY <1>9, <1>11, <2>1, <3>1, <3>2
  <2> QED
      BY <1>1, <1>4, <2>2 DEF Inside, e, size, base, from
<1>21. (Position(a, at, c))'
    BY <1>1, <1>4, <1>17, <1>18, <1>19, <1>20 DEF Position, whole, to
<1> QED
    BY <1>1, <1>2, <1>3, <1>21 DEF Follows

LEMMA CopyResidentFollows ==
    ASSUME CopyResident, NEW c \in Nat, NEW a \in Attributes, Follows(a, c)
    PROVE  (Follows(a, c))'
<1>1. CASE a.resident
    BY <1>1, ResidentData DEF CopyResident, Goto, Follows
<1>2. CASE ~a.resident
  <2>1. ~data.resident
      BY <1>2 DEF Follows, DataOf
  <2> QED
      BY <2>1 DEF CopyResident
<1> QED
    BY <1>1, <1>2

\* What recovery begins with.
LEMMA OpenOutputFollows ==
    ASSUME world \in Worlds, LocateInv, Typing, OpenOutput, pc' = "copy", NEW c \in Nat
    PROVE  \E a \in Attributes : ChosenFor(a) /\ (Follows(a, c))'
<1> DEFINE number == Row(item).record_id_guess
           raw == Now(found[number])
<1>1. PICK attributes \in {Located(number)} :
          /\ attributes # <<>> /\ data' = attributes[1]
          /\ remaining' = attributes[1].real_size
          /\ run' = 0 /\ offset' = 0 /\ to_copy' = 0 /\ out' = <<>>
    BY DEF OpenOutput, Skip, Goto
<1>2. /\ number \in DOMAIN found /\ found[number] \in 1..Len(world.places)
      /\ attributes = data_attributes(raw)
  <2> HIDE DEF number
  <2> QED
      BY <1>1, LocatedTyped DEF Typing
<1>3. IsRecord(raw, Attributes)
    BY <1>2, NowRecord
<1> HIDE DEF raw, number
<1>4. PICK i : /\ Gets(raw, i) /\ IsSound(raw.attributes[i])
               /\ attributes[1] = DataOf(raw.attributes[i])
    BY <1>1, <1>2, <1>3, FirstData
<1>5. PICK a \in Attributes : a = raw.attributes[i]
  <2>1. raw.attributes \in Seq(Attributes) /\ i \in 1..Len(raw.attributes)
      BY <1>3, <1>4 DEF IsRecord, Gets
  <2> QED
      BY <2>1
<1>6. ChosenFor(a)
    BY <1>2, <1>4, <1>5 DEF ChosenFor, raw, number
<1>7. IsAttribute(a)
    BY <1>5, RecordAssumption
<1>8. data' = DataOf(a) /\ remaining' = DataOf(a).real_size /\ IsSound(a)
    BY <1>1, <1>4, <1>5
<1>9. DataOf(a).real_size = a.size
    BY DEF DataOf
<1>10. CASE a.resident
    BY <1>1, <1>5, <1>6, <1>8, <1>9, <1>10 DEF Follows
<1>11. CASE ~a.resident
  <2>1. PICK at : Layout(at, a, c)
      BY <1>5, <1>8, <1>11, StreamLayout
  <2>2. AllBytes(a, c) \in Seq(Nat) /\ at[0] = 0 /\ Len(a.extents) \in Nat
      BY <2>1 DEF Layout
  <2>3. Len(out') = 0 /\ a.size \in Nat /\ run' = 0 /\ to_copy' = 0 /\ remaining' = a.size
    <3>1. a.size \in Nat
        BY <1>7, Zenon DEF IsAttribute
    <3>2. out' = <<>> /\ Len(<<>>) = 0
        BY <1>1
    <3> QED
        BY <1>1, <1>8, <1>9, <3>1, <3>2, Zenon
  <2>4. (StartsWith(AllBytes(a, c), out))'
      BY <2>2, <2>3 DEF StartsWith
  <2>5. (Position(a, at, c))'
      BY <2>2, <2>3, <2>4, SMT DEF Position
  <2>6. (Follows(a, c))'
      BY <1>8, <1>11, <2>1, <2>5 DEF Follows
  <2> QED
      BY <1>6, <2>6
<1> QED
    BY <1>10, <1>11

\* Every step keeps the copy a start of its stream.
LEMMA StepCopyInv ==
    ASSUME IInv, LocateInv, Typing, CopyInv, [Next]_vars PROVE CopyInv'
<1>1. world \in Worlds /\ item \in 0..Len(world.items)
    BY DEF IInv, Placed
<1>2. CASE OpenOutput
  <2>1. UNCHANGED <<world, item, found>> /\ pc = "check" /\ pc' # "check"
      BY <1>2 DEF OpenOutput, Skip, Goto, locating
  <2>2. \A a : (ChosenFor(a))' <=> ChosenFor(a)
      BY <2>1, SameChoice
  <2>3. PICK c \in Nat : cluster_size = c
      BY <1>1, ClustersTyped
  <2>4. cluster_size' = c
      BY <2>1, <2>3 DEF cluster_size
  <2> QED
      BY <1>1, <1>2, <2>1, <2>2, <2>4, OpenOutputFollows DEF CopyInv
<1>3. CASE NextRun \/ CopyChunk \/ CopyResident
  <2>1. UNCHANGED <<world, item, found>> /\ pc = "copy" /\ pc' # "check"
      BY <1>3 DEF NextRun, CopyChunk, CopyResident, Skip, Goto, locating
  <2>2. \A a : (ChosenFor(a))' <=> ChosenFor(a)
      BY <2>1, SameChoice
  <2>3. PICK c \in Nat, a \in Attributes : cluster_size = c /\ ChosenFor(a) /\ Follows(a, c)
      BY <2>1 DEF CopyInv
  <2>4. pc' = "copy" => (Follows(a, c))'
      BY <1>3, <2>3, NextRunFollows, CopyChunkFollows, CopyResidentFollows
  <2>5. cluster_size' = c
      BY <2>1, <2>3 DEF cluster_size
  <2> QED
      BY <2>1, <2>2, <2>3, <2>4, <2>5 DEF CopyInv
<1>4. CASE UNCHANGED vars
  <2>1. UNCHANGED <<world, item, found, pc, data, run, offset, to_copy, remaining, out>>
      BY <1>4 DEF vars, copying, locating
  <2>2. \A a : (ChosenFor(a))' <=> ChosenFor(a)
      BY <2>1, SameChoice
  <2>3. \A a, c : (Follows(a, c))' <=> Follows(a, c)
      BY <2>1 DEF Follows, Position, Inside
  <2>4. cluster_size' = cluster_size
      BY <2>1 DEF cluster_size
  <2> QED
      BY <2>1, <2>2, <2>3, <2>4 DEF CopyInv
<1>5. CASE EnsureDone
    BY <1>5 DEF EnsureDone, Goto, CopyInv
<1>6. CASE pc' \notin {"check", "copy"}
    BY <1>6 DEF CopyInv
<1>7. CASE SourceStat \/ SourceOpen \/ ValidatePaths \/ OpenDatabase \/ ReadClusterSize
              \/ Plan \/ PlanFails
    BY <1>6, <1>7
    DEF SourceStat, SourceOpen, ValidatePaths, OpenDatabase, ReadClusterSize, Plan, PlanFails, Goto
<1>8. CASE EnsureComponent \/ MkdirFails \/ LocateRecord \/ NextItem
    BY <1>6, <1>8 DEF EnsureComponent, MkdirFails, LocateRecord, NextItem, Goto, GiveUp, Skip
<1>9. CASE OutputFails \/ CopyEnds
    BY <1>6, <1>9 DEF OutputFails, CopyEnds, Goto, Skip
<1>10. CASE ChangePath \/ SwapSource
    BY <1>6, <1>10 DEF ChangePath, SwapSource
<1> QED
    BY <1>2, <1>3, <1>4, <1>5, <1>7, <1>8, <1>9, <1>10
    DEF Next, Step, Opening, Listing, Copying
-----------------------------------------------------------------------------
(* What is recovered.                                                      *)

\* What RecoveredIsRecord says of the file recovered for item i.
IsRecovered(i, copy) ==
    \E p \in DOMAIN world.places :
        /\ Whole(p) /\ Now(p).number = Row(i).record_id_guess
        /\ \E c : cluster_size = c /\ copy \in Truths(p, c)
        /\ LET own == world.items[i].place
               number == world.places[own].number
           IN  number # 0 /\ (\A q \in DOMAIN world.places \ {own} :
                                 world.places[q].number # number)
               => p = own

RecoveredInv ==
    \A i \in DOMAIN world.items : outcome[i] = "recovered" => IsRecovered(i, copies[i])

\* All of the stream is out.
LEMMA WholeStream ==
    ASSUME Typing, NEW c \in Nat, NEW a \in Attributes, IsSound(a), Follows(a, c), remaining = 0
    PROVE  /\ AllBytes(a, c) \in Seq(Nat) /\ Len(AllBytes(a, c)) >= a.size
           /\ out = SubSeq(AllBytes(a, c), 1, a.size)
<1>1. IsAttribute(a)
    BY RecordAssumption
<1>2. CASE a.resident
  <2>1. a.content \in Seq(Nat) /\ a.size = Len(a.content) /\ AllBytes(a, c) = a.content
      BY <1>1, <1>2 DEF IsAttribute, IsSound, AllBytes
  <2> DEFINE content == a.content
             size == a.size
  <2> HIDE DEF content, size
  <2>2. out = content
    <3>1. content \in Seq(Nat) /\ size = Len(content)
        BY <2>1 DEF content, size
    <3>2. CASE out = <<>> /\ size = 0
      <4>1. content \in Seq(Nat) /\ Len(content) = 0 => content = <<>>
          OBVIOUS
      <4>2. content = <<>>
          BY <3>1, <3>2, <4>1
      <4> QED
          BY <3>2, <4>2
    <3> QED
        BY <1>2, <3>2 DEF Follows, content, size
  <2>3. content \in Seq(Nat) /\ size = Len(content) => SubSeq(content, 1, size) = content
      OBVIOUS
  <2>4. content \in Seq(Nat) /\ size = Len(content)
      BY <2>1 DEF content, size
  <2> QED
      BY <2>1, <2>2, <2>3, <2>4 DEF content, size
<1>3. CASE ~a.resident
  <2>1. PICK at : Layout(at, a, c) /\ Position(a, at, c)
      BY <1>3 DEF Follows
  <2>2. AllBytes(a, c) \in Seq(Nat) /\ StartsWith(AllBytes(a, c), out)
        /\ Len(out) + remaining = a.size
      BY <2>1 DEF Layout, Position
  <2>3. out \in Seq(Nat)
      BY DEF Typing
  <2>4. Len(out) = a.size /\ Len(AllBytes(a, c)) >= a.size
      BY <2>2, <2>3 DEF StartsWith
  <2> QED
      BY <2>2, <2>3, <2>4, StartIsSubSeq
<1> QED
    BY <1>2, <1>3

\* A located record is whole.
LEMMA LocatedWhole ==
    ASSUME world \in Worlds, LocateInv, place <= Len(world.places) + 1, NEW n \in DOMAIN found
    PROVE  /\ found[n] \in 1..Len(world.places) /\ Whole(found[n])
           /\ Now(found[n]).number = n
<1>1. found[n] \in 1..(place - 1) /\ Matches(found[n], n) /\ place \in Nat \ {0}
    BY DEF LocateInv
<1>2. Len(world.places) \in Nat
    BY RecordAssumption
<1>3. found[n] \in 1..Len(world.places)
    BY <1>1, <1>2
<1> QED
    BY <1>1, <1>3 DEF Matches, restored_record, restore_usa, Whole, IsWhole

\* There is an item while one is copied.
LEMMA ItemAtHand ==
    ASSUME IInv, CopyInv, pc \in {"check", "copy"} PROVE item \in DOMAIN world.items
<1> DEFINE Kind == [dir : BOOLEAN, depth : Dest..Depth, place : DOMAIN world.places]
<1>1. world.items \in Seq(Kind)
    BY ItemAssumption DEF IInv, Placed
<1>2. item # 0 /\ item \in 0..Len(world.items)
    BY DEF CopyInv, IInv, Placed
<1> HIDE DEF Kind
<1> QED
    BY <1>1, <1>2

\* A copy that ends is the whole stream.
LEMMA CopyEndsRecovered ==
    ASSUME IInv, LocateInv, Typing, CopyInv, CopyEnds, remaining = 0
    PROVE  item \in DOMAIN world.items /\ IsRecovered(item, out)
<1>1. PICK c \in Nat, a \in Attributes : cluster_size = c /\ ChosenFor(a) /\ Follows(a, c)
    BY DEF CopyEnds, CopyInv
<1> DEFINE n == Row(item).record_id_guess
           p == found[n]
           own == world.items[item].place
           number == world.places[own].number
<1>2. world \in Worlds
    BY DEF IInv, Placed
<1>3. item \in DOMAIN world.items
    BY ItemAtHand DEF CopyEnds
<1>4. PICK i : /\ n \in DOMAIN found /\ IsSound(a) /\ Gets(Now(p), i)
               /\ Now(p).attributes[i] = a
    BY <1>1 DEF ChosenFor
<1>5. own \in 1..Len(world.places) /\ n = Guess(world.places[own], own)
    BY <1>2, <1>3, ItemPlace
<1>6. p \in 1..Len(world.places) /\ Whole(p) /\ Now(p).number = n
  <2> HIDE DEF n
  <2> QED
    BY <1>2, <1>4, LocatedWhole DEF Typing
<1>7. Now(p).number = world.places[p].number /\ IsRecord(Now(p), Attributes)
    BY <1>2, <1>6, NowRecord
<1>8. DOMAIN world.places = 1..Len(world.places)
    BY <1>2, RecordAssumption
<1>9. cluster_size = c /\ out \in Truths(p, c)
  <2>1. a \in Range(Now(p).attributes)
    <3>1. i \in DOMAIN Now(p).attributes
        BY <1>4, <1>7 DEF Gets, IsRecord
    <3> QED
        BY <1>4, <3>1 DEF Range
  <2>2. IsStream(a)
      BY <1>4 DEF IsSound, IsStream
  <2>3. Len(AllBytes(a, c)) >= a.size /\ out = SubSeq(AllBytes(a, c), 1, a.size)
      BY <1>1, <1>4, WholeStream
  <2> HIDE DEF p
  <2> QED
      BY <1>1, <2>1, <2>2, <2>3 DEF Truths
<1>10. ASSUME number # 0, \A q \in DOMAIN world.places \ {own} : world.places[q].number # number
       PROVE  p = own
  <2>1. n = number
      BY <1>5, <1>10 DEF Guess
  <2> HIDE DEF p, n, own, number
  <2> QED
      BY <1>6, <1>7, <1>8, <1>10, <2>1
<1> HIDE DEF p
<1> QED
    BY <1>3, <1>6, <1>8, <1>9, <1>10 DEF IsRecovered

\* What is recovered stays so.
LEMMA StepRecovered ==
    ASSUME IInv, LocateInv, Typing, CopyInv, RecoveredInv, [Next]_vars
    PROVE  RecoveredInv'
<1>1. world' = world
    BY DEF Next, Step, Opening, Listing, Copying, vars, Goto, SourceStat,
           SourceOpen, ValidatePaths, OpenDatabase, ReadClusterSize, Plan,
           PlanFails, EnsureComponent,
           MkdirFails, EnsureDone, LocateRecord, NextItem, OpenOutput, OutputFails,
           CopyResident, NextRun, CopyChunk, CopyEnds, ChangePath, SwapSource, Skip, GiveUp
<1>2. \A i, copy : (IsRecovered(i, copy))' <=> IsRecovered(i, copy)
    BY <1>1 DEF IsRecovered, Truths, Whole, Row, Now, cluster_size
<1>3. RecoveredInv <=>
         \A i \in DOMAIN world.items : outcome[i] = "recovered" => IsRecovered(i, copies[i])
    BY DEF RecoveredInv
<1>4. RecoveredInv' <=>
         \A i \in DOMAIN world.items :
            outcome'[i] = "recovered" => (IsRecovered(i, copies'[i]))
    BY <1>1 DEF RecoveredInv, IsRecovered, Truths, Whole, Row, Now, cluster_size
<1>5. outcome \in [DOMAIN world.items -> {"none", "recovered", "skipped"}]
      /\ copies \in [DOMAIN world.items -> Seq(Nat)]
    BY DEF Typing
<1>6. CASE \/ UNCHANGED results
           \/ outcome' = [outcome EXCEPT ![item] = "skipped"] /\ copies' = copies
    BY <1>3, <1>4, <1>5, <1>6 DEF results
<1>7. CASE CopyEnds /\ remaining = 0
  <2>1. item \in DOMAIN world.items /\ IsRecovered(item, out)
      BY <1>7, CopyEndsRecovered
  <2>2. outcome' = [outcome EXCEPT ![item] = "recovered"]
        /\ copies' = [copies EXCEPT ![item] = out]
      BY <1>7 DEF CopyEnds
  <2> QED
      BY <1>3, <1>4, <1>5, <2>1, <2>2
<1>8. UNCHANGED results \/ (outcome' = [outcome EXCEPT ![item] = "skipped"] /\ copies' = copies)
      \/ (CopyEnds /\ remaining = 0)
    BY DEF Next, Step, Opening, Listing, Copying, vars, SourceStat, results,
           SourceOpen, ValidatePaths, OpenDatabase, ReadClusterSize, Plan,
           PlanFails, EnsureComponent,
           MkdirFails, EnsureDone, LocateRecord, NextItem, OpenOutput, OutputFails,
           CopyResident, NextRun, CopyChunk, CopyEnds, ChangePath, SwapSource, Skip, GiveUp
<1> QED
    BY <1>6, <1>7, <1>8

\* What is called recovered is byte for byte a stream of a whole record with the item's
\* number, for every source, buffer, extents and bytes of data runs: the parser has the
\* runs of the extents, and copy_nonresident follows them.  So it is for every boot sector
\* too, but the bytes are the volume's own only where its two fields multiply to the
\* volume's cluster size; else they lie where read_cluster_size puts them.
THEOREM RecoveredTruly == Spec => []RecoveredIsRecord
<1>1. Init => IInv /\ LocateInv /\ Typing /\ CopyInv /\ RecoveredInv
  <2>1. Init => LocateInv
      BY DEF Init, LocateInv
  <2>2. Init => CopyInv
      BY DEF Init, CopyInv
  <2>3. Init => RecoveredInv
      BY DEF Init, RecoveredInv
  <2> QED
      BY <2>1, <2>2, <2>3, InitInv, InitTyping
<1>2. IInv /\ LocateInv /\ Typing /\ CopyInv /\ RecoveredInv /\ [Next]_vars
          => (IInv /\ LocateInv /\ Typing /\ CopyInv /\ RecoveredInv)'
    BY StepInv, StepLocateInv, StepTyping, StepCopyInv, StepRecovered
<1>3. IInv /\ RecoveredInv => RecoveredIsRecord
  <2> SUFFICES ASSUME IInv, RecoveredInv PROVE RecoveredIsRecord
      OBVIOUS
  <2>1. Clusters = cluster_size
      BY ClustersTyped DEF IInv, Placed
  <2> QED
      BY <2>1 DEF RecoveredInv, IsRecovered, RecoveredIsRecord
<1> QED
    BY <1>1, <1>2, <1>3, PTL DEF Spec
-----------------------------------------------------------------------------
(* What is skipped.                                                        *)

Undisturbed == ~world.faulty /\ ~world.restless

\* The whole records with number n that can be got at.
Candidates(n) ==
    {p \in DOMAIN world.places :
        /\ \A q \in 1..p : q \notin world.unreadable
        /\ Whole(p) /\ Now(p).number = n}

Lost(n, real_size) ==
    \/ Candidates(n) = {}
    \/ \A c : cluster_size = c => ~Intact(Min(Candidates(n)), real_size, c)

\* An entry of the output path that no mkdir will change.
Spoilt(d) ==
    /\ fs[d].kind # "absent"
    /\ fs[d].kind # "dir" \/ reject_source_storage(source, fs[d])

Reason(i) ==
    \/ \E d \in 1..world.items[i].depth : Spoilt(d)
    \/ ~world.items[i].dir /\ Lost(Row(i).record_id_guess, Row(i).real_size)

\* The directories made are safe where the run goes on, the source was searched before
\* the first item, and each item skipped has its reason.
SkipInv ==
    /\ pc = "ensure" /\ depth > 1 => SafeComponent(fs, depth - 1)
    /\ pc = "check" => SafeComponent(fs, Goal)
    /\ pc \in {"next", "check", "copy"} \/ (pc = "ensure" /\ item # 0) =>
          \A n \in Wanted \ DOMAIN found :
              place > Len(world.places) \/ place \in world.unreadable
    /\ pc \in {"check", "copy"} => ~world.items[item].dir
    /\ pc \in Early \cup {"boot", "plan"} => \A i \in DOMAIN world.items : outcome[i] # "skipped"
    /\ Undisturbed => \A i \in DOMAIN world.items : outcome[i] = "skipped" => Reason(i)

\* Only so many numbers are wanted.
LEMMA WantedFinite == ASSUME world \in Worlds PROVE IsFiniteSet(Wanted)
<1> DEFINE F == {j \in DOMAIN world.items : ~world.items[j].dir}
           Kind == [dir : BOOLEAN, depth : Dest..Depth, place : DOMAIN world.places]
           f == [i \in F |-> Row(i).record_id_guess]
<1>1. world.items \in Seq(Kind)
    BY ItemAssumption
<1>2. Len(world.items) \in Nat /\ F \subseteq 1..Len(world.items)
  <2> HIDE DEF Kind
  <2> QED
      BY <1>1
<1>3. IsFiniteSet(F)
    BY <1>2, FS_Interval, FS_Subset
<1>4. Wanted = {f[i] : i \in F}
    BY DEF Wanted
<1>5. f \in Surjection(F, Wanted)
    BY <1>4 DEF Surjection, Range
<1> HIDE DEF F, f
<1> QED
    BY <1>3, <1>5, FS_Surjection

\* The search ends with every number found, or at a place that cannot be read.
LEMMA SearchEnds ==
    ASSUME world \in Worlds, Typing, LocateInv,
           ~(/\ Cardinality(DOMAIN found) < Cardinality(Wanted)
             /\ place <= Len(world.places) /\ ReadExactly(place))
    PROVE  \A n \in Wanted \ DOMAIN found :
              place > Len(world.places) \/ place \in world.unreadable
<1>1. IsFiniteSet(Wanted) /\ DOMAIN found \in SUBSET Wanted
    BY WantedFinite DEF Typing
<1>2. /\ Cardinality(DOMAIN found) <= Cardinality(Wanted)
      /\ Cardinality(Wanted) = Cardinality(DOMAIN found) => Wanted = DOMAIN found
      /\ IsFiniteSet(DOMAIN found)
    BY <1>1, FS_Subset
<1>3. Cardinality(Wanted) \in Nat /\ Cardinality(DOMAIN found) \in Nat
    BY <1>1, <1>2, FS_CardinalityType
<1>4. Len(world.places) \in Nat /\ place \in Nat
    BY RecordAssumption DEF LocateInv
<1>5. CASE ~(Cardinality(DOMAIN found) < Cardinality(Wanted))
    BY <1>2, <1>3, <1>5
<1>6. CASE ~(place <= Len(world.places) /\ ReadExactly(place))
    BY <1>4, <1>6 DEF ReadExactly
<1> QED
    BY <1>5, <1>6

\* What is not found is not there.
LEMMA NotFound ==
    ASSUME world \in Worlds, LocateInv, NEW n \in Wanted \ DOMAIN found,
           place > Len(world.places) \/ place \in world.unreadable
    PROVE  Candidates(n) = {}
<1> SUFFICES ASSUME NEW p \in Candidates(n) PROVE FALSE
    OBVIOUS
<1>1. p \in DOMAIN world.places /\ Whole(p) /\ Now(p).number = n
    BY Zenon DEF Candidates
<1>2. \A q \in 1..p : q \notin world.unreadable
    BY Zenon DEF Candidates
<1>3. DOMAIN world.places = 1..Len(world.places) /\ Len(world.places) \in Nat
    BY RecordAssumption
<1>4. place \in Nat \ {0}
    BY Zenon DEF LocateInv
<1>5. Matches(p, n)
    BY <1>1 DEF Matches, restored_record, restore_usa, Whole, IsWhole
<1>6. p \notin 1..(place - 1)
    BY <1>5 DEF LocateInv
<1>7. p \in Nat /\ 1 <= p /\ p <= Len(world.places)
    BY <1>1, <1>3
<1>8. place <= p
    BY <1>4, <1>6, <1>7
<1>9. place \in 1..p /\ ~(place > Len(world.places))
    BY <1>3, <1>4, <1>7, <1>8
<1> QED
    BY <1>2, <1>9, Zenon

\* What is found is the first that can be got at.
LEMMA FoundFirst ==
    ASSUME world \in Worlds, LocateInv, Typing, NEW n \in DOMAIN found
    PROVE  Candidates(n) # {} /\ Min(Candidates(n)) = found[n]
<1> DEFINE p == found[n]
           T == Candidates(n)
<1>1. p \in 1..Len(world.places) /\ Whole(p) /\ Now(p).number = n
    BY LocatedWhole DEF Typing
<1>2. p \in 1..(place - 1) /\ place \in Nat \ {0} /\ \A q \in 1..(p - 1) : ~Matches(q, n)
    BY DEF LocateInv
<1>3. \A q \in 1..(place - 1) : q \notin world.unreadable
    BY DEF LocateInv
<1>4. \A q \in 1..p : q \notin world.unreadable
    BY <1>2, <1>3
<1>5. DOMAIN world.places = 1..Len(world.places) /\ Len(world.places) \in Nat
    BY RecordAssumption
<1>6. p \in T
    BY <1>1, <1>4, <1>5 DEF Candidates
<1>7. ASSUME NEW q \in T PROVE q \in Nat /\ p <= q
  <2>1. q \in 1..Len(world.places) /\ Whole(q) /\ Now(q).number = n
      BY <1>5 DEF Candidates
  <2>2. Matches(q, n)
      BY <2>1 DEF Matches, restored_record, restore_usa, Whole, IsWhole
  <2>3. q \notin 1..(p - 1)
      BY <1>2, <2>2
  <2> QED
      BY <1>2, <2>1, <2>3
<1> HIDE DEF T, p
<1>8. \A x \in T : (\A y \in T : x <= y) <=> x = p
  <2>1. p \in Nat
      BY <1>2
  <2> QED
      BY <1>6, <1>7, <2>1
<1>9. Min(T) = p
    BY <1>6, <1>8 DEF Min
<1> QED
    BY <1>6, <1>9 DEF T, p

\* A stream that cannot be copied loses the item.
LEMMA LostStream ==
    ASSUME world \in Worlds, LocateInv, Typing, NEW c, cluster_size = c,
           NEW a, ChosenFor(a), NEW real_size,
           ~(Obtainable(a, c) /\ (real_size = 0 \/ a.size <= real_size))
    PROVE  Lost(Row(item).record_id_guess, real_size)
<1> DEFINE n == Row(item).record_id_guess
           p == found[n]
           attributes == Now(p).attributes
           streams == {i \in DOMAIN attributes :
                        /\ IsStream(attributes[i])
                        /\ \A j \in 1..i : attributes[j].fits}
<1>1. PICK i : n \in DOMAIN found /\ IsSound(a) /\ Gets(Now(p), i) /\ attributes[i] = a
    BY DEF ChosenFor
<1>2. p \in 1..Len(world.places) /\ Candidates(n) # {} /\ Min(Candidates(n)) = p
  <2> HIDE DEF n
  <2> QED
    BY <1>1, LocatedWhole, FoundFirst DEF Typing
<1>3. attributes \in Seq(Attributes)
    BY <1>2, NowRecord DEF IsRecord
<1>4. i \in streams
  <2>1. i \in 1..Len(attributes) /\ \A j \in 1..i : attributes[j].fits
      BY <1>1 DEF Gets
  <2>2. IsStream(attributes[i])
      BY <1>1 DEF IsSound, IsStream
  <2> HIDE DEF attributes
  <2> QED
      BY <1>3, <2>1, <2>2
<1>5. ~Intact(p, real_size, c)
  <2>1. Intact(p, real_size, c) =>
            Obtainable(attributes[i], c) /\ (real_size = 0 \/ attributes[i].size <= real_size)
      BY <1>4 DEF Intact
  <2> QED
      BY <1>1, <2>1
<1> QED
    BY <1>1, <1>2, <1>5 DEF Lost

\* What a file is skipped for: at its opening, at a run of its data, at a chunk of one.
LEMMA OpenOutputReason ==
    ASSUME IInv, LocateInv, Typing, SkipInv, OpenOutput, pc' # "copy",
           item \in DOMAIN world.items
    PROVE  Lost(Row(item).record_id_guess, Row(item).real_size)
<1> DEFINE n == Row(item).record_id_guess
           real_size == Row(item).real_size
           raw == Now(found[n])
<1>1. world \in Worlds
    BY DEF IInv, Placed
<1>2. PICK attributes \in {Located(n)} :
         ~(/\ validate_destination_path(source, fs, Goal)
           /\ attributes # <<>>
           /\ real_size = 0 \/ real_size >= attributes[1].real_size)
    BY DEF OpenOutput, Goto
<1>3. validate_destination_path(source, fs, Goal)
    BY DEF SkipInv, OpenOutput, SafeComponent
<1>4. ~world.items[item].dir /\ n \in Wanted
    BY DEF SkipInv, OpenOutput, Wanted
<1>5. CASE n \notin DOMAIN found
  <2>1. place > Len(world.places) \/ place \in world.unreadable
      BY <1>4, <1>5 DEF SkipInv, OpenOutput
  <2> QED
      BY <1>1, <1>4, <1>5, <2>1, NotFound DEF Lost
<1>6. CASE n \in DOMAIN found
  <2>1. attributes = data_attributes(raw)
      BY <1>2, <1>6 DEF Located
  <2> HIDE DEF n
  <2>2. found[n] \in 1..Len(world.places) /\ Whole(found[n])
        /\ Candidates(n) # {} /\ Min(Candidates(n)) = found[n]
      BY <1>1, <1>6, LocatedWhole, FoundFirst DEF Typing
  <2>3. IsRecord(raw, Attributes) /\ restored_record(raw)
      BY <1>1, <2>2, NowRecord DEF restored_record, restore_usa, Whole, IsWhole
  <2>4. CASE attributes = <<>>
    <3>1. \A i : Gets(raw, i) => ~IsSound(raw.attributes[i])
      <4> HIDE DEF raw
      <4> QED
        BY <2>1, <2>3, <2>4, FirstData
    <3>2. raw.attributes \in Seq(Attributes)
        BY <2>3 DEF IsRecord
    <3>3. \A c : ~Intact(found[n], real_size, c)
      <4> DEFINE attributes_ == raw.attributes
                 streams == {i \in DOMAIN attributes_ :
                                /\ IsStream(attributes_[i])
                                /\ \A j \in 1..i : attributes_[j].fits}
      <4>1. streams = {}
        <5>1. DOMAIN attributes_ = 1..Len(attributes_)
          <6> HIDE DEF attributes_
          <6>1. attributes_ \in Seq(Attributes) => DOMAIN attributes_ = 1..Len(attributes_)
              OBVIOUS
          <6> QED
              BY <3>2, <6>1 DEF attributes_
        <5>2. \A i \in DOMAIN attributes_ : (\A j \in 1..i : attributes_[j].fits) => Gets(raw, i)
            BY <5>1 DEF Gets
        <5>3. \A a : IsStream(a) => IsSound(a)
            BY DEF IsStream, IsSound
        <5> QED
            BY <3>1, <5>2, <5>3
      <4> QED
          BY <4>1 DEF Intact
    <3> QED
        BY <2>2, <3>3 DEF Lost, n
  <2>5. CASE attributes # <<>> /\ real_size # 0 /\ ~(real_size >= attributes[1].real_size)
    <3>1. PICK i : /\ Gets(raw, i) /\ IsSound(raw.attributes[i])
                   /\ attributes[1] = DataOf(raw.attributes[i])
      <4> HIDE DEF raw
      <4> QED
        BY <2>1, <2>3, <2>5, FirstData
    <3> DEFINE a == raw.attributes[i]
    <3>2. ChosenFor(a)
        BY <1>6, <3>1 DEF ChosenFor, n
    <3> HIDE DEF a
    <3>3. attributes[1].real_size = a.size
      <4>1. attributes[1] = DataOf(a)
          BY <3>1 DEF a
      <4>2. DataOf(a).real_size = a.size
          BY DEF DataOf
      <4> QED
          BY <4>1, <4>2
    <3>4. ~(a.size <= real_size)
        BY <2>5, <3>3
    <3> QED
        BY <1>1, <2>5, <3>2, <3>4, LostStream
  <2> QED
      BY <1>2, <1>3, <2>4, <2>5
<1> QED
    BY <1>5, <1>6

LEMMA NextRunReason ==
    ASSUME Typing, NextRun, pc' # "copy", NEW c \in Nat, cluster_size = c,
           NEW a \in Attributes, IsSound(a), Follows(a, c)
    PROVE  ~Obtainable(a, c)
<1> DEFINE next == data.runs[run + 1]
           e == a.extents[run + 1]
<1>1. /\ ~data.resident /\ run < Len(data.runs)
      /\ \/ checked_mul(next.cluster_count, c) = Overflow
         \/ ~next.sparse /\ checked_mul(next.lcn, c) = Overflow
    BY DEF NextRun, Skip, Goto
<1>2. data = DataOf(a) /\ ~a.resident
    BY <1>1, ResidentData DEF Follows
<1>4. PICK at : Layout(at, a, c)
    BY <1>2 DEF Follows
<1>5. Len(a.extents) \in Nat /\ Len(data.runs) = Len(a.extents)
    BY <1>2, <1>4, RunAt DEF Layout
<1>6. run + 1 \in 1..Len(a.extents)
    BY <1>1, <1>5 DEF Typing
<1>7. next.cluster_count = e.count /\ (next.sparse <=> e.lcn = Hole)
      /\ (e.lcn # Hole => next.lcn = e.lcn)
    BY <1>2, <1>5, <1>6, RunAt
<1>8. e.count \in Nat /\ (e.lcn \in Nat \/ e.lcn = Hole)
    BY <1>4, <1>6 DEF Layout, RunLayout
<1>9. \A x \in Nat : checked_mul(x, c) = Overflow => ~(x * c <= Maximum)
  <2> SUFFICES ASSUME NEW x \in Nat, checked_mul(x, c) = Overflow
               PROVE  ~(x * c <= Maximum)
      OBVIOUS
  <2>1. x * c \in Nat /\ Maximum \in Nat
      BY Times, MaximumValue
  <2> DEFINE y == x * c
  <2>2. (IF y > Maximum THEN Overflow ELSE y) = Overflow
      BY DEF checked_mul
  <2> HIDE DEF y
  <2>3. y \in Nat
      BY <2>1 DEF y
  <2>4. ~(y <= Maximum)
      BY <2>1, <2>2, <2>3 DEF Overflow
  <2> QED
      BY <2>4 DEF y
<1> HIDE DEF next, e
<1>10. ~(e.count * c <= Maximum) \/ ~(e.lcn * c <= Maximum)
    BY <1>1, <1>7, <1>8, <1>9 DEF next
<1>11. e \in Range(a.extents)
  <2>1. run + 1 \in DOMAIN a.extents
    <3>1. a.extents \in Seq(Extents)
        BY <1>2, ExtentsOf
    <3> QED
        BY <1>6, <3>1
  <2> QED
      BY <2>1 DEF Range, e
<1> QED
    BY <1>2, <1>10, <1>11 DEF Obtainable

LEMMA CopyChunkReason ==
    ASSUME world \in Worlds, Typing, CopyChunk, pc' # "copy", NEW c \in Nat,
           NEW a \in Attributes, Follows(a, c)
    PROVE  ~Obtainable(a, c)
<1> DEFINE chunk == Min({to_copy, Buffer})
           whole == AllBytes(a, c)
<1>1. to_copy > 0 /\ ~Readable(offset, chunk)
    BY DEF CopyChunk, Goto
<1>2. data = DataOf(a) /\ ~a.resident
    BY <1>1, ResidentData DEF Follows, Typing
<1>3. PICK at : Layout(at, a, c) /\ Position(a, at, c)
    BY <1>2 DEF Follows
<1>4. \A k \in 1..to_copy : whole[Len(out) + k] = offset + k
    BY <1>1, <1>3, BytesAhead
<1>5. chunk \in Nat /\ chunk <= to_copy /\ chunk > 0
  <2>1. to_copy \in Nat /\ Buffer \in Nat /\ Buffer > 0
      BY SizeAssumption DEF Typing
  <2>2. chunk \in Nat /\ chunk <= to_copy /\ (chunk = to_copy \/ chunk = Buffer)
      BY <2>1, LesserOf
  <2> QED
      BY <1>1, <2>1, <2>2
<1>6. /\ Len(out) \in Nat /\ to_copy \in Nat /\ remaining \in Nat /\ offset \in Nat
      /\ to_copy <= remaining
    BY DEF Typing
<1>7. Len(out) + remaining = a.size
    BY <1>3 DEF Position
<1>8. world.size \in Nat
    BY RecordAssumption
<1> HIDE DEF chunk, whole
<1>9. \E k \in 1..chunk : ~Readable(offset + k - 1, 1)
  <2>1. CASE ~(offset + chunk <= world.size)
    <3>1. chunk \in 1..chunk /\ ~((offset + chunk - 1) + 1 <= world.size)
        BY <1>5, <1>6, <1>8, <2>1
    <3> QED
        BY <3>1 DEF Readable
  <2>2. CASE \E byte \in world.damaged : byte \in offset..(offset + chunk - 1)
    <3>1. PICK byte \in world.damaged : byte \in offset..(offset + chunk - 1)
        BY <2>2
    <3>2. byte - offset + 1 \in 1..chunk /\ offset + (byte - offset + 1) - 1 = byte
          /\ byte \in byte..(byte + 1 - 1)
        BY <1>5, <1>6, <3>1
    <3>3. ~Readable(byte, 1)
        BY <3>1, <3>2 DEF Readable
    <3> QED
        BY <3>2, <3>3
  <2> QED
      BY <1>1, <2>1, <2>2 DEF Readable
<1>10. PICK k \in 1..chunk : ~Readable(offset + k - 1, 1)
    BY <1>9
<1>11. k \in 1..to_copy /\ Len(out) + k \in 1..a.size /\ offset + k # 0
    BY <1>5, <1>6, <1>7
<1>12. whole[Len(out) + k] = offset + k
    BY <1>4, <1>11
<1>13. Obtainable(a, c) => \A j \in 1..a.size : whole[j] = 0 \/ Readable(whole[j] - 1, 1)
    BY <1>2 DEF Obtainable, whole
<1> DEFINE j == Len(out) + k
<1>14. j \in 1..a.size /\ whole[j] = offset + k /\ whole[j] # 0
    BY <1>11, <1>12
<1>15. ~Readable(whole[j] - 1, 1)
  <2> HIDE DEF j
  <2>1. whole[j] - 1 = offset + k - 1
    <3>1. offset \in Nat /\ k \in Nat
        BY <1>5, <1>6
    <3> QED
        BY <1>14, <3>1
  <2> QED
      BY <1>10, <2>1, Zenon
<1> HIDE DEF j
<1> QED
    BY <1>13, <1>14, <1>15

LEMMA CopyEndsReason ==
    ASSUME Typing, CopyEnds, remaining # 0, NEW c \in Nat, NEW a \in Attributes, Follows(a, c)
    PROVE  ~Obtainable(a, c)
<1>1. ~data.resident /\ run = Len(data.runs) /\ to_copy = 0
    BY DEF CopyEnds
<1>2. data = DataOf(a) /\ ~a.resident
    BY <1>1, ResidentData DEF Follows
<1>3. PICK at : Layout(at, a, c) /\ Position(a, at, c)
    BY <1>2 DEF Follows
<1>4. Len(a.extents) \in Nat /\ AllBytes(a, c) \in Seq(Nat)
      /\ at[Len(a.extents)] = Len(AllBytes(a, c))
    BY <1>3 DEF Layout
<1>5. Len(data.runs) = Len(a.extents)
    BY <1>2, <1>4, RunAt
<1>6. Len(out) = Len(AllBytes(a, c)) /\ Len(out) + remaining = a.size
    BY <1>1, <1>3, <1>4, <1>5 DEF Position
<1>7. Len(out) \in Nat /\ remaining \in Nat
    BY DEF Typing
<1>8. ~(Len(AllBytes(a, c)) >= a.size)
    BY <1>6, <1>7
<1> QED
    BY <1>8 DEF Obtainable

\* A reason to skip stays one.
LEMMA ReasonsStay ==
    ASSUME UNCHANGED <<world, source>>, \A d : Spoilt(d) => (Spoilt(d))'
    PROVE  /\ Wanted' = Wanted /\ Undisturbed' = Undisturbed
           /\ \A n, real_size : Lost(n, real_size) => (Lost(n, real_size))'
           /\ \A i : Reason(i) => (Reason(i))'
<1>1. Wanted' = Wanted /\ Undisturbed' = Undisturbed
    BY DEF Wanted, Row, Undisturbed
<1>2. \A n : (Candidates(n))' = Candidates(n)
    BY DEF Candidates, Whole, Now
<1>3. \A p, real_size, c : (Intact(p, real_size, c))' <=> Intact(p, real_size, c)
    BY DEF Intact, Now, Obtainable, Readable
<1>4. \A n, real_size : Lost(n, real_size) => (Lost(n, real_size))'
    BY <1>2, <1>3 DEF Lost, cluster_size
<1>5. \A i : (Row(i))' = Row(i)
    BY DEF Row
<1> QED
    BY <1>1, <1>4, <1>5 DEF Reason

\* A step that only skips this item.
LEMMA SkipKeeps ==
    ASSUME SkipInv, Typing, Skip, UNCHANGED <<place, found, source, item>>,
           \A d : Spoilt(d) => (Spoilt(d))',
           pc \in {"check", "copy"} \/ (pc = "ensure" /\ item # 0),
           Undisturbed => (Reason(item))'
    PROVE  SkipInv'
<1>1. UNCHANGED <<world, source>> /\ pc' = "next"
      /\ outcome' = [outcome EXCEPT ![item] = "skipped"]
    BY DEF Skip, Goto
<1>2. /\ Wanted' = Wanted /\ Undisturbed' = Undisturbed
      /\ \A i : Reason(i) => (Reason(i))'
    BY <1>1, ReasonsStay
<1>3. outcome \in [DOMAIN world.items -> {"none", "recovered", "skipped"}]
    BY DEF Typing
<1>4. \A n \in Wanted \ DOMAIN found : place > Len(world.places) \/ place \in world.unreadable
    BY DEF SkipInv
<1>5. Undisturbed => \A i \in DOMAIN world.items : outcome'[i] = "skipped" => (Reason(i))'
  <2> SUFFICES ASSUME Undisturbed, NEW i \in DOMAIN world.items, outcome'[i] = "skipped"
               PROVE  (Reason(i))'
      OBVIOUS
  <2>1. CASE i = item
    <3>1. (i = item)'
        BY <2>1
    <3> QED
        BY <3>1, <2>1
  <2>2. CASE i # item
      BY <1>1, <1>2, <1>3, <2>2 DEF SkipInv
  <2> QED
      BY <2>1, <2>2
<1> QED
    BY <1>1, <1>2, <1>4, <1>5 DEF SkipInv, Early

\* The steps that skip nothing keep every reason.
LEMMA OutcomesKeep ==
    ASSUME SkipInv, UNCHANGED <<world, source, outcome>>, \A d : Spoilt(d) => (Spoilt(d))'
    PROVE  /\ Wanted' = Wanted
           /\ Undisturbed' => \A i \in DOMAIN world'.items :
                 outcome'[i] = "skipped" => (Reason(i))'
  BY ReasonsStay DEF SkipInv

\* A directory seen unsafe stays so while the path and the source do.
LEMMA SpoiltStays ==
    ASSUME UNCHANGED <<fs, source>> PROVE \A d : Spoilt(d) => (Spoilt(d))'
  BY DEF Spoilt

LEMMA EnsureComponentSkip ==
    ASSUME IInv, Typing, SkipInv, EnsureComponent PROVE SkipInv'
<1>1. /\ pc = "ensure" /\ depth <= Goal /\ fs' = Made
      /\ UNCHANGED <<world, source, item, place, found>>
    BY DEF EnsureComponent, GiveUp, Skip, Goto, opening, locating
<1>2. depth \in 1..Depth /\ Goal \in 1..Depth
    BY <1>1, GoalDepth, SizeAssumption DEF IInv, Placed
<1>3. Made \in Paths /\ fs \in Paths
    BY <1>2, MadeIsPath DEF IInv, Placed
<1>4. \A d : Spoilt(d) => (Spoilt(d))'
  <2> SUFFICES ASSUME NEW d, Spoilt(d) PROVE Made[d] = fs[d]
      BY <1>1 DEF Spoilt
  <2>1. fs[depth].kind = "absent" => d # depth
      BY DEF Spoilt
  <2> QED
      BY <2>1 DEF Made
<1>5. CASE SafeComponent(Made, depth)
  <2>1. depth' = depth + 1 /\ pc' = "ensure" /\ outcome' = outcome
      BY <1>5 DEF EnsureComponent, Goto, results
  <2>2. depth' - 1 = depth
      BY <1>2, <2>1
  <2>3. (SafeComponent(fs, depth - 1))'
    <3>1. SafeComponent(fs', depth' - 1) <=> SafeComponent(Made, depth)
        BY <1>1, <2>2
    <3> QED
        BY <1>1, <1>5, <3>1 DEF SafeComponent
  <2>4. Wanted' = Wanted
        /\ (Undisturbed' => \A i \in DOMAIN world'.items : outcome'[i] = "skipped" => (Reason(i))')
      BY <1>1, <1>4, <2>1, OutcomesKeep
  <2> QED
      BY <1>1, <2>1, <2>3, <2>4 DEF SkipInv, Early
<1>6. CASE ~SafeComponent(Made, depth)
  <2>1. GiveUp
      BY <1>6 DEF EnsureComponent
  <2>2. CASE item = 0
    <3>1. pc' = "failed" /\ outcome' = outcome
        BY <2>1, <2>2 DEF GiveUp, Goto, results
    <3>2. Undisturbed' => \A i \in DOMAIN world'.items :
                              outcome'[i] = "skipped" => (Reason(i))'
        BY <1>1, <1>4, <3>1, OutcomesKeep
    <3>3. /\ pc' # "ensure" /\ pc' # "check"
          /\ pc' \notin {"check", "copy"} /\ pc' \notin {"next", "check", "copy"}
          /\ pc' \notin Early \cup {"boot", "plan"}
        BY <3>1 DEF Early
    <3> QED
        BY ONLY <3>2, <3>3, Zenon DEF SkipInv
  <2>3. CASE item # 0
    <3>1. Skip
        BY <2>1, <2>3 DEF GiveUp
    <3>2. Made[depth].kind # "absent"
        BY <1>2, <1>3 DEF Made, Paths
    <3>3. Made[depth].kind = "dir" => reject_source_storage(source, Made[depth])
      <4> SUFFICES ASSUME Made[depth].kind = "dir"
                   PROVE  reject_source_storage(source, Made[depth])
          OBVIOUS
      <4>1. existing_ancestor(Made, depth) = Made[depth]
          BY <1>2, <1>3, OwnAncestor
      <4> QED
          BY <1>6, <4>1 DEF SafeComponent, validate_destination_path, reject_source_alias,
                            IsDirectory
    <3>4. (Spoilt(depth))'
      <4>1. depth' = depth
          BY <1>6 DEF EnsureComponent
      <4>2. fs'[depth'] = Made[depth]
          BY <1>1, <4>1
      <4> QED
          BY <1>1, <3>2, <3>3, <4>2 DEF Spoilt, reject_source_storage
    <3>5. (Reason(item))'
      <4>1. depth' = depth
          BY <1>6 DEF EnsureComponent
      <4>2. depth \in 1..world.items[item].depth
          BY <1>1, <1>2, <2>3 DEF Goal
      <4>3. (depth \in 1..world.items[item].depth)'
          BY <1>1, <4>1, <4>2
      <4> QED
          BY <3>4, <4>3 DEF Reason
    <3> QED
        BY <1>1, <1>4, <2>3, <3>1, <3>5, SkipKeeps
  <2> QED
      BY <2>2, <2>3
<1> QED
    BY <1>5, <1>6

LEMMA EnsureDoneSkip ==
    ASSUME IInv, Typing, SkipInv, EnsureDone PROVE SkipInv'
<1>1. /\ pc = "ensure" /\ depth > Goal /\ outcome' = outcome
      /\ UNCHANGED <<world, source, item, place, found, fs>>
      /\ pc' = IF item = 0 THEN "locate" ELSE IF world.items[item].dir THEN "next" ELSE "check"
    BY DEF EnsureDone, Goto, opening, locating, results
<1>2. Goal \in 1..Depth /\ depth = Goal + 1 /\ depth - 1 = Goal /\ depth > 1
    BY <1>1, GoalDepth DEF IInv, Placed
<1>3. SafeComponent(fs, Goal)
    BY <1>1, <1>2 DEF SkipInv
<1>4. (SafeComponent(fs, Goal))'
    BY <1>1, <1>3 DEF SafeComponent, Goal
<1>5. Wanted' = Wanted
      /\ (Undisturbed' => \A i \in DOMAIN world'.items : outcome'[i] = "skipped" => (Reason(i))')
    BY <1>1, SpoiltStays, OutcomesKeep
<1> QED
    BY <1>1, <1>4, <1>5 DEF SkipInv, Early

LEMMA LocateSkip ==
    ASSUME IInv, LocateInv, Typing, SkipInv, LocateRecord PROVE SkipInv'
<1>1. /\ pc = "locate" /\ outcome' = outcome /\ UNCHANGED <<world, source, item, fs>>
      /\ pc' = "locate" \/ (pc' = "next" /\ UNCHANGED locating
                            /\ ~(/\ Cardinality(DOMAIN found) < Cardinality(Wanted)
                                 /\ place <= Len(world.places) /\ ReadExactly(place)))
    BY DEF LocateRecord, Goto, opening, results
<1>2. Wanted' = Wanted
      /\ (Undisturbed' => \A i \in DOMAIN world'.items : outcome'[i] = "skipped" => (Reason(i))')
    BY <1>1, SpoiltStays, OutcomesKeep
<1>3. world \in Worlds
    BY DEF IInv, Placed
<1>4. pc' = "next" => \A n \in Wanted \ DOMAIN found :
                          place > Len(world.places) \/ place \in world.unreadable
    BY <1>1, <1>3, SearchEnds
<1> QED
    BY <1>1, <1>2, <1>4 DEF SkipInv, Early, locating

LEMMA OpenOutputSkip ==
    ASSUME IInv, LocateInv, Typing, CopyInv, SkipInv, OpenOutput, item \in DOMAIN world.items
    PROVE  SkipInv'
<1>1. pc = "check" /\ UNCHANGED <<world, source, item, place, found, fs>>
    BY DEF OpenOutput, Skip, Goto, opening, locating
<1>2. CASE pc' = "copy"
  <2>1. outcome' = outcome
      BY <1>2 DEF OpenOutput, Skip, Goto, results
  <2>2. Wanted' = Wanted
      /\ (Undisturbed' => \A i \in DOMAIN world'.items : outcome'[i] = "skipped" => (Reason(i))')
      BY <1>1, <2>1, SpoiltStays, OutcomesKeep
  <2> QED
      BY <1>1, <1>2, <2>2 DEF SkipInv, Early
<1>3. CASE pc' # "copy"
  <2>1. Skip
      BY <1>3 DEF OpenOutput, Goto
  <2>2. Lost(Row(item).record_id_guess, Row(item).real_size)
      BY <1>3, OpenOutputReason
  <2>3. Reason(item)
      BY <1>1, <2>2 DEF Reason, SkipInv
  <2>4. (Reason(item))'
      BY <1>1, <2>3, SpoiltStays, ReasonsStay
  <2> QED
      BY <1>1, <2>1, <2>4, SpoiltStays, SkipKeeps
<1> QED
    BY <1>2, <1>3

LEMMA CopySkip ==
    ASSUME IInv, LocateInv, Typing, CopyInv, SkipInv, NextRun \/ CopyChunk \/ CopyEnds
    PROVE  SkipInv'
<1>1. pc = "copy" /\ UNCHANGED <<world, source, item, place, found, fs>>
    BY DEF NextRun, CopyChunk, CopyEnds, Skip, Goto, opening, locating
<1>2. PICK c \in Nat, a \in Attributes : cluster_size = c /\ ChosenFor(a) /\ Follows(a, c)
    BY <1>1 DEF CopyInv
<1>3. world \in Worlds
    BY DEF IInv, Placed
<1>4. CASE pc' = "copy" \/ (CopyEnds /\ remaining = 0)
  <2>1. outcome' = outcome
        \/ (outcome' = [outcome EXCEPT ![item] = "recovered"] /\ pc' = "next")
      BY <1>4 DEF NextRun, CopyChunk, CopyEnds, Skip, Goto, results
  <2>2. pc' \in {"copy", "next"}
      BY <1>4 DEF CopyEnds, Goto
  <2>3. Wanted' = Wanted /\ Undisturbed' = Undisturbed /\ \A i : Reason(i) => (Reason(i))'
      BY <1>1, SpoiltStays, ReasonsStay
  <2>4. outcome \in [DOMAIN world.items -> {"none", "recovered", "skipped"}]
      BY DEF Typing
  <2>5. \A i \in DOMAIN world.items : outcome'[i] = "skipped" => outcome[i] = "skipped"
      BY <2>1, <2>4
  <2>6. Undisturbed' => \A i \in DOMAIN world'.items : outcome'[i] = "skipped" => (Reason(i))'
      BY <1>1, <2>3, <2>5 DEF SkipInv
  <2> QED
      BY <1>1, <2>2, <2>3, <2>6 DEF SkipInv, Early
<1>5. CASE pc' # "copy" /\ ~(CopyEnds /\ remaining = 0)
  <2>1. Skip
      BY <1>5 DEF NextRun, CopyChunk, CopyEnds, Goto
  <2>2. ~Obtainable(a, c)
      BY <1>2, <1>3, <1>5, NextRunReason, CopyChunkReason, CopyEndsReason DEF ChosenFor
  <2>3. Lost(Row(item).record_id_guess, Row(item).real_size)
      BY <1>2, <1>3, <2>2, LostStream
  <2>4. Reason(item)
      BY <1>1, <2>3 DEF Reason, SkipInv
  <2>5. (Reason(item))'
      BY <1>1, <2>4, SpoiltStays, ReasonsStay
  <2> QED
      BY <1>1, <2>1, <2>5, SpoiltStays, SkipKeeps
<1> QED
    BY <1>4, <1>5
\* The steps before the first item, when nothing has been skipped.
LEMMA OpeningSkip == ASSUME IInv, SkipInv, Opening PROVE SkipInv'
<1> USE DEF Opening, SourceStat, SourceOpen, ValidatePaths, OpenDatabase, ReadClusterSize, Plan,
           PlanFails, Goto,
            results
<1>1. pc \in Early \cup {"boot", "plan"} /\ UNCHANGED <<world, item, depth, outcome>>
    BY DEF Early
<1>2. \A i \in DOMAIN world'.items : outcome'[i] # "skipped"
    BY <1>1 DEF SkipInv
<1>3. pc' \in Early \cup {"boot", "plan", "ensure"} \cup Ended
    BY DEF Early, Ended
<1>4. item = 0 /\ depth = 1
    BY <1>1 DEF IInv, Placed
<1> QED
    BY <1>1, <1>2, <1>3, <1>4 DEF SkipInv, Early, Ended

LEMMA FaultSkip ==
    ASSUME IInv, Typing, CopyInv, SkipInv, MkdirFails \/ OutputFails PROVE SkipInv'
<1>1. ~Undisturbed /\ UNCHANGED <<world, source, item, place, found, fs>>
      /\ pc \in {"ensure", "copy"} /\ (pc = "copy" => item # 0)
    BY DEF MkdirFails, OutputFails, GiveUp, Skip, Goto, opening, locating, Undisturbed, CopyInv
<1>2. CASE pc = "ensure" /\ item = 0
  <2>1. pc' = "failed" /\ Undisturbed' = Undisturbed
      BY <1>1, <1>2 DEF MkdirFails, OutputFails, GiveUp, Goto, Undisturbed
  <2> QED
      BY <1>1, <2>1 DEF SkipInv, Early
<1>3. CASE ~(pc = "ensure" /\ item = 0)
  <2>1. Skip
      BY <1>1, <1>3 DEF MkdirFails, OutputFails, GiveUp
  <2> QED
      BY <1>1, <1>3, <2>1, SpoiltStays, SkipKeeps
<1> QED
    BY <1>2, <1>3

LEMMA OtherSkip ==
    ASSUME IInv, SkipInv, NextItem \/ CopyResident \/ ChangePath \/ SwapSource \/ UNCHANGED vars
    PROVE  SkipInv'
<1>1. world' = world /\ Wanted' = Wanted /\ Undisturbed' = Undisturbed
    BY DEF NextItem, CopyResident, ChangePath, SwapSource, vars, Goto, Wanted, Row, Undisturbed
<1>2. CASE NextItem \/ CopyResident
  <2>1. UNCHANGED <<world, source, place, found, fs, outcome>>
      BY <1>2 DEF NextItem, CopyResident, Goto, opening, locating, results
  <2>2. Undisturbed' => \A i \in DOMAIN world'.items : outcome'[i] = "skipped" => (Reason(i))'
      BY <2>1, SpoiltStays, OutcomesKeep
  <2>3. CASE NextItem
    <3>1. pc = "next" /\ (pc' = "done" \/ (pc' = "ensure" /\ depth' = 1))
        BY <2>3 DEF NextItem, Goto
    <3> QED
        BY <1>1, <2>1, <2>2, <3>1 DEF SkipInv, Early
  <2>4. CASE CopyResident
    <3>1. pc = "copy" /\ pc' = "copy" /\ item' = item
        BY <2>4 DEF CopyResident, Goto
    <3> QED
        BY <1>1, <2>1, <2>2, <3>1 DEF SkipInv, Early
  <2> QED
      BY <1>2, <2>3, <2>4
<1>3. CASE ChangePath \/ SwapSource
  <2>1. ~Undisturbed /\ UNCHANGED <<world, pc, item, place, found, outcome>>
        /\ pc \in {"plan", "next", "open"}
      BY <1>3 DEF ChangePath, SwapSource, Undisturbed, locating, results
  <2> QED
      BY <1>1, <2>1 DEF SkipInv, Early
<1>4. CASE UNCHANGED vars
  <2>1. UNCHANGED <<world, fs, source, pc, item, depth, place, found, outcome>>
      BY <1>4 DEF vars, opening, locating, results
  <2>2. Undisturbed' => \A i \in DOMAIN world'.items : outcome'[i] = "skipped" => (Reason(i))'
      BY <2>1, SpoiltStays, OutcomesKeep
  <2>3. (SafeComponent(fs, depth - 1))' <=> SafeComponent(fs, depth - 1)
      BY <2>1 DEF SafeComponent
  <2>4. (SafeComponent(fs, Goal))' <=> SafeComponent(fs, Goal)
      BY <2>1 DEF SafeComponent, Goal
  <2> QED
      BY <1>1, <2>1, <2>2, <2>3, <2>4 DEF SkipInv
<1> QED
    BY <1>2, <1>3, <1>4

\* Every step keeps that what is skipped has its reason.
LEMMA StepSkipInv ==
    ASSUME IInv, LocateInv, Typing, CopyInv, SkipInv, [Next]_vars PROVE SkipInv'
<1>1. pc = "check" => item \in DOMAIN world.items
    BY ItemAtHand
<1>2. CASE OpenOutput
  <2>1. item \in DOMAIN world.items
      BY <1>1, <1>2 DEF OpenOutput
  <2> QED
      BY <1>2, <2>1, OpenOutputSkip
<1> QED
    BY <1>2, OpeningSkip, EnsureComponentSkip, FaultSkip, EnsureDoneSkip, LocateSkip,
       CopySkip, OtherSkip
    DEF Next, Step, Listing, Copying

\* Where nothing fails and nobody interferes, nothing is skipped without a reason, for
\* every source, index, output path and boot sector that the run accepts.
THEOREM SkippedForReason == Spec => []NothingMissed
<1>1. Init => IInv /\ LocateInv /\ Typing /\ CopyInv /\ SkipInv
  <2>1. Init => LocateInv
      BY DEF Init, LocateInv
  <2>2. Init => CopyInv
      BY DEF Init, CopyInv
  <2>3. Init => SkipInv
      BY DEF Init, SkipInv
  <2> QED
      BY <2>1, <2>2, <2>3, InitInv, InitTyping
<1>2. IInv /\ LocateInv /\ Typing /\ CopyInv /\ SkipInv /\ [Next]_vars
          => (IInv /\ LocateInv /\ Typing /\ CopyInv /\ SkipInv)'
    BY StepInv, StepLocateInv, StepTyping, StepCopyInv, StepSkipInv
<1>3. IInv /\ SkipInv => NothingMissed
  <2> SUFFICES ASSUME IInv, SkipInv PROVE NothingMissed
      OBVIOUS
  <2>0. Clusters = cluster_size
      BY ClustersTyped DEF IInv, Placed
  <2> SUFFICES ASSUME ~world.faulty, ~world.restless,
                      NEW i \in DOMAIN world.items, outcome[i] = "skipped"
               PROVE  \/ Unsafe(world.items[i])
                      \/ /\ ~world.items[i].dir
                         /\ \/ Candidates(Row(i).record_id_guess) = {}
                            \/ ~Intact(Min(Candidates(Row(i).record_id_guess)),
                                       Row(i).real_size, cluster_size)
      BY <2>0 DEF NothingMissed, Candidates
  <2>1. Reason(i)
      BY DEF SkipInv, Undisturbed
  <2>2. (\E d \in 1..world.items[i].depth : Spoilt(d)) => Unsafe(world.items[i])
      BY DEF Spoilt, Unsafe
  <2> QED
      BY <2>1, <2>2 DEF Reason, Lost
<1> QED
    BY <1>1, <1>2, <1>3, PTL DEF Spec

-----------------------------------------------------------------------------
(* Names.                                                                  *)

\* What the property takes for a name of record `raw`.
IsNameOf(raw, i) ==
    LET a == raw.attributes[i] IN
    /\ a.type = "name" /\ a.resident /\ a.inside
    /\ Characters(a.units) # <<>>
    /\ \A j \in 1..i : raw.attributes[j].fits

NameOf(raw, i) == IF IsNameOf(raw, i) THEN <<raw.attributes[i]>> ELSE <<>>

\* A row says the name of an attribute.
SaysName(row, a) == IsUtf8Of(row.name, Characters(a.units))

Says(V, A) == {x \in V \X A : SaysName(x[1], x[2])}

\* Both are of their kind, and the row says the name.
LEMMA SaysBoth ==
    ASSUME NEW V, NEW A, NEW row, NEW a
    PROVE  <<row, a>> \in Says(V, A) <=> row \in V /\ a \in A /\ SaysName(row, a)
  BY DEF Says

\* A name has code units.
LEMMA NameUnits ==
    ASSUME NEW a, IsAttribute(a), a.type = "name" PROVE a.units \in Seq(CodeUnits)
  BY Zenon DEF IsAttribute

\* Exactly the attributes with characters make rows, and these say them.
LEMMA RowSays ==
    ASSUME NEW raw, NEW at, NEW A, NEW a \in A, IsAttribute(a)
    PROVE  /\ HasRow(a) <=> /\ a.type = "name" /\ a.resident /\ a.inside
                            /\ Characters(a.units) # <<>>
           /\ HasRow(a) => IsUtf8Of(RowOf(raw, at, a).name, Characters(a.units))
<1>1. CASE a.type = "name"
  <2>1. a.units \in Seq(CodeUnits)
      BY <1>1, NameUnits
  <2>2. /\ IsUtf8Of(utf16le_to_utf8(a.units), Characters(a.units))
        /\ utf16le_to_utf8(a.units) = <<>> <=> Characters(a.units) = <<>>
      BY <2>1, NameConverted
  <2>3. RowOf(raw, at, a).name = utf16le_to_utf8(a.units)
      BY DEF RowOf
  <2> QED
      BY <2>2, <2>3, Zenon DEF HasRow
<1>2. CASE a.type # "name"
    BY <1>2, Zenon DEF HasRow
<1> QED
    BY <1>1, <1>2, Zenon

\* The rows of a record and the names on it, one for one.
LEMMA NameSeqs ==
    ASSUME NEW raw, NEW at, NEW A, IsRecord(raw, A), restored_record(raw),
           NEW names, names = FlattenSeq([i \in DOMAIN raw.attributes |-> NameOf(raw, i)])
    PROVE  /\ DOMAIN parse(raw, at) = DOMAIN names
           /\ \A n \in DOMAIN parse(raw, at) :
                 IsUtf8Of(parse(raw, at)[n].name, Characters(names[n].units))
<1> DEFINE V == {RowOf(raw, at, a) : a \in A}
           R == Says(V, A)
           walked == Walked(raw)
           M == Len(walked)
           N == Len(raw.attributes)
           s == [i \in DOMAIN walked |-> RowsOf(raw, at, walked[i])]
           t == [i \in DOMAIN raw.attributes |-> NameOf(raw, i)]
<1>1. /\ raw.attributes \in Seq(A) /\ N \in Nat /\ DOMAIN raw.attributes = 1..N
      /\ \A i \in 1..N : raw.attributes[i] \in A
      /\ \A a \in A : IsAttribute(a)
    BY DEF IsRecord
<1>2. /\ walked \in Seq(A) /\ M \in Nat
      /\ \A i \in 1..M : Gets(raw, i) /\ walked[i] = raw.attributes[i] /\ walked[i] \in A
      /\ \A i : Gets(raw, i) => i \in 1..M
    BY <1>1, WalkedPrefix
<1> HIDE DEF walked
<1>3. DOMAIN walked = 1..M
    BY <1>2
<1>4. M <= N
  <2>1. M # 0 => M \in 1..N
    <3>1. M # 0 => Gets(raw, M)
        BY <1>2
    <3> QED
        BY <3>1 DEF Gets
  <2> QED
      BY <1>1, <1>2, <2>1
<1> HIDE DEF M, N
<1>5. /\ \A i \in 1..M : s[i] = RowsOf(raw, at, walked[i])
      /\ \A i \in 1..N : t[i] = NameOf(raw, i)
    BY <1>1, <1>3
<1>6. \A a \in A : RowOf(raw, at, a) \in V
    OBVIOUS
<1>7. SeqsOver(s, V) /\ Len(s) = M
  <2> HIDE DEF V
  <2>1. \A i \in 1..M : RowsOf(raw, at, walked[i]) \in Seq(V)
    <3>1. \A a \in A : <<RowOf(raw, at, a)>> \in Seq(V)
        BY <1>6
    <3>2. <<>> \in Seq(V)
        OBVIOUS
    <3> QED
        BY <1>2, <3>1, <3>2, Zenon DEF RowsOf
  <2>2. s = [i \in 1..M |-> RowsOf(raw, at, walked[i])]
      BY <1>3
  <2> HIDE DEF s
  <2> QED
      BY <1>2, <2>1, <2>2 DEF SeqsOver
<1>8. SeqsOver(t, A) /\ Len(t) = N
  <2>1. \A i \in 1..N : NameOf(raw, i) \in Seq(A)
    <3>1. \A a \in A : <<a>> \in Seq(A)
        OBVIOUS
    <3>2. <<>> \in Seq(A)
        OBVIOUS
    <3> QED
        BY <1>1, <3>1, <3>2, Zenon DEF NameOf
  <2>2. t = [i \in 1..N |-> NameOf(raw, i)]
      BY <1>1
  <2> HIDE DEF t
  <2> QED
      BY <1>1, <2>1, <2>2 DEF SeqsOver
<1> HIDE DEF s, t, V, R
<1>9. ASSUME NEW i \in 1..M
      PROVE  /\ Len(s[i]) = Len(t[i])
             /\ \A k \in 1..Len(s[i]) : <<s[i][k], t[i][k]>> \in R
  <2> DEFINE a == raw.attributes[i]
  <2>1. /\ s[i] = RowsOf(raw, at, a) /\ t[i] = NameOf(raw, i) /\ Gets(raw, i) /\ a \in A
        /\ IsAttribute(a)
    <3>1. i \in 1..N
        BY <1>1, <1>2, <1>4
    <3> QED
        BY <1>1, <1>2, <1>5, <3>1, Zenon
  <2>2. HasRow(a) <=> IsNameOf(raw, i)
      BY <2>1, RowSays, Zenon DEF IsNameOf, Gets
  <2>3. CASE HasRow(a)
    <3>1. s[i] = <<RowOf(raw, at, a)>> /\ t[i] = <<a>>
        BY <2>1, <2>2, <2>3, Zenon DEF RowsOf, NameOf
    <3>2. IsUtf8Of(RowOf(raw, at, a).name, Characters(a.units))
        BY <2>1, <2>3, RowSays, Zenon
    <3>3. <<RowOf(raw, at, a), a>> \in R
      <4>1. SaysName(RowOf(raw, at, a), a)
          BY <3>2, Zenon DEF SaysName
      <4> QED
          BY <1>6, <2>1, <4>1, SaysBoth, Zenon DEF R
    <3> HIDE DEF a
    <3> QED
        BY <3>1, <3>3
  <2>4. CASE ~HasRow(a)
    <3>1. s[i] = <<>> /\ t[i] = <<>>
        BY <2>1, <2>2, <2>4, Zenon DEF RowsOf, NameOf
    <3> QED
        BY <3>1
  <2> QED
      BY <2>3, <2>4, Zenon
<1>10. ASSUME NEW i \in (M + 1)..N PROVE Len(t[i]) = 0
  <2>1. i \in 1..N /\ i \notin 1..M
      BY <1>1, <1>2
  <2>2. ~Gets(raw, i)
      BY <1>2, <2>1
  <2>3. ~IsNameOf(raw, i)
      BY <2>1, <2>2, Zenon DEF IsNameOf, Gets, N
  <2>4. t[i] = <<>>
      BY <1>5, <2>1, <2>3, Zenon DEF NameOf
  <2> QED
      BY <2>4
<1> DEFINE rows == FlattenSeq(s)
           told == FlattenSeq(t)
<1>11. rows \in Seq(V) /\ told \in Seq(A)
    BY <1>7, <1>8, Flattened
<1>12. /\ Len(rows) = Len(told)
       /\ \A n \in 1..Len(rows) : <<rows[n], told[n]>> \in R
  <2>1. /\ \A i \in 1..M : Len(s[i]) = Len(t[i])
        /\ \A i \in 1..M : \A k \in 1..Len(s[i]) : <<s[i][k], t[i][k]>> \in R
        /\ \A i \in (M + 1)..N : Len(t[i]) = 0
      BY <1>9, <1>10
  <2>2. M = Len(s) /\ N = Len(t) /\ SeqsOver(s, V) /\ SeqsOver(t, A)
      BY <1>7, <1>8, Zenon
  <2> QED
      BY <1>4, <2>1, <2>2, Alongside, Zenon
<1>13. parse(raw, at) = rows /\ names = told
    BY ParseRows DEF s, t, walked
<1> HIDE DEF rows, told
<1>14. DOMAIN rows = 1..Len(rows) /\ DOMAIN told = 1..Len(told)
    BY <1>11
<1>15. ASSUME NEW n \in 1..Len(rows)
       PROVE  IsUtf8Of(rows[n].name, Characters(told[n].units))
    BY <1>12, SaysBoth, Zenon DEF R, SaysName
<1> QED
    BY <1>12, <1>13, <1>14, <1>15, Zenon

\* The names in the index are those on the volume, character for character, for every
\* record, however many names it has and whatever code units they are of.
THEOREM NamesKept == Spec => []NamesSurvive
<1>1. Init => IInv
    BY InitInv
<1>2. IInv /\ [Next]_vars => IInv'
    BY StepInv
<1>3. IInv => NamesSurvive
  <2> SUFFICES ASSUME IInv PROVE NamesSurvive
      OBVIOUS
  <2>1. world \in Worlds
      BY DEF IInv, Placed
  <2>2. DOMAIN world.places = 1..Len(world.places)
      BY <2>1, RecordAssumption
  <2>3. ASSUME NEW p \in 1..Len(world.places), IsWhole(world.places[p]),
               NEW raw, raw = world.places[p], NEW names,
               names = FlattenSeq([i \in DOMAIN raw.attributes |-> NameOf(raw, i)])
        PROVE  /\ DOMAIN parse(raw, p) = DOMAIN names
               /\ \A n \in DOMAIN parse(raw, p) :
                     IsUtf8Of(parse(raw, p)[n].name, Characters(names[n].units))
    <3>1. IsRecord(raw, Attributes)
        BY <2>1, <2>3, NowRecord
    <3>2. restored_record(raw)
        BY <2>3 DEF restored_record, restore_usa, IsWhole
    <3> QED
        BY <2>3, <3>1, <3>2, NameSeqs
  <2> QED
      BY <2>2, <2>3, Zenon DEF NamesSurvive, NameOf, IsNameOf
<1> QED
    BY <1>1, <1>2, <1>3, PTL DEF Spec
=============================================================================
