-------------------------- MODULE ScanIndex_proofs --------------------------
(***************************************************************************)
(* Proofs about ScanIndex, for any scans, any device and any damage.       *)
(***************************************************************************)
EXTENDS ScanIndex, FiniteSetTheorems, TLAPS

\* A scan holds its transaction from BEGIN to COMMIT.
Writing == {"read", "insert", "commit", "commitPart"}

\* What the places read hold, and the names inserted of the record at hand.
Batch(s, n) == Promise!Batch(s, n)
Inserted(s) ==
    IF pc[s] = "insert"
    THEN {<<s, offset[s] + 1, name>> : name \in device[offset[s] + 1] \ left[s]}
    ELSE {}

Locked == \A s \in Scans : pc[s] \in Writing => writer = s
Holder == writer # NoScan => pc[writer] \in Writing \cup {"throw"}
Begun == \A s \in Scans : pc[s] \in {"open", "begin"} => offset[s] = 0 /\ inserted_names[s] = 0
AtHand == \A s \in Scans : pc[s] = "insert" => offset[s] < Size /\ left[s] \subseteq device[offset[s] + 1]
AtEnd == \A s \in Scans : /\ pc[s] = "commit" => offset[s] = Size
                          /\ pc[s] = "commitPart" => offset[s] < Size

\* The rows of the open transaction are its writer's: SQLite keeps one transaction
\* for a connection, so this is of the database and not of the scans.
OwnTransaction ==
    /\ pending # {} => writer # NoScan
    /\ \A row \in pending : row[1] = writer

\* The transaction holds what its scan has read.
PendingIsRead == \A s \in Scans : pc[s] \in Writing => pending = Batch(s, offset[s]) \cup Inserted(s)

\* A scan has not committed before its COMMIT, and "done" follows a whole one.
NotGiven == \A s \in Scans : pc[s] \in {"open", "begin"} \cup Writing => s \notin given
GaveAll == \A s \in Scans : pc[s] \in {"report", "done"} => s \in complete
NoRowsBefore == \A s \in Scans : s \notin given => RowsOf(s) = {}

\* The count follows the rows.
Counted ==
    /\ IsFiniteSet(pending)
    /\ \A s \in Scans :
           /\ pc[s] \in Writing => inserted_names[s] = Cardinality(pending)
           /\ pc[s] \in {"report", "done"} => inserted_names[s] = Cardinality(RowsOf(s))

IInv ==
    /\ TypeOK
    /\ Locked /\ Holder /\ OwnTransaction
    /\ Begun /\ AtHand /\ AtEnd /\ PendingIsRead
    /\ NotGiven /\ GaveAll /\ NoRowsBefore
    /\ Counted

-----------------------------------------------------------------------------
(* Type correctness.                                                       *)

LEMMA TypeInit == Init => TypeOK
  BY ScanAssumption DEF Init, TypeOK

LEMMA TypeStep == TypeOK /\ AtHand /\ [Next]_vars => TypeOK'
  <1> SUFFICES ASSUME TypeOK, AtHand, [Next]_vars PROVE TypeOK'
    OBVIOUS
  <1> USE ScanAssumption DEF TypeOK, Ended
  <1>1. CASE UNCHANGED vars
    BY <1>1 DEF vars, scans, database, log
  <1>2. ASSUME NEW s \in Scans, Open(s) PROVE TypeOK'
    BY <1>2 DEF Open, Goto, database, log
  <1>3. ASSUME NEW s \in Scans, Begin(s) PROVE TypeOK'
    BY <1>3 DEF Begin, Goto, log
  <1>4. ASSUME NEW s \in Scans, Read(s) PROVE TypeOK'
    BY <1>4 DEF Read, Goto, database, log
  <1>5. ASSUME NEW s \in Scans, ReadFails(s) \/ ReadEnd(s) PROVE TypeOK'
    BY <1>5 DEF ReadFails, ReadEnd, Goto, database, log
  <1>6. ASSUME NEW s \in Scans, Insert(s) PROVE TypeOK'
    BY <1>6 DEF Insert, AtHand, log
  <1>7. ASSUME NEW s \in Scans, InsertFails(s) \/ CommitFails(s) PROVE TypeOK'
    BY <1>7 DEF InsertFails, CommitFails, Goto, database, log
  <1>8. ASSUME NEW s \in Scans, Advance(s) PROVE TypeOK'
    BY <1>8 DEF Advance, AtHand, Goto, database, log
  <1>9. ASSUME NEW s \in Scans, Commit(s) PROVE TypeOK'
    BY <1>9 DEF Commit, Goto
  <1>10. ASSUME NEW s \in Scans, Report(s) \/ Throw(s) \/ Kill(s) PROVE TypeOK'
    BY <1>10 DEF Report, Throw, Kill, Close, Goto, log
  <1> QED
    BY <1>1, <1>2, <1>3, <1>4, <1>5, <1>6, <1>7, <1>8, <1>9, <1>10 DEF Next, Run

-----------------------------------------------------------------------------
(* The invariant.                                                          *)

LEMMA InvInit == Init => IInv
  <1> SUFFICES ASSUME Init PROVE IInv
    OBVIOUS
  <1>1. IsFiniteSet(pending)
    BY FS_EmptySet DEF Init
  <1> QED
    BY <1>1, TypeInit DEF Init, IInv, Locked, Holder, OwnTransaction, Begun, AtHand, AtEnd,
       PendingIsRead, NotGiven, GaveAll, NoRowsBefore, Counted, RowsOf, Writing

\* Steps that leave the database and the progress of all scans alone.
Quiet(s) == Open(s) \/ ReadFails(s) \/ ReadEnd(s) \/ InsertFails(s) \/ CommitFails(s)

LEMMA QuietStep ==
    ASSUME IInv, NEW s \in Scans, Quiet(s) PROVE IInv'
  <1>1. TypeOK'
    BY TypeStep DEF IInv, Quiet, Next, Run
  <1>2. /\ UNCHANGED <<device, offset, left, inserted_names, committed, given, complete, pending, writer>>
        /\ \A t \in Scans \ {s} : pc'[t] = pc[t]
        /\ \/ pc[s] = "open" /\ pc'[s] \in {"begin", "throw"}
           \/ pc[s] = "read" /\ pc'[s] = "commitPart" /\ offset[s] < Size
           \/ pc[s] = "read" /\ pc'[s] = "commit" /\ offset[s] = Size
           \/ pc[s] \in {"insert", "commit", "commitPart"} /\ pc'[s] = "throw"
    BY DEF Quiet, Open, ReadFails, ReadEnd, InsertFails, CommitFails, Goto, database, log, IInv, TypeOK
  <1>3. Locked' /\ Holder'
    BY <1>2 DEF IInv, Locked, Holder, Writing, TypeOK
  <1>4. OwnTransaction' /\ NoRowsBefore'
    BY <1>2 DEF IInv, OwnTransaction, NoRowsBefore, RowsOf
  <1>5. Begun' /\ AtHand' /\ AtEnd'
    BY <1>2 DEF IInv, Begun, AtHand, AtEnd
  <1>6. PendingIsRead'
    BY <1>2 DEF IInv, PendingIsRead, Writing, Inserted, Batch, Promise!Batch
  <1>7. NotGiven' /\ GaveAll'
    BY <1>2 DEF IInv, NotGiven, GaveAll, Writing
  <1>8. Counted'
    BY <1>2 DEF IInv, Counted, Writing, RowsOf
  <1> QED
    BY <1>1, <1>3, <1>4, <1>5, <1>6, <1>7, <1>8 DEF IInv

LEMMA BeginStep ==
    ASSUME IInv, NEW s \in Scans, Begin(s) PROVE IInv'
  <1>1. TypeOK'
    BY TypeStep DEF IInv, Next, Run
  <1>2. /\ UNCHANGED <<device, offset, left, inserted_names, committed, given, complete, pending>>
        /\ \A t \in Scans \ {s} : pc'[t] = pc[t]
        /\ pc[s] = "begin"
        /\ \/ pc'[s] = "throw" /\ UNCHANGED writer
           \/ pc'[s] = "read" /\ writer = NoScan /\ writer' = s
    BY DEF Begin, Goto, log, IInv, TypeOK
  <1>3. writer = NoScan => pending = {} /\ \A t \in Scans : pc[t] \notin Writing
    BY ScanAssumption DEF IInv, OwnTransaction, Locked
  <1>4. offset[s] = 0 /\ inserted_names[s] = 0 /\ Batch(s, 0) = {}
    BY <1>2 DEF IInv, Begun, Batch, Promise!Batch
  <1>5. Locked' /\ Holder'
    BY <1>2, <1>3 DEF IInv, Locked, Holder, Writing, TypeOK
  <1>6. OwnTransaction' /\ NoRowsBefore'
    BY <1>2, <1>3 DEF IInv, OwnTransaction, NoRowsBefore, RowsOf
  <1>7. Begun' /\ AtHand' /\ AtEnd'
    BY <1>2 DEF IInv, Begun, AtHand, AtEnd
  <1>8. PendingIsRead'
    BY <1>2, <1>3, <1>4 DEF IInv, PendingIsRead, Writing, Inserted, Batch, Promise!Batch
  <1>9. NotGiven' /\ GaveAll'
    BY <1>2 DEF IInv, NotGiven, GaveAll, Writing
  <1>10. Counted'
    BY <1>2, <1>3, <1>4, FS_EmptySet DEF IInv, Counted, Writing, RowsOf
  <1> QED
    BY <1>1, <1>5, <1>6, <1>7, <1>8, <1>9, <1>10 DEF IInv

\* A read, and the end of a record: the names at hand change, the rows do not.
LEMMA ReadStep ==
    ASSUME IInv, NEW s \in Scans, Read(s) \/ Advance(s) PROVE IInv'
  <1>1. TypeOK'
    BY TypeStep DEF IInv, Next, Run
  <1>2. /\ UNCHANGED <<device, inserted_names, committed, given, complete, pending, writer>>
        /\ \A t \in Scans \ {s} : pc'[t] = pc[t] /\ offset'[t] = offset[t] /\ left'[t] = left[t]
        /\ \/ /\ pc[s] = "read" /\ pc'[s] = "insert" /\ offset'[s] = offset[s]
              /\ offset[s] < Size /\ left'[s] = device[offset[s] + 1]
           \/ /\ pc[s] = "insert" /\ pc'[s] = "read" /\ offset'[s] = offset[s] + 1
              /\ left[s] = {} /\ left'[s] = {}
    BY DEF Read, Advance, Goto, database, log, IInv, TypeOK
  <1>3. Locked' /\ Holder'
    BY <1>2 DEF IInv, Locked, Holder, Writing, TypeOK
  <1>4. OwnTransaction' /\ NoRowsBefore'
    BY <1>2 DEF IInv, OwnTransaction, NoRowsBefore, RowsOf
  <1>5. Begun' /\ AtHand' /\ AtEnd'
    BY <1>2 DEF IInv, Begun, AtHand, AtEnd
  <1>6. PendingIsRead'
    <2>1. SUFFICES ASSUME NEW t \in Scans, pc'[t] \in Writing
                   PROVE  pending' = Batch(t, offset[t])' \cup Inserted(t)'
      BY DEF PendingIsRead
    <2>2. pc[t] \in Writing
      BY <1>2, <2>1 DEF Writing
    <2>3. pending = Batch(t, offset[t]) \cup Inserted(t)
      BY <2>2 DEF IInv, PendingIsRead
    <2>4. CASE t # s
      BY <1>2, <2>3, <2>4 DEF Inserted, Batch, Promise!Batch
    <2>5. CASE t = s /\ pc[s] = "read"
      BY <1>2, <2>3, <2>5 DEF Inserted, Batch, Promise!Batch
    <2>6. CASE t = s /\ pc[s] = "insert"
      <3>1. offset[s] \in 0..Size /\ offset[s] < Size
        BY <2>6 DEF IInv, TypeOK, AtHand
      <3>2. device[offset[s] + 1] \subseteq Names
        BY <3>1, ScanAssumption DEF IInv, TypeOK
      <3>3. Batch(s, offset[s] + 1) =
              Batch(s, offset[s]) \cup {<<s, offset[s] + 1, name>> : name \in device[offset[s] + 1]}
        BY <3>1, <3>2 DEF Batch, Promise!Batch
      <3>4. Inserted(s) = {<<s, offset[s] + 1, name>> : name \in device[offset[s] + 1]}
        BY <1>2, <2>6 DEF Inserted
      <3> QED
        BY <1>2, <2>3, <2>6, <3>3, <3>4 DEF Inserted, Batch, Promise!Batch
    <2> QED
      BY <1>2, <2>4, <2>5, <2>6
  <1>7. NotGiven' /\ GaveAll'
    BY <1>2 DEF IInv, NotGiven, GaveAll, Writing
  <1>8. Counted'
    BY <1>2 DEF IInv, Counted, Writing, RowsOf
  <1> QED
    BY <1>1, <1>3, <1>4, <1>5, <1>6, <1>7, <1>8 DEF IInv

LEMMA InsertStep ==
    ASSUME IInv, NEW s \in Scans, Insert(s) PROVE IInv'
  <1>1. TypeOK'
    BY TypeStep DEF IInv, Next, Run
  <1>2. PICK name \in left[s] :
          /\ pending' = pending \cup {<<s, offset[s] + 1, name>>}
          /\ left' = [left EXCEPT ![s] = @ \ {name}]
    BY DEF Insert
  <1>3. /\ UNCHANGED <<device, pc, offset, committed, given, complete, writer>>
        /\ pc[s] = "insert" /\ left'[s] = left[s] \ {name}
        /\ inserted_names'[s] = inserted_names[s] + 1
        /\ \A t \in Scans \ {s} : left'[t] = left[t] /\ inserted_names'[t] = inserted_names[t]
    BY <1>2 DEF Insert, log, IInv, TypeOK
  <1>4. writer = s /\ \A t \in Scans \ {s} : pc[t] \notin Writing
    BY <1>3 DEF IInv, Locked, Writing
  <1>5. /\ offset[s] \in 0..Size /\ offset[s] < Size
        /\ left[s] \subseteq device[offset[s] + 1] /\ device[offset[s] + 1] \subseteq Names
    BY <1>3, ScanAssumption DEF IInv, TypeOK, AtHand
  <1>6. <<s, offset[s] + 1, name>> \notin pending
    <2>1. pending = Batch(s, offset[s]) \cup
                    {<<s, offset[s] + 1, n>> : n \in device[offset[s] + 1] \ left[s]}
      BY <1>3 DEF IInv, PendingIsRead, Inserted, Writing
    <2>2. <<s, offset[s] + 1, name>> \notin Batch(s, offset[s])
      BY <1>5 DEF Batch, Promise!Batch
    <2> QED
      BY <1>2, <2>1, <2>2
  <1>7. Locked' /\ Holder'
    BY <1>3 DEF IInv, Locked, Holder
  <1>8. OwnTransaction'
    BY <1>2, <1>3, <1>4, ScanAssumption DEF IInv, OwnTransaction
  <1>9. NoRowsBefore' /\ AtEnd' /\ NotGiven' /\ GaveAll'
    BY <1>3 DEF IInv, NoRowsBefore, RowsOf, AtEnd, NotGiven, GaveAll
  <1>10. Begun' /\ AtHand'
    BY <1>3 DEF IInv, Begun, AtHand
  <1>11. PendingIsRead'
    <2>1. pending = Batch(s, offset[s]) \cup
                    {<<s, offset[s] + 1, n>> : n \in device[offset[s] + 1] \ left[s]}
      BY <1>3 DEF IInv, PendingIsRead, Inserted, Writing
    <2>2. device[offset[s] + 1] \ (left[s] \ {name}) = (device[offset[s] + 1] \ left[s]) \cup {name}
      BY <1>2, <1>5
    <2>3. pending' = Batch(s, offset[s])' \cup Inserted(s)'
      BY <1>2, <1>3, <2>1, <2>2 DEF Inserted, Batch, Promise!Batch
    <2> QED
      BY <1>3, <1>4, <2>3 DEF PendingIsRead
  <1>12. Counted'
    <2>1. IsFiniteSet(pending') /\ Cardinality(pending') = Cardinality(pending) + 1
      BY <1>2, <1>6, FS_AddElement DEF IInv, Counted
    <2> QED
      BY <1>3, <1>4, <2>1 DEF IInv, Counted, Writing, RowsOf
  <1> QED
    BY <1>1, <1>7, <1>8, <1>9, <1>10, <1>11, <1>12 DEF IInv

LEMMA CommitStep ==
    ASSUME IInv, NEW s \in Scans, Commit(s) PROVE IInv'
  <1>1. TypeOK'
    BY TypeStep DEF IInv, Next, Run
  <1>2. /\ UNCHANGED <<device, offset, left, inserted_names>>
        /\ committed' = committed \cup pending /\ pending' = {} /\ writer' = NoScan
        /\ given' = given \cup {s} /\ complete \subseteq complete'
        /\ pc[s] \in {"commit", "commitPart"}
        /\ \A t \in Scans \ {s} : pc'[t] = pc[t]
        /\ \/ pc[s] = "commit" /\ pc'[s] = "report" /\ s \in complete'
           \/ pc[s] = "commitPart" /\ pc'[s] = "throw"
    BY DEF Commit, Goto, IInv, TypeOK
  <1>3. writer = s /\ \A t \in Scans \ {s} : pc[t] \notin Writing
    BY <1>2 DEF IInv, Locked, Writing
  <1>4. /\ \A t \in Scans \ {s} : RowsOf(t)' = RowsOf(t)
        /\ RowsOf(s)' = pending
    <2>1. RowsOf(s) = {}
      BY <1>2 DEF IInv, NotGiven, NoRowsBefore, Writing
    <2>2. \A row \in pending : row[1] = s
      BY <1>3 DEF IInv, OwnTransaction
    <2> QED
      BY <1>2, <2>1, <2>2 DEF RowsOf
  <1>5. \A t \in Scans : pc'[t] \notin Writing
    BY <1>2, <1>3 DEF Writing
  <1>6. Locked' /\ Holder' /\ OwnTransaction' /\ PendingIsRead'
    BY <1>2, <1>5 DEF Locked, Holder, OwnTransaction, PendingIsRead
  <1>7. Begun' /\ AtHand' /\ AtEnd'
    BY <1>2 DEF IInv, Begun, AtHand, AtEnd
  <1>8. NotGiven' /\ GaveAll' /\ NoRowsBefore'
    BY <1>2, <1>4, <1>5 DEF IInv, NotGiven, GaveAll, NoRowsBefore
  <1>9. Counted'
    BY <1>2, <1>3, <1>4, <1>5, FS_EmptySet DEF IInv, Counted, Writing
  <1> QED
    BY <1>1, <1>6, <1>7, <1>8, <1>9 DEF IInv

\* A scan ends, in one way or another.
LEMMA EndStep ==
    ASSUME IInv, NEW s \in Scans, Report(s) \/ Throw(s) \/ Kill(s) PROVE IInv'
  <1>1. TypeOK'
    BY TypeStep DEF IInv, Next, Run
  <1>2. /\ UNCHANGED <<device, offset, left, inserted_names, committed, given, complete>>
        /\ \A t \in Scans \ {s} : pc'[t] = pc[t]
        /\ \/ writer = s /\ writer' = NoScan /\ pending' = {}
           \/ writer # s /\ UNCHANGED <<writer, pending>>
        /\ \/ pc[s] = "report" /\ pc'[s] = "done"
           \/ pc'[s] \in {"failed", "killed"}
    BY DEF Report, Throw, Kill, Close, Goto, log, IInv, TypeOK
  <1>3. Locked' /\ Holder'
    BY <1>2 DEF IInv, Locked, Holder, Writing, TypeOK
  <1>4. OwnTransaction' /\ NoRowsBefore'
    BY <1>2 DEF IInv, OwnTransaction, NoRowsBefore, RowsOf
  <1>5. Begun' /\ AtHand' /\ AtEnd'
    BY <1>2 DEF IInv, Begun, AtHand, AtEnd
  <1>6. \A t \in Scans : pc'[t] \in Writing => t # s /\ pc[t] \in Writing /\ writer = t /\ pending' = pending
    BY <1>2 DEF IInv, Locked, Writing
  <1>7. PendingIsRead'
    BY <1>2, <1>6 DEF IInv, PendingIsRead, Inserted, Batch, Promise!Batch
  <1>8. NotGiven' /\ GaveAll'
    BY <1>2 DEF IInv, NotGiven, GaveAll, Writing
  <1>9. Counted'
    BY <1>2, <1>6, FS_EmptySet DEF IInv, Counted, RowsOf
  <1> QED
    BY <1>1, <1>3, <1>4, <1>5, <1>7, <1>8, <1>9 DEF IInv

LEMMA InvStep == IInv /\ [Next]_vars => IInv'
  <1>1. ASSUME IInv, UNCHANGED vars PROVE IInv'
    <2>1. /\ UNCHANGED <<device, damaged, pc, offset, left, inserted_names>>
          /\ UNCHANGED <<committed, given, complete, pending, writer>>
      BY <1>1 DEF vars, scans, database, log
    <2>2. TypeOK' /\ Locked' /\ Holder' /\ OwnTransaction' /\ Begun' /\ AtHand' /\ AtEnd'
      BY <1>1, <2>1 DEF IInv, TypeOK, Locked, Holder, OwnTransaction, Begun, AtHand, AtEnd
    <2>3. PendingIsRead'
      BY <1>1, <2>1 DEF IInv, PendingIsRead, Inserted, Batch, Promise!Batch
    <2>4. NotGiven' /\ GaveAll' /\ NoRowsBefore' /\ Counted'
      BY <1>1, <2>1 DEF IInv, NotGiven, GaveAll, NoRowsBefore, Counted, RowsOf
    <2> QED
      BY <2>2, <2>3, <2>4 DEF IInv
  <1> QED
    BY <1>1, QuietStep, BeginStep, ReadStep, InsertStep, CommitStep, EndStep DEF Next, Run, Quiet

-----------------------------------------------------------------------------
(* The theorems.                                                           *)

\* The inductive invariant holds of every scan, read error and kill.
THEOREM Safe == Spec => []IInv
  BY InvInit, InvStep, PTL DEF Spec

\* Every variable keeps its type.
THEOREM TypeCorrect == Spec => []TypeOK
  <1>1. IInv => TypeOK
    BY DEF IInv
  <1> QED
    BY Safe, <1>1, PTL

\* Scanner::run: the count of a scan reported done is what the index has of it.
THEOREM CountsAreIndexed == Spec => []CountIsIndexed
  <1>1. IInv => CountIsIndexed
    BY DEF IInv, Counted, CountIsIndexed
  <1> QED
    BY Safe, <1>1, PTL

\* ~Database: no scan that has ended keeps the database locked.
THEOREM LocksReleased == Spec => []NoLockLeft
  <1>1. IInv => NoLockLeft
    BY DEF IInv, Holder, NoLockLeft, Writing, Ended
  <1> QED
    BY Safe, <1>1, PTL

\* One step of the scans is a step of the promise, or none.
LEMMA PromiseStep == IInv /\ [Next]_vars => [Promise!Next]_(Promise!vars)
  <1> SUFFICES ASSUME IInv, [Next]_vars PROVE [Promise!Next]_(Promise!vars)
    OBVIOUS
  <1> DEFINE done == {s \in Scans : pc[s] = "done"}
  <1>1. ASSUME UNCHANGED <<device, committed, given, complete>>, UNCHANGED done
        PROVE  UNCHANGED Promise!vars
    BY <1>1 DEF Promise!vars
  <1>2. CASE UNCHANGED vars
    BY <1>1, <1>2 DEF vars, scans, database, log
  <1>3. ASSUME NEW s \in Scans, Quiet(s) \/ Begin(s) \/ Read(s) \/ Advance(s) \/ Insert(s)
        PROVE  UNCHANGED Promise!vars
    <2>1. UNCHANGED <<device, committed, given, complete>>
      BY <1>3 DEF Quiet, Open, ReadFails, ReadEnd, InsertFails, CommitFails, Begin, Read, Advance,
         Insert, database, log
    <2>2. \A t \in Scans : pc'[t] = "done" <=> pc[t] = "done"
      BY <1>3 DEF Quiet, Open, ReadFails, ReadEnd, InsertFails, CommitFails, Begin, Read, Advance,
         Insert, Goto, IInv, TypeOK
    <2> QED
      BY <1>1, <2>1, <2>2
  <1>4. ASSUME NEW s \in Scans, Throw(s) \/ Kill(s) PROVE UNCHANGED Promise!vars
    <2>1. UNCHANGED <<device, committed, given, complete>>
      BY <1>4 DEF Throw, Kill, Close, log
    <2>2. \A t \in Scans : pc'[t] = "done" <=> pc[t] = "done"
      BY <1>4 DEF Throw, Kill, Goto, Ended, IInv, TypeOK
    <2> QED
      BY <1>1, <2>1, <2>2
  <1>5. ASSUME NEW s \in Scans, Report(s) PROVE Promise!Report(s)
    <2>1. UNCHANGED <<device, committed, given, complete>>
      BY <1>5 DEF Report, Close, log
    <2>2. done' = done \cup {s}
      BY <1>5 DEF Report, Goto, IInv, TypeOK
    <2>3. s \in complete
      BY <1>5 DEF Report, IInv, GaveAll
    <2> QED
      BY <2>1, <2>2, <2>3 DEF Promise!Report
  <1>6. ASSUME NEW s \in Scans, Commit(s) PROVE \E n \in 0..Size : Promise!Give(s, n)
    <2>1. /\ pending = Batch(s, offset[s]) /\ s \notin given
          /\ offset[s] \in 0..Size /\ (pc[s] = "commit" <=> offset[s] = Size)
      <3>1. pc[s] \in {"commit", "commitPart"} /\ offset[s] \in 0..Size /\ s \notin given
        BY <1>6 DEF Commit, IInv, TypeOK, NotGiven, Writing
      <3>2. pending = Batch(s, offset[s])
        BY <3>1 DEF IInv, PendingIsRead, Inserted, Writing
      <3>3. pc[s] = "commit" <=> offset[s] = Size
        BY <3>1, ScanAssumption DEF IInv, AtEnd
      <3> QED
        BY <3>1, <3>2, <3>3
    <2>2. /\ committed' = committed \cup pending /\ given' = given \cup {s}
          /\ complete' = IF pc[s] = "commit" THEN complete \cup {s} ELSE complete
          /\ device' = device
      BY <1>6 DEF Commit
    <2>3. done' = done
      BY <1>6 DEF Commit, Goto, IInv, TypeOK
    <2> QED
      BY <2>1, <2>2, <2>3 DEF Promise!Give, Batch
  <1> QED
    BY <1>2, <1>3, <1>4, <1>5, <1>6 DEF Next, Run, Quiet, Promise!Next

\* Scanner::run and Database keep the promise of the index to its readers.
THEOREM PromiseKept == Spec => Implements
  <1>1. Init => Promise!Init
    BY DEF Init, Promise!Init
  <1> QED
    BY <1>1, Safe, PromiseStep, PTL DEF Spec, Implements, Promise!Spec
=============================================================================
