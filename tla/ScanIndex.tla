----------------------------- MODULE ScanIndex -----------------------------
(***************************************************************************)
(* Scanner::run and the write transaction of Database: scans, each a        *)
(* process or the worker thread of one, read a device record by record and *)
(* insert the names they find into one shared database.                    *)
(*                                                                         *)
(* SQLite itself is external: one writer at a time (BEGIN IMMEDIATE fails  *)
(* at once when there is another, no busy timeout is set), readers see     *)
(* committed rows only (WAL), and closing a connection, or the death of    *)
(* its process, rolls its transaction back.                                *)
(***************************************************************************)
EXTENDS Naturals, FiniteSets

CONSTANTS
    Scans,      \* the scans of the database
    Names,      \* the names records have
    Size,       \* how many places for a record (1024 bytes) the device has
    NoScan      \* nobody writes

ASSUME ScanAssumption == Size \in Nat /\ NoScan \notin Scans

VARIABLES
    device,     \* device[k]: the names parsed at place k, none without a valid record
    damaged,    \* the places that no read returns
    pc,         \* pc[s]: where the scan is
    offset,     \* offset[s]: the places read and indexed
    left,       \* left[s]: names of the record at hand still to insert
    inserted_names,
    committed,  \* the rows a reader finds, each <<scan, place, name>>
    pending,    \* the rows of the open write transaction
    writer,     \* whose transaction that is
    given,      \* history: the scans that committed
    complete    \* history: those of them that had read the whole device

scans == <<pc, offset, left, inserted_names>>
log == <<committed, given, complete>>
database == <<log, pending, writer>>
vars == <<device, damaged, scans, database>>

Ended == {"done", "failed", "killed"}

\* Every variable has its type.
TypeOK ==
    /\ device \in [1..Size -> SUBSET Names] /\ damaged \subseteq 1..Size
    /\ pc \in [Scans -> {"open", "begin", "read", "insert", "commit", "commitPart",
                         "report", "throw"} \cup Ended]
    /\ offset \in [Scans -> 0..Size]
    /\ left \in [Scans -> SUBSET Names]
    /\ inserted_names \in [Scans -> Nat]
    /\ committed \subseteq Scans \X (1..Size) \X Names
    /\ pending \subseteq Scans \X (1..Size) \X Names
    /\ writer \in Scans \cup {NoScan}
    /\ given \subseteq Scans /\ complete \subseteq Scans

Init ==
    /\ device \in [1..Size -> SUBSET Names] /\ damaged \in SUBSET (1..Size)
    /\ pc = [s \in Scans |-> "open"]
    /\ offset = [s \in Scans |-> 0] /\ left = [s \in Scans |-> {}]
    /\ inserted_names = [s \in Scans |-> 0]
    /\ committed = {} /\ pending = {} /\ writer = NoScan
    /\ given = {} /\ complete = {}

-----------------------------------------------------------------------------
(* The database: what SQLite does for a connection.                        *)

Goto(s, to) == pc' = [pc EXCEPT ![s] = to]

\* A slip: the rows inserted so far survive.
SlipClose(s) ==
    IF writer = s
    THEN /\ committed' = committed \cup pending
         /\ pending' = {} /\ writer' = NoScan
         /\ UNCHANGED <<given, complete>>
    ELSE UNCHANGED database

\* ~Database, or the death of the process.
Close(s) ==
    /\ UNCHANGED log
    /\ IF writer = s THEN pending' = {} /\ writer' = NoScan
                     ELSE UNCHANGED <<pending, writer>>

-----------------------------------------------------------------------------
(* Scanner::run of scan s.                                                 *)

\* Source, validate_database_path, Database, initialize.
Open(s) ==
    /\ pc[s] = "open"
    /\ Goto(s, "begin") \/ Goto(s, "throw")
    /\ UNCHANGED <<device, damaged, offset, left, inserted_names, database>>

\* BEGIN IMMEDIATE takes the write lock or fails.
Begin(s) ==
    /\ pc[s] = "begin"
    /\ \/ writer = NoScan /\ writer' = s /\ Goto(s, "read")
       \/ UNCHANGED writer /\ Goto(s, "throw")
    /\ UNCHANGED <<device, damaged, offset, left, inserted_names, log, pending>>

\* A whole record read (EINTR and short reads are retried), and parsed.
Read(s) ==
    /\ pc[s] = "read" /\ offset[s] < Size /\ offset[s] + 1 \notin damaged
    /\ left' = [left EXCEPT ![s] = device[offset[s] + 1]]
    /\ Goto(s, "insert")
    /\ UNCHANGED <<device, damaged, offset, inserted_names, database>>

\* A slip: an unreadable place is read again.
SlipReadFails(s) ==
    /\ pc[s] = "read" /\ offset[s] < Size
    /\ UNCHANGED vars

\* A read error, of a damaged place or a passing one.
ReadFails(s) ==
    /\ pc[s] = "read" /\ offset[s] < Size
    /\ Goto(s, "commitPart")
    /\ UNCHANGED <<device, damaged, offset, left, inserted_names, database>>

\* Fewer than RecordSize bytes were left.
ReadEnd(s) ==
    /\ pc[s] = "read" /\ offset[s] = Size
    /\ Goto(s, "commit")
    /\ UNCHANGED <<device, damaged, offset, left, inserted_names, database>>

\* A slip: only one of a record's names goes in.
SlipInsert(s) ==
    /\ pc[s] = "insert" /\ left[s] # {}
    /\ \E name \in left[s] :
           /\ pending' = pending \cup {<<s, offset[s] + 1, name>>}
           /\ left' = [left EXCEPT ![s] = {}]
    /\ inserted_names' = [inserted_names EXCEPT ![s] = @ + 1]
    /\ UNCHANGED <<device, damaged, pc, offset, log, writer>>

Insert(s) ==
    /\ pc[s] = "insert" /\ left[s] # {}
    /\ \E name \in left[s] :
           /\ pending' = pending \cup {<<s, offset[s] + 1, name>>}
           /\ left' = [left EXCEPT ![s] = @ \ {name}]
    /\ inserted_names' = [inserted_names EXCEPT ![s] = @ + 1]
    /\ UNCHANGED <<device, damaged, pc, offset, log, writer>>

InsertFails(s) ==
    /\ pc[s] = "insert" /\ left[s] # {}
    /\ Goto(s, "throw")
    /\ UNCHANGED <<device, damaged, offset, left, inserted_names, database>>

\* A slip: two places pass for one record.
SlipAdvance(s) ==
    /\ pc[s] = "insert" /\ left[s] = {}
    /\ offset' = [offset EXCEPT ![s] = @ + 2]
    /\ Goto(s, "read")
    /\ UNCHANGED <<device, damaged, left, inserted_names, database>>

\* offset += buffer.size(), and the progress report.
Advance(s) ==
    /\ pc[s] = "insert" /\ left[s] = {}
    /\ offset' = [offset EXCEPT ![s] = @ + 1]
    /\ Goto(s, "read")
    /\ UNCHANGED <<device, damaged, left, inserted_names, database>>

\* commit(), at the end or on the way out of a read error.
Commit(s) ==
    /\ pc[s] \in {"commit", "commitPart"}
    /\ committed' = committed \cup pending
    /\ pending' = {} /\ writer' = NoScan
    /\ given' = given \cup {s}
    /\ complete' = IF pc[s] = "commit" THEN complete \cup {s} ELSE complete
    /\ Goto(s, IF pc[s] = "commit" THEN "report" ELSE "throw")
    /\ UNCHANGED <<device, damaged, offset, left, inserted_names>>

\* A slip: a failing COMMIT goes unnoticed.
SlipCommitFails(s) ==
    /\ pc[s] \in {"commit", "commitPart"}
    /\ Goto(s, IF pc[s] = "commit" THEN "report" ELSE "throw")
    /\ UNCHANGED <<device, damaged, offset, left, inserted_names, database>>

CommitFails(s) ==
    /\ pc[s] \in {"commit", "commitPart"}
    /\ Goto(s, "throw")
    /\ UNCHANGED <<device, damaged, offset, left, inserted_names, database>>

\* "done", and the destructors.
Report(s) ==
    /\ pc[s] = "report"
    /\ Goto(s, "done") /\ Close(s)
    /\ UNCHANGED <<device, damaged, offset, left, inserted_names>>

\* A slip: the connection of a failed scan stays open.
SlipThrow(s) ==
    /\ pc[s] = "throw" /\ Goto(s, "failed")
    /\ UNCHANGED <<device, damaged, offset, left, inserted_names, database>>

\* The exception leaves run, and the destructors.
Throw(s) ==
    /\ pc[s] = "throw"
    /\ Goto(s, "failed") /\ Close(s)
    /\ UNCHANGED <<device, damaged, offset, left, inserted_names>>

\* The process is killed, or the machine loses power.
Kill(s) ==
    /\ pc[s] \notin Ended
    /\ Goto(s, "killed") /\ Close(s)
    /\ UNCHANGED <<device, damaged, offset, left, inserted_names>>

Run(s) ==
    \/ Open(s) \/ Begin(s)
    \/ Read(s) \/ ReadFails(s) \/ ReadEnd(s)
    \/ Insert(s) \/ InsertFails(s) \/ Advance(s)
    \/ Commit(s) \/ CommitFails(s)
    \/ Report(s) \/ Throw(s)

Next == \E s \in Scans : Run(s) \/ Kill(s)

Spec == Init /\ [][Next]_vars

\* A scan that can go on goes on.
FairSpec == Spec /\ \A s \in Scans : WF_vars(Run(s))

-----------------------------------------------------------------------------
(* Properties.                                                             *)

RowsOf(s) == {row \in committed : row[1] = s}

\* "names=" of a scan reported done is the number of rows it has in the index.
CountIsIndexed ==
    \A s \in Scans : pc[s] = "done" => inserted_names[s] = Cardinality(RowsOf(s))

\* However a scan ends, the database is not left locked.
NoLockLeft == writer # NoScan => pc[writer] \notin Ended

\* Every scan ends, damaged places and a locked database notwithstanding.
ScansEnd == \A s \in Scans : <>(pc[s] \in Ended)

\* The index keeps its promise: only whole prefixes of the device appear in it,
\* in one step per scan, and done means all of it.
Promise == INSTANCE IndexPromise WITH
    index <- committed,
    done <- {s \in Scans : pc[s] = "done"}
Implements == Promise!Spec
=============================================================================
