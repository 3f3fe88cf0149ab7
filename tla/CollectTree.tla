---------------------------- MODULE CollectTree ----------------------------
(***************************************************************************)
(* collect_tree: the walk of the index that lists what a recovery (or its  *)
(* dry run) will write, and below which path.                              *)
(*                                                                         *)
(* The index is what scans of damaged volumes left: parent references may  *)
(* form cycles, a record may be its own parent, a record may have several  *)
(* names, and a repeated scan stores the same rows again.  The walk asks   *)
(* for the children of one directory at a time, outside any transaction,   *)
(* so rows that a running scan commits show up from the next query on.     *)
(* sqlite3_step may fail (the database is locked, the disk is at its end): *)
(* the rows then end there, as if there were no more.                      *)
(*                                                                         *)
(* The index is the sequence of its rows; a row's id is its position       *)
(* (INTEGER PRIMARY KEY AUTOINCREMENT).                                    *)
(***************************************************************************)
EXTENDS Naturals, Sequences, FiniteSets

CONSTANTS
    Records,    \* MFT record numbers
    Root,       \* the record below which to recover
    Names,      \* file names, numbers in the order of std::string
    Keys,       \* what collision_key tells apart of a sanitized name
    Key,        \* collision_key(sanitize_name(name))
    Indexes,    \* the indexes the walk may find
    Commits     \* the batches of rows that a scan may commit during the walk

Rows == [record : Records, parent : Records, name : Names,
         dos : BOOLEAN, dir : BOOLEAN]

ASSUME CollectAssumption ==
    /\ Root \in Records
    /\ Names \subseteq Nat
    /\ Key \in [Names -> Keys]
    /\ Indexes \subseteq Seq(Rows) /\ Commits \subseteq Seq(Rows)

VARIABLES
    db,         \* the committed rows
    before,     \* history: the rows committed when the walk began
    scanning,   \* TRUE while a scan that has not committed yet runs
    lost,       \* history: the records whose query failed on the way
    state,      \* "start", "walk", "listed", "collision" or "no_root"
    stack,      \* active calls of collect_tree, the innermost one first
    items, visited_dirs, collisions

vars == <<db, before, scanning, lost, state, stack, items, visited_dirs, collisions>>

Paths == Seq(Names)

\* Every variable has its type.
TypeOK ==
    /\ db \in Seq(Rows) /\ before \in Seq(Rows) /\ scanning \in BOOLEAN
    /\ lost \subseteq Records
    /\ state \in {"start", "walk", "listed", "collision", "no_root"}
    /\ stack \in Seq([base : Paths, rest : SUBSET (DOMAIN db)])
    /\ items \in Seq([row : DOMAIN db, path : Paths])
    /\ visited_dirs \subseteq Records
    /\ collisions \subseteq Seq(Keys)

Init ==
    /\ db \in Indexes /\ before = db /\ scanning \in BOOLEAN /\ lost = {}
    /\ state = "start" /\ stack = <<>> /\ items = <<>>
    /\ visited_dirs = {} /\ collisions = {}

-----------------------------------------------------------------------------
(* Queries and names.                                                      *)

RowsOf(parent) == {i \in DOMAIN db : db[i].parent = parent}

\* What the query may answer: the rows, or those before the step that failed.
children_of(parent) == SUBSET RowsOf(parent)

better_name(i, j) ==
    IF db[i].dos # db[j].dos THEN ~db[i].dos ELSE i < j

SameEntry(i, j) == db[i].record = db[j].record /\ db[i].name = db[j].name

\* A slip: rows of one entry are not merged.
SlipDedup(children) ==
    {i \in children :
        db[i].dos => \A j \in children : db[j].record = db[i].record => db[j].dos}

\* A slip: a DOS name is dropped as soon as any sibling has a long name.
SlipDedupDos(children) ==
    {i \in children : db[i].dos => \A j \in children : db[j].dos}

\* One row for every name of a record; no DOS name beside a long one.
dedup_children(children) ==
    LET HasLongName(r) == \E j \in children : db[j].record = r /\ ~db[j].dos
        kept == {i \in children : db[i].dos => ~HasLongName(db[i].record)}
    IN  {i \in kept : \A j \in kept \ {i} : SameEntry(i, j) => better_name(i, j)}

\* The order of the list: directories, then by name; std::sort leaves the order
\* of equals open.
Precedes(i, j) ==
    \/ db[i].dir /\ ~db[j].dir
    \/ db[i].dir = db[j].dir /\ db[i].name < db[j].name

\* A slip: the names themselves are compared.
SlipCollisionKey(path) == path

collision_key(path) == [n \in DOMAIN path |-> Key[path[n]]]

-----------------------------------------------------------------------------
(* The walk.                                                               *)

\* A call of collect_tree, up to its loop; those of `below` wait for its end.
Enter(record, base, below) ==
    \E rows \in children_of(record) :
        /\ visited_dirs' = visited_dirs \cup {record}
        /\ lost' = IF rows = RowsOf(record) THEN lost ELSE lost \cup {record}
        /\ stack' = <<[base |-> base, rest |-> dedup_children(rows)]>> \o below

FindRoot ==
    /\ state = "start"
    /\ \/ /\ \E i \in DOMAIN db : db[i].record = Root
          /\ state' = "walk" /\ Enter(Root, <<>>, <<>>)
       \/ \* No such row, or its query fails.
          /\ state' = "no_root" /\ UNCHANGED <<lost, visited_dirs, stack>>
    /\ UNCHANGED <<db, before, scanning, items, collisions>>

\* Slips: a directory met before is entered again, and a path that starts at
\* the directory's own name.
SlipEnters(i) == db[i].dir
SlipRelative(base, i) == <<db[i].name>>

\* collect_tree returns at once for a directory it visited.
Enters(i) == db[i].dir /\ db[i].record \notin visited_dirs

relative(base, i) == Append(base, db[i].name)

\* The loop body for child i: collisions.add throws out of the whole walk.
Collect(i) ==
    LET top  == Head(stack)
        path == relative(top.base, i)
        left == <<[top EXCEPT !.rest = @ \ {i}]>> \o Tail(stack)
    IN  IF collision_key(path) \in collisions
        THEN /\ state' = "collision"
             /\ UNCHANGED <<lost, stack, items, visited_dirs, collisions>>
        ELSE /\ collisions' = collisions \cup {collision_key(path)}
             /\ items' = Append(items, [row |-> i, path |-> path])
             /\ IF Enters(i)
                THEN Enter(db[i].record, path, left)
                ELSE stack' = left /\ UNCHANGED <<lost, visited_dirs>>
             /\ UNCHANGED state

TakeChild ==
    /\ state = "walk" /\ stack # <<>>
    /\ \E i \in Head(stack).rest :
           /\ \A j \in Head(stack).rest : ~Precedes(j, i)
           /\ Collect(i)
    /\ UNCHANGED <<db, before, scanning>>

Return ==
    /\ state = "walk" /\ stack # <<>> /\ Head(stack).rest = {}
    /\ stack' = Tail(stack)
    /\ state' = IF Tail(stack) = <<>> THEN "listed" ELSE "walk"
    /\ UNCHANGED <<db, before, scanning, lost, items, visited_dirs, collisions>>

\* A scan into the same database commits.
ScanCommits ==
    /\ scanning /\ scanning' = FALSE
    /\ \E batch \in Commits : db' = db \o batch
    /\ UNCHANGED <<before, lost, state, stack, items, visited_dirs, collisions>>

Next == FindRoot \/ TakeChild \/ Return \/ ScanCommits

Spec == Init /\ [][Next]_vars

-----------------------------------------------------------------------------
(* Properties.                                                             *)

RowOf(n) == db[items[n].row]

\* What a destination that ignores case takes for one path.
SameOutput(p, q) ==
    Len(p) = Len(q) /\ \A k \in DOMAIN p : Key[p[k]] = Key[q[k]]

\* No two items have paths that a case-insensitive destination, or the
\* sanitizing of names, would take for one file.
UniqueOutputs ==
    \A m, n \in DOMAIN items :
        m # n => ~SameOutput(items[m].path, items[n].path)

\* Every item lies in a directory listed before it, whose row is the item's
\* parent, so that the recovery makes a directory before what belongs into it
\* and puts nothing below another record's directory.
ParentsFirst ==
    \A n \in DOMAIN items :
        LET base == SubSeq(items[n].path, 1, Len(items[n].path) - 1) IN
        IF base = <<>> THEN RowOf(n).parent = Root
        ELSE \E m \in 1..(n - 1) :
                /\ items[m].path = base
                /\ RowOf(m).dir /\ RowOf(m).record = RowOf(n).parent

\* Cycles of parents, directories with several names and rows that a second
\* scan stored again list no name of a record twice below one parent.
EachEntryOnce ==
    \A m, n \in DOMAIN items :
        /\ m # n
        /\ RowOf(m).parent = RowOf(n).parent
        => ~SameEntry(items[m].row, items[n].row)

\* A finished list leaves nothing out: the directories listed were all entered,
\* and of every row that was indexed before and lies in one of them, the record
\* is listed there, under this name or another.  A query that failed takes away
\* from its own directory only, though nobody is told.
NothingLeftOut ==
    state = "listed" =>
        /\ Root \in visited_dirs
        /\ \A n \in DOMAIN items : RowOf(n).dir => RowOf(n).record \in visited_dirs
        /\ \A i \in DOMAIN before :
               before[i].parent \in visited_dirs \ lost =>
                   \E n \in DOMAIN items : /\ RowOf(n).record = before[i].record
                                           /\ RowOf(n).parent = before[i].parent

\* A recovery is refused for a collision only when two different entries of one
\* directory would collide, never because rows are there twice or because a
\* directory is reached twice.
CollisionIsReal ==
    state = "collision" =>
        \E i, j \in DOMAIN db :
            /\ db[i].parent = db[j].parent
            /\ ~SameEntry(i, j)
            /\ Key[db[i].name] = Key[db[j].name]
=============================================================================
