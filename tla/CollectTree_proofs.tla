------------------------- MODULE CollectTree_proofs -------------------------
(***************************************************************************)
(* Proofs about CollectTree, for any index, any names and any scan that    *)
(* commits during the walk.                                                *)
(***************************************************************************)
EXTENDS CollectTree, SequenceTheorems, WellFoundedInduction, TLAPS

Frames == [base : Paths, rest : SUBSET (DOMAIN db)]
Items == [row : DOMAIN db, path : Paths]

\* The rows of before have their ids in db.
Prefix == /\ DOMAIN before \subseteq DOMAIN db
          /\ \A i \in DOMAIN before : db[i] = before[i]

Fresh == state = "start" => /\ stack = <<>> /\ items = <<>>
                            /\ visited_dirs = {} /\ collisions = {} /\ lost = {}
Finished == state = "listed" => stack = <<>>
RootEntered == state \in {"walk", "listed"} => Root \in visited_dirs

\* The walk avoids exactly the keys of what it listed.
KeysOfItems == collisions = {collision_key(items[n].path) : n \in DOMAIN items}

\* A directory listed has the path `base` and the record `parent`.
Under(base, parent) ==
    IF base = <<>> THEN parent = Root
    ELSE \E m \in DOMAIN items :
            items[m].path = base /\ RowOf(m).dir /\ RowOf(m).record = parent

ItemsNamed == \A n \in DOMAIN items :
                 /\ items[n].path # <<>>
                 /\ items[n].path[Len(items[n].path)] = RowOf(n).name

FramesPlaced == \A k \in DOMAIN stack : \A i \in stack[k].rest :
                   Under(stack[k].base, db[i].parent)

\* Rows are listed, or will be, below records that were entered only.
ParentsEntered ==
    /\ \A n \in DOMAIN items : RowOf(n).parent \in visited_dirs
    /\ \A k \in DOMAIN stack : \A i \in stack[k].rest : db[i].parent \in visited_dirs

\* Of one entry, one row is left to list, in one frame, and none once it is listed.
RestApart ==
    \A k, l \in DOMAIN stack : \A i \in stack[k].rest, j \in stack[l].rest :
        (k # l \/ i # j) /\ db[i].parent = db[j].parent => ~SameEntry(i, j)
RestNew ==
    \A n \in DOMAIN items, k \in DOMAIN stack : \A i \in stack[k].rest :
        RowOf(n).parent = db[i].parent => ~SameEntry(items[n].row, i)

DirsEntered == \A n \in DOMAIN items : RowOf(n).dir => RowOf(n).record \in visited_dirs

\* The record of row i is listed where that row puts it, or is left to list.
Listed(i) == \E n \in DOMAIN items : RowOf(n).record = db[i].record /\ RowOf(n).parent = db[i].parent
Left(i) == \E k \in DOMAIN stack : \E j \in stack[k].rest :
              db[j].record = db[i].record /\ db[j].parent = db[i].parent
Kept == \A i \in DOMAIN before : db[i].parent \in visited_dirs \ lost => Listed(i) \/ Left(i)

Placed == UniqueOutputs /\ KeysOfItems /\ ItemsNamed /\ ParentsFirst /\ FramesPlaced
Once == ParentsEntered /\ RestApart /\ RestNew /\ EachEntryOnce
Complete == DirsEntered /\ Kept

IInv == /\ TypeOK /\ Prefix /\ Fresh /\ Finished /\ RootEntered
        /\ Placed /\ Once /\ Complete

-----------------------------------------------------------------------------
(* Sequences.                                                              *)

LEMMA PushedFrame ==
    ASSUME NEW S, NEW s \in Seq(S), NEW f \in S
    PROVE  /\ <<f>> \o s \in Seq(S)
           /\ Len(<<f>> \o s) = Len(s) + 1
           /\ (<<f>> \o s)[1] = f
           /\ \A k \in 1..Len(s) : (<<f>> \o s)[k + 1] = s[k]
  <1>1. <<f>> \in Seq(S) /\ Len(<<f>>) = 1 /\ <<f>>[1] = f
    OBVIOUS
  <1>2. Len(s) \in Nat
    OBVIOUS
  <1> QED
    BY <1>1, <1>2, ConcatProperties

LEMMA ChangedFrame ==
    ASSUME NEW S, NEW s \in Seq(S), s # <<>>, NEW f \in S
    PROVE  /\ <<f>> \o Tail(s) \in Seq(S)
           /\ Len(<<f>> \o Tail(s)) = Len(s)
           /\ \A k \in 1..Len(s) : (<<f>> \o Tail(s))[k] = IF k = 1 THEN f ELSE s[k]
  <1>1. /\ Tail(s) \in Seq(S) /\ Len(Tail(s)) = Len(s) - 1
        /\ \A k \in 1..Len(Tail(s)) : Tail(s)[k] = s[k + 1]
    BY HeadTailProperties
  <1>2. Len(s) \in Nat \ {0}
    BY EmptySeq
  <1>3. /\ <<f>> \o Tail(s) \in Seq(S) /\ Len(<<f>> \o Tail(s)) = Len(s)
        /\ (<<f>> \o Tail(s))[1] = f
        /\ \A k \in 1..(Len(s) - 1) : (<<f>> \o Tail(s))[k + 1] = Tail(s)[k]
    BY <1>1, <1>2, PushedFrame
  <1>4. ASSUME NEW k \in 1..Len(s), k # 1
        PROVE  (<<f>> \o Tail(s))[k] = s[k]
    <2>1. k - 1 \in 1..(Len(s) - 1) /\ (k - 1) + 1 = k
      BY <1>2, <1>4
    <2> QED
      BY <1>1, <1>3, <2>1
  <1> QED
    BY <1>3, <1>4

LEMMA Least == \A T \in SUBSET Nat : T # {} => \E x \in T : \A y \in T : x <= y
  <1> SUFFICES ASSUME NEW T \in SUBSET Nat, T # {}
               PROVE  \E x \in T : \A y \in T : x <= y
    OBVIOUS
  <1>1. PICK x \in T : \A y \in T : ~(<<y, x>> \in OpToRel(<, Nat))
    BY WFMin, NatLessThanWellFounded, Zenon
  <1>2. \A y \in T : ~(y < x)
    BY <1>1 DEF OpToRel
  <1> QED
    BY <1>2

-----------------------------------------------------------------------------
(* dedup_children.                                                         *)

LEMMA RowType ==
    ASSUME TypeOK, NEW i \in DOMAIN db
    PROVE  /\ i \in Nat /\ db[i] \in Rows
           /\ db[i].record \in Records /\ db[i].parent \in Records /\ db[i].name \in Names
           /\ db[i].dos \in BOOLEAN /\ db[i].dir \in BOOLEAN
  <1>1. i \in Nat /\ db[i] \in Rows
    BY LenProperties DEF TypeOK
  <1> QED
    BY <1>1 DEF Rows

LEMMA DedupWithin == \A rows : dedup_children(rows) \subseteq rows
  BY DEF dedup_children

\* No two rows of one entry are left.
LEMMA DedupApart ==
    ASSUME TypeOK, NEW rows \in SUBSET DOMAIN db,
           NEW i \in dedup_children(rows), NEW j \in dedup_children(rows), i # j
    PROVE  ~SameEntry(i, j)
  <1>1. i \in DOMAIN db /\ j \in DOMAIN db
    BY DedupWithin
  <1>2. i \in Nat /\ j \in Nat /\ db[i].dos \in BOOLEAN /\ db[j].dos \in BOOLEAN
    BY <1>1, RowType
  <1>3. SameEntry(i, j) => better_name(i, j) /\ better_name(j, i)
    BY DEF dedup_children, SameEntry
  <1>4. ~(better_name(i, j) /\ better_name(j, i))
    BY <1>2 DEF better_name
  <1> QED
    BY <1>3, <1>4

\* Every record is left with a row.
LEMMA DedupKeeps ==
    ASSUME TypeOK, NEW rows \in SUBSET DOMAIN db, NEW i \in rows
    PROVE  \E j \in dedup_children(rows) : db[j].record = db[i].record
  <1> DEFINE HasLongName(r) == \E j \in rows : db[j].record = r /\ ~db[j].dos
             kept == {h \in rows : db[h].dos => ~HasLongName(db[h].record)}
  <1>1. PICK h \in kept : db[h].record = db[i].record
    OBVIOUS
  <1> DEFINE same == {j \in kept : SameEntry(h, j)}
  <1>2. h \in same /\ same \subseteq DOMAIN db
    BY DEF SameEntry
  <1>3. same \in SUBSET Nat
    BY <1>2 DEF TypeOK
  <1>4. PICK j \in same : \A k \in same : j <= k
    BY <1>2, <1>3, Least
  <1>5. db[j].record = db[i].record /\ j \in kept
    BY <1>1 DEF SameEntry
  <1>6. ASSUME NEW k \in kept \ {j}, SameEntry(j, k) PROVE better_name(j, k)
    <2>1. k \in same
      BY <1>6 DEF SameEntry
    <2>2. db[j].dos = db[k].dos
      <3>1. db[j].record = db[k].record
        BY <1>6 DEF SameEntry
      <3>2. db[j].dos \in BOOLEAN /\ db[k].dos \in BOOLEAN
        BY <1>2, <1>4, <2>1, RowType
      <3> QED
        BY <1>5, <3>1, <3>2
    <2> QED
      BY <1>3, <1>4, <2>1, <2>2, <1>6 DEF better_name
  <1> QED
    BY <1>5, <1>6 DEF dedup_children

-----------------------------------------------------------------------------
(* What the actions do to the frames and the list.                         *)

\* A call for `record` begins; `below` are the frames that wait for it.
Entered(record, base) ==
    /\ visited_dirs' = visited_dirs \cup {record}
    /\ stack'[1].base = base
    /\ \E rows \in SUBSET RowsOf(record) :
          /\ stack'[1].rest = dedup_children(rows)
          /\ lost' = IF rows = RowsOf(record) THEN lost ELSE lost \cup {record}

\* The loop body for row i, with `shift` new frames.
Taken(i, shift) ==
    /\ stack # <<>> /\ i \in stack[1].rest /\ i \in DOMAIN db
    /\ collision_key(relative(stack[1].base, i)) \notin collisions
    /\ collisions' = collisions \cup {collision_key(relative(stack[1].base, i))}
    /\ items' = Append(items, [row |-> i, path |-> relative(stack[1].base, i)])
    /\ shift \in {0, 1}
    /\ Len(stack') = Len(stack) + shift
    /\ \A k \in 1..Len(stack) :
          /\ stack'[k + shift].base = stack[k].base
          /\ stack'[k + shift].rest = IF k = 1 THEN stack[k].rest \ {i} ELSE stack[k].rest
    /\ IF Enters(i)
       THEN shift = 1 /\ Entered(db[i].record, relative(stack[1].base, i))
       ELSE shift = 0 /\ UNCHANGED <<visited_dirs, lost>>
    /\ UNCHANGED <<db, before, state>>

LEMMA PathType ==
    ASSUME TypeOK, NEW base \in Paths, NEW i \in DOMAIN db
    PROVE  /\ relative(base, i) \in Paths
           /\ Len(relative(base, i)) = Len(base) + 1
           /\ relative(base, i)[Len(base) + 1] = db[i].name
           /\ \A k \in 1..Len(base) : relative(base, i)[k] = base[k]
  <1>1. db[i].name \in Names
    BY RowType
  <1> QED
    BY <1>1, AppendProperties DEF relative, Paths

LEMMA KeyType ==
    ASSUME NEW path \in Paths
    PROVE  /\ collision_key(path) \in Seq(Keys)
           /\ Len(collision_key(path)) = Len(path)
           /\ \A k \in 1..Len(path) : collision_key(path)[k] = Key[path[k]]
  <1>1. Len(path) \in Nat /\ DOMAIN path = 1..Len(path) /\ \A k \in 1..Len(path) : path[k] \in Names
    BY LenProperties DEF Paths
  <1>2. \A k \in 1..Len(path) : Key[path[k]] \in Keys
    BY <1>1, CollectAssumption
  <1>3. collision_key(path) \in [1..Len(path) -> Keys]
    BY <1>1, <1>2 DEF collision_key
  <1>4. collision_key(path) \in Seq(Keys)
    BY <1>1, <1>3, SeqDef
  <1> QED
    BY <1>1, <1>3, <1>4, LenProperties DEF collision_key

LEMMA StackType ==
    ASSUME TypeOK
    PROVE  /\ stack \in Seq(Frames) /\ Len(stack) \in Nat /\ DOMAIN stack = 1..Len(stack)
           /\ \A k \in DOMAIN stack : /\ stack[k] \in Frames /\ stack[k].base \in Paths
                                      /\ stack[k].rest \in SUBSET DOMAIN db
           /\ items \in Seq(Items) /\ Len(items) \in Nat /\ DOMAIN items = 1..Len(items)
           /\ \A n \in DOMAIN items : items[n].row \in DOMAIN db /\ items[n].path \in Paths
  <1>1. /\ stack \in Seq(Frames) /\ Len(stack) \in Nat /\ DOMAIN stack = 1..Len(stack)
        /\ \A k \in DOMAIN stack : stack[k] \in Frames
    BY LenProperties DEF TypeOK, Frames
  <1>2. /\ items \in Seq(Items) /\ Len(items) \in Nat /\ DOMAIN items = 1..Len(items)
        /\ \A n \in DOMAIN items : items[n] \in Items
    BY LenProperties DEF TypeOK, Items
  <1> QED
    BY <1>1, <1>2 DEF Frames, Items

LEMMA EnterEffect ==
    ASSUME TypeOK, NEW record \in Records, NEW base \in Paths, NEW below \in Seq(Frames),
           Enter(record, base, below), UNCHANGED db
    PROVE  /\ Entered(record, base)
           /\ stack' \in Seq(Frames) /\ Len(stack') = Len(below) + 1
           /\ \A k \in 1..Len(below) : stack'[k + 1] = below[k]
           /\ lost' \subseteq Records /\ visited_dirs' \subseteq Records
  <1>1. PICK rows \in SUBSET RowsOf(record) :
            /\ visited_dirs' = visited_dirs \cup {record}
            /\ lost' = IF rows = RowsOf(record) THEN lost ELSE lost \cup {record}
            /\ stack' = <<[base |-> base, rest |-> dedup_children(rows)]>> \o below
    BY DEF Enter, children_of
  <1> DEFINE frame == [base |-> base, rest |-> dedup_children(rows)]
  <1>2. dedup_children(rows) \subseteq DOMAIN db
    BY DedupWithin DEF RowsOf
  <1>3. frame \in Frames
    BY <1>2 DEF Frames
  <1>4. /\ stack' \in Seq(Frames) /\ Len(stack') = Len(below) + 1 /\ stack'[1] = frame
        /\ \A k \in 1..Len(below) : stack'[k + 1] = below[k]
    BY <1>1, <1>3, PushedFrame
  <1>5. Entered(record, base)
    BY <1>1, <1>4 DEF Entered
  <1> QED
    BY <1>1, <1>4, <1>5 DEF TypeOK

\* A step of the loop collects a row, or finds a collision.
LEMMA TakeEffect ==
    ASSUME TypeOK, TakeChild
    PROVE  \/ /\ \E i \in DOMAIN db, shift \in {0, 1} : Taken(i, shift)
              /\ TypeOK'
           \/ /\ state' = "collision" /\ stack # <<>>
              /\ \E i \in stack[1].rest :
                    collision_key(relative(stack[1].base, i)) \in collisions
              /\ UNCHANGED <<db, before, scanning, lost, stack, items, visited_dirs, collisions>>
  <1>1. PICK i \in Head(stack).rest : Collect(i)
    BY DEF TakeChild
  <1>2. stack # <<>> /\ UNCHANGED <<db, before, scanning>> /\ state = "walk"
    BY DEF TakeChild
  <1>3. Len(stack) \in Nat \ {0} /\ Head(stack) = stack[1] /\ 1 \in DOMAIN stack
    BY <1>2, StackType, EmptySeq
  <1>4. i \in DOMAIN db /\ stack[1].base \in Paths /\ stack[1].rest \in SUBSET DOMAIN db
    BY <1>1, <1>3, StackType
  <1> DEFINE path == relative(stack[1].base, i)
             top == [stack[1] EXCEPT !.rest = @ \ {i}]
             left == <<top>> \o Tail(stack)
  <1>5. path \in Paths /\ collision_key(path) \in Seq(Keys)
    BY <1>4, PathType, KeyType
  <1>6. top \in Frames /\ top.base = stack[1].base /\ top.rest = stack[1].rest \ {i}
    BY <1>3, <1>4, StackType DEF Frames
  <1>7. /\ left \in Seq(Frames) /\ Len(left) = Len(stack)
        /\ \A k \in 1..Len(stack) : left[k] = IF k = 1 THEN top ELSE stack[k]
    <2> HIDE DEF top
    <2>1. stack \in Seq(Frames) /\ top \in Frames
      BY <1>6, StackType
    <2> QED
      BY <1>2, <2>1, ChangedFrame
  <1> HIDE DEF path, top, left
  <1>8. CASE collision_key(path) \in collisions
    BY <1>1, <1>2, <1>3, <1>8 DEF Collect, path
  <1>9. CASE collision_key(path) \notin collisions
    <2>1. /\ collisions' = collisions \cup {collision_key(path)}
          /\ items' = Append(items, [row |-> i, path |-> path])
          /\ state' = state
          /\ IF Enters(i) THEN Enter(db[i].record, path, left)
             ELSE stack' = left /\ UNCHANGED <<lost, visited_dirs>>
      BY <1>1, <1>3, <1>9 DEF Collect, path, top, left
    <2>2. items' \in Seq(Items)
      <3>1. [row |-> i, path |-> path] \in Items
        BY <1>4, <1>5 DEF Items
      <3> QED
        BY <2>1, <3>1, StackType, AppendProperties
    <2>3. collisions' \subseteq Seq(Keys)
      BY <1>5, <2>1 DEF TypeOK
    <2>4. CASE Enters(i)
      <3>1. db[i].record \in Records
        BY <1>4, RowType
      <3>2. /\ Entered(db[i].record, path)
            /\ stack' \in Seq(Frames) /\ Len(stack') = Len(left) + 1
            /\ \A k \in 1..Len(left) : stack'[k + 1] = left[k]
            /\ lost' \subseteq Records /\ visited_dirs' \subseteq Records
        BY <1>2, <1>5, <1>7, <2>1, <2>4, <3>1, EnterEffect
      <3>3. \A k \in 1..Len(stack) :
                /\ stack'[k + 1].base = stack[k].base
                /\ stack'[k + 1].rest = IF k = 1 THEN stack[k].rest \ {i} ELSE stack[k].rest
        BY <1>6, <1>7, <3>2
      <3>4. Taken(i, 1)
        BY <1>1, <1>2, <1>3, <1>4, <1>7, <1>9, <2>1, <2>4, <3>2, <3>3 DEF Taken, path
      <3>5. TypeOK'
        BY <1>2, <2>1, <2>2, <2>3, <3>2 DEF TypeOK, Frames, Items
      <3> QED
        BY <1>4, <3>4, <3>5
    <2>5. CASE ~Enters(i)
      <3>1. \A k \in 1..Len(stack) :
                /\ stack'[k + 0].base = stack[k].base
                /\ stack'[k + 0].rest = IF k = 1 THEN stack[k].rest \ {i} ELSE stack[k].rest
        <4>1. \A k \in 1..Len(stack) : k + 0 = k
          BY <1>3
        <4>2. stack' = left
          BY <2>1, <2>5
        <4> QED
          BY <1>6, <1>7, <4>1, <4>2
      <3>2. Len(stack') = Len(stack) + 0 /\ UNCHANGED <<visited_dirs, lost>>
        BY <1>3, <1>7, <2>1, <2>5
      <3>3. Taken(i, 0)
        BY <1>1, <1>2, <1>3, <1>4, <1>9, <2>1, <2>5, <3>1, <3>2 DEF Taken, path
      <3>4. TypeOK'
        BY <1>2, <1>7, <2>1, <2>2, <2>3, <2>5 DEF TypeOK, Frames, Items
      <3> QED
        BY <1>4, <3>3, <3>4
    <2> QED
      BY <2>4, <2>5
  <1> QED
    BY <1>8, <1>9

\* The list grows by row i.
LEMMA ItemsAfter ==
    ASSUME TypeOK, NEW i \in DOMAIN db, NEW shift, Taken(i, shift)
    PROVE  LET N == Len(items) + 1 IN
           /\ DOMAIN items' = DOMAIN items \cup {N} /\ N \notin DOMAIN items
           /\ DOMAIN items = 1..(N - 1) /\ N \in Nat
           /\ \A n \in DOMAIN items : items'[n] = items[n] /\ RowOf(n)' = RowOf(n)
           /\ items'[N].row = i /\ items'[N].path = relative(stack[1].base, i)
           /\ db' = db
  <1> DEFINE new == [row |-> i, path |-> relative(stack[1].base, i)]
  <1>1. items' = Append(items, new) /\ db' = db /\ stack # <<>>
    BY DEF Taken
  <1>2. stack[1].base \in Paths
    BY <1>1, StackType, EmptySeq
  <1>3. new \in Items
    BY <1>2, PathType DEF Items
  <1>4. new.row = i /\ new.path = relative(stack[1].base, i)
    OBVIOUS
  <1> HIDE DEF new
  <1>5. /\ Len(items') = Len(items) + 1 /\ items' \in Seq(Items)
        /\ \A n \in 1..Len(items) : items'[n] = items[n]
        /\ items'[Len(items) + 1] = new
    BY <1>1, <1>3, StackType, AppendProperties
  <1>6. DOMAIN items' = 1..(Len(items) + 1)
    BY <1>5, LenProperties
  <1>7. /\ DOMAIN items' = DOMAIN items \cup {Len(items) + 1}
        /\ Len(items) + 1 \notin DOMAIN items /\ Len(items) + 1 \in Nat
        /\ DOMAIN items = 1..(Len(items) + 1 - 1)
    BY <1>6, StackType
  <1>8. \A n \in DOMAIN items : items'[n] = items[n] /\ RowOf(n)' = RowOf(n)
    BY <1>1, <1>5, StackType DEF RowOf
  <1> QED
    BY <1>1, <1>4, <1>5, <1>7, <1>8

\* A frame is a new one or what is left of an old one.
LEMMA FrameAfter ==
    ASSUME TypeOK, TypeOK', NEW i \in DOMAIN db, NEW shift, Taken(i, shift), NEW k \in DOMAIN stack'
    PROVE  \/ k = 1 /\ shift = 1 /\ Enters(i)
           \/ \E h \in DOMAIN stack :
                 /\ k = h + shift
                 /\ stack'[k].base = stack[h].base /\ stack'[k].rest \subseteq stack[h].rest
                 /\ h = 1 => i \notin stack'[k].rest
  <1>1. DOMAIN stack' = 1..Len(stack') /\ Len(stack') = Len(stack) + shift
    BY StackType, LenProperties DEF Taken, TypeOK
  <1>2. shift \in {0, 1} /\ (shift = 1 => Enters(i))
    BY DEF Taken
  <1>3. CASE k = 1 /\ shift = 1
    BY <1>2, <1>3
  <1>4. CASE ~(k = 1 /\ shift = 1)
    <2>1. k - shift \in 1..Len(stack) /\ k = (k - shift) + shift
      BY <1>1, <1>2, <1>4, StackType
    <2>2. \A h \in 1..Len(stack) :
              /\ stack'[h + shift].base = stack[h].base
              /\ stack'[h + shift].rest = IF h = 1 THEN stack[h].rest \ {i} ELSE stack[h].rest
      BY DEF Taken
    <2>3. PICK h \in DOMAIN stack : k = h + shift
      BY <2>1, StackType
    <2> QED
      BY <2>2, <2>3, StackType
  <1> QED
    BY <1>3, <1>4

LEMMA SameKey ==
    ASSUME NEW p \in Paths, NEW q \in Paths
    PROVE  SameOutput(p, q) <=> collision_key(p) = collision_key(q)
  <1>1. /\ DOMAIN p = 1..Len(p) /\ DOMAIN q = 1..Len(q)
        /\ Len(p) \in Nat /\ Len(q) \in Nat
    BY LenProperties DEF Paths
  <1>2. SameOutput(p, q) => collision_key(p) = collision_key(q)
    BY <1>1 DEF SameOutput, collision_key
  <1>3. collision_key(p) = collision_key(q) => SameOutput(p, q)
    <2> SUFFICES ASSUME collision_key(p) = collision_key(q) PROVE SameOutput(p, q)
      OBVIOUS
    <2>1. Len(p) = Len(q)
      BY KeyType
    <2>2. \A k \in DOMAIN p : Key[p[k]] = collision_key(p)[k] /\ Key[q[k]] = collision_key(q)[k]
      BY <1>1, <2>1, KeyType
    <2> QED
      BY <2>1, <2>2 DEF SameOutput
  <1> QED
    BY <1>2, <1>3

-----------------------------------------------------------------------------
(* Where items are put.                                                    *)

\* What is below a listed directory stays below it.
UnderNext(base, parent) ==
    IF base = <<>> THEN parent = Root
    ELSE \E m \in DOMAIN items' :
            /\ items'[m].path = base
            /\ db'[items'[m].row].dir /\ db'[items'[m].row].record = parent

LEMMA UnderStays ==
    ASSUME TypeOK, NEW i \in DOMAIN db, NEW shift, Taken(i, shift)
    PROVE  \A base, parent : Under(base, parent) => UnderNext(base, parent)
  <1> SUFFICES ASSUME NEW base, NEW parent, Under(base, parent)
               PROVE  UnderNext(base, parent)
    OBVIOUS
  <1>1. CASE base = <<>>
    BY <1>1 DEF Under, UnderNext
  <1>2. CASE base # <<>>
    <2>1. PICK m \in DOMAIN items :
              items[m].path = base /\ RowOf(m).dir /\ RowOf(m).record = parent
      BY <1>2 DEF Under
    <2>2. m \in DOMAIN items' /\ items'[m] = items[m] /\ RowOf(m)' = RowOf(m)
      BY ItemsAfter
    <2> QED
      BY <1>2, <2>1, <2>2 DEF UnderNext, RowOf
  <1> QED
    BY <1>1, <1>2

LEMMA PlacedTaken ==
    ASSUME TypeOK, TypeOK', Placed, NEW i \in DOMAIN db, NEW shift, Taken(i, shift)
    PROVE  Placed'
  <1> DEFINE N == Len(items) + 1
             base == stack[1].base
             path == relative(base, i)
  <1>1. /\ DOMAIN items' = DOMAIN items \cup {N} /\ N \notin DOMAIN items
        /\ DOMAIN items = 1..(N - 1) /\ N \in Nat
        /\ \A n \in DOMAIN items : items'[n] = items[n] /\ RowOf(n)' = RowOf(n)
        /\ items'[N].row = i /\ items'[N].path = path /\ db' = db
    BY ItemsAfter
  <1>2. stack # <<>> /\ 1 \in DOMAIN stack /\ base \in Paths /\ i \in stack[1].rest
    BY StackType, EmptySeq DEF Taken
  <1>3. /\ path \in Paths /\ Len(path) = Len(base) + 1 /\ path[Len(path)] = db[i].name
        /\ Len(base) \in Nat /\ \A k \in 1..Len(base) : path[k] = base[k]
    BY <1>2, PathType, LenProperties DEF Paths
  <1>4. /\ collision_key(path) \notin collisions
        /\ collisions' = collisions \cup {collision_key(path)}
    BY DEF Taken
  <1>5. path # <<>> /\ SubSeq(path, 1, Len(path) - 1) = base
    <2>1. path # <<>>
      BY <1>3
    <2>2. SubSeq(path, 1, Len(path) - 1) \in Paths
      BY <1>3 DEF Paths
    <2>3. Len(SubSeq(path, 1, Len(path) - 1)) = Len(base)
      BY <1>3 DEF Paths
    <2>4. \A k \in 1..Len(base) : SubSeq(path, 1, Len(path) - 1)[k] = base[k]
      BY <1>3 DEF Paths
    <2> QED
      BY <1>2, <2>1, <2>2, <2>3, <2>4, SeqEqual DEF Paths
  <1> HIDE DEF N, path
  <1>6. \A n \in DOMAIN items : ~SameOutput(items[n].path, path) /\ ~SameOutput(path, items[n].path)
    <2>1. \A n \in DOMAIN items : collision_key(items[n].path) # collision_key(path)
      BY <1>4 DEF Placed, KeysOfItems
    <2> QED
      BY <1>3, <2>1, SameKey, StackType
  <1>7. UniqueOutputs'
    <2> SUFFICES ASSUME NEW m \in DOMAIN items', NEW n \in DOMAIN items', m # n
                 PROVE  ~SameOutput(items'[m].path, items'[n].path)
      BY DEF UniqueOutputs, SameOutput
    <2>1. CASE m \in DOMAIN items /\ n \in DOMAIN items
      BY <1>1, <2>1 DEF Placed, UniqueOutputs
    <2>2. CASE m = N \/ n = N
      BY <1>1, <1>6, <2>2
    <2> QED
      BY <1>1, <2>1, <2>2
  <1>8. KeysOfItems'
    BY <1>1, <1>4 DEF Placed, KeysOfItems, collision_key
  <1>9. ItemsNamed'
    <2> SUFFICES ASSUME NEW n \in DOMAIN items'
                 PROVE  /\ items'[n].path # <<>>
                        /\ items'[n].path[Len(items'[n].path)] = RowOf(n)'.name
      BY DEF ItemsNamed
    <2>1. CASE n = N
      BY <1>1, <1>3, <1>5, <2>1 DEF RowOf
    <2>2. CASE n \in DOMAIN items
      BY <1>1, <2>2 DEF Placed, ItemsNamed
    <2> QED
      BY <1>1, <2>1, <2>2
  <1>10. Under(base, db[i].parent)
    BY <1>2 DEF Placed, FramesPlaced
  <1>11. ParentsFirst'
    <2> SUFFICES ASSUME NEW n \in DOMAIN items'
                 PROVE  LET above == SubSeq(items'[n].path, 1, Len(items'[n].path) - 1) IN
                        IF above = <<>> THEN RowOf(n)'.parent = Root
                        ELSE \E m \in 1..(n - 1) :
                                /\ items'[m].path = above
                                /\ RowOf(m)'.dir /\ RowOf(m)'.record = RowOf(n)'.parent
      BY DEF ParentsFirst
    <2>1. CASE n = N
      <3>1. CASE base = <<>>
        BY <1>1, <1>5, <1>10, <2>1, <3>1 DEF Under, RowOf
      <3>2. CASE base # <<>>
        <4>1. PICK m \in DOMAIN items :
                  items[m].path = base /\ RowOf(m).dir /\ RowOf(m).record = db[i].parent
          BY <1>10, <3>2 DEF Under
        <4>2. m \in 1..(n - 1) /\ items'[m].path = base /\ RowOf(m)' = RowOf(m)
          BY <1>1, <2>1, <4>1
        <4> QED
          BY <1>1, <1>5, <2>1, <3>2, <4>1, <4>2 DEF RowOf
      <3> QED
        BY <3>1, <3>2
    <2>2. CASE n \in DOMAIN items
      <3> DEFINE above == SubSeq(items[n].path, 1, Len(items[n].path) - 1)
      <3>1. IF above = <<>> THEN RowOf(n).parent = Root
            ELSE \E m \in 1..(n - 1) :
                    /\ items[m].path = above
                    /\ RowOf(m).dir /\ RowOf(m).record = RowOf(n).parent
        BY <2>2 DEF Placed, ParentsFirst
      <3>2. \A m \in 1..(n - 1) :
                m \in DOMAIN items /\ items'[m] = items[m] /\ RowOf(m)' = RowOf(m)
        BY <1>1, <2>2
      <3>3. items'[n] = items[n] /\ RowOf(n)' = RowOf(n)
        BY <1>1, <2>2
      <3> HIDE DEF above
      <3>4. CASE above = <<>>
        BY <3>1, <3>3, <3>4 DEF above
      <3>5. CASE above # <<>>
        <4>1. PICK m \in 1..(n - 1) : /\ items[m].path = above
                                      /\ RowOf(m).dir /\ RowOf(m).record = RowOf(n).parent
          BY <3>1, <3>5
        <4> QED
          BY <3>2, <3>3, <3>5, <4>1 DEF above
      <3> QED
        BY <3>4, <3>5
    <2> QED
      BY <1>1, <2>1, <2>2
  <1>12. FramesPlaced'
    <2> SUFFICES ASSUME NEW k \in DOMAIN stack', NEW j \in stack'[k].rest
                 PROVE  UnderNext(stack'[k].base, db'[j].parent)
      BY DEF FramesPlaced, Under, UnderNext, RowOf
    <2>1. CASE k = 1 /\ shift = 1 /\ Enters(i)
      <3>1. Entered(db[i].record, path)
        BY <2>1 DEF Taken, path
      <3>2. stack'[k].base = path /\ db[j].parent = db[i].record
        BY <2>1, <3>1, DedupWithin DEF Entered, RowsOf
      <3>3. N \in DOMAIN items' /\ items'[N].path = path /\ db[i].dir
        BY <1>1, <2>1 DEF Enters
      <3> QED
        BY <1>1, <1>5, <3>2, <3>3 DEF UnderNext
    <2>2. ASSUME NEW h \in DOMAIN stack, stack'[k].base = stack[h].base,
                 stack'[k].rest \subseteq stack[h].rest
          PROVE  UnderNext(stack'[k].base, db'[j].parent)
      <3>1. Under(stack[h].base, db[j].parent)
        BY <2>2 DEF Placed, FramesPlaced
      <3> QED
        BY <1>1, <2>2, <3>1, UnderStays
    <2> QED
      BY <2>1, <2>2, FrameAfter
  <1> QED
    BY <1>7, <1>8, <1>9, <1>11, <1>12 DEF Placed

-----------------------------------------------------------------------------
(* Entries are listed once.                                                *)

\* A new frame holds rows of the directory that was entered.
LEMMA NewFrame ==
    ASSUME TypeOK, NEW i \in DOMAIN db, Taken(i, 1), Enters(i)
    PROVE  /\ db[i].record \notin visited_dirs
           /\ \A j \in stack'[1].rest : j \in DOMAIN db /\ db[j].parent = db[i].record
           /\ \A j, k \in stack'[1].rest : j # k => ~SameEntry(j, k)
  <1>1. PICK rows \in SUBSET RowsOf(db[i].record) : stack'[1].rest = dedup_children(rows)
    BY DEF Taken, Entered
  <1>2. rows \subseteq DOMAIN db /\ \A j \in rows : db[j].parent = db[i].record
    BY DEF RowsOf
  <1> QED
    BY <1>1, <1>2, DedupWithin, DedupApart DEF Enters

LEMMA OnceTaken ==
    ASSUME TypeOK, TypeOK', Once, NEW i \in DOMAIN db, NEW shift, Taken(i, shift)
    PROVE  Once'
  <1> DEFINE N == Len(items) + 1
  <1>1. /\ DOMAIN items' = DOMAIN items \cup {N}
        /\ \A n \in DOMAIN items : items'[n] = items[n]
        /\ items'[N].row = i /\ db' = db
    BY ItemsAfter
  <1>2. 1 \in DOMAIN stack /\ i \in stack[1].rest /\ db[i].parent \in visited_dirs
    BY StackType, EmptySeq DEF Taken, Once, ParentsEntered
  <1>3. visited_dirs \subseteq visited_dirs'
    BY DEF Taken, Entered
  <1>4. \A n \in DOMAIN items : db[items[n].row].parent \in visited_dirs
    BY DEF Once, ParentsEntered, RowOf
  <1>5. ASSUME NEW h \in DOMAIN stack, NEW j \in stack[h].rest, h # 1 \/ j # i,
               db[i].parent = db[j].parent
        PROVE  ~SameEntry(i, j)
    BY <1>2, <1>5 DEF Once, RestApart
  <1> HIDE DEF N
  <1>6. ParentsEntered'
    <2>1. ASSUME NEW n \in DOMAIN items'
          PROVE  db'[items'[n].row].parent \in visited_dirs'
      BY <1>1, <1>2, <1>3, <1>4
    <2>2. ASSUME NEW k \in DOMAIN stack', NEW j \in stack'[k].rest
          PROVE  db'[j].parent \in visited_dirs'
      <3>1. CASE k = 1 /\ shift = 1 /\ Enters(i)
        <4>1. db[j].parent = db[i].record
          BY <3>1, NewFrame
        <4>2. db[i].record \in visited_dirs'
          BY <3>1 DEF Taken, Entered
        <4> QED
          BY <1>1, <4>1, <4>2
      <3>2. ASSUME NEW h \in DOMAIN stack, stack'[k].rest \subseteq stack[h].rest
            PROVE  db'[j].parent \in visited_dirs'
        BY <1>1, <1>3, <3>2 DEF Once, ParentsEntered
      <3> QED
        BY <3>1, <3>2, FrameAfter
    <2> QED
      BY <2>1, <2>2 DEF ParentsEntered, RowOf
  <1>7. RestApart'
    <2> SUFFICES ASSUME NEW k \in DOMAIN stack', NEW l \in DOMAIN stack',
                        NEW g \in stack'[k].rest, NEW j \in stack'[l].rest,
                        k # l \/ g # j, db[g].parent = db[j].parent
                 PROVE  ~SameEntry(g, j)
      BY <1>1 DEF RestApart, SameEntry
    <2> DEFINE New(a) == a = 1 /\ shift = 1 /\ Enters(i)
    <2>1. ASSUME NEW a \in DOMAIN stack', ~New(a)
          PROVE  \E h \in DOMAIN stack : a = h + shift /\ stack'[a].rest \subseteq stack[h].rest
      BY <2>1, FrameAfter
    <2>2. CASE New(k) /\ New(l)
      BY <2>2, NewFrame
    <2>3. CASE New(k) /\ ~New(l)
      <3>1. db[g].parent \notin visited_dirs
        BY <2>3, NewFrame
      <3>2. db[j].parent \in visited_dirs
        BY <2>1, <2>3 DEF Once, ParentsEntered
      <3> QED
        BY <3>1, <3>2
    <2>4. CASE ~New(k) /\ New(l)
      <3>1. db[j].parent \notin visited_dirs
        BY <2>4, NewFrame
      <3>2. db[g].parent \in visited_dirs
        BY <2>1, <2>4 DEF Once, ParentsEntered
      <3> QED
        BY <3>1, <3>2
    <2>5. CASE ~New(k) /\ ~New(l)
      <3>1. PICK h \in DOMAIN stack : k = h + shift /\ stack'[k].rest \subseteq stack[h].rest
        BY <2>1, <2>5
      <3>2. PICK m \in DOMAIN stack : l = m + shift /\ stack'[l].rest \subseteq stack[m].rest
        BY <2>1, <2>5
      <3>3. h # m \/ g # j
        BY <3>1, <3>2
      <3> QED
        BY <3>1, <3>2, <3>3 DEF Once, RestApart
    <2> QED
      BY <2>2, <2>3, <2>4, <2>5
  <1>8. RestNew'
    <2> SUFFICES ASSUME NEW n \in DOMAIN items', NEW k \in DOMAIN stack',
                        NEW j \in stack'[k].rest,
                        db[items'[n].row].parent = db[j].parent
                 PROVE  ~SameEntry(items'[n].row, j)
      BY <1>1 DEF RestNew, RowOf, SameEntry
    <2>1. db[items'[n].row].parent \in visited_dirs
      BY <1>1, <1>2, <1>4
    <2>2. CASE k = 1 /\ shift = 1 /\ Enters(i)
      BY <2>1, <2>2, NewFrame
    <2>3. ASSUME NEW h \in DOMAIN stack, stack'[k].rest \subseteq stack[h].rest,
                 h = 1 => i \notin stack'[k].rest
          PROVE  ~SameEntry(items'[n].row, j)
      <3>1. CASE n \in DOMAIN items
        BY <1>1, <2>3, <3>1 DEF Once, RestNew, RowOf
      <3>2. CASE n = N
        <4>1. items'[n].row = i /\ j \in stack[h].rest /\ (h # 1 \/ j # i)
          BY <1>1, <2>3, <3>2
        <4> QED
          BY <1>5, <4>1
      <3> QED
        BY <1>1, <3>1, <3>2
    <2> QED
      BY <2>2, <2>3, FrameAfter
  <1>9. EachEntryOnce'
    <2> SUFFICES ASSUME NEW m \in DOMAIN items', NEW n \in DOMAIN items', m # n,
                        db[items'[m].row].parent = db[items'[n].row].parent
                 PROVE  ~SameEntry(items'[m].row, items'[n].row)
      BY <1>1 DEF EachEntryOnce, RowOf, SameEntry
    <2>1. \A a \in DOMAIN items : db[items[a].row].parent = db[i].parent =>
             ~SameEntry(items[a].row, i) /\ ~SameEntry(i, items[a].row)
      BY <1>2 DEF Once, RestNew, RowOf, SameEntry
    <2>2. CASE m \in DOMAIN items /\ n \in DOMAIN items
      BY <1>1, <2>2 DEF Once, EachEntryOnce, RowOf
    <2>3. CASE m = N \/ n = N
      BY <1>1, <2>1, <2>3
    <2> QED
      BY <1>1, <2>2, <2>3
  <1> QED
    BY <1>6, <1>7, <1>8, <1>9 DEF Once

-----------------------------------------------------------------------------
(* Nothing is left out.                                                    *)

LEMMA CompleteTaken ==
    ASSUME TypeOK, TypeOK', Prefix, Complete, NEW i \in DOMAIN db, NEW shift, Taken(i, shift)
    PROVE  Complete'
  <1> DEFINE N == Len(items) + 1
  <1>1. /\ DOMAIN items' = DOMAIN items \cup {N}
        /\ \A n \in DOMAIN items : items'[n] = items[n]
        /\ items'[N].row = i /\ db' = db /\ before' = before
    BY ItemsAfter DEF Taken
  <1>2. visited_dirs \subseteq visited_dirs' /\ lost \subseteq lost'
    BY DEF Taken, Entered
  <1> HIDE DEF N
  <1>3. DirsEntered'
    <2> SUFFICES ASSUME NEW n \in DOMAIN items', db[items'[n].row].dir
                 PROVE  db[items'[n].row].record \in visited_dirs'
      BY <1>1 DEF DirsEntered, RowOf
    <2>1. CASE n \in DOMAIN items
      BY <1>1, <1>2, <2>1 DEF Complete, DirsEntered, RowOf
    <2>2. CASE n = N
      BY <1>1, <1>2, <2>2 DEF Taken, Entered, Enters
    <2> QED
      BY <1>1, <2>1, <2>2
  <1>4. Kept'
    <2> DEFINE Alike(a, b) == db[a].record = db[b].record /\ db[a].parent = db[b].parent
    <2> SUFFICES ASSUME NEW j \in DOMAIN before, db[j].parent \in visited_dirs' \ lost'
                 PROVE  \/ \E n \in DOMAIN items' : Alike(items'[n].row, j)
                        \/ \E k \in DOMAIN stack' : \E g \in stack'[k].rest : Alike(g, j)
      BY <1>1 DEF Kept, Listed, Left, RowOf
    <2>1. j \in DOMAIN db
      BY DEF Prefix
    <2>2. CASE Enters(i) /\ db[j].parent = db[i].record
      <3>1. shift = 1 /\ Entered(db[i].record, relative(stack[1].base, i))
        BY <2>2 DEF Taken
      <3>2. PICK rows \in SUBSET RowsOf(db[i].record) :
                /\ stack'[1].rest = dedup_children(rows)
                /\ lost' = IF rows = RowsOf(db[i].record) THEN lost
                           ELSE lost \cup {db[i].record}
        BY <3>1 DEF Entered
      <3>3. rows = RowsOf(db[i].record)
        BY <2>2, <3>2
      <3>4. j \in rows /\ rows \in SUBSET DOMAIN db
        BY <2>1, <2>2, <3>3 DEF RowsOf
      <3>5. PICK g \in dedup_children(rows) : db[g].record = db[j].record
        BY <3>4, DedupKeeps
      <3>6. db[g].parent = db[j].parent
        BY <2>2, <3>3, DedupWithin DEF RowsOf
      <3>7. 1 \in DOMAIN stack'
        <4>1. stack' \in Seq(Frames)' /\ Len(stack') = Len(stack) + 1 /\ Len(stack) \in Nat
          BY <3>1, StackType DEF Taken, TypeOK, Frames
        <4> QED
          BY <4>1, LenProperties
      <3> QED
        BY <3>2, <3>5, <3>6, <3>7
    <2>3. CASE ~(Enters(i) /\ db[j].parent = db[i].record)
      <3>1. db[j].parent \in visited_dirs \ lost
        BY <1>2, <2>3 DEF Taken, Entered
      <3>2. Listed(j) \/ Left(j)
        BY <3>1 DEF Complete, Kept
      <3>3. CASE Listed(j)
        BY <1>1, <3>3 DEF Listed, RowOf
      <3>4. CASE Left(j)
        <4>1. PICK k \in DOMAIN stack : \E g \in stack[k].rest : Alike(g, j)
          BY <3>4 DEF Left
        <4>2. PICK g \in stack[k].rest : Alike(g, j)
          BY <4>1
        <4>3. CASE g = i
          BY <1>1, <4>2, <4>3
        <4>4. CASE g # i
          <5>1. g \in stack'[k + shift].rest
            BY <4>2, <4>4, StackType DEF Taken
          <5>2. k + shift \in DOMAIN stack'
            <6>1. stack' \in Seq(Frames)' /\ Len(stack') = Len(stack) + shift
                  /\ Len(stack) \in Nat /\ shift \in {0, 1} /\ k \in 1..Len(stack)
              BY StackType DEF Taken, TypeOK, Frames
            <6> QED
              BY <6>1, LenProperties
          <5> QED
            BY <4>2, <5>1, <5>2
        <4> QED
          BY <4>3, <4>4
      <3> QED
        BY <3>2, <3>3, <3>4
    <2> QED
      BY <2>2, <2>3
  <1> QED
    BY <1>3, <1>4 DEF Complete

-----------------------------------------------------------------------------
(* The other actions.                                                      *)

LEMMA PlacedSame ==
    ASSUME TypeOK, Prefix, Placed, Once, Complete,
           UNCHANGED <<db, before, lost, stack, items, visited_dirs, collisions>>
    PROVE  Prefix' /\ Placed' /\ Once' /\ Complete'
  <1>1. Prefix'
    BY DEF Prefix
  <1>2. Placed'
    BY DEF Placed, UniqueOutputs, SameOutput, KeysOfItems, collision_key, ItemsNamed,
           ParentsFirst, FramesPlaced, Under, RowOf
  <1>3. Once'
    BY DEF Once, ParentsEntered, RestApart, RestNew, EachEntryOnce, SameEntry, RowOf
  <1>4. Complete'
    BY DEF Complete, DirsEntered, Kept, Listed, Left, RowOf
  <1> QED
    BY <1>1, <1>2, <1>3, <1>4

LEMMA FindRootInv == ASSUME IInv, FindRoot PROVE IInv'
  <1> USE DEF IInv
  <1>1. /\ stack = <<>> /\ items = <<>> /\ visited_dirs = {} /\ collisions = {} /\ lost = {}
        /\ UNCHANGED <<db, before, scanning, items, collisions>>
    BY DEF FindRoot, Fresh
  <1>2. CASE state' = "no_root" /\ UNCHANGED <<lost, visited_dirs, stack>>
    <2>1. Prefix' /\ Placed' /\ Once' /\ Complete'
      BY <1>1, <1>2, PlacedSame
    <2> QED
      BY <1>1, <1>2, <2>1 DEF TypeOK, Fresh, Finished, RootEntered
  <1>3. CASE state' = "walk" /\ Enter(Root, <<>>, <<>>)
    <2>1. /\ Entered(Root, <<>>)
          /\ stack' \in Seq(Frames) /\ Len(stack') = 1
          /\ lost' \subseteq Records /\ visited_dirs' \subseteq Records
      <3>1. <<>> \in Paths /\ <<>> \in Seq(Frames) /\ Len(<<>>) = 0
        BY DEF Paths
      <3>2. Root \in Records /\ db' = db
        BY <1>1, CollectAssumption
      <3> DEFINE none == <<>>
      <3>3. none \in Paths /\ none \in Seq(Frames) /\ Len(none) = 0
            /\ Enter(Root, none, none)
        BY <1>3, <3>1
      <3> HIDE DEF none
      <3>4. /\ Entered(Root, none) /\ stack' \in Seq(Frames) /\ Len(stack') = Len(none) + 1
            /\ lost' \subseteq Records /\ visited_dirs' \subseteq Records
        BY <3>2, <3>3, EnterEffect
      <3> QED
        BY <3>3, <3>4 DEF none
    <2>2. DOMAIN stack' = {1} /\ stack'[1].base = <<>> /\ visited_dirs' = {Root}
      BY <1>1, <2>1, LenProperties DEF Entered
    <2>3. PICK rows \in SUBSET RowsOf(Root) :
              /\ stack'[1].rest = dedup_children(rows)
              /\ lost' = IF rows = RowsOf(Root) THEN lost ELSE lost \cup {Root}
      BY <2>1 DEF Entered
    <2>4. /\ rows \in SUBSET DOMAIN db
          /\ \A j \in stack'[1].rest : j \in DOMAIN db /\ db[j].parent = Root
      BY <2>3, DedupWithin DEF RowsOf
    <2>5. TypeOK'
      BY <1>1, <1>3, <2>1 DEF TypeOK, Frames, Items
    <2>6. Placed'
      BY <1>1, <2>2, <2>4 DEF Placed, UniqueOutputs, KeysOfItems, ItemsNamed, ParentsFirst,
                              FramesPlaced, Under
    <2>7. Once'
      <3>1. \A j, k \in stack'[1].rest : j # k => ~SameEntry(j, k)
        BY <2>3, <2>4, DedupApart
      <3>2. RestApart'
        BY <1>1, <2>2, <3>1 DEF RestApart, SameEntry
      <3> QED
        BY <1>1, <2>2, <2>4, <3>2 DEF Once, ParentsEntered, RestNew, EachEntryOnce
    <2>8. Complete'
      <3>1. ASSUME NEW j \in DOMAIN before', db'[j].parent \in visited_dirs' \ lost'
            PROVE  Left(j)'
        <4>1. j \in DOMAIN db /\ db[j].parent = Root
          BY <1>1, <2>2, <3>1 DEF Prefix
        <4>2. rows = RowsOf(Root)
          BY <1>1, <2>3, <3>1, <4>1
        <4>3. j \in rows
          BY <4>1, <4>2 DEF RowsOf
        <4>4. PICK g \in dedup_children(rows) : db[g].record = db[j].record
          BY <2>4, <4>3, DedupKeeps
        <4> QED
          BY <1>1, <2>2, <2>3, <2>4, <4>1, <4>4 DEF Left
      <3> QED
        BY <1>1, <3>1 DEF Complete, DirsEntered, Kept
    <2> QED
      BY <1>1, <1>3, <2>2, <2>5, <2>6, <2>7, <2>8 DEF Prefix, Fresh, Finished, RootEntered
  <1> QED
    BY <1>2, <1>3 DEF FindRoot

LEMMA ReturnInv == ASSUME IInv, Return PROVE IInv'
  <1> USE DEF IInv
  <1>1. /\ stack # <<>> /\ Head(stack).rest = {} /\ state = "walk" /\ stack' = Tail(stack)
        /\ state' = IF stack' = <<>> THEN "listed" ELSE "walk"
        /\ UNCHANGED <<db, before, scanning, lost, items, visited_dirs, collisions>>
    BY DEF Return
  <1>2. /\ stack' \in Seq(Frames) /\ Len(stack') = Len(stack) - 1
        /\ \A k \in 1..Len(stack') : stack'[k] = stack[k + 1]
    BY <1>1, StackType, HeadTailProperties
  <1>3. Head(stack) = stack[1] /\ Len(stack) \in Nat \ {0} /\ DOMAIN stack = 1..Len(stack)
    BY <1>1, StackType, EmptySeq
  <1>4. DOMAIN stack' = 1..Len(stack') /\ Len(stack') \in Nat
    BY <1>2, LenProperties
  <1>5. \A k \in DOMAIN stack' : k \in Nat /\ k + 1 \in DOMAIN stack /\ stack'[k] = stack[k + 1]
    BY <1>2, <1>3, <1>4
  <1>6. ASSUME NEW k \in DOMAIN stack, k # 1
        PROVE  k - 1 \in DOMAIN stack' /\ stack'[k - 1] = stack[k]
    <2>1. k - 1 \in DOMAIN stack' /\ (k - 1) + 1 = k
      BY <1>2, <1>3, <1>4, <1>6
    <2> QED
      BY <1>5, <2>1
  <1>7. TypeOK' /\ Prefix'
    BY <1>1, <1>2 DEF TypeOK, Prefix, Frames
  <1>8. Placed'
    <2>1. FramesPlaced'
      BY <1>1, <1>5 DEF Placed, FramesPlaced, Under, RowOf
    <2>2. UniqueOutputs' /\ KeysOfItems'
      BY <1>1 DEF Placed, UniqueOutputs, SameOutput, KeysOfItems, collision_key
    <2>3. ItemsNamed' /\ ParentsFirst'
      BY <1>1 DEF Placed, ItemsNamed, ParentsFirst, RowOf
    <2> QED
      BY <2>1, <2>2, <2>3 DEF Placed
  <1>9. Once'
    <2>1. ParentsEntered'
      BY <1>1, <1>5 DEF Once, ParentsEntered, RowOf
    <2>2. RestApart'
      <3> SUFFICES ASSUME NEW k \in DOMAIN stack', NEW l \in DOMAIN stack',
                          NEW i \in stack'[k].rest, NEW j \in stack'[l].rest,
                          k # l \/ i # j, db[i].parent = db[j].parent
                   PROVE  ~SameEntry(i, j)
        BY <1>1 DEF RestApart, SameEntry
      <3>1. /\ k + 1 \in DOMAIN stack /\ l + 1 \in DOMAIN stack
            /\ i \in stack[k + 1].rest /\ j \in stack[l + 1].rest
            /\ k + 1 # l + 1 \/ i # j
        BY <1>5
      <3> QED
        BY <3>1 DEF Once, RestApart
    <2>3. RestNew'
      BY <1>1, <1>5 DEF Once, RestNew, SameEntry, RowOf
    <2>4. EachEntryOnce'
      BY <1>1 DEF Once, EachEntryOnce, SameEntry, RowOf
    <2> QED
      BY <2>1, <2>2, <2>3, <2>4 DEF Once
  <1>10. Complete'
    <2>1. ASSUME NEW j, Left(j) PROVE Left(j)'
      <3>1. PICK k \in DOMAIN stack : \E g \in stack[k].rest :
                db[g].record = db[j].record /\ db[g].parent = db[j].parent
        BY <2>1 DEF Left
      <3>2. k # 1
        BY <1>1, <1>3, <3>1
      <3>3. k - 1 \in DOMAIN stack' /\ stack'[k - 1] = stack[k]
        BY <1>6, <3>2
      <3> QED
        BY <1>1, <3>1, <3>3 DEF Left
    <2>2. ASSUME NEW j, Listed(j) PROVE Listed(j)'
      BY <1>1, <2>2 DEF Listed, RowOf
    <2>3. Kept'
      BY <1>1, <2>1, <2>2 DEF Complete, Kept
    <2> QED
      BY <1>1, <2>3 DEF Complete, DirsEntered, RowOf
  <1> QED
    BY <1>1, <1>7, <1>8, <1>9, <1>10 DEF Fresh, Finished, RootEntered

\* A commit leaves the rows that were there.
LEMMA RowsAdded ==
    ASSUME TypeOK, ScanCommits
    PROVE  /\ db' \in Seq(Rows) /\ DOMAIN db \subseteq DOMAIN db'
           /\ \A i \in DOMAIN db : db'[i] = db[i]
  <1>1. PICK batch \in Commits : db' = db \o batch
    BY DEF ScanCommits
  <1>2. batch \in Seq(Rows) /\ db \in Seq(Rows)
    BY CollectAssumption DEF TypeOK
  <1>3. /\ db \o batch \in Seq(Rows) /\ Len(db \o batch) = Len(db) + Len(batch)
        /\ \A i \in 1..(Len(db) + Len(batch)) :
              (db \o batch)[i] = IF i <= Len(db) THEN db[i] ELSE batch[i - Len(db)]
    BY <1>2, ConcatProperties
  <1>4. /\ Len(db) \in Nat /\ Len(batch) \in Nat /\ DOMAIN db = 1..Len(db)
        /\ DOMAIN (db \o batch) = 1..Len(db \o batch)
    BY <1>2, <1>3, LenProperties
  <1> QED
    BY <1>1, <1>3, <1>4

LEMMA ScanCommitsInv == ASSUME IInv, ScanCommits PROVE IInv'
  <1> USE DEF IInv
  <1>2. UNCHANGED <<before, lost, state, stack, items, visited_dirs, collisions>>
        /\ scanning' = FALSE
    BY DEF ScanCommits
  <1>3. /\ db' \in Seq(Rows) /\ DOMAIN db \subseteq DOMAIN db'
        /\ \A i \in DOMAIN db : db'[i] = db[i]
    BY RowsAdded
  <1>4. \A k \in DOMAIN stack : \A i \in stack[k].rest : i \in DOMAIN db /\ db'[i] = db[i]
    BY <1>3, StackType
  <1>5. \A n \in DOMAIN items : items[n].row \in DOMAIN db /\ db'[items[n].row] = db[items[n].row]
    BY <1>3, StackType
  <1>6. TypeOK'
    <2>1. stack \in Seq(Frames') /\ items \in Seq(Items')
      <3>1. Frames \subseteq Frames' /\ Items \subseteq Items'
        BY <1>3 DEF Frames, Items
      <3> QED
        BY <3>1, StackType, SeqMonotonic
    <2> QED
      BY <1>2, <1>3, <2>1 DEF TypeOK, Frames, Items
  <1>7. Prefix'
    BY <1>2, <1>3 DEF Prefix
  <1>8. Placed'
    <2>1. FramesPlaced'
      BY <1>2, <1>4, <1>5 DEF Placed, FramesPlaced, Under, RowOf
    <2>2. ParentsFirst'
      <3> SUFFICES ASSUME NEW n \in DOMAIN items
                   PROVE  LET above == SubSeq(items[n].path, 1, Len(items[n].path) - 1) IN
                          IF above = <<>> THEN db[items[n].row].parent = Root
                          ELSE \E m \in 1..(n - 1) :
                                  /\ items[m].path = above
                                  /\ db'[items[m].row].dir
                                  /\ db'[items[m].row].record = db[items[n].row].parent
        BY <1>2, <1>5 DEF ParentsFirst, RowOf
      <3>1. \A m \in 1..(n - 1) : m \in DOMAIN items
        BY StackType
      <3> QED
        BY <1>5, <3>1 DEF Placed, ParentsFirst, RowOf
    <2> QED
      BY <1>2, <1>5, <2>1, <2>2 DEF Placed, UniqueOutputs, SameOutput, KeysOfItems,
                                    collision_key, ItemsNamed, RowOf
  <1>9. Once'
    BY <1>2, <1>4, <1>5 DEF Once, ParentsEntered, RestApart, RestNew, EachEntryOnce,
                            SameEntry, RowOf
  <1>10. Complete'
    <2>1. \A j \in DOMAIN before : j \in DOMAIN db /\ db'[j] = db[j]
      BY <1>3 DEF Prefix
    <2>2. ASSUME NEW j \in DOMAIN before
          PROVE  (Left(j) => Left(j)') /\ (Listed(j) => Listed(j)')
      BY <1>2, <1>4, <1>5, <2>1 DEF Left, Listed, RowOf
    <2> QED
      BY <1>2, <1>5, <2>1, <2>2 DEF Complete, DirsEntered, Kept, RowOf
  <1> QED
    BY <1>2, <1>6, <1>7, <1>8, <1>9, <1>10 DEF Fresh, Finished, RootEntered

LEMMA TakeChildInv == ASSUME IInv, TakeChild PROVE IInv'
  <1> USE DEF IInv
  <1>1. ASSUME NEW i \in DOMAIN db, NEW shift, Taken(i, shift), TypeOK' PROVE IInv'
    <2>1. Placed' /\ Once' /\ Complete'
      BY <1>1, PlacedTaken, OnceTaken, CompleteTaken
    <2>2. UNCHANGED <<db, before, state>> /\ visited_dirs \subseteq visited_dirs'
      BY <1>1 DEF Taken, Entered
    <2>3. state = "walk"
      BY DEF TakeChild
    <2> QED
      BY <1>1, <2>1, <2>2, <2>3 DEF Prefix, Fresh, Finished, RootEntered
  <1>2. ASSUME state' = "collision",
               UNCHANGED <<db, before, scanning, lost, stack, items, visited_dirs, collisions>>
        PROVE  IInv'
    <2>1. Prefix' /\ Placed' /\ Once' /\ Complete'
      BY <1>2, PlacedSame
    <2> QED
      BY <1>2, <2>1 DEF TypeOK, Fresh, Finished, RootEntered
  <1> QED
    BY <1>1, <1>2, TakeEffect

LEMMA InitInv == Init => IInv
  <1> SUFFICES ASSUME Init PROVE IInv
    OBVIOUS
  <1> USE DEF Init
  <1>1. db \in Seq(Rows) /\ before = db
    BY CollectAssumption
  <1>2. stack = <<>> /\ items = <<>> /\ DOMAIN stack = {} /\ DOMAIN items = {}
    OBVIOUS
  <1>3. stack \in Seq(Frames) /\ items \in Seq(Items)
    BY <1>2
  <1>4. TypeOK
    BY <1>1, <1>3 DEF TypeOK, Frames, Items
  <1>5. Placed
    BY <1>2 DEF Placed, UniqueOutputs, KeysOfItems, ItemsNamed, ParentsFirst, FramesPlaced
  <1>6. Once
    BY <1>2 DEF Once, ParentsEntered, RestApart, RestNew, EachEntryOnce
  <1>7. Complete
    BY <1>2 DEF Complete, DirsEntered, Kept
  <1> QED
    BY <1>1, <1>4, <1>5, <1>6, <1>7 DEF IInv, Prefix, Fresh, Finished, RootEntered

LEMMA NextInv == IInv /\ [Next]_vars => IInv'
  <1> SUFFICES ASSUME IInv, [Next]_vars PROVE IInv'
    OBVIOUS
  <1>1. CASE UNCHANGED vars
    <2>1. Prefix' /\ Placed' /\ Once' /\ Complete'
      BY <1>1, PlacedSame DEF vars, IInv
    <2> QED
      BY <1>1, <2>1 DEF vars, IInv, TypeOK, Fresh, Finished, RootEntered
  <1>2. CASE FindRoot
    BY <1>2, FindRootInv
  <1>3. CASE TakeChild
    BY <1>3, TakeChildInv
  <1>4. CASE Return
    BY <1>4, ReturnInv
  <1>5. CASE ScanCommits
    BY <1>5, ScanCommitsInv
  <1> QED
    BY <1>1, <1>2, <1>3, <1>4, <1>5 DEF Next

LEMMA Invariant == Spec => []IInv
  BY InitInv, NextInv, PTL DEF Spec

\* Every variable keeps its type.
THEOREM WalkTyped == Spec => []TypeOK
  <1>1. IInv => TypeOK
    BY DEF IInv
  <1> QED
    BY <1>1, Invariant, PTL

\* No two items have paths that a case-insensitive destination, or sanitizing,
\* would take for one: CollisionIndex holds exactly the keys of the list.
THEOREM OutputsApart == Spec => []UniqueOutputs
  <1>1. IInv => UniqueOutputs
    BY DEF IInv, Placed
  <1> QED
    BY <1>1, Invariant, PTL

\* Every item lies in a directory listed before it, its parent in the index.
THEOREM DirectoriesFirst == Spec => []ParentsFirst
  <1>1. IInv => ParentsFirst
    BY DEF IInv, Placed
  <1> QED
    BY <1>1, Invariant, PTL

\* Whatever cycles and repeated rows the index has, no name of a record is listed
\* twice below one parent.
THEOREM EntriesOnce == Spec => []EachEntryOnce
  <1>1. IInv => EachEntryOnce
    BY DEF IInv, Once
  <1> QED
    BY <1>1, Invariant, PTL

\* A finished list has every record of the directories it entered, except where
\* a query failed.
THEOREM WholeTree == Spec => []NothingLeftOut
  <1>1. ASSUME IInv PROVE NothingLeftOut
    <2> SUFFICES ASSUME state = "listed" PROVE NothingLeftOut
      BY DEF NothingLeftOut
    <2>1. stack = <<>> /\ Root \in visited_dirs /\ DirsEntered
      BY <1>1 DEF IInv, Finished, RootEntered, Complete
    <2>2. ASSUME NEW i \in DOMAIN before, before[i].parent \in visited_dirs \ lost
          PROVE  \E n \in DOMAIN items : /\ RowOf(n).record = before[i].record
                                         /\ RowOf(n).parent = before[i].parent
      <3>1. db[i] = before[i]
        BY <1>1 DEF IInv, Prefix
      <3>2. Listed(i) \/ Left(i)
        BY <1>1, <2>2, <3>1 DEF IInv, Complete, Kept
      <3>3. ~Left(i)
        BY <2>1 DEF Left
      <3> QED
        BY <3>1, <3>2, <3>3 DEF Listed
    <2> QED
      BY <2>1, <2>2 DEF NothingLeftOut, DirsEntered
  <1> QED
    BY <1>1, Invariant, PTL

-----------------------------------------------------------------------------
(* Refusals.                                                               *)

\* Paths of one key lie below the same record.
LEMMA SameParent ==
    ASSUME IInv, NEW p \in Paths, NEW q \in Paths, SameOutput(p, q),
           NEW a, Under(p, a), NEW b, Under(q, b)
    PROVE  a = b
  <1>1. p = <<>> <=> q = <<>>
    <2>1. Len(p) = Len(q) /\ (p = <<>> <=> Len(p) = 0) /\ (q = <<>> <=> Len(q) = 0)
      BY EmptySeq DEF SameOutput, Paths
    <2> QED
      BY <2>1
  <1>2. CASE p = <<>>
    BY <1>1, <1>2 DEF Under
  <1>3. CASE p # <<>>
    <2>1. PICK m \in DOMAIN items : items[m].path = p /\ RowOf(m).record = a
      BY <1>3 DEF Under
    <2>2. PICK n \in DOMAIN items : items[n].path = q /\ RowOf(n).record = b
      BY <1>1, <1>3 DEF Under
    <2>3. m = n
      BY <2>1, <2>2 DEF IInv, Placed, UniqueOutputs
    <2> QED
      BY <2>1, <2>2, <2>3
  <1> QED
    BY <1>2, <1>3

\* The row taken and the item of its key are two entries of one directory.
LEMMA RealCollision ==
    ASSUME IInv, stack # <<>>, NEW i \in stack[1].rest,
           collision_key(relative(stack[1].base, i)) \in collisions
    PROVE  \E j \in DOMAIN db : /\ db[i].parent = db[j].parent /\ ~SameEntry(i, j)
                                /\ Key[db[i].name] = Key[db[j].name]
  <1> DEFINE base == stack[1].base
             path == relative(base, i)
  <1>1. TypeOK /\ 1 \in DOMAIN stack /\ base \in Paths /\ i \in DOMAIN db
    <2>1. TypeOK
      BY DEF IInv
    <2>2. 1 \in DOMAIN stack
      BY <2>1, StackType, EmptySeq
    <2> QED
      BY <2>1, <2>2, StackType
  <1>2. /\ path \in Paths /\ Len(path) = Len(base) + 1 /\ path[Len(base) + 1] = db[i].name
        /\ Len(base) \in Nat /\ \A k \in 1..Len(base) : path[k] = base[k]
    BY <1>1, PathType, LenProperties DEF Paths
  <1>3. PICK n \in DOMAIN items : collision_key(items[n].path) = collision_key(path)
    BY DEF IInv, Placed, KeysOfItems
  <1> DEFINE other == items[n].path
             above == SubSeq(other, 1, Len(other) - 1)
  <1>4. other \in Paths /\ items[n].row \in DOMAIN db
    BY <1>1, <1>3, StackType
  <1> HIDE DEF path, other
  <1>5. SameOutput(other, path)
    BY <1>2, <1>3, <1>4, SameKey DEF other
  <1>6. Len(other) = Len(base) + 1 /\ \A k \in 1..Len(other) : Key[other[k]] = Key[path[k]]
    BY <1>2, <1>4, <1>5, LenProperties DEF SameOutput, Paths
  <1>7. other[Len(other)] = db[items[n].row].name
    BY <1>3 DEF IInv, Placed, ItemsNamed, RowOf, other
  <1>8. Key[db[i].name] = Key[db[items[n].row].name]
    BY <1>2, <1>6, <1>7
  <1>9. above \in Paths /\ SameOutput(above, base)
    <2>1. \A k \in 1..(Len(other) - 1) : other[k] \in Names
      BY <1>4, LenProperties DEF Paths
    <2>2. /\ above \in Paths /\ Len(above) = Len(base)
          /\ \A k \in 1..Len(base) : above[k] = other[k]
      BY <1>2, <1>6, <2>1, SubSeqProperties DEF Paths
    <2>3. DOMAIN above = 1..Len(base)
      BY <2>2, LenProperties DEF Paths
    <2>4. ASSUME NEW k \in 1..Len(base) PROVE Key[above[k]] = Key[base[k]]
      <3>1. k \in 1..Len(other) /\ above[k] = other[k] /\ path[k] = base[k]
        BY <1>2, <1>6, <2>2
      <3>2. Key[other[k]] = Key[path[k]]
        BY <1>6, <3>1
      <3> QED
        BY <3>1, <3>2
    <2> QED
      BY <2>2, <2>3, <2>4 DEF SameOutput
  <1>10. Under(above, db[items[n].row].parent)
    <2>1. IF above = <<>> THEN RowOf(n).parent = Root
          ELSE \E m \in 1..(n - 1) :
                  /\ items[m].path = above
                  /\ RowOf(m).dir /\ RowOf(m).record = RowOf(n).parent
      BY <1>3 DEF IInv, Placed, ParentsFirst, other
    <2>2. \A m \in 1..(n - 1) : m \in DOMAIN items
      BY <1>1, <1>3, StackType
    <2> HIDE DEF above
    <2> QED
      BY <2>1, <2>2 DEF Under, RowOf
  <1>11. Under(base, db[i].parent)
    BY <1>1 DEF IInv, Placed, FramesPlaced
  <1> HIDE DEF above, base
  <1>12. db[items[n].row].parent = db[i].parent
    BY <1>1, <1>9, <1>10, <1>11, SameParent
  <1>13. ~SameEntry(items[n].row, i)
    BY <1>1, <1>3, <1>12 DEF IInv, Once, RestNew, RowOf
  <1> QED
    BY <1>4, <1>8, <1>12, <1>13 DEF SameEntry

\* A collision is one of two different entries of a directory.
THEOREM RefusalsReal == Spec => []CollisionIsReal
  <1>1. Init => CollisionIsReal
    BY DEF Init, CollisionIsReal
  <1>2. ASSUME IInv, CollisionIsReal, [Next]_vars PROVE CollisionIsReal'
    <2>1. CASE UNCHANGED vars \/ FindRoot \/ Return
      BY <1>2, <2>1 DEF vars, FindRoot, Return, CollisionIsReal, SameEntry
    <2>2. CASE TakeChild
      <3>1. TypeOK
        BY <1>2 DEF IInv
      <3>2. ASSUME NEW i \in DOMAIN db, NEW shift, Taken(i, shift) PROVE CollisionIsReal'
        BY <2>2, <3>2 DEF Taken, TakeChild, CollisionIsReal
      <3>3. ASSUME stack # <<>>, UNCHANGED db, NEW i \in stack[1].rest,
                   collision_key(relative(stack[1].base, i)) \in collisions
            PROVE  CollisionIsReal'
        <4>1. i \in DOMAIN db
          <5>1. 1 \in DOMAIN stack
            BY <3>1, <3>3, StackType, EmptySeq
          <5> QED
            BY <3>1, <5>1, StackType
        <4>2. PICK j \in DOMAIN db : /\ db[i].parent = db[j].parent /\ ~SameEntry(i, j)
                                    /\ Key[db[i].name] = Key[db[j].name]
          BY <1>2, <3>3, RealCollision
        <4> QED
          BY <3>3, <4>1, <4>2 DEF CollisionIsReal, SameEntry
      <3> QED
        BY <2>2, <3>1, <3>2, <3>3, TakeEffect
    <2>3. CASE ScanCommits
      <3>1. DOMAIN db \subseteq DOMAIN db' /\ \A i \in DOMAIN db : db'[i] = db[i]
        BY <1>2, <2>3, RowsAdded DEF IInv
      <3> QED
        BY <1>2, <2>3, <3>1 DEF ScanCommits, CollisionIsReal, SameEntry
    <2> QED
      BY <1>2, <2>1, <2>2, <2>3 DEF Next
  <1> QED
    BY <1>1, <1>2, Invariant, PTL DEF Spec
=============================================================================
