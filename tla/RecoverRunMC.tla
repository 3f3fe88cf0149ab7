---------------------------- MODULE RecoverRunMC ----------------------------
(***************************************************************************)
(* Instances of RecoverRun for TLC.  Each family of starts varies one thing:*)
(* the streams of a record, the records on the source, the output path, the *)
(* paths given, the names.  A byte has two digits of base 4, an integer has *)
(* two bytes, a cluster four.                                              *)
(***************************************************************************)
EXTENDS RecoverRun

Source == 1     \* the source, as a block device
Other == 2      \* another storage
Image == 9      \* the source, as an image file

Block == [kind |-> "block", id |-> Source]

AllObjects ==
    {Block, [kind |-> "file", id |-> Image], [kind |-> "char", id |-> Source],
     [kind |-> "gone", id |-> 0]}

-----------------------------------------------------------------------------
(* Output paths of up to three components.                                 *)

Dir(dev) == [kind |-> "dir", dev |-> dev]
Ends == [kind : {"absent", "dangling", "file"}, dev : {Other}]
Entries == [kind : {"dir", "link"}, dev : {Source, Other}] \cup Ends

\* Below what is no directory there is nothing.  Where the root directory itself is
\* on the source, the first component exists.
AllChains ==
    {chain \in {[k \in 0..3 |-> IF k = 0 THEN Dir(root) ELSE entries[k]] :
                    root \in {Source, Other}, entries \in [1..3 -> Entries]} :
        /\ \A k \in 1..3 : IsDirectory(chain[k]) \/
              \A j \in (k + 1)..3 : chain[j] = [kind |-> "absent", dev |-> Other]
        /\ chain[0].dev = Source => IsDirectory(chain[1])}

Plain == [k \in 0..3 |-> IF k < 2 THEN Dir(Other) ELSE [kind |-> "absent", dev |-> Other]]

-----------------------------------------------------------------------------
(* Records.                                                                *)

Name(units, size) ==
    [type |-> "name", fits |-> TRUE, resident |-> TRUE, inside |-> TRUE,
     units |-> units, size |-> size]

Resident(content) ==
    [type |-> "data", fits |-> TRUE, resident |-> TRUE, inside |-> TRUE, plain |-> TRUE,
     sound |-> TRUE, content |-> content, size |-> Len(content)]

Stream(bytes, extents, headers, size, sound) ==
    [type |-> "data", fits |-> TRUE, resident |-> FALSE, inside |-> TRUE, plain |-> TRUE,
     sound |-> sound, bytes |-> bytes, extents |-> extents, headers |-> headers, size |-> size]

Record(number, attributes) ==
    [file |-> TRUE, usa |-> TRUE, usn |-> 7, trailers |-> <<7, 7>>, number |-> number,
     attributes |-> attributes]

\* How a volume writes down extents, with integers of `width` bytes.
Encode(extents, width) ==
    LET Little(n) == [k \in 1..width |-> (n \div 16 ^ (k - 1)) % 16]
        Base_lcn(i) == LET earlier == {j \in 1..(i - 1) : extents[j].lcn # Hole} IN
                   IF earlier = {} THEN 0 ELSE extents[Max(earlier)].lcn
        One(i) == LET e == extents[i] IN
                  IF e.lcn = Hole THEN <<width>> \o Little(e.count)
                  ELSE <<4 * width + width>> \o Little(e.count)
                           \o Little((e.lcn - Base_lcn(i)) % 16 ^ width)
    IN  FlattenSeq([i \in DOMAIN extents |-> One(i)]) \o <<0>>

\* Where the headers are.
Headers(extents, width) ==
    [k \in 1..(Len(extents) + 1) |->
        1 + FoldSeq(LAMBDA e, sum : sum + 1 + (IF e.lcn = Hole THEN 1 ELSE 2) * width,
                    0, SubSeq(extents, 1, k - 1))]

Coded(extents, width, size) ==
    Stream(Encode(extents, width), extents, Headers(extents, width), size, TRUE)

Extent(count, lcn) == [count |-> count, lcn |-> lcn]
ShortExtents == {Extent(count, lcn) : count \in 1..2, lcn \in {Hole, 1, 2, 5}}
ExtentLists == UNION {[1..n -> ShortExtents] : n \in 0..2}
               \cup [1..3 -> {e \in ShortExtents : e.count = 1}]

Sizes(extents) == LET all == 4 * FoldSeq(LAMBDA e, sum : e.count + sum, 0, extents) IN
                  {0, all - 1, all, all + 1} \cap Nat

GoodStreams ==
    UNION {{Coded(list, width, size) : size \in Sizes(list)} :
               list \in ExtentLists, width \in 1..2}

\* No runs at all, no end, cut off, no length, integers too wide, a negative
\* cluster, a cluster too far, a fault after a good run.
Faulty(bytes) == Stream(bytes, <<>>, <<1>>, 3, FALSE)
BadStreams ==
    {Faulty(bytes) :
        bytes \in {<<>>, <<5, 1>>, <<4, 1, 0>>, <<7, 1, 0, 0, 1, 0>>, <<13, 1, 1, 0, 0, 0>>,
                   <<5, 1, 14, 0>>}}
    \cup {Stream(<<5, 1, 1>>, <<Extent(1, 1)>>, <<1, 4>>, 3, FALSE),
          Stream(<<5, 1, 1, 5, 1, 14, 0>>, <<Extent(1, 1)>>, <<1, 4>>, 3, FALSE),
          Stream(<<9, 1, 15, 7, 5, 1, 1, 0>>, <<Extent(1, 127)>>, <<1, 5>>, 3, FALSE)}

\* 64 clusters are 256 bytes; cluster 127 begins at byte 508.
FarStreams ==
    {Coded(list, 2, 3) :
        list \in {<<Extent(64, 1)>>, <<Extent(64, Hole)>>, <<Extent(1, 127)>>,
                  <<Extent(1, 1), Extent(1, 127)>>, <<Extent(1, 6)>>, <<Extent(1, 60)>>}}

Small == Resident(<<901, 902, 903>>)
OddStreams ==
    {<<[Small EXCEPT !.inside = FALSE, !.sound = FALSE]>>, <<Small>>, <<Resident(<<>>)>>,
     <<[Small EXCEPT !.plain = FALSE]>>, <<[Small EXCEPT !.plain = FALSE], Small>>,
     <<[Small EXCEPT !.fits = FALSE], Small>>, <<>>}
    \cup {<<bad, Small>> : bad \in BadStreams}

-----------------------------------------------------------------------------
(* Worlds.                                                                 *)

Item(dir, at_depth, at) == [dir |-> dir, depth |-> at_depth, place |-> at]

Database(kind, dev, target) == [kind |-> kind, dev |-> dev, target |-> target]

Boot(bytes, sectors) ==
    [read |-> TRUE, bytes_per_sector |-> bytes, sectors_per_cluster |-> sectors]

\* Nothing out of the ordinary.
Quiet(places, items) ==
    [places |-> places, items |-> items, torn |-> {}, unreadable |-> {}, damaged |-> {},
     size |-> 28, boot |-> Boot(2, 2), database |-> Database("file", Other, Other),
     restless |-> FALSE, faulty |-> FALSE, dry_run |-> FALSE]

Begin(world_, fs_, named_) == [world |-> world_, fs |-> fs_, named |-> named_]

OneFile(size, streams) ==
    Quiet(<<Record(5, <<Name(<<65>>, size)>> \o streams)>>, <<Item(FALSE, 2, 1)>>)

\* A record with one stream, which the index may know to be smaller, and with
\* damage on the source.
DataWorlds ==
    {OneFile(0, <<stream>>) : stream \in GoodStreams \cup BadStreams \cup FarStreams}
    \cup {OneFile(size, streams) : streams \in OddStreams, size \in {0, 2, 3}}
    \cup {[OneFile(0, <<stream>>) EXCEPT !.damaged = {byte}] :
             stream \in {s \in GoodStreams : Len(s.extents) = 1}, byte \in {4, 7, 8, 11, 23}}

\* Boot sectors: of the volume, in each way; damaged; with 2^(16 - 14) sectors in a
\* cluster; and not one at all.
Boots == {Boot(1, 4), Boot(4, 1), Boot(2, 4), Boot(1, 2), Boot(1, 14), Boot(0, 4), Boot(4, 0),
          [Boot(2, 2) EXCEPT !.read = FALSE]}
BootWorlds ==
    {[OneFile(0, <<stream>>) EXCEPT !.boot = boot] :
        boot \in Boots,
        stream \in {Small} \cup FarStreams
            \cup {Coded(list, 1, size) :
                    list \in {<<Extent(1, 2)>>, <<Extent(1, 2), Extent(1, 1)>>,
                             <<Extent(1, Hole), Extent(1, 1)>>}, size \in 2..8}}

\* Three places, records with or without a number of their own or an update sequence
\* array, every one's content different; every file that the index then has.
NoRecord == -1
NoArray == -2

Place(number, at) ==
    LET attributes == <<Name(<<65>>, 0), Resident(<<900 + at>>)>> IN
    IF number = NoRecord THEN [Record(0, <<>>) EXCEPT !.file = FALSE]
    ELSE IF number = NoArray THEN [Record(2, attributes) EXCEPT !.usa = FALSE]
    ELSE Record(number, attributes)

LocateWorlds ==
    {LET places == [p \in 1..3 |-> IF p \in torn_before
                                   THEN [Place(numbers[p], p) EXCEPT !.trailers = <<7, 8>>]
                                   ELSE Place(numbers[p], p)]
         indexed == SelectSeq(<<1, 2, 3>>, LAMBDA p : parse(places[p], p) # <<>>)
     IN  [Quiet(places, [i \in DOMAIN indexed |-> Item(FALSE, 2, indexed[i])])
             EXCEPT !.torn = torn_, !.unreadable = unreadable_] :
        numbers \in [1..3 -> {0, 1, 2, 3}] \cup [1..3 -> {NoRecord, NoArray, 0, 2}],
        torn_before \in {{}, {2}}, torn_ \in {{}, {1}, {2}}, unreadable_ \in {{}, {1}, {3}}}

\* Items at every depth, where others interfere and calls fail, and where they do not.
TwoRuns == Coded(<<Extent(1, 2), Extent(1, 1)>>, 1, 6)
PathWorlds ==
    {[Quiet(<<Record(5, <<Name(<<65>>, 0), TwoRuns>>), Record(6, <<Name(<<66>>, 0), Small>>)>>,
            items) EXCEPT !.restless = wild, !.faulty = wild] :
        wild \in BOOLEAN,
        items \in {<<>>, <<Item(TRUE, 3, 2), Item(FALSE, 3, 1)>>,
                   <<Item(FALSE, 2, 1), Item(TRUE, 3, 2)>>}}

\* Every kind of database path.
GivenWorlds ==
    {[OneFile(0, <<Small>>) EXCEPT !.restless = TRUE, !.database = database] :
        database \in {Database(kind, dev, dev) : kind \in {"file", "absent", "dir"},
                                                 dev \in {Source, Other}}
                     \cup {Database("dangling", Other, Source)}}
ImageWorlds ==
    {[OneFile(0, <<Small>>) EXCEPT !.database = database] :
        database \in {Database("source", Other, Image), Database("file", Other, Other),
                      Database("absent", Other, Other)}}

\* Every name of up to four code units: NUL, one to four bytes, halves of pairs.
Units == <<0, 65, 228, 8364, 55357, 56832>>
Begins == UNION {[1..n -> Range(Units)] : n \in 0..2}
Suffix(k) == IF k <= 6 THEN <<Units[k]>> ELSE <<Units[(k - 1) \div 6], Units[((k - 1) % 6) + 1]>>
NameWorlds ==
    {[Quiet(<<Record(5, [k \in 1..42 |-> Name(prefix \o Suffix(k), 0)]
                            \o <<[Name(<<65>>, 0) EXCEPT !.inside = FALSE], Name(<<65>>, 0),
                                 [Name(<<66>>, 0) EXCEPT !.fits = FALSE], Name(<<66>>, 0)>>)>>,
            <<Item(FALSE, 2, 1)>>)
        EXCEPT !.dry_run = TRUE] : prefix \in Begins}

AllStarts ==
    {Begin(w, Plain, Block) : w \in DataWorlds \cup BootWorlds \cup LocateWorlds \cup NameWorlds}
    \cup {Begin(w, Plain, o) : w \in GivenWorlds, o \in AllObjects}
    \cup {Begin(w, Plain, [kind |-> "file", id |-> Image]) : w \in ImageWorlds}
    \cup {Begin(w, chain, Block) : w \in PathWorlds, chain \in AllChains}
=============================================================================
