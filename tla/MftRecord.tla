----------------------------- MODULE MftRecord -----------------------------
(***************************************************************************)
(* MftRecordParser: what a place of the source, 1024 bytes there, says of  *)
(* a file: its number, its names and where its data is.                    *)
(*                                                                         *)
(* A record is given as the fields the parser branches on:                 *)
(*   file         it begins with "FILE"                                    *)
(*   usa          the update sequence array is inside and counts sectors   *)
(*   usn, trailers   the update sequence number, and what the last two     *)
(*                bytes of each sector hold before the fixup               *)
(*   number       the record number in its header                          *)
(*   attributes   after the fixup.  A "name" attribute has its code units  *)
(*                and the file size it states, a "data" attribute its      *)
(*                content or the bytes of its data runs.  fits: its length *)
(*                stays in the record; inside: so does its content in it;  *)
(*                plain: unnamed, not compressed, not encrypted.           *)
(*                                                                         *)
(* Integers keep their width: a byte has two digits of base Nibble, and a  *)
(* wide integer has MaxSize bytes (16 and 8 in the code).                  *)
(***************************************************************************)
EXTENDS Integers, Sequences, FiniteSets, FiniteSetsExt, SequencesExt, Functions, TLC, Utf

CONSTANTS
    Nibble,     \* the values of half a byte
    MaxSize     \* how many bytes an integer has

ASSUME WidthAssumption == Nibble \in Nat \ {0, 1} /\ MaxSize \in 1..(Nibble - 1)

Base == Nibble * Nibble
Power[n \in 0..MaxSize] == IF n = 0 THEN 1 ELSE Base * Power[n - 1]
Maximum == Power[MaxSize] - 1                   \* UINT64_MAX
Overflow == -1                                  \* no integer: a check failed

-----------------------------------------------------------------------------
(* Data runs.                                                              *)

\* The little-endian integer in `bytes`.
Unsigned(bytes) ==
    LET value[i \in 0..Len(bytes)] ==
            IF i = 0 THEN 0 ELSE value[i - 1] + bytes[i] * Power[i - 1]
    IN  value[Len(bytes)]

\* A slip: deltas are taken as unsigned.
SlipSignExtend(value, byte_count) == value

sign_extend(value, byte_count) ==
    IF byte_count = 0 \/ value < Power[byte_count] \div 2 THEN value
    ELSE value - Power[byte_count]

\* The sum, or Overflow where it does not fit or is no cluster number.
checked_add(lhs, rhs) ==
    IF lhs + rhs \in 0..(Maximum \div 2) THEN lhs + rhs ELSE Overflow

DataRuns == Seq([cluster_count : Nat, sparse : BOOLEAN, lcn : Nat])

RunState == [status : {"reading", "ended", "invalid"}, offset : Nat,
             current_lcn : 0..(Maximum \div 2), runs : DataRuns]

\* One turn of the loop; `offset` bytes are behind it.
ReadRun(bytes, s) ==
    LET header == bytes[s.offset + 1]
        length_size == header % Nibble
        offset_size == header \div Nibble
        delta_at == s.offset + 1 + length_size
        next == delta_at + offset_size
        delta == Unsigned(SubSeq(bytes, delta_at + 1, next))
        lcn == checked_add(s.current_lcn, sign_extend(delta, offset_size))
        run == [cluster_count |-> Unsigned(SubSeq(bytes, s.offset + 2, delta_at)),
                sparse |-> offset_size = 0,
                lcn |-> IF offset_size = 0 THEN 0 ELSE lcn]
    IN  IF s.status # "reading" \/ s.offset = Len(bytes) THEN s
        ELSE IF header = 0 THEN [s EXCEPT !.status = "ended"]
        ELSE IF \/ length_size \notin 1..MaxSize \/ offset_size > MaxSize
                \/ next > Len(bytes) \/ lcn = Overflow
             THEN [s EXCEPT !.status = "invalid"]
        ELSE [status |-> "reading", offset |-> next, current_lcn |-> lcn,
              runs |-> Append(s.runs, run)]

\* The runs in `bytes`, valid if a zero header ends them in time.
parse_data_runs(bytes) ==
    LET turn == [s \in RunState |-> ReadRun(bytes, s)]
        after[n \in 0..Len(bytes)] ==
            IF n = 0
            THEN [status |-> "reading", offset |-> 0, current_lcn |-> 0, runs |-> <<>>]
            ELSE turn[after[n - 1]]
    IN  [valid |-> after[Len(bytes)].status = "ended", runs |-> after[Len(bytes)].runs]

-----------------------------------------------------------------------------
(* What data runs are, stated without the parser.  An extent is [count,    *)
(* lcn] with lcn = Hole for a sparse one.                                  *)

Hole == -1
Extents == [count : 0..Maximum, lcn : 0..(Maximum \div 2) \cup {Hole}]

\* Where the last cluster run among the first k extents begins.
Previous(extents, k) ==
    LET placed == {j \in 1..k : extents[j].lcn # Hole}
    IN  IF placed = {} THEN 0 ELSE extents[Max(placed)].lcn

\* `bytes` has extent e written down from position `from` to before position `to`:
\* a header with two sizes, the count, and the distance of a cluster run from the
\* previous one in two's complement.
HasExtent(bytes, from, to, e, previous) ==
    \E length_size \in 1..MaxSize, offset_size \in 0..MaxSize :
        LET delta_at == from + 1 + length_size
            delta == e.lcn - previous
            half == Power[offset_size] \div 2
        IN  /\ bytes[from] = offset_size * Nibble + length_size
            /\ to = delta_at + offset_size /\ to <= Len(bytes) + 1
            /\ Unsigned(SubSeq(bytes, from + 1, delta_at - 1)) = e.count
            /\ e.lcn = Hole <=> offset_size = 0
            /\ e.lcn # Hole =>
                  /\ delta \in (half - Power[offset_size])..(half - 1)
                  /\ Unsigned(SubSeq(bytes, delta_at, to - 1)) =
                        IF delta < 0 THEN delta + Power[offset_size] ELSE delta

\* The extents are written down one behind the other, the k-th at headers[k].
HasExtents(bytes, extents, headers) ==
    /\ extents \in Seq(Extents) /\ headers \in Seq(1..(Len(bytes) + 1))
    /\ Len(headers) = Len(extents) + 1 /\ headers[1] = 1
    /\ \A k \in DOMAIN extents :
          HasExtent(bytes, headers[k], headers[k + 1], extents[k], Previous(extents, k - 1))

\* They are all, and a zero header ends them.
Encodes(bytes, extents, headers) ==
    /\ HasExtents(bytes, extents, headers)
    /\ headers[Len(headers)] <= Len(bytes) /\ bytes[headers[Len(headers)]] = 0

\* What follows them neither ends them nor is another extent.
Malformed(bytes, extents, headers) ==
    /\ HasExtents(bytes, extents, headers)
    /\ LET fault == headers[Len(headers)] IN
       fault <= Len(bytes) =>
          /\ bytes[fault] # 0
          /\ \A e \in Extents, to \in fault..(Len(bytes) + 1) :
                ~HasExtent(bytes, fault, to, e, Previous(extents, Len(extents)))

-----------------------------------------------------------------------------
(* Records.                                                                *)

\* A slip: only the first sector is compared.
SlipRestoreUsa(raw) == raw.usa /\ raw.trailers[1] = raw.usn

\* No sector was left behind by an unfinished write.
restore_usa(raw) == raw.usa /\ \A s \in DOMAIN raw.trailers : raw.trailers[s] = raw.usn

restored_record(raw) == raw.file /\ restore_usa(raw)

\* The attributes the walk gets to: up to the first whose length is wrong.
Walked(raw) ==
    LET wrong == {i \in DOMAIN raw.attributes : ~raw.attributes[i].fits}
    IN  IF wrong = {} THEN raw.attributes ELSE SubSeq(raw.attributes, 1, Min(wrong) - 1)

\* The rows that record `raw` at place `place` (offset / RecordSize) is indexed with.
parse(raw, place) ==
    LET Rows(a) ==
            IF a.type = "name" /\ a.resident /\ a.inside /\ utf16le_to_utf8(a.units) # <<>>
            THEN <<[record_id_guess |-> IF raw.number # 0 THEN raw.number ELSE place,
                    name |-> utf16le_to_utf8(a.units), real_size |-> a.size]>>
            ELSE <<>>
        walked == Walked(raw)
    IN  IF restored_record(raw) THEN FlattenSeq([i \in DOMAIN walked |-> Rows(walked[i])])
        ELSE <<>>

\* The data attributes that recovery may copy from.
data_attributes(raw) ==
    LET Resident(a) ==
            IF a.inside
            THEN <<[resident |-> TRUE, real_size |-> Len(a.content),
                    resident_data |-> a.content, runs |-> <<>>]>>
            ELSE <<>>
        Nonresident(a) ==
            IF parse_data_runs(a.bytes).valid
            THEN <<[resident |-> FALSE, real_size |-> a.size,
                    resident_data |-> <<>>, runs |-> parse_data_runs(a.bytes).runs]>>
            ELSE <<>>
        Data(a) == IF a.type # "data" \/ ~a.plain THEN <<>>
                   ELSE IF a.resident THEN Resident(a) ELSE Nonresident(a)
        walked == Walked(raw)
    IN  IF restored_record(raw) THEN FlattenSeq([i \in DOMAIN walked |-> Data(walked[i])])
        ELSE <<>>

-----------------------------------------------------------------------------
\* What the fields of an attribute can be.  A data attribute is sound if its content
\* is inside, or its data runs are those of its extents.
IsAttribute(a) ==
    /\ a.fits \in BOOLEAN /\ a.resident \in BOOLEAN /\ a.inside \in BOOLEAN /\ a.size \in Nat
    /\ a.type = "name" => a.units \in Seq(CodeUnits)
    /\ a.type = "data" => a.plain \in BOOLEAN /\ a.sound \in BOOLEAN
    /\ a.type = "data" /\ a.resident =>
          a.content \in Seq(Nat) /\ a.size = Len(a.content) /\ a.sound = a.inside
    /\ a.type = "data" /\ ~a.resident =>
          /\ a.bytes \in Seq(0..(Base - 1))
          /\ a.sound => Encodes(a.bytes, a.extents, a.headers)
          /\ ~a.sound => Malformed(a.bytes, a.extents, a.headers)
=============================================================================
