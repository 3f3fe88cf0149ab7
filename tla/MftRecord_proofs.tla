-------------------------- MODULE MftRecord_proofs --------------------------
(***************************************************************************)
(* What the parser computes, for every record, byte width and length.      *)
(***************************************************************************)
EXTENDS MftRecord, DataInduction

\* A byte has at least four values.
LEMMA BaseValue == Base \in Nat /\ Base >= 4 /\ MaxSize \in Nat \ {0}
  BY WidthAssumption DEF Base

\* Power is what its equation says.
LEMMA PowerEquation ==
    Power = [n \in 0..MaxSize |-> IF n = 0 THEN 1 ELSE Base * Power[n - 1]]
<1> DEFINE turn == [x \in Nat \X (1..MaxSize) |-> Base * x[1]]
<1>1. MaxSize \in Nat /\ IsTurn(turn, Nat, MaxSize)
    BY BaseValue, WidthAssumption DEF IsTurn
<1>2. PICK f : Loops(f, Nat, MaxSize, 1, turn)
  <2> HIDE DEF turn
  <2> QED
      BY <1>1, Iterate
<1>3. ASSUME NEW n \in 1..MaxSize PROVE turn[<<f[n - 1], n>>] = Base * f[n - 1]
  <2>1. f[n - 1] \in Nat
    <3> HIDE DEF turn
    <3> QED
      BY <1>1, <1>2 DEF Loops
  <2> QED
      BY <2>1
<1>4. f = [n \in 0..MaxSize |-> IF n = 0 THEN 1 ELSE Base * f[n - 1]]
  <2> HIDE DEF turn
  <2> QED
    BY <1>2, <1>3 DEF Loops
<1> QED
    BY <1>4 DEF Power

\* One byte more.
LEMMA PowerStep ==
    /\ Power[0] = 1
    /\ \A n \in 1..MaxSize : Power[n] = Base * Power[n - 1]
    /\ \A n \in 0..MaxSize : Power[n] \in Nat \ {0}
<1>1. Power[0] = 1 /\ \A n \in 1..MaxSize : Power[n] = Base * Power[n - 1]
    BY PowerEquation, WidthAssumption
<1> DEFINE Good == {n \in 0..MaxSize : Power[n] \in Nat \ {0}}
<1>2. \A n \in 1..MaxSize : n - 1 \in Good => n \in Good
  <2> SUFFICES ASSUME NEW n \in 1..MaxSize, n - 1 \in Good PROVE n \in Good
      OBVIOUS
  <2>1. Power[n] = Base * Power[n - 1] /\ Power[n - 1] \in Nat \ {0}
      BY <1>1
  <2>2. Base * Power[n - 1] \in Nat \ {0}
      BY <2>1, BaseValue
  <2> QED
      BY <2>1, <2>2
<1>3. 0 \in Good
    BY <1>1, WidthAssumption
<1>4. \A n \in 0..MaxSize : n \in Good
  <2> HIDE DEF Good
  <2> QED
    BY <1>2, <1>3, Kept, BaseValue
<1> QED
    BY <1>1, <1>4

\* Nothing of at most MaxSize bytes is too wide for an integer.
LEMMA PowerGrows == \A n \in 0..MaxSize : Power[n] <= Maximum + 1
<1> DEFINE Good == {k \in 0..MaxSize : Power[MaxSize - k] <= Power[MaxSize]}
<1>1. 0 \in Good
    BY PowerStep, BaseValue
<1>2. ASSUME NEW k \in 1..MaxSize, k - 1 \in Good PROVE k \in Good
  <2>1. Power[MaxSize - (k - 1)] = Base * Power[MaxSize - k]
        /\ Power[MaxSize - k] \in Nat /\ Power[MaxSize - (k - 1)] <= Power[MaxSize]
        /\ Power[MaxSize] \in Nat
    <3>1. MaxSize - (k - 1) \in 1..MaxSize /\ (MaxSize - (k - 1)) - 1 = MaxSize - k
          /\ MaxSize - k \in 0..MaxSize
        BY BaseValue
    <3> QED
        BY <1>2, <3>1, PowerStep, BaseValue
  <2>2. Power[MaxSize - k] <= Base * Power[MaxSize - k]
      BY <2>1, BaseValue
  <2> QED
      BY <2>1, <2>2, BaseValue
<1>3. \A k \in 0..MaxSize : k \in Good
  <2> HIDE DEF Good
  <2> QED
      BY <1>1, <1>2, Kept, BaseValue
<1>4. ASSUME NEW n \in 0..MaxSize PROVE Power[n] <= Power[MaxSize]
  <2>1. MaxSize - n \in Good /\ MaxSize - (MaxSize - n) = n
      BY <1>3, BaseValue
  <2> QED
      BY <2>1
<1> QED
    BY <1>4, PowerStep, BaseValue DEF Maximum

\* The integer in k bytes is below Power[k].
LEMMA UnsignedRange ==
    ASSUME NEW bytes \in Seq(0..(Base - 1)), Len(bytes) <= MaxSize
    PROVE  Unsigned(bytes) \in 0..(Power[Len(bytes)] - 1)
<1> DEFINE N == Len(bytes)
           turn == [x \in Nat \X (1..N) |-> x[1] + bytes[x[2]] * Power[x[2] - 1]]
           value[i \in 0..N] == IF i = 0 THEN 0 ELSE value[i - 1] + bytes[i] * Power[i - 1]
<1>1. \A i \in 1..N : bytes[i] \in 0..(Base - 1) /\ Power[i - 1] \in Nat /\ i \in 1..MaxSize
  <2> SUFFICES ASSUME NEW i \in 1..N
               PROVE  bytes[i] \in 0..(Base - 1) /\ Power[i - 1] \in Nat /\ i \in 1..MaxSize
      OBVIOUS
  <2> HIDE DEF turn, value
  <2>1. bytes[i] \in 0..(Base - 1)
      BY BaseValue
  <2>2. i \in 1..MaxSize /\ i - 1 \in 0..MaxSize
      BY BaseValue
  <2> QED
      BY <2>1, <2>2, PowerStep
<1>2. N \in Nat /\ IsTurn(turn, Nat, N)
    BY <1>1, BaseValue DEF IsTurn
<1>3. PICK f : Loops(f, Nat, N, 0, turn)
  <2> HIDE DEF turn, N
  <2> QED
      BY <1>2, Iterate
<1>4. ASSUME NEW i \in 1..N
      PROVE  turn[<<f[i - 1], i>>] = f[i - 1] + bytes[i] * Power[i - 1]
  <2>1. f[i - 1] \in Nat
    <3> HIDE DEF turn
    <3> QED
        BY <1>2, <1>3 DEF Loops
  <2> QED
      BY <2>1
<1>5. f = [i \in 0..N |-> IF i = 0 THEN 0 ELSE f[i - 1] + bytes[i] * Power[i - 1]]
  <2> HIDE DEF turn, N
  <2>1. \A i \in 0..N : (IF i = 0 THEN 0 ELSE turn[<<f[i - 1], i>>]) =
                        (IF i = 0 THEN 0 ELSE f[i - 1] + bytes[i] * Power[i - 1])
      BY <1>2, <1>4
  <2> QED
      BY <1>3, <2>1, Zenon DEF Loops
<1>6. value = [i \in 0..N |-> IF i = 0 THEN 0 ELSE value[i - 1] + bytes[i] * Power[i - 1]]
    BY <1>5
<1> HIDE DEF value
<1> DEFINE Good == {i \in 0..N : value[i] \in 0..(Power[i] - 1)}
<1>7. 0 \in Good
    BY <1>6, PowerStep
<1>8. ASSUME NEW i \in 1..N, i - 1 \in Good PROVE i \in Good
  <2>1. /\ value[i] = value[i - 1] + bytes[i] * Power[i - 1]
        /\ value[i - 1] \in Nat /\ value[i - 1] <= Power[i - 1] - 1
        /\ Power[i] = Base * Power[i - 1] /\ Power[i - 1] \in Nat
        /\ bytes[i] \in Nat /\ bytes[i] <= Base - 1
    <3>1. i \in 1..MaxSize /\ bytes[i] \in 0..(Base - 1)
        BY <1>1
    <3>2. Power[i] = Base * Power[i - 1] /\ Power[i - 1] \in Nat
        BY <3>1, PowerStep, BaseValue
    <3>3. value[i] = value[i - 1] + bytes[i] * Power[i - 1]
      <4> HIDE DEF N
      <4> QED
        BY <1>2, <1>6
    <3> QED
        BY <1>8, <3>1, <3>2, <3>3, BaseValue
  <2>2. ASSUME NEW v \in Nat, NEW b \in Nat, NEW p \in Nat, v <= p - 1, b <= Base - 1
        PROVE  v + b * p \in Nat /\ v + b * p <= Base * p - 1
      BY <2>2, BaseValue
  <2>3. value[i] \in Nat /\ value[i] <= Power[i] - 1
    <3> HIDE DEF N, turn, value
    <3>1. /\ value[i - 1] + bytes[i] * Power[i - 1] \in Nat
          /\ value[i - 1] + bytes[i] * Power[i - 1] <= Base * Power[i - 1] - 1
        BY <2>1, <2>2, Zenon
    <3> QED
        BY <2>1, <3>1, Zenon
  <2> QED
      BY <2>1, <2>3, PowerStep, <1>1
<1>9. \A i \in 0..N : i \in Good
  <2> HIDE DEF Good, N
  <2> QED
      BY <1>2, <1>7, <1>8, Kept
<1> QED
    BY <1>2, <1>9 DEF Unsigned, value

-----------------------------------------------------------------------------
(* Data runs.                                                              *)

ByteSeq == Seq(0..(Base - 1))
States(bytes) == {s \in RunState : s.offset <= Len(bytes)}
Begun == [status |-> "reading", offset |-> 0, current_lcn |-> 0, runs |-> <<>>]

LEMMA ByteOf ==
    ASSUME NEW bytes \in ByteSeq, NEW i \in 1..Len(bytes)
    PROVE  bytes[i] \in 0..(Base - 1)
  BY BaseValue DEF ByteSeq

\* The digits of a byte.
LEMMA Digits ==
    ASSUME NEW byte \in 0..(Base - 1)
    PROVE  /\ byte % Nibble \in 0..(Nibble - 1) /\ byte \div Nibble \in 0..(Nibble - 1)
           /\ byte = (byte \div Nibble) * Nibble + (byte % Nibble)
<1>1. /\ byte % Nibble \in 0..(Nibble - 1) /\ byte \div Nibble \in Nat
      /\ byte = (byte \div Nibble) * Nibble + (byte % Nibble)
    BY WidthAssumption, BaseValue
<1>2. byte < Nibble * Nibble
    BY BaseValue DEF Base
<1>3. ASSUME NEW d \in Nat, NEW m \in Nat, NEW n \in Nat, d * n + m < n * n PROVE d < n
    BY <1>3
<1> QED
    BY <1>1, <1>2, <1>3, WidthAssumption

LEMMA DigitsOf ==
    ASSUME NEW high \in Nat, NEW low \in 0..(Nibble - 1)
    PROVE  (high * Nibble + low) % Nibble = low /\ (high * Nibble + low) \div Nibble = high
  BY WidthAssumption

\* The integer in a part of the bytes that is no wider than MaxSize.
LEMMA FieldRange ==
    ASSUME NEW bytes \in ByteSeq, NEW from \in 1..(Len(bytes) + 1), NEW size \in 0..MaxSize,
           from + size <= Len(bytes) + 1
    PROVE  Unsigned(SubSeq(bytes, from, from + size - 1)) \in 0..(Power[size] - 1)
<1> DEFINE field == SubSeq(bytes, from, from + size - 1)
<1>1. field \in Seq(0..(Base - 1)) /\ Len(field) = size
    BY BaseValue DEF ByteSeq
<1> HIDE DEF field
<1>2. Unsigned(field) \in 0..(Power[size] - 1)
    BY <1>1, UnsignedRange, BaseValue
<1> QED
    BY <1>2 DEF field

\* Where the count behind the header at `offset` ends.
LEMMA AheadOf ==
    ASSUME NEW offset \in Nat, NEW len \in Nat, NEW length_size \in 1..MaxSize,
           NEW delta_at, NEW next \in 0..len, delta_at = offset + 1 + length_size,
           delta_at < next + 1
    PROVE  /\ offset + 2 \in 1..(len + 1) /\ length_size \in 0..MaxSize
           /\ offset + 2 + length_size <= len + 1
<1>1. length_size \in Nat /\ MaxSize \in Nat /\ length_size <= MaxSize
    BY BaseValue
<1> QED
    BY <1>1


\* A turn keeps the state's type, and what it does with a header that is not zero.
LEMMA ReadRunTurn ==
    ASSUME NEW bytes \in ByteSeq, NEW s \in States(bytes)
    PROVE  /\ ReadRun(bytes, s) \in States(bytes)
           /\ s.status # "reading" \/ s.offset = Len(bytes) => ReadRun(bytes, s) = s
           /\ s.status = "reading" /\ s.offset < Len(bytes) /\ bytes[s.offset + 1] = 0
                 => ReadRun(bytes, s).status = "ended"
<1> DEFINE header == bytes[s.offset + 1]
           length_size == header % Nibble
           offset_size == header \div Nibble
           delta_at == s.offset + 1 + length_size
           next == delta_at + offset_size
           delta == Unsigned(SubSeq(bytes, delta_at + 1, next))
           lcn == checked_add(s.current_lcn, sign_extend(delta, offset_size))
           count == Unsigned(SubSeq(bytes, s.offset + 2, delta_at))
           run == [cluster_count |-> count, sparse |-> offset_size = 0,
                   lcn |-> IF offset_size = 0 THEN 0 ELSE lcn]
           bad == \/ length_size \notin 1..MaxSize \/ offset_size > MaxSize
                  \/ next > Len(bytes) \/ lcn = Overflow
<1>1. ReadRun(bytes, s) =
         IF s.status # "reading" \/ s.offset = Len(bytes) THEN s
         ELSE IF header = 0 THEN [s EXCEPT !.status = "ended"]
         ELSE IF bad THEN [s EXCEPT !.status = "invalid"]
         ELSE [status |-> "reading", offset |-> next, current_lcn |-> lcn,
               runs |-> Append(s.runs, run)]
    BY DEF ReadRun
<1>2. /\ s.status \in {"reading", "ended", "invalid"} /\ s.offset \in 0..Len(bytes)
      /\ s.current_lcn \in 0..(Maximum \div 2) /\ s.runs \in DataRuns
      /\ \A status \in {"ended", "invalid"} : [s EXCEPT !.status = status] \in States(bytes)
      /\ Len(bytes) \in Nat
    BY DEF States, RunState, ByteSeq
<1>n. s.offset \in 0..Len(bytes) /\ Len(bytes) \in Nat
    BY <1>2
<1>3. s.offset < Len(bytes) => header \in 0..(Base - 1)
  <2> SUFFICES ASSUME s.offset < Len(bytes) PROVE header \in 0..(Base - 1)
      OBVIOUS
  <2>1. s.offset + 1 \in 1..Len(bytes)
      BY <1>n
  <2> QED
      BY <2>1, ByteOf
<1>4. s.offset < Len(bytes) => length_size \in Nat /\ offset_size \in Nat
  <2> HIDE DEF header
  <2> QED
    BY <1>3, Digits
<1>5. delta_at = s.offset + 1 + length_size /\ next = delta_at + offset_size
    OBVIOUS
<1> HIDE DEF header, length_size, offset_size, delta_at, next
<1>6. CASE s.status = "reading" /\ s.offset < Len(bytes) /\ header # 0 /\ ~bad
  <2>1. /\ length_size \in 1..MaxSize /\ offset_size \in 0..MaxSize
        /\ next \in 0..Len(bytes) /\ delta_at < next + 1
    <3>1. /\ length_size \in 1..MaxSize /\ ~(offset_size > MaxSize) /\ ~(next > Len(bytes))
          /\ length_size \in Nat /\ offset_size \in Nat
        BY <1>4, <1>6
    <3> HIDE DEF lcn, count, run, bad, delta
    <3> QED
        BY <1>n, <1>5, <3>1, BaseValue
  <2>2. count \in Nat
    <3> DEFINE from == s.offset + 2
    <3>0. from \in 1..(Len(bytes) + 1) /\ length_size \in 0..MaxSize
          /\ from + length_size <= Len(bytes) + 1
      <4>1. s.offset \in Nat
          BY <1>n
      <4> QED
          BY <1>n, <1>5, <2>1, <4>1, AheadOf, Zenon
    <3>1. Unsigned(SubSeq(bytes, from, from + length_size - 1))
             \in Nat
      <4> HIDE DEF from
      <4>1. Unsigned(SubSeq(bytes, from, from + length_size - 1)) \in 0..(Power[length_size] - 1)
        BY <3>0, FieldRange
      <4> QED
        BY <4>1
    <3>2. from + length_size - 1 = delta_at
        BY <1>2, <1>5, <2>1
    <3> QED
        BY <3>1, <3>2
  <2>3. lcn \in 0..(Maximum \div 2) /\ Maximum \in Nat
    <3>1. Maximum \in Nat
        BY PowerStep, BaseValue DEF Maximum
    <3> QED
        BY <1>6, <3>1 DEF checked_add
  <2> HIDE DEF lcn, count
  <2>4. run \in [cluster_count : Nat, sparse : BOOLEAN, lcn : Nat]
      BY <2>2, <2>3
  <2>5. Append(s.runs, run) \in DataRuns
    <3> HIDE DEF run
    <3> QED
      BY <1>2, <2>4 DEF DataRuns
  <2>6. ReadRun(bytes, s) = [status |-> "reading", offset |-> next, current_lcn |-> lcn,
                             runs |-> Append(s.runs, run)]
    <3> HIDE DEF bad, run
    <3> QED
      BY <1>1, <1>2, <1>6
  <2> HIDE DEF run, bad
  <2>7. ReadRun(bytes, s) \in States(bytes)
      BY <2>1, <2>3, <2>5, <2>6 DEF States, RunState
  <2> QED
      BY <1>2, <1>6, <2>7 DEF header
<1> HIDE DEF bad, run, lcn
<1>7. CASE ~(s.status = "reading" /\ s.offset < Len(bytes) /\ header # 0 /\ ~bad)
  <2>1. ReadRun(bytes, s) \in {s, [s EXCEPT !.status = "ended"], [s EXCEPT !.status = "invalid"]}
      BY <1>1, <1>2, <1>7
  <2>2. s.status = "reading" /\ s.offset < Len(bytes) /\ header = 0
           => ReadRun(bytes, s).status = "ended"
      BY <1>1, <1>2 DEF States, RunState
  <2> QED
      BY <1>1, <1>2, <2>1, <2>2 DEF header
<1> QED
    BY <1>6, <1>7

\* The states of the loop of parse_data_runs.
Reads(after, bytes) ==
    /\ after \in [0..Len(bytes) -> States(bytes)]
    /\ after[0] = Begun
    /\ \A n \in 1..Len(bytes) : after[n] = ReadRun(bytes, after[n - 1])

\* parse_data_runs goes through states of the loop, from the first on.
LEMMA ParseLoop ==
    ASSUME NEW bytes \in ByteSeq
    PROVE  \E after : /\ Reads(after, bytes)
                      /\ parse_data_runs(bytes) =
                            [valid |-> after[Len(bytes)].status = "ended",
                             runs |-> after[Len(bytes)].runs]
<1> DEFINE N == Len(bytes)
           turn == [s \in RunState |-> ReadRun(bytes, s)]
           step == [x \in States(bytes) \X (1..N) |-> ReadRun(bytes, x[1])]
           after[n \in 0..N] ==
              IF n = 0
              THEN [status |-> "reading", offset |-> 0, current_lcn |-> 0, runs |-> <<>>]
              ELSE turn[after[n - 1]]
<1>1. N \in Nat /\ IsTurn(step, States(bytes), N)
    BY ReadRunTurn, BaseValue DEF IsTurn, ByteSeq
<1>2. Begun \in States(bytes)
  <2>1. Maximum \in Nat
      BY PowerStep, BaseValue DEF Maximum
  <2> QED
      BY <1>1, <2>1 DEF Begun, States, RunState, DataRuns
<1>3. PICK f : Loops(f, States(bytes), N, Begun, step)
  <2> HIDE DEF step, N
  <2> QED
      BY <1>1, <1>2, Iterate
<1>4. ASSUME NEW n \in 1..N
      PROVE  step[<<f[n - 1], n>>] = ReadRun(bytes, f[n - 1]) /\ f[n - 1] \in States(bytes)
  <2>1. f[n - 1] \in States(bytes)
    <3> HIDE DEF step
    <3> QED
        BY <1>1, <1>3 DEF Loops
  <2> QED
      BY <2>1
<1>5. \A n \in 0..N : (IF n = 0 THEN Begun ELSE step[<<f[n - 1], n>>]) =
                      (IF n = 0 THEN Begun ELSE turn[f[n - 1]])
  <2>1. ASSUME NEW n \in 1..N PROVE step[<<f[n - 1], n>>] = turn[f[n - 1]]
    <3>1. f[n - 1] \in RunState
        BY <1>4 DEF States
    <3> HIDE DEF step
    <3> QED
        BY <1>4, <3>1
  <2> HIDE DEF step, turn, N
  <2> QED
      BY <1>1, <2>1
<1>6. f = [n \in 0..N |-> IF n = 0 THEN Begun ELSE turn[f[n - 1]]]
  <2> HIDE DEF turn, step, N
  <2> QED
      BY <1>3, <1>5, Zenon DEF Loops
<1>7. after = [n \in 0..N |-> IF n = 0 THEN Begun ELSE turn[after[n - 1]]]
  <2> HIDE DEF turn, N
  <2> QED
      BY <1>6 DEF Begun
<1> HIDE DEF after
<1>8. after \in [0..N -> States(bytes)] /\ after[0] = Begun
      /\ \A n \in 1..N : after[n] = ReadRun(bytes, after[n - 1])
  <2> DEFINE Good == {n \in 0..N : after[n] \in States(bytes)}
  <2>1. after[0] = Begun /\ 0 \in Good
      BY <1>1, <1>2, <1>7
  <2>2. ASSUME NEW n \in 1..N, n - 1 \in Good
        PROVE  n \in Good /\ after[n] = ReadRun(bytes, after[n - 1])
    <3>1. after[n - 1] \in States(bytes) /\ after[n - 1] \in RunState
        BY <2>2 DEF States
    <3>2. turn[after[n - 1]] = ReadRun(bytes, after[n - 1])
        BY <3>1
    <3>3. after[n] = turn[after[n - 1]]
      <4> HIDE DEF turn, N
      <4> QED
          BY <1>1, <1>7
    <3>4. ReadRun(bytes, after[n - 1]) \in States(bytes)
        BY <3>1, ReadRunTurn
    <3> QED
        BY <3>2, <3>3, <3>4
  <2>3. \A n \in 0..N : n \in Good
    <3> HIDE DEF Good, N
    <3> QED
        BY <1>1, <2>1, <2>2, Kept
  <2>4. \A n \in 1..N : after[n] = ReadRun(bytes, after[n - 1])
    <3> SUFFICES ASSUME NEW n \in 1..N PROVE after[n] = ReadRun(bytes, after[n - 1])
        OBVIOUS
    <3>1. n - 1 \in Good
      <4> HIDE DEF Good, N
      <4> QED
        BY <1>1, <2>3
    <3> QED
        BY <2>2, <3>1
  <2>5. after = [n \in 0..N |-> after[n]]
    <3> HIDE DEF turn, N
    <3> QED
      BY <1>7
  <2>6. after \in [0..N -> States(bytes)]
    <3> HIDE DEF N
    <3> QED
      BY <2>3, <2>5
  <2> QED
      BY <2>1, <2>4, <2>6
<1>9. parse_data_runs(bytes) = [valid |-> after[N].status = "ended", runs |-> after[N].runs]
    BY DEF parse_data_runs, after
<1> QED
    BY <1>8, <1>9 DEF Reads

\* The loop stays where it ends, fails or runs out of bytes.
LEMMA Stays ==
    ASSUME NEW bytes \in ByteSeq, NEW after, Reads(after, bytes), NEW k \in 0..Len(bytes),
           after[k].status # "reading" \/ after[k].offset = Len(bytes)
    PROVE  after[Len(bytes)] = after[k]
<1> DEFINE N == Len(bytes)
           Good == {i \in 0..(N - k) : after[k + i] = after[k]}
<1>1. N \in Nat /\ N - k \in Nat /\ k \in Nat
    BY DEF ByteSeq
<1>2. 0 \in Good
    BY <1>1
<1>3. ASSUME NEW i \in 1..(N - k), i - 1 \in Good PROVE i \in Good
  <2>1. k + i \in 1..N /\ (k + i) - 1 = k + (i - 1) /\ (k + i) - 1 \in 0..N
      BY <1>1
  <2>2. after[k + i] = ReadRun(bytes, after[(k + i) - 1]) /\ after[(k + i) - 1] = after[k]
        /\ after[k] \in States(bytes)
      BY <1>3, <2>1 DEF Reads
  <2>3. ReadRun(bytes, after[k]) = after[k]
      BY <2>2, ReadRunTurn
  <2> QED
      BY <2>2, <2>3
<1>4. \A i \in 0..(N - k) : i \in Good
  <2> HIDE DEF Good, N
  <2> QED
      BY <1>1, <1>2, <1>3, Kept
<1>5. N - k \in Good /\ k + (N - k) = N
    BY <1>1, <1>4
<1> QED
    BY <1>5

\* The data run of an extent.
RunOf(e) == [cluster_count |-> e.count, sparse |-> e.lcn = Hole,
             lcn |-> IF e.lcn = Hole THEN 0 ELSE e.lcn]
RunsOf(extents, k) == [j \in 1..k |-> RunOf(extents[j])]

\* Two's complement and back.
LEMMA TwosComplement ==
    ASSUME NEW size \in 1..MaxSize, NEW delta \in Int, NEW half,
           half = Power[size] \div 2, delta \in (half - Power[size])..(half - 1)
    PROVE  sign_extend(IF delta < 0 THEN delta + Power[size] ELSE delta, size) = delta
  BY PowerStep, BaseValue DEF sign_extend

\* sign_extend undoes it.
LEMMA Extended ==
    ASSUME NEW size \in 1..MaxSize, NEW value \in 0..(Power[size] - 1), NEW half,
           half = Power[size] \div 2, NEW delta, delta = sign_extend(value, size)
    PROVE  /\ delta \in (half - Power[size])..(half - 1)
           /\ value = IF delta < 0 THEN delta + Power[size] ELSE delta
<1>1. Power[size] \in Nat \ {0}
    BY PowerStep, BaseValue
<1>2. half \in Nat /\ half <= Power[size]
    BY <1>1
<1>3. delta = IF value < half THEN value ELSE value - Power[size]
    BY <1>2 DEF sign_extend
<1> QED
    BY <1>1, <1>2, <1>3
\* What a turn does at a header whose fields are inside.
Turn(bytes, s, from, delta_at, to, offset_size) ==
    LET lcn == checked_add(s.current_lcn,
                           sign_extend(Unsigned(SubSeq(bytes, delta_at, to - 1)), offset_size))
    IN  IF lcn = Overflow THEN [s EXCEPT !.status = "invalid"]
        ELSE [status |-> "reading", offset |-> to - 1, current_lcn |-> lcn,
              runs |-> Append(s.runs,
                              [cluster_count |-> Unsigned(SubSeq(bytes, from + 1, delta_at - 1)),
                               sparse |-> offset_size = 0,
                               lcn |-> IF offset_size = 0 THEN 0 ELSE lcn])]

\* Where the fields behind the header at position `from` are, and that header.
Fields(offset, len, from, delta_at, to, length_size, offset_size) ==
    /\ offset \in Nat /\ len \in Nat
    /\ length_size \in 1..MaxSize /\ offset_size \in 0..MaxSize
    /\ from = offset + 1 /\ delta_at = from + 1 + length_size
    /\ to = delta_at + offset_size /\ to <= len + 1

IsHeader(byte, length_size, offset_size) == byte = offset_size * Nibble + length_size

LEMMA Places ==
    ASSUME NEW offset, NEW len, NEW from, NEW delta_at, NEW to, NEW length_size, NEW offset_size,
           Fields(offset, len, from, delta_at, to, length_size, offset_size)
    PROVE  /\ from \in Int /\ delta_at \in 1..(len + 1) /\ to \in Int
           /\ offset + 1 + length_size = delta_at - 1
           /\ offset + 1 + length_size + offset_size = to - 1
           /\ offset + 1 + length_size + 1 = delta_at
           /\ offset + 2 = from + 1 /\ offset # len
           /\ ~(to - 1 > len) /\ to >= from + 2
           /\ delta_at + offset_size <= len + 1 /\ delta_at + offset_size - 1 = to - 1
  BY BaseValue DEF Fields

LEMMA CountPlaces ==
    ASSUME NEW offset, NEW len, NEW from, NEW delta_at, NEW to, NEW length_size, NEW offset_size,
           Fields(offset, len, from, delta_at, to, length_size, offset_size)
    PROVE  /\ from + 1 \in 1..(len + 1) /\ from + 1 + length_size <= len + 1
           /\ from + 1 + length_size - 1 = delta_at - 1 /\ to <= len + 1
           /\ length_size \in 0..MaxSize /\ offset_size \in 0..MaxSize
  BY BaseValue DEF Fields

\* One turn reads the fields of the header it is at.
LEMMA ReadFields ==
    ASSUME NEW bytes \in ByteSeq, NEW s \in States(bytes), s.status = "reading",
           NEW from, NEW delta_at, NEW to, NEW length_size, NEW offset_size,
           Fields(s.offset, Len(bytes), from, delta_at, to, length_size, offset_size),
           IsHeader(bytes[from], length_size, offset_size)
    PROVE  ReadRun(bytes, s) = Turn(bytes, s, from, delta_at, to, offset_size)
<1> DEFINE header == bytes[s.offset + 1]
           lcn == checked_add(s.current_lcn,
                              sign_extend(Unsigned(SubSeq(bytes, delta_at, to - 1)), offset_size))
<1>1. MaxSize \in Nat /\ length_size \in 1..MaxSize /\ offset_size \in 0..MaxSize
      /\ from = s.offset + 1
    BY BaseValue DEF Fields
<1>2. /\ s.offset + 1 + length_size = delta_at - 1
      /\ s.offset + 1 + length_size + offset_size = to - 1
      /\ s.offset + 1 + length_size + 1 = delta_at
      /\ s.offset + 2 = from + 1 /\ s.offset # Len(bytes)
      /\ ~(to - 1 > Len(bytes))
    BY Places
<1>3. header # 0 /\ header % Nibble = length_size /\ header \div Nibble = offset_size
  <2>1. length_size \in 1..(Nibble - 1) /\ length_size \in 0..(Nibble - 1) /\ Nibble \in Nat
        /\ offset_size \in Nat
      BY <1>1, WidthAssumption
  <2>2. header = offset_size * Nibble + length_size
      BY <1>1 DEF IsHeader
  <2> HIDE DEF header
  <2>3. header % Nibble = length_size /\ header \div Nibble = offset_size
      BY <2>1, <2>2, DigitsOf
  <2>4. offset_size * Nibble \in Nat
      BY <2>1
  <2> QED
      BY <2>1, <2>2, <2>3, <2>4
<1>4. s.status = "reading" /\ length_size \in 1..MaxSize /\ ~(offset_size > MaxSize)
    BY <1>1
<1>5. ReadRun(bytes, s) =
         IF lcn = Overflow THEN [s EXCEPT !.status = "invalid"]
         ELSE [status |-> "reading", offset |-> to - 1, current_lcn |-> lcn,
               runs |-> Append(s.runs,
                               [cluster_count |-> Unsigned(SubSeq(bytes, from + 1, delta_at - 1)),
                                sparse |-> offset_size = 0,
                                lcn |-> IF offset_size = 0 THEN 0 ELSE lcn])]
  <2> DEFINE Do(h, ls, os, da, next, cl) ==
         LET run == [cluster_count |-> Unsigned(SubSeq(bytes, s.offset + 2, da)),
                     sparse |-> os = 0, lcn |-> IF os = 0 THEN 0 ELSE cl]
         IN IF s.status # "reading" \/ s.offset = Len(bytes) THEN s
            ELSE IF h = 0 THEN [s EXCEPT !.status = "ended"]
            ELSE IF \/ ls \notin 1..MaxSize \/ os > MaxSize
                    \/ next > Len(bytes) \/ cl = Overflow
                 THEN [s EXCEPT !.status = "invalid"]
            ELSE [status |-> "reading", offset |-> next, current_lcn |-> cl,
                  runs |-> Append(s.runs, run)]
  <2>1. ReadRun(bytes, s) =
           Do(header, header % Nibble, header \div Nibble, s.offset + 1 + (header % Nibble),
              s.offset + 1 + (header % Nibble) + (header \div Nibble),
              checked_add(s.current_lcn,
                 sign_extend(Unsigned(SubSeq(bytes, s.offset + 1 + (header % Nibble) + 1,
                                 s.offset + 1 + (header % Nibble) + (header \div Nibble))),
                             header \div Nibble)))
      BY Zenon DEF ReadRun
  <2>2. ReadRun(bytes, s) = Do(header, length_size, offset_size, delta_at - 1, to - 1, lcn)
    <3>1. s.offset + 1 + length_size + 1 = delta_at /\ s.offset + 1 + length_size = delta_at - 1
          /\ s.offset + 1 + length_size + offset_size = to - 1
        BY <1>2
    <3> HIDE DEF Do, header
    <3> QED
      BY <3>1, <1>3, <2>1, Zenon
  <2> HIDE DEF header, lcn
  <2> QED
      BY <1>2, <1>3, <1>4, <2>2
<1> QED
    BY <1>5 DEF Turn

\* A turn that goes from before extent e to behind it.
Moves(bytes, s, from, to, e, previous) ==
    /\ to \in Int /\ to >= from + 2
    /\ ReadRun(bytes, s) = [status |-> "reading", offset |-> to - 1,
                            current_lcn |-> IF e.lcn = Hole THEN previous ELSE e.lcn,
                            runs |-> Append(s.runs, RunOf(e))]

\* A turn at an extent reads that extent.
LEMMA ReadExtent ==
    ASSUME NEW bytes \in ByteSeq, NEW s \in States(bytes), s.status = "reading",
           NEW e \in Extents, NEW from, from = s.offset + 1, NEW to, NEW previous,
           previous = s.current_lcn, HasExtent(bytes, from, to, e, previous)
    PROVE  Moves(bytes, s, from, to, e, previous)
<1>0. PICK length_size \in 1..MaxSize, offset_size \in 0..MaxSize :
         LET delta_at == from + 1 + length_size
             delta == e.lcn - previous
             half == Power[offset_size] \div 2
         IN  /\ bytes[from] = offset_size * Nibble + length_size
             /\ to = delta_at + offset_size /\ to <= Len(bytes) + 1
             /\ Unsigned(SubSeq(bytes, from + 1, delta_at - 1)) = e.count
             /\ e.lcn = Hole <=> offset_size = 0
             /\ e.lcn # Hole =>
                   /\ delta \in (half - Power[offset_size])..(half - 1)
                   /\ Unsigned(SubSeq(bytes, delta_at, to - 1)) =
                         IF delta < 0 THEN delta + Power[offset_size] ELSE delta
    BY DEF HasExtent
<1> DEFINE delta_at == from + 1 + length_size
           delta == e.lcn - previous
           half == Power[offset_size] \div 2
           field == Unsigned(SubSeq(bytes, delta_at, to - 1))
           lcn == checked_add(s.current_lcn, sign_extend(field, offset_size))
<1>1. /\ bytes[from] = offset_size * Nibble + length_size
      /\ to = delta_at + offset_size /\ to <= Len(bytes) + 1
      /\ Unsigned(SubSeq(bytes, from + 1, delta_at - 1)) = e.count
      /\ e.lcn = Hole <=> offset_size = 0
      /\ e.lcn # Hole => /\ delta \in (half - Power[offset_size])..(half - 1)
                         /\ field = IF delta < 0 THEN delta + Power[offset_size] ELSE delta
    BY <1>0
<1>2. /\ Fields(s.offset, Len(bytes), from, delta_at, to, length_size, offset_size)
      /\ IsHeader(bytes[from], length_size, offset_size)
  <2>1. s.offset \in Nat /\ Len(bytes) \in Nat
      BY DEF States, RunState, ByteSeq
  <2> QED
    BY <1>1, <2>1 DEF Fields, IsHeader
<1>3. offset_size \in 0..MaxSize /\ MaxSize \in Nat
    BY BaseValue
<1>4. /\ Maximum \in Nat /\ s.current_lcn \in 0..(Maximum \div 2)
      /\ e.lcn \in 0..(Maximum \div 2) \cup {Hole} /\ Hole = -1 /\ Overflow = -1
  <2>1. Maximum \in Nat
      BY PowerStep, BaseValue DEF Maximum
  <2> QED
      BY <2>1 DEF States, RunState, Extents, Hole, Overflow
<1> HIDE DEF delta_at, delta, half
<1>5. /\ to \in Int /\ to >= from + 2
      /\ delta_at \in 1..(Len(bytes) + 1)
      /\ delta_at + offset_size <= Len(bytes) + 1 /\ delta_at + offset_size - 1 = to - 1
  <2>1. delta_at \in 1..(Len(bytes) + 1) /\ to \in Int /\ to >= from + 2
        /\ delta_at + offset_size <= Len(bytes) + 1 /\ delta_at + offset_size - 1 = to - 1
    <3>1. Fields(s.offset, Len(bytes), from, delta_at, to, length_size, offset_size)
        BY <1>2, Zenon
    <3> QED
        BY <3>1, Places
  <2> QED
    BY <2>1, Zenon
<1>6. ReadRun(bytes, s) = Turn(bytes, s, from, delta_at, to, offset_size)
    BY <1>2, ReadFields
<1>7. lcn = IF e.lcn = Hole THEN previous ELSE e.lcn
  <2>1. CASE e.lcn = Hole
    <3>1. offset_size = 0
        BY <1>1, <2>1
    <3>2. Unsigned(SubSeq(bytes, delta_at, delta_at + offset_size - 1))
            \in 0..(Power[offset_size] - 1)
        BY <1>3, <1>5, FieldRange
    <3>3. field \in 0..(Power[offset_size] - 1)
        BY <1>5, <3>2
    <3> HIDE DEF field
    <3>4. field = 0 /\ offset_size = 0
        BY <3>1, <3>3, PowerStep
    <3> QED
        BY <1>4, <2>1, <3>4 DEF checked_add, sign_extend
  <2>2. CASE e.lcn # Hole
    <3>1. offset_size \in 1..MaxSize /\ delta \in Int
          /\ delta \in (half - Power[offset_size])..(half - 1)
          /\ field = IF delta < 0 THEN delta + Power[offset_size] ELSE delta
      <4>1. offset_size # 0
          BY <1>1, <2>2
      <4>2. delta \in Int
          BY <1>4 DEF delta
      <4> HIDE DEF field
      <4> QED
          BY <1>1, <1>3, <2>2, <4>1, <4>2
    <3>2. half = Power[offset_size] \div 2
        BY DEF half
    <3> HIDE DEF field
    <3>3. sign_extend(field, offset_size) = delta
        BY <3>1, <3>2, TwosComplement
    <3>4. s.current_lcn + delta = e.lcn
        BY <1>4 DEF delta
    <3> QED
        BY <1>4, <2>2, <3>3, <3>4 DEF checked_add
  <2> QED
      BY <2>1, <2>2
<1>8. lcn # Overflow
  <2> HIDE DEF lcn
  <2> QED
      BY <1>4, <1>7
<1>9. Turn(bytes, s, from, delta_at, to, offset_size) =
         [status |-> "reading", offset |-> to - 1, current_lcn |-> lcn,
          runs |-> Append(s.runs, [cluster_count |-> e.count, sparse |-> offset_size = 0,
                                   lcn |-> IF offset_size = 0 THEN 0 ELSE lcn])]
  <2>1. lcn = checked_add(s.current_lcn,
                    sign_extend(Unsigned(SubSeq(bytes, delta_at, to - 1)), offset_size))
      OBVIOUS
  <2> HIDE DEF lcn
  <2> QED
      BY <1>1, <1>8, <2>1 DEF Turn
<1> HIDE DEF lcn, field
<1>10. [cluster_count |-> e.count, sparse |-> offset_size = 0,
        lcn |-> IF offset_size = 0 THEN 0 ELSE lcn] = RunOf(e)
  <2>1. (offset_size = 0) = (e.lcn = Hole)
      BY <1>1
  <2> QED
      BY <1>7, <2>1 DEF RunOf
<1> QED
    BY <1>5, <1>6, <1>7, <1>9, <1>10 DEF Moves

\* A turn that does not fail at a header that is not zero reads an extent.
LEMMA AcceptedExtent ==
    ASSUME NEW bytes \in ByteSeq, NEW s \in States(bytes), s.status = "reading",
           NEW from, from = s.offset + 1, from <= Len(bytes), bytes[from] # 0,
           ReadRun(bytes, s).status # "invalid"
    PROVE  \E e \in Extents, to \in from..(Len(bytes) + 1) :
              HasExtent(bytes, from, to, e, s.current_lcn)
<1> DEFINE header == bytes[from]
           length_size == header % Nibble
           offset_size == header \div Nibble
           delta_at == from + 1 + length_size
           to == delta_at + offset_size
<1>1. s.offset \in Nat /\ Len(bytes) \in Nat /\ from \in 1..Len(bytes) /\ s.offset # Len(bytes)
      /\ s.current_lcn \in 0..(Maximum \div 2) /\ s.runs \in DataRuns
    BY DEF States, RunState, ByteSeq
<1>2. header \in 0..(Base - 1) /\ header # 0
    BY <1>1, ByteOf
<1>3. length_size \in Nat /\ offset_size \in Nat /\ IsHeader(header, length_size, offset_size)
  <2> HIDE DEF header
  <2> QED
      BY <1>2, Digits DEF IsHeader
<1>4. length_size \in 1..MaxSize /\ ~(offset_size > MaxSize) /\ ~(to - 1 > Len(bytes))
  <2> DEFINE next == s.offset + 1 + length_size + offset_size
             lcn == checked_add(s.current_lcn,
                       sign_extend(Unsigned(SubSeq(bytes, s.offset + 1 + length_size + 1, next)),
                                   offset_size))
  <2>1. header = bytes[s.offset + 1]
      OBVIOUS
  <2>2. \/ length_size \notin 1..MaxSize \/ offset_size > MaxSize \/ next > Len(bytes)
        => ReadRun(bytes, s) = [s EXCEPT !.status = "invalid"]
    <3> HIDE DEF lcn
    <3> QED
      BY <1>1, <1>2 DEF ReadRun, lcn
  <2>3. [s EXCEPT !.status = "invalid"].status = "invalid"
      BY DEF States, RunState
  <2>4. next = to - 1
    <3> HIDE DEF length_size, offset_size, lcn, header
    <3>1. \A o, a, b \in Nat : o + 1 + a + b = o + 1 + 1 + a + b - 1
        OBVIOUS
    <3> QED
        BY SMTT(30), <1>1, <1>3, <3>1
  <2> HIDE DEF next, to, length_size, offset_size
  <2> QED
      BY <2>2, <2>3, <2>4
<1> HIDE DEF header, length_size, offset_size
<1>5. Fields(s.offset, Len(bytes), from, delta_at, to, length_size, offset_size)
  <2>1. offset_size \in 0..MaxSize
    <3> HIDE DEF delta_at, to
    <3> QED
        BY <1>3, <1>4, BaseValue
  <2>3. to <= Len(bytes) + 1
    <3>1. to \in Int
        BY <1>1, <1>3
    <3> HIDE DEF to
    <3> QED
        BY <1>1, <1>4, <3>1
  <2>2. from = s.offset + 1
      OBVIOUS
  <2> QED
      BY <1>1, <1>4, <2>1, <2>2, <2>3, Zenon DEF Fields
<1>6. /\ delta_at \in 1..(Len(bytes) + 1) /\ to \in Int /\ to >= from + 2 /\ to <= Len(bytes) + 1
      /\ delta_at + offset_size <= Len(bytes) + 1 /\ delta_at + offset_size - 1 = to - 1
      /\ from + 1 \in 1..(Len(bytes) + 1) /\ from + 1 + length_size <= Len(bytes) + 1
      /\ from + 1 + length_size - 1 = delta_at - 1
      /\ length_size \in 0..MaxSize /\ offset_size \in 0..MaxSize
  <2> HIDE DEF delta_at, to
  <2>1. /\ delta_at \in 1..(Len(bytes) + 1) /\ to \in Int /\ to >= from + 2
        /\ delta_at + offset_size <= Len(bytes) + 1 /\ delta_at + offset_size - 1 = to - 1
      BY <1>5, Places
  <2>2. /\ from + 1 \in 1..(Len(bytes) + 1) /\ from + 1 + length_size <= Len(bytes) + 1
        /\ from + 1 + length_size - 1 = delta_at - 1 /\ to <= Len(bytes) + 1
        /\ length_size \in 0..MaxSize /\ offset_size \in 0..MaxSize
      BY <1>5, CountPlaces
  <2> QED
    BY <2>1, <2>2
<1>7. ReadRun(bytes, s) = Turn(bytes, s, from, delta_at, to, offset_size)
    BY <1>3, <1>5, ReadFields DEF header
<1> DEFINE count == Unsigned(SubSeq(bytes, from + 1, delta_at - 1))
           field == Unsigned(SubSeq(bytes, delta_at, to - 1))
           lcn == checked_add(s.current_lcn, sign_extend(field, offset_size))
           e == [count |-> count, lcn |-> IF offset_size = 0 THEN Hole ELSE lcn]
<1>8. lcn # Overflow
  <2>1. lcn = Overflow => ReadRun(bytes, s) = [s EXCEPT !.status = "invalid"]
      BY <1>7, Zenon DEF Turn
  <2>2. [s EXCEPT !.status = "invalid"].status = "invalid"
      BY DEF States, RunState
  <2> HIDE DEF lcn
  <2> QED
      BY <2>1, <2>2
<1>9. Maximum \in Nat /\ Hole = -1 /\ Overflow = -1
    BY PowerStep, BaseValue DEF Maximum, Hole, Overflow
<1>10. count \in 0..Maximum
  <2> DEFINE begin == from + 1
  <2>1. Unsigned(SubSeq(bytes, begin, begin + length_size - 1)) \in 0..(Power[length_size] - 1)
    <3>1. begin \in 1..(Len(bytes) + 1) /\ begin + length_size <= Len(bytes) + 1
        BY <1>6
    <3> HIDE DEF begin, delta_at, to
    <3> QED
        BY <1>6, <3>1, FieldRange
  <2>2. count \in 0..(Power[length_size] - 1)
      BY <2>1, <1>6
  <2>3. Power[length_size] \in Nat /\ Power[length_size] <= Maximum + 1
      BY <1>6, PowerStep, PowerGrows
  <2> HIDE DEF count
  <2> QED
      BY <1>9, <2>2, <2>3
<1>11. field \in 0..(Power[offset_size] - 1)
  <2> HIDE DEF delta_at, to
  <2>1. Unsigned(SubSeq(bytes, delta_at, delta_at + offset_size - 1))
            \in 0..(Power[offset_size] - 1)
        BY <1>6, FieldRange
  <2> QED
      BY <1>6, <2>1
<1>12. lcn \in 0..(Maximum \div 2) /\ lcn = s.current_lcn + sign_extend(field, offset_size)
  <2> HIDE DEF field
  <2> QED
      BY <1>8 DEF checked_add
<1> DEFINE distance == e.lcn - s.current_lcn
           half == Power[offset_size] \div 2
<1>13. offset_size # 0 => /\ distance \in (half - Power[offset_size])..(half - 1)
                          /\ field = IF distance < 0 THEN distance + Power[offset_size]
                                     ELSE distance
  <2> SUFFICES ASSUME offset_size # 0
               PROVE  /\ distance \in (half - Power[offset_size])..(half - 1)
                      /\ field = IF distance < 0 THEN distance + Power[offset_size]
                                 ELSE distance
      OBVIOUS
  <2> DEFINE extended == sign_extend(field, offset_size)
  <2> HIDE DEF field, lcn, count, half
  <2>1. offset_size \in 1..MaxSize /\ extended = sign_extend(field, offset_size)
        /\ half = Power[offset_size] \div 2
      BY <1>6, BaseValue DEF half
  <2> HIDE DEF extended
  <2>2. /\ extended \in (half - Power[offset_size])..(half - 1)
        /\ field = IF extended < 0 THEN extended + Power[offset_size] ELSE extended
      BY <1>11, <2>1, Extended
  <2>3. lcn = s.current_lcn + extended /\ e.lcn = lcn
      BY <1>12, <2>1
  <2>4. half \in Int /\ Power[offset_size] \in Int
      BY <2>1, PowerStep
  <2>5. extended \in Int
      BY <2>2, <2>4
  <2>6. extended = e.lcn - s.current_lcn
      BY <1>1, <1>9, <2>3, <2>5
  <2> HIDE DEF e
  <2> QED
      BY <2>2, <2>6
<1>14. e \in Extents /\ (e.lcn = Hole <=> offset_size = 0)
  <2> HIDE DEF lcn, count
  <2> QED
      BY <1>9, <1>10, <1>12 DEF Extents
<1>15. bytes[from] = offset_size * Nibble + length_size /\ count = e.count
    BY <1>3 DEF IsHeader, header
<1> HIDE DEF e
<1>16. HasExtent(bytes, from, to, e, s.current_lcn)
    BY <1>6, <1>4, <1>13, <1>14, <1>15, Zenon DEF HasExtent
<1>17. to \in from..(Len(bytes) + 1)
  <2> HIDE DEF to
  <2> QED
    BY <1>1, <1>6
<1> QED
    BY <1>14, <1>16, <1>17
\* The last cluster run before the next extent.
LEMMA PreviousStep ==
    ASSUME NEW extents, NEW k \in Nat
    PROVE  /\ Previous(extents, 0) = 0
           /\ k > 0 => Previous(extents, k) = IF extents[k].lcn = Hole THEN Previous(extents, k - 1)
                                              ELSE extents[k].lcn
<1> DEFINE Placed(n) == {j \in 1..n : extents[j].lcn # Hole}
<1>1. Previous(extents, 0) = 0
  <2>1. Placed(0) = {}
      OBVIOUS
  <2> QED
      BY <2>1 DEF Previous
<1>2. ASSUME k > 0, extents[k].lcn = Hole PROVE Previous(extents, k) = Previous(extents, k - 1)
  <2>1. Placed(k) = Placed(k - 1)
      BY <1>2
  <2>2. \A n : Previous(extents, n) = IF Placed(n) = {} THEN 0 ELSE extents[Max(Placed(n))].lcn
      BY DEF Previous
  <2> HIDE DEF Placed
  <2> QED
      BY <2>1, <2>2
<1>3. ASSUME k > 0, extents[k].lcn # Hole PROVE Previous(extents, k) = extents[k].lcn
  <2>1. k \in Placed(k) /\ \A j \in Placed(k) : k >= j /\ j \in Int
      BY <1>3
  <2>2. Previous(extents, k) = IF Placed(k) = {} THEN 0 ELSE extents[Max(Placed(k))].lcn
      BY DEF Previous
  <2> HIDE DEF Placed
  <2>3. Max(Placed(k)) = k
    <3>1. Max(Placed(k)) \in Placed(k) /\ \A j \in Placed(k) : Max(Placed(k)) >= j
        BY <2>1 DEF Max
    <3> QED
        BY <2>1, <3>1
  <2> QED
      BY <2>1, <2>2, <2>3
<1> QED
    BY <1>1, <1>2, <1>3

\* The runs of one extent more.
LEMMA RunsStep ==
    ASSUME NEW extents, NEW k \in Nat, k > 0
    PROVE  RunsOf(extents, k) = Append(RunsOf(extents, k - 1), RunOf(extents[k]))
<1> DEFINE front == [j \in 1..(k - 1) |-> RunOf(extents[j])]
<1>1. Len(front) = k - 1
    OBVIOUS
<1>2. Append(front, RunOf(extents[k])) = [j \in 1..k |-> RunOf(extents[j])]
    BY <1>1
<1> QED
    BY <1>2 DEF RunsOf

\* After the first k extents the parser stands at the next header, with their runs.
Reached(extents, headers, k) ==
    [status |-> "reading", offset |-> headers[k + 1] - 1,
     current_lcn |-> Previous(extents, k), runs |-> RunsOf(extents, k)]

\* After k turns the first k extents are read.
LEMMA ReadsExtents ==
    ASSUME NEW bytes \in ByteSeq, NEW after, Reads(after, bytes),
           NEW extents, NEW headers, HasExtents(bytes, extents, headers)
    PROVE  /\ Len(extents) \in Nat /\ Len(headers) = Len(extents) + 1
           /\ headers[Len(headers)] \in (Len(extents) + 1)..(Len(bytes) + 1)
           /\ Len(extents) <= Len(bytes)
           /\ after[Len(extents)] = Reached(extents, headers, Len(extents))
<1> DEFINE N == Len(extents)
           Good == {k \in 0..N : /\ k <= Len(bytes) /\ headers[k + 1] >= k + 1
                                 /\ after[k] = Reached(extents, headers, k)}
<1>1. /\ N \in Nat /\ Len(bytes) \in Nat /\ Len(headers) = N + 1 /\ headers[1] = 1
      /\ \A k \in 1..(N + 1) : headers[k] \in 1..(Len(bytes) + 1)
      /\ \A k \in 1..N : /\ extents[k] \in Extents
                         /\ HasExtent(bytes, headers[k], headers[k + 1], extents[k],
                                      Previous(extents, k - 1))
  <2>1. /\ extents \in Seq(Extents) /\ headers \in Seq(1..(Len(bytes) + 1))
        /\ Len(headers) = N + 1 /\ headers[1] = 1 /\ Len(bytes) \in Nat
      BY DEF HasExtents, ByteSeq
  <2>2. N \in Nat /\ DOMAIN extents = 1..N /\ \A k \in 1..N : extents[k] \in Extents
      BY <2>1
  <2>3. \A k \in 1..(N + 1) : headers[k] \in 1..(Len(bytes) + 1)
      BY <2>1
  <2>4. \A k \in 1..N : HasExtent(bytes, headers[k], headers[k + 1], extents[k],
                                  Previous(extents, k - 1))
      BY <2>2, Zenon DEF HasExtents
  <2> QED
      BY <2>1, <2>2, <2>3, <2>4
<1>2. 0 \in Good
  <2>1. RunsOf(extents, 0) = <<>> /\ Previous(extents, 0) = 0
      BY PreviousStep DEF RunsOf
  <2>2. Reached(extents, headers, 0) = Begun
      BY <1>1, <2>1 DEF Reached, Begun
  <2> QED
      BY <1>1, <2>2 DEF Reads
<1>3. ASSUME NEW k \in 1..N, k - 1 \in Good PROVE k \in Good
  <2> DEFINE s == after[k - 1]
  <2>1. /\ s = Reached(extents, headers, k - 1) /\ k - 1 \in 0..Len(bytes)
        /\ headers[(k - 1) + 1] >= (k - 1) + 1
      BY <1>1, <1>3
  <2>2. (k - 1) + 1 = k /\ k \in Nat /\ k > 0
      OBVIOUS
  <2>3. s \in States(bytes)
      BY <2>1 DEF Reads
  <2>4. /\ s.status = "reading" /\ s.offset = headers[k] - 1
        /\ s.current_lcn = Previous(extents, k - 1) /\ s.runs = RunsOf(extents, k - 1)
      BY <2>1, <2>2 DEF Reached
  <2>5. headers[k] \in 1..(Len(bytes) + 1) /\ headers[k + 1] \in 1..(Len(bytes) + 1)
        /\ extents[k] \in Extents
        /\ HasExtent(bytes, headers[k], headers[k + 1], extents[k], Previous(extents, k - 1))
      BY <1>1
  <2>6. headers[k] = s.offset + 1
      BY <2>4, <2>5
  <2> HIDE DEF s
  <2>7. /\ headers[k + 1] >= headers[k] + 2
        /\ ReadRun(bytes, s) =
             [status |-> "reading", offset |-> headers[k + 1] - 1,
              current_lcn |-> IF extents[k].lcn = Hole THEN Previous(extents, k - 1)
                              ELSE extents[k].lcn,
              runs |-> Append(s.runs, RunOf(extents[k]))]
    <3> DEFINE from == headers[k]
               to == headers[k + 1]
               e == extents[k]
               previous == Previous(extents, k - 1)
    <3>1. /\ s.status = "reading" /\ e \in Extents /\ from = s.offset + 1
          /\ previous = s.current_lcn /\ HasExtent(bytes, from, to, e, previous)
        BY <2>4, <2>5, <2>6
    <3>2. /\ to >= from + 2
          /\ ReadRun(bytes, s) =
               [status |-> "reading", offset |-> to - 1,
                current_lcn |-> IF e.lcn = Hole THEN previous ELSE e.lcn,
                runs |-> Append(s.runs, RunOf(e))]
      <4> HIDE DEF from, to, e, previous
      <4>1. Moves(bytes, s, from, to, e, previous)
          BY <2>3, <3>1, ReadExtent
      <4> QED
          BY <4>1 DEF Moves
    <3> QED
        BY <3>2
  <2>8. headers[k + 1] >= k + 1 /\ k <= Len(bytes)
    <3>1. /\ k \in Nat /\ Len(bytes) \in Nat
          /\ headers[k] \in Int /\ headers[k + 1] \in Int
          /\ headers[k] >= k /\ headers[k + 1] >= headers[k] + 2
          /\ headers[k + 1] <= Len(bytes) + 1
        BY <1>1, <2>1, <2>2, <2>5, <2>7
    <3> QED
        BY ONLY <3>1
  <2>9. after[k] = ReadRun(bytes, s)
    <3>1. k \in 1..Len(bytes)
        BY <1>1, <2>8
    <3> QED
        BY <3>1 DEF Reads, s
  <2>10. /\ Previous(extents, k) = IF extents[k].lcn = Hole THEN Previous(extents, k - 1)
                                   ELSE extents[k].lcn
         /\ RunsOf(extents, k) = Append(RunsOf(extents, k - 1), RunOf(extents[k]))
      BY <2>2, PreviousStep, RunsStep
  <2>11. after[k] = Reached(extents, headers, k)
      BY <2>4, <2>7, <2>9, <2>10 DEF Reached
  <2> QED
      BY <2>8, <2>11
<1>4. \A k \in 0..N : k \in Good
  <2> HIDE DEF Good, N
  <2> QED
      BY <1>1, <1>2, <1>3, Kept
<1>5. N \in Good /\ N + 1 \in 1..(N + 1)
    BY <1>1, <1>4
<1> QED
    BY <1>1, <1>5

\* Data runs that encode extents are accepted, and the runs are those of the extents.
THEOREM EncodedRuns ==
    ASSUME NEW bytes \in ByteSeq, NEW extents, NEW headers, Encodes(bytes, extents, headers)
    PROVE  parse_data_runs(bytes) = [valid |-> TRUE, runs |-> RunsOf(extents, Len(extents))]
<1>1. PICK after : /\ Reads(after, bytes)
                   /\ parse_data_runs(bytes) =
                            [valid |-> after[Len(bytes)].status = "ended",
                             runs |-> after[Len(bytes)].runs]
    BY ParseLoop
<1> DEFINE n == Len(extents)
           s == after[n]
<1>2. /\ HasExtents(bytes, extents, headers)
      /\ headers[Len(headers)] <= Len(bytes) /\ bytes[headers[Len(headers)]] = 0
    BY DEF Encodes
<1>3. /\ n \in Nat /\ Len(headers) = n + 1 /\ headers[n + 1] \in (n + 1)..(Len(bytes) + 1)
      /\ n <= Len(bytes) /\ s = Reached(extents, headers, n)
    BY <1>1, <1>2, ReadsExtents
<1>4. Len(bytes) \in Nat /\ n + 1 \in 1..Len(bytes) /\ (n + 1) - 1 = n /\ n \in 0..Len(bytes)
      /\ headers[n + 1] \in 1..Len(bytes) /\ bytes[headers[n + 1]] = 0
  <2>1. Len(bytes) \in Nat
      BY DEF ByteSeq
  <2> HIDE DEF n
  <2> QED
    BY <1>2, <1>3, <2>1
<1>5. s \in States(bytes) /\ after[n + 1] = ReadRun(bytes, s)
    BY <1>1, <1>4 DEF Reads
<1>6. /\ s.status = "reading" /\ s.offset = headers[n + 1] - 1
      /\ s.runs = RunsOf(extents, n)
    BY <1>3 DEF Reached
<1> HIDE DEF s, n
<1>7. s.offset + 1 = headers[n + 1] /\ s.offset # Len(bytes)
    BY <1>4, <1>6
<1>8. ReadRun(bytes, s) = [s EXCEPT !.status = "ended"]
    BY <1>4, <1>6, <1>7 DEF ReadRun
<1>9. after[n + 1].status = "ended" /\ after[n + 1].runs = RunsOf(extents, n)
    BY <1>5, <1>6, <1>8 DEF States, RunState
<1>10. after[Len(bytes)] = after[n + 1]
  <2>1. n + 1 \in 0..Len(bytes)
      BY <1>4
  <2> QED
      BY <1>1, <1>9, <2>1, Stays
<1> QED
    BY <1>1, <1>9, <1>10 DEF n

\* Data runs with a fault are refused.
THEOREM MalformedRuns ==
    ASSUME NEW bytes \in ByteSeq, NEW extents, NEW headers, Malformed(bytes, extents, headers)
    PROVE  ~parse_data_runs(bytes).valid
<1>1. PICK after : /\ Reads(after, bytes)
                   /\ parse_data_runs(bytes) =
                            [valid |-> after[Len(bytes)].status = "ended",
                             runs |-> after[Len(bytes)].runs]
    BY ParseLoop
<1>v. parse_data_runs(bytes).valid = (after[Len(bytes)].status = "ended")
    BY <1>1
<1> DEFINE n == Len(extents)
           s == after[n]
           fault == headers[n + 1]
<1>2. /\ HasExtents(bytes, extents, headers)
      /\ headers[Len(headers)] <= Len(bytes) =>
          /\ bytes[headers[Len(headers)]] # 0
          /\ \A e \in Extents, to \in headers[Len(headers)]..(Len(bytes) + 1) :
                ~HasExtent(bytes, headers[Len(headers)], to, e, Previous(extents, n))
    BY DEF Malformed
<1>3. /\ n \in Nat /\ Len(headers) = n + 1 /\ fault \in (n + 1)..(Len(bytes) + 1)
      /\ n <= Len(bytes) /\ s = Reached(extents, headers, n)
    BY <1>1, <1>2, ReadsExtents
<1>4. Len(bytes) \in Nat /\ n \in 0..Len(bytes)
  <2>1. Len(bytes) \in Nat
      BY DEF ByteSeq
  <2> HIDE DEF n
  <2> QED
    BY <1>3, <2>1
<1>5. s \in States(bytes)
    BY <1>1, <1>4 DEF Reads
<1>6. /\ s.status = "reading" /\ s.offset = fault - 1
      /\ s.current_lcn = Previous(extents, n)
    BY <1>3 DEF Reached
<1>7. fault <= Len(bytes) =>
          /\ bytes[fault] # 0
          /\ \A e \in Extents, to \in fault..(Len(bytes) + 1) :
                ~HasExtent(bytes, fault, to, e, s.current_lcn)
    BY <1>2, <1>3, <1>6
<1>8. fault \in Int /\ fault >= n + 1 /\ fault <= Len(bytes) + 1
    BY <1>3, <1>4
<1> HIDE DEF s, n, fault
<1>9. s.offset + 1 = fault
    BY <1>6, <1>8
<1>10. CASE fault <= Len(bytes)
  <2>1. ReadRun(bytes, s).status = "invalid"
    <3> SUFFICES ASSUME ReadRun(bytes, s).status # "invalid" PROVE FALSE
        OBVIOUS
    <3>1. \E e \in Extents, to \in fault..(Len(bytes) + 1) :
             HasExtent(bytes, fault, to, e, s.current_lcn)
        BY <1>5, <1>6, <1>7, <1>9, <1>10, AcceptedExtent
    <3> QED
        BY <1>7, <1>10, <3>1
  <2>2. n + 1 \in 1..Len(bytes) /\ n + 1 \in 0..Len(bytes) /\ (n + 1) - 1 = n
      BY <1>4, <1>8, <1>10
  <2>3. after[n + 1] = ReadRun(bytes, s)
      BY <1>1, <2>2 DEF Reads, s
  <2>4. after[Len(bytes)] = after[n + 1]
      BY <1>1, <2>1, <2>2, <2>3, Stays
  <2>5. after[Len(bytes)].status = "invalid"
      BY <2>1, <2>3, <2>4
  <2> QED
      BY <1>v, <2>5
<1>11. CASE ~(fault <= Len(bytes))
  <2>1. s.offset = Len(bytes)
      BY <1>4, <1>6, <1>8, <1>11
  <2>2. after[Len(bytes)] = s
      BY <1>1, <1>4, <2>1, Stays DEF s
  <2>3. after[Len(bytes)].status = "reading"
      BY <1>6, <2>2
  <2> QED
      BY <1>v, <2>3
<1> QED
    BY <1>10, <1>11

\* The last cluster run depends only on the extents it is the last of.
LEMMA PreviousSame ==
    ASSUME NEW extents, NEW longer, NEW k \in Nat, \A j \in 1..k : longer[j] = extents[j]
    PROVE  Previous(longer, k) = Previous(extents, k)
<1> DEFINE placed == {j \in 1..k : extents[j].lcn # Hole}
<1>1. placed = {j \in 1..k : longer[j].lcn # Hole}
    OBVIOUS
<1>2. CASE placed = {}
    BY <1>1, <1>2 DEF Previous
<1>3. CASE placed # {}
  <2>1. Max(placed) \in placed
    <3>1. PICK x \in placed : \A y \in placed : x >= y
      <4> DEFINE T == {m \in Nat : k - m \in placed}
      <4>1. T \subseteq Nat /\ T # {}
        <5>1. PICK j \in placed : TRUE
            BY <1>3
        <5>2. k - j \in T
            BY <5>1
        <5> QED
            BY <5>2
      <4>2. PICK m \in T : \A n \in T : m <= n
        <5> HIDE DEF T
        <5> QED
            BY <4>1, Least
      <4>3. ASSUME NEW y \in placed PROVE k - m >= y
        <5>1. k - y \in T /\ y \in Nat /\ m \in Nat
            BY <4>2
        <5>2. m <= k - y
            BY <4>2, <5>1
        <5> QED
            BY <5>1, <5>2
      <4> QED
          BY <4>2, <4>3
    <3> QED
        BY <3>1 DEF Max
  <2>2. longer[Max(placed)] = extents[Max(placed)]
      BY <2>1
  <2> HIDE DEF placed
  <2> QED
      BY <1>1, <1>3, <2>2 DEF Previous, placed
<1> QED
    BY <1>2, <1>3

\* One extent more.
LEMMA OneMore ==
    ASSUME NEW bytes \in ByteSeq, NEW extents, NEW headers, HasExtents(bytes, extents, headers),
           NEW e \in Extents, NEW to \in 1..(Len(bytes) + 1),
           HasExtent(bytes, headers[Len(headers)], to, e, Previous(extents, Len(extents)))
    PROVE  HasExtents(bytes, Append(extents, e), Append(headers, to))
<1> DEFINE N == Len(extents)
           longer == Append(extents, e)
           further == Append(headers, to)
<1>1. /\ extents \in Seq(Extents) /\ headers \in Seq(1..(Len(bytes) + 1))
      /\ Len(headers) = N + 1 /\ headers[1] = 1
      /\ \A k \in DOMAIN extents :
            HasExtent(bytes, headers[k], headers[k + 1], extents[k], Previous(extents, k - 1))
    BY Zenon DEF HasExtents
<1>2. N \in Nat /\ DOMAIN extents = 1..N
    BY <1>1
<1>3. /\ longer \in Seq(Extents) /\ Len(longer) = N + 1 /\ DOMAIN longer = 1..(N + 1)
      /\ \A k \in 1..N : longer[k] = extents[k]
      /\ longer[N + 1] = e
    BY <1>1
<1>4. /\ further \in Seq(1..(Len(bytes) + 1)) /\ Len(further) = N + 2
      /\ \A k \in 1..(N + 1) : further[k] = headers[k]
      /\ further[N + 2] = to
    BY <1>1, <1>2
<1>5. further[1] = 1
    BY <1>1, <1>2, <1>4
<1> HIDE DEF longer, further, N
<1>6. ASSUME NEW k \in 1..(N + 1)
      PROVE  HasExtent(bytes, further[k], further[k + 1], longer[k], Previous(longer, k - 1))
  <2>1. Previous(longer, k - 1) = Previous(extents, k - 1)
    <3>1. k - 1 \in Nat /\ \A j \in 1..(k - 1) : longer[j] = extents[j]
        BY <1>2, <1>3
    <3> QED
        BY <3>1, PreviousSame
  <2>2. CASE k = N + 1
    <3>1. k - 1 = N /\ k + 1 = N + 2
        BY <1>2, <2>2
    <3>2. headers[k] = headers[Len(headers)] /\ Previous(longer, k - 1) = Previous(extents, N)
        BY <1>1, <2>1, <2>2, <3>1
    <3>3. HasExtent(bytes, headers[k], to, e, Previous(longer, k - 1))
        BY <3>2 DEF N
    <3>4. further[k] = headers[k] /\ further[k + 1] = to /\ longer[k] = e
        BY <1>3, <1>4, <2>2, <3>1
    <3> QED
        BY <3>3, <3>4
  <2>3. CASE k # N + 1
    <3>1. k \in 1..N /\ k + 1 \in 1..(N + 1)
        BY <1>2, <2>3
    <3>2. HasExtent(bytes, headers[k], headers[k + 1], extents[k], Previous(extents, k - 1))
        BY <1>1, <1>2, <3>1
    <3>3. further[k] = headers[k] /\ further[k + 1] = headers[k + 1] /\ longer[k] = extents[k]
        BY <1>3, <1>4, <3>1
    <3> QED
        BY <2>1, <3>2, <3>3
  <2> QED
      BY <2>2, <2>3
<1>7. Len(further) = Len(longer) + 1
    BY <1>2, <1>3, <1>4
<1>8. HasExtents(bytes, longer, further)
    BY <1>3, <1>4, <1>5, <1>6, <1>7, Zenon DEF HasExtents
<1> QED
    BY <1>8 DEF longer, further

\* Every byte string is data runs with an end or with a fault: what the records are
\* assumed to be leaves none out.
THEOREM RunsDecided ==
    ASSUME NEW bytes \in ByteSeq
    PROVE  \E extents, headers : \/ Encodes(bytes, extents, headers)
                                 \/ Malformed(bytes, extents, headers)
<1> DEFINE T == {m \in Nat : \E extents, headers : /\ HasExtents(bytes, extents, headers)
                                           /\ Len(extents) = Len(bytes) - m}
<1>1. Len(bytes) \in Nat
    BY DEF ByteSeq
<1>2. HasExtents(bytes, <<>>, <<1>>)
    BY <1>1 DEF HasExtents
<1>3. Len(bytes) \in T
    BY <1>1, <1>2
<1>4. PICK m \in T : \A n \in T : m <= n
  <2>1. T \subseteq Nat /\ T # {}
      BY <1>3
  <2> HIDE DEF T
  <2> QED
      BY <2>1, Least
<1>5. PICK extents, headers : HasExtents(bytes, extents, headers) /\ Len(extents) = Len(bytes) - m
    BY <1>4
<1> DEFINE fault == headers[Len(headers)]
<1>6. /\ Len(extents) \in Nat /\ fault \in 1..(Len(bytes) + 1)
      /\ extents \in Seq(Extents)
  <2>1. /\ Len(extents) \in Nat
        /\ fault \in (Len(extents) + 1)..(Len(bytes) + 1)
    <3>1. PICK after : Reads(after, bytes)
        BY ParseLoop
    <3> QED
        BY <1>5, <3>1, ReadsExtents
  <2> QED
      BY <1>1, <1>5, <2>1 DEF HasExtents
<1>7. ASSUME NEW e \in Extents, NEW to \in fault..(Len(bytes) + 1)
      PROVE  ~HasExtent(bytes, fault, to, e, Previous(extents, Len(extents)))
  <2> SUFFICES ASSUME HasExtent(bytes, fault, to, e, Previous(extents, Len(extents)))
               PROVE  FALSE
      OBVIOUS
  <2> DEFINE longer == Append(extents, e)
             further == Append(headers, to)
  <2>1. to \in 1..(Len(bytes) + 1)
      BY <1>1, <1>6
  <2>2. HasExtents(bytes, longer, further)
      BY <1>5, <2>1, OneMore
  <2>3. Len(longer) = Len(extents) + 1
      BY <1>6
  <2> HIDE DEF longer, further
  <2>4. Len(longer) <= Len(bytes)
    <3>1. PICK after : Reads(after, bytes)
        BY ParseLoop
    <3> QED
        BY <2>2, <3>1, ReadsExtents
  <2>5. m - 1 \in Nat /\ Len(longer) = Len(bytes) - (m - 1)
      BY <1>1, <1>4, <1>5, <1>6, <2>3, <2>4
  <2>6. m - 1 \in T
      BY <2>2, <2>5
  <2>7. m <= m - 1
      BY <1>4, <2>6
  <2> QED
      BY <1>4, <2>7
<1>8. CASE fault <= Len(bytes) /\ bytes[fault] = 0
  <2>1. Encodes(bytes, extents, headers)
      BY <1>5, <1>8 DEF Encodes
  <2> QED
      BY <2>1
<1>9. CASE ~(fault <= Len(bytes) /\ bytes[fault] = 0)
  <2>1. Malformed(bytes, extents, headers)
      BY <1>5, <1>7, <1>9, Zenon DEF Malformed
  <2> QED
      BY <2>1
<1> QED
    BY <1>8, <1>9

\* parse_data_runs accepts a byte string if and only if it encodes extents.
THEOREM RunsAccepted ==
    ASSUME NEW bytes \in ByteSeq
    PROVE  parse_data_runs(bytes).valid <=> \E extents, headers : Encodes(bytes, extents, headers)
<1>1. PICK extents, headers : Encodes(bytes, extents, headers) \/ Malformed(bytes, extents, headers)
    BY RunsDecided
<1>2. ASSUME NEW x, NEW y, Encodes(bytes, x, y) PROVE parse_data_runs(bytes).valid
    BY <1>2, EncodedRuns
<1>3. CASE Malformed(bytes, extents, headers)
    BY <1>2, <1>3, MalformedRuns
<1> QED
    BY <1>1, <1>2, <1>3

\* Whatever the bytes are, the runs are runs.
LEMMA RunsTyped ==
    ASSUME NEW bytes \in ByteSeq
    PROVE  parse_data_runs(bytes).runs \in DataRuns /\ parse_data_runs(bytes).valid \in BOOLEAN
<1>1. PICK after : /\ Reads(after, bytes)
                   /\ parse_data_runs(bytes) =
                            [valid |-> after[Len(bytes)].status = "ended",
                             runs |-> after[Len(bytes)].runs]
    BY ParseLoop
<1>2. after[Len(bytes)] \in States(bytes)
  <2>1. Len(bytes) \in 0..Len(bytes)
      BY DEF ByteSeq
  <2> QED
      BY <1>1, <2>1 DEF Reads
<1>3. after[Len(bytes)].runs \in DataRuns
    BY <1>2 DEF States, RunState
<1>4. (after[Len(bytes)].status = "ended") \in BOOLEAN
    OBVIOUS
<1> QED
    BY <1>1, <1>3, <1>4

-----------------------------------------------------------------------------
(* Records.                                                                *)

IsRecord(raw, A) == raw.attributes \in Seq(A) /\ \A a \in A : IsAttribute(a)

Gets(raw, i) == i \in 1..Len(raw.attributes) /\ \A j \in 1..i : raw.attributes[j].fits

\* The walk gets to an attribute if the lengths up to it are right.
LEMMA WalkedPrefix ==
    ASSUME NEW raw, NEW A, raw.attributes \in Seq(A)
    PROVE  /\ Walked(raw) \in Seq(A)
           /\ Len(Walked(raw)) \in Nat
           /\ \A i \in 1..Len(Walked(raw)) : /\ Gets(raw, i) /\ Walked(raw)[i] = raw.attributes[i]
                                             /\ Walked(raw)[i] \in A
           /\ \A i : Gets(raw, i) => i \in 1..Len(Walked(raw))
<1> DEFINE attributes == raw.attributes
           N == Len(attributes)
           wrong == {i \in 1..N : ~attributes[i].fits}
<1>1. /\ N \in Nat /\ DOMAIN attributes = 1..N /\ \A i \in 1..N : attributes[i] \in A
      /\ attributes \in Seq(A)
    OBVIOUS
<1>2. Walked(raw) = IF wrong = {} THEN attributes ELSE SubSeq(attributes, 1, Min(wrong) - 1)
    BY <1>1 DEF Walked
<1>3. \A i : Gets(raw, i) <=> i \in 1..N /\ \A j \in 1..i : attributes[j].fits
    BY DEF Gets
<1> HIDE DEF N, attributes
<1>4. CASE wrong = {}
  <2>1. Walked(raw) = attributes /\ Len(Walked(raw)) = N
      BY <1>2, <1>4 DEF N
  <2>2. \A i \in 1..N : Gets(raw, i)
    <3>1. ASSUME NEW i \in 1..N, NEW j \in 1..i PROVE attributes[j].fits
      <4>1. j \in 1..N
          BY <1>1
      <4> QED
          BY <1>4, <4>1
    <3> QED
        BY <1>3, <3>1
  <2> QED
      BY <1>1, <1>3, <2>1, <2>2 DEF attributes
<1>5. CASE wrong # {}
  <2>1. wrong \subseteq Nat
      BY <1>1
  <2>2. \E x \in wrong : \A y \in wrong : x <= y
    <3> HIDE DEF wrong
    <3> QED
        BY <1>5, <2>1, Least
  <2> DEFINE m == Min(wrong)
  <2>3. m \in wrong /\ \A y \in wrong : m <= y
    <3> HIDE DEF wrong
    <3> QED
        BY <2>2 DEF Min
  <2> HIDE DEF m
  <2>4. m \in 1..N /\ m - 1 \in 0..N /\ ~attributes[m].fits
      BY <1>1, <2>3
  <2> DEFINE w == SubSeq(attributes, 1, m - 1)
  <2>5. w \in Seq(A) /\ Len(w) = m - 1 /\ \A i \in 1..(m - 1) : w[i] = attributes[i]
    <3>1. \A i \in 1..(m - 1) : attributes[i] \in A
        BY <1>1, <2>4
    <3>2. m - 1 \in Nat /\ 1 \in Nat /\ m - 1 <= Len(attributes) /\ 1 <= (m - 1) + 1
        BY <1>1, <2>4 DEF N
    <3>3. w = [i \in 1..((m - 1) - 1 + 1) |-> attributes[1 + i - 1]]
        BY <2>4
    <3>4. w = [i \in 1..(m - 1) |-> attributes[i]]
      <4>1. (m - 1) - 1 + 1 = m - 1 /\ \A i \in 1..(m - 1) : 1 + i - 1 = i
          BY <2>4
      <4> QED
          BY <3>3, <4>1
    <3> HIDE DEF w
    <3> QED
        BY <3>1, <3>2, <3>4
  <2>6. Walked(raw) = w
      BY <1>2, <1>5 DEF m
  <2> HIDE DEF w
  <2>7. ASSUME NEW i \in 1..(m - 1) PROVE Gets(raw, i)
    <3>1. i \in 1..N
        BY <1>1, <2>4
    <3>2. ASSUME NEW j \in 1..i PROVE attributes[j].fits
      <4>1. j \in 1..N /\ ~(m <= j)
          BY <1>1, <2>4, <3>1
      <4> QED
          BY <2>3, <4>1
    <3> QED
        BY <1>3, <3>1, <3>2
  <2>8. ASSUME NEW i, Gets(raw, i) PROVE i \in 1..(m - 1)
    <3>1. i \in 1..N /\ \A j \in 1..i : attributes[j].fits
        BY <1>3, <2>8
    <3>2. m \notin 1..i
        BY <2>4, <3>1
    <3> QED
        BY <1>1, <2>4, <3>1, <3>2
  <2>9. \A i \in 1..(m - 1) : i \in 1..N
      BY <1>1, <2>4
  <2> QED
      BY <1>1, <2>4, <2>5, <2>6, <2>7, <2>8, <2>9 DEF attributes
<1> QED
    BY <1>4, <1>5

AttributeData == [resident : BOOLEAN, real_size : Nat, resident_data : Seq(Nat), runs : DataRuns]

\* What attribute a adds to data_attributes.
Adds(a) ==
    IF a.type # "data" \/ ~a.plain THEN <<>>
    ELSE IF a.resident
         THEN IF a.inside
              THEN <<[resident |-> TRUE, real_size |-> Len(a.content),
                      resident_data |-> a.content, runs |-> <<>>]>>
              ELSE <<>>
         ELSE IF parse_data_runs(a.bytes).valid
              THEN <<[resident |-> FALSE, real_size |-> a.size,
                      resident_data |-> <<>>, runs |-> parse_data_runs(a.bytes).runs]>>
              ELSE <<>>

\* data_attributes joins what the attributes add.
LEMMA DataAttributes ==
    ASSUME NEW raw
    PROVE  data_attributes(raw) =
              IF restored_record(raw)
              THEN FlattenSeq([i \in DOMAIN Walked(raw) |-> Adds(Walked(raw)[i])])
              ELSE <<>>
  BY DEF data_attributes, Adds

\* The data of a sound attribute, read off its extents.
DataOf(a) ==
    IF a.resident
    THEN [resident |-> TRUE, real_size |-> a.size, resident_data |-> a.content, runs |-> <<>>]
    ELSE [resident |-> FALSE, real_size |-> a.size, resident_data |-> <<>>,
          runs |-> RunsOf(a.extents, Len(a.extents))]

IsSound(a) == a.type = "data" /\ a.plain /\ a.sound

\* Exactly the sound data attributes are taken, with the runs of their extents.
LEMMA AddsSound ==
    ASSUME NEW a, IsAttribute(a)
    PROVE  /\ Adds(a) = IF IsSound(a) THEN <<DataOf(a)>> ELSE <<>>
           /\ IsSound(a) => DataOf(a) \in AttributeData
<1>1. CASE a.type # "data" \/ ~a.plain
    BY <1>1 DEF Adds, IsSound
<1>2. CASE a.type = "data" /\ a.plain /\ a.resident
  <2>1. /\ a.content \in Seq(Nat) /\ a.size = Len(a.content) /\ a.sound = a.inside
        /\ a.sound \in BOOLEAN
      BY <1>2 DEF IsAttribute
  <2>2. IsSound(a) <=> a.inside
      BY <1>2, <2>1 DEF IsSound
  <2>3. Adds(a) = IF a.inside THEN <<[resident |-> TRUE, real_size |-> Len(a.content),
                      resident_data |-> a.content, runs |-> <<>>]>>
              ELSE <<>>
      BY <1>2, Zenon DEF Adds
  <2>4. DataOf(a) = [resident |-> TRUE, real_size |-> a.size, resident_data |-> a.content,
                     runs |-> <<>>]
      BY <1>2, Zenon DEF DataOf
  <2>5. DataOf(a) \in AttributeData
      BY <2>1, <2>4 DEF AttributeData, DataRuns
  <2> QED
      BY <2>1, <2>2, <2>3, <2>4, <2>5
<1>3. CASE a.type = "data" /\ a.plain /\ ~a.resident
  <2>1. /\ a.bytes \in ByteSeq /\ a.size \in Nat
        /\ a.sound => Encodes(a.bytes, a.extents, a.headers)
        /\ ~a.sound => Malformed(a.bytes, a.extents, a.headers)
      BY <1>3 DEF IsAttribute, ByteSeq
  <2>2. Adds(a) = IF parse_data_runs(a.bytes).valid
              THEN <<[resident |-> FALSE, real_size |-> a.size,
                      resident_data |-> <<>>, runs |-> parse_data_runs(a.bytes).runs]>>
              ELSE <<>>
      BY <1>3, Zenon DEF Adds
  <2>3. DataOf(a) = [resident |-> FALSE, real_size |-> a.size, resident_data |-> <<>>,
                     runs |-> RunsOf(a.extents, Len(a.extents))]
      BY <1>3, Zenon DEF DataOf
  <2>4. CASE a.sound
    <3>1. parse_data_runs(a.bytes) = [valid |-> TRUE, runs |-> RunsOf(a.extents, Len(a.extents))]
        BY <2>1, <2>4, EncodedRuns
    <3>2. parse_data_runs(a.bytes).valid /\ RunsOf(a.extents, Len(a.extents)) \in DataRuns
          /\ parse_data_runs(a.bytes).runs = RunsOf(a.extents, Len(a.extents))
        BY <2>1, <3>1, RunsTyped
    <3>3. DataOf(a) \in AttributeData
        BY <2>1, <2>3, <3>2 DEF AttributeData
    <3>4. Adds(a) = <<DataOf(a)>>
        BY <2>2, <2>3, <3>2
    <3> QED
        BY <1>3, <2>4, <3>3, <3>4 DEF IsSound
  <2>5. CASE ~a.sound
    <3>1. ~parse_data_runs(a.bytes).valid
        BY <2>1, <2>5, MalformedRuns
    <3> QED
        BY <2>2, <2>5, <3>1 DEF IsSound
  <2> QED
      BY <2>4, <2>5
<1>4. a.type = "data" => a.plain \in BOOLEAN
    BY DEF IsAttribute
<1> QED
    BY <1>1, <1>2, <1>3, <1>4

\* data_attributes has nothing unless the record is whole and the walk gets to a sound
\* attribute; the first it has is the first such.
LEMMA FirstData ==
    ASSUME NEW raw, NEW A, IsRecord(raw, A)
    PROVE  /\ data_attributes(raw) \in Seq(AttributeData)
           /\ data_attributes(raw) = <<>> <=>
                 \/ ~restored_record(raw)
                 \/ \A i : Gets(raw, i) => ~IsSound(raw.attributes[i])
           /\ data_attributes(raw) # <<>> =>
                 \E i : /\ Gets(raw, i) /\ IsSound(raw.attributes[i])
                        /\ data_attributes(raw)[1] = DataOf(raw.attributes[i])
<1> DEFINE walked == Walked(raw)
           seqs == [i \in DOMAIN walked |-> Adds(walked[i])]
           whole == FlattenSeq(seqs)
<1>1. /\ walked \in Seq(A) /\ Len(walked) \in Nat /\ DOMAIN walked = 1..Len(walked)
      /\ \A i \in 1..Len(walked) : /\ Gets(raw, i) /\ walked[i] = raw.attributes[i]
                                   /\ walked[i] \in A
      /\ \A i : Gets(raw, i) => i \in 1..Len(walked)
  <2>1. raw.attributes \in Seq(A)
      BY DEF IsRecord
  <2>2. walked \in Seq(A)
      BY <2>1, WalkedPrefix
  <2>3. DOMAIN walked = 1..Len(walked)
    <3> HIDE DEF walked
    <3> QED
      BY <2>2
  <2> QED
      BY <2>1, <2>2, <2>3, WalkedPrefix
<1>2. \A a \in A : IsAttribute(a)
    BY DEF IsRecord
<1> HIDE DEF walked
<1> DEFINE N == Len(walked)
<1>3. N \in Nat /\ seqs = [i \in 1..N |-> Adds(walked[i])]
    BY <1>1
<1>4. \A i \in 1..N : IsAttribute(walked[i])
    BY <1>1, <1>2
<1> HIDE DEF N
<1>5. ASSUME NEW i \in 1..N
      PROVE  /\ seqs[i] = IF IsSound(walked[i]) THEN <<DataOf(walked[i])>> ELSE <<>>
             /\ seqs[i] \in Seq(AttributeData)
             /\ seqs[i] = <<>> <=> ~IsSound(walked[i])
             /\ IsSound(walked[i]) => seqs[i][1] = DataOf(walked[i])
  <2>1. seqs[i] = Adds(walked[i])
      BY <1>3
  <2>2. /\ Adds(walked[i]) = IF IsSound(walked[i]) THEN <<DataOf(walked[i])>> ELSE <<>>
        /\ IsSound(walked[i]) => DataOf(walked[i]) \in AttributeData
      BY <1>4, AddsSound
  <2> HIDE DEF seqs
  <2> QED
      BY <2>1, <2>2
<1>6. Len(seqs) = N /\ seqs \in Seq(Seq(AttributeData))
  <2>1. \A i \in 1..N : Adds(walked[i]) \in Seq(AttributeData)
      BY <1>3, <1>5
  <2> HIDE DEF seqs
  <2> QED
      BY <1>3, <2>1
<1>7. SeqsOver(seqs, AttributeData)
    BY <1>6 DEF SeqsOver
<1>8. data_attributes(raw) = IF restored_record(raw) THEN whole ELSE <<>>
    BY DataAttributes DEF walked
<1> HIDE DEF seqs
<1>9. /\ whole = <<>> <=> \A i \in 1..N : seqs[i] = <<>>
      /\ whole # <<>> => \E i \in 1..N : /\ seqs[i] # <<>> /\ whole[1] = seqs[i][1]
                                         /\ \A j \in 1..(i - 1) : seqs[j] = <<>>
    BY <1>6, <1>7, FlatFirst
<1>10. whole \in Seq(AttributeData)
    BY <1>7, Flattened
<1> HIDE DEF whole
<1>11. data_attributes(raw) \in Seq(AttributeData)
  <2>1. <<>> \in Seq(AttributeData)
      OBVIOUS
  <2> QED
      BY <1>8, <1>10, <2>1
<1>12. whole = <<>> <=> \A i : Gets(raw, i) => ~IsSound(raw.attributes[i])
    BY <1>1, <1>5, <1>9 DEF N
<1>13. whole # <<>> => \E i : /\ Gets(raw, i) /\ IsSound(raw.attributes[i])
                              /\ whole[1] = DataOf(raw.attributes[i])
    BY <1>1, <1>5, <1>9 DEF N
<1> QED
    BY <1>8, <1>11, <1>12, <1>13

-----------------------------------------------------------------------------
(* UTF-8: what a decoder makes of the bytes that append_utf8 writes.       *)

Octets == 0..255

Decoders == [formed : BOOLEAN, left : Int, least : Int, value : Int, characters : Seq(Int)]

\* A decoder stays one.
LEMMA DecodeTyped ==
    ASSUME NEW s \in Decoders, NEW byte \in Octets PROVE Decode(s, byte) \in Decoders
<1> DEFINE leads == byte < 128 \/ byte >= 192
           left == (IF leads THEN Width(byte) ELSE s.left) - 1
           least == IF leads THEN LeastOf(Width(byte)) ELSE s.least
           value == IF leads THEN LeadBits(byte) ELSE s.value * 64 + byte - 128
           formed == s.formed /\ (leads <=> s.left = 0) /\ (left = 0 => value >= least)
           characters == IF left = 0 THEN Append(s.characters, value) ELSE s.characters
<1>1. Decode(s, byte) = [formed |-> formed, left |-> left, least |-> least, value |-> value,
                         characters |-> characters]
    BY Zenon DEF Decode
<1>2. Width(byte) \in 1..4
    BY DEF Width
<1>3. LeastOf(Width(byte)) \in Int /\ LeadBits(byte) \in Int
    BY <1>2 DEF LeastOf, LeadBits, Octets
<1>4. s.left \in Int /\ s.least \in Int /\ s.value \in Int /\ s.characters \in Seq(Int)
      /\ byte \in Int
    BY DEF Decoders, Octets
<1>5. left \in Int /\ least \in Int /\ value \in Int
    BY <1>2, <1>3, <1>4
<1> HIDE DEF left, least, value, leads
<1>6. formed \in BOOLEAN /\ characters \in Seq(Int)
    BY <1>4, <1>5 DEF Decoders
<1> QED
    BY <1>1, <1>5, <1>6 DEF Decoders

\* The states of the decoder.
DecodesBy(after, bytes) ==
    /\ after \in [0..Len(bytes) -> Decoders]
    /\ after[0] = Undecoded
    /\ \A i \in 1..Len(bytes) : after[i] = Decode(after[i - 1], bytes[i])

\* A decoder goes through its states, a byte at a time.
LEMMA DecodeLoop ==
    ASSUME NEW bytes \in Seq(Octets)
    PROVE  \E after : DecodesBy(after, bytes) /\ Decoded(bytes) = after[Len(bytes)]
<1> DEFINE N == Len(bytes)
           turn == [x \in Decoders \X (1..N) |-> Decode(x[1], bytes[x[2]])]
           after[i \in 0..N] == IF i = 0 THEN Undecoded ELSE Decode(after[i - 1], bytes[i])
<1>1. N \in Nat /\ \A i \in 1..N : bytes[i] \in Octets
    OBVIOUS
<1>2. IsTurn(turn, Decoders, N)
    BY <1>1, DecodeTyped DEF IsTurn
<1>3. Undecoded \in Decoders
    BY DEF Undecoded, Decoders
<1>4. PICK f : Loops(f, Decoders, N, Undecoded, turn)
  <2> HIDE DEF turn, N
  <2> QED
      BY <1>1, <1>2, <1>3, Iterate
<1>5. \A i \in 0..N : (IF i = 0 THEN Undecoded ELSE turn[<<f[i - 1], i>>]) =
                      (IF i = 0 THEN Undecoded ELSE Decode(f[i - 1], bytes[i]))
  <2>1. ASSUME NEW i \in 1..N PROVE turn[<<f[i - 1], i>>] = Decode(f[i - 1], bytes[i])
    <3>1. f[i - 1] \in Decoders
      <4> HIDE DEF turn
      <4> QED
          BY <1>1, <1>4 DEF Loops
    <3> QED
        BY <3>1
  <2> HIDE DEF turn, N
  <2> QED
      BY <1>1, <2>1
<1>6. f = [i \in 0..N |-> IF i = 0 THEN Undecoded ELSE Decode(f[i - 1], bytes[i])]
  <2> HIDE DEF turn, N
  <2> QED
      BY <1>4, <1>5, Zenon DEF Loops
<1>7. after = [i \in 0..N |-> IF i = 0 THEN Undecoded ELSE Decode(after[i - 1], bytes[i])]
  <2> HIDE DEF N
  <2> QED
      BY <1>6
<1> HIDE DEF after
<1> DEFINE Good == {i \in 0..N : after[i] \in Decoders}
<1>8. after[0] = Undecoded /\ 0 \in Good
    BY <1>1, <1>3, <1>7
<1>9. \A i \in 1..N : after[i] = Decode(after[i - 1], bytes[i])
  <2> HIDE DEF N
  <2> QED
      BY <1>1, <1>7
<1>10. ASSUME NEW i \in 1..N, i - 1 \in Good PROVE i \in Good
    BY <1>1, <1>9, <1>10, DecodeTyped
<1>11. \A i \in 0..N : i \in Good
  <2> HIDE DEF Good, N
  <2> QED
      BY <1>1, <1>8, <1>10, Kept
<1>12. after \in [0..N -> Decoders]
  <2>1. after = [i \in 0..N |-> after[i]]
    <3> HIDE DEF N
    <3> QED
        BY <1>7
  <2> HIDE DEF N
  <2> QED
      BY <1>11, <2>1
<1>13. Decoded(bytes) = after[N]
    BY DEF Decoded, after
<1> QED
    BY <1>8, <1>9, <1>12, <1>13 DEF DecodesBy

\* Before any byte.
LEMMA DecodeNone == Decoded(<<>>) = Undecoded
<1>1. <<>> \in Seq(Octets) /\ Len(<<>>) = 0
    OBVIOUS
<1>2. PICK after : DecodesBy(after, <<>>) /\ Decoded(<<>>) = after[Len(<<>>)]
    BY <1>1, DecodeLoop
<1> QED
    BY <1>1, <1>2 DEF DecodesBy

\* A decoder takes one byte after the other.
LEMMA DecodeNext ==
    ASSUME NEW bytes \in Seq(Octets), NEW byte \in Octets
    PROVE  /\ Decoded(bytes) \in Decoders
           /\ Decoded(Append(bytes, byte)) = Decode(Decoded(bytes), byte)
<1> DEFINE N == Len(bytes)
           more == Append(bytes, byte)
<1>1. more \in Seq(Octets) /\ N \in Nat /\ Len(more) = N + 1 /\ more[N + 1] = byte
      /\ \A i \in 1..N : more[i] = bytes[i]
    OBVIOUS
<1>2. PICK f : DecodesBy(f, bytes) /\ Decoded(bytes) = f[N]
    BY DecodeLoop
<1> HIDE DEF more
<1>3. PICK g : DecodesBy(g, more) /\ Decoded(more) = g[Len(more)]
    BY <1>1, DecodeLoop
<1> HIDE DEF N
<1> DEFINE Good == {i \in 0..N : f[i] = g[i]}
<1>4. 0 \in Good
    BY <1>1, <1>2, <1>3 DEF DecodesBy
<1>5. ASSUME NEW i \in 1..N, i - 1 \in Good PROVE i \in Good
  <2>1. f[i] = Decode(f[i - 1], bytes[i])
      BY <1>2 DEF DecodesBy, N
  <2>2. i \in 1..Len(more)
      BY <1>1
  <2>3. g[i] = Decode(g[i - 1], more[i])
      BY <1>3, <2>2 DEF DecodesBy
  <2>4. f[i - 1] = g[i - 1] /\ more[i] = bytes[i]
      BY <1>1, <1>5
  <2> QED
      BY <2>1, <2>3, <2>4
<1>6. N \in Good
  <2>1. \A i \in 0..N : i \in Good
    <3> HIDE DEF Good
    <3> QED
        BY <1>1, <1>4, <1>5, Kept
  <2> QED
      BY <1>1, <2>1
<1>7. g[N + 1] = Decode(g[N], byte)
  <2>1. N + 1 \in 1..Len(more) /\ (N + 1) - 1 = N
      BY <1>1
  <2>2. g[N + 1] = Decode(g[(N + 1) - 1], more[N + 1])
      BY <1>3, <2>1 DEF DecodesBy
  <2> QED
      BY <1>1, <2>1, <2>2
<1>8. f[N] \in Decoders
  <2>1. N \in 0..N
      BY <1>1
  <2> QED
      BY <1>2, <2>1 DEF DecodesBy, N
<1> QED
    BY <1>1, <1>2, <1>3, <1>6, <1>7, <1>8 DEF more

\* Bytes behind others, one at a time.
LEMMA Appends ==
    ASSUME NEW V, NEW s \in Seq(V), NEW a \in V, NEW b \in V, NEW c \in V, NEW d \in V
    PROVE  /\ s \o <<a>> = Append(s, a)
           /\ s \o <<a, b>> = Append(Append(s, a), b)
           /\ s \o <<a, b, c>> = Append(Append(Append(s, a), b), c)
           /\ s \o <<a, b, c, d>> = Append(Append(Append(Append(s, a), b), c), d)
<1>1. s \o <<a>> = Append(s, a)
    OBVIOUS
<1>2. s \o <<a, b>> = Append(Append(s, a), b)
    OBVIOUS
<1>3. s \o <<a, b, c>> = Append(Append(Append(s, a), b), c)
    OBVIOUS
<1>4. s \o <<a, b, c, d>> = Append(Append(Append(Append(s, a), b), c), d)
    OBVIOUS
<1> QED
    BY <1>1, <1>2, <1>3, <1>4

\* A byte that begins a character.
LEMMA Leads ==
    ASSUME NEW s \in Decoders, s.formed, s.left = 0,
           NEW byte \in Octets, byte < 128 \/ byte >= 192
    PROVE  Decode(s, byte) =
              [formed |-> Width(byte) = 1 => LeadBits(byte) >= LeastOf(Width(byte)),
               left |-> Width(byte) - 1, least |-> LeastOf(Width(byte)),
               value |-> LeadBits(byte),
               characters |-> IF Width(byte) = 1 THEN Append(s.characters, LeadBits(byte))
                              ELSE s.characters]
<1>1. Width(byte) \in 1..4
    BY DEF Width
<1>2. (Width(byte) - 1 = 0) = (Width(byte) = 1)
    BY <1>1
<1> QED
    BY <1>2 DEF Decode

\* A byte that goes on with one.
LEMMA Trails ==
    ASSUME NEW s \in Decoders, s.formed, s.left \in 1..3, NEW t \in 0..63
    PROVE  Decode(s, 128 + t) =
              [formed |-> s.left = 1 => s.value * 64 + t >= s.least,
               left |-> s.left - 1, least |-> s.least, value |-> s.value * 64 + t,
               characters |-> IF s.left = 1 THEN Append(s.characters, s.value * 64 + t)
                              ELSE s.characters]
<1>1. ~(128 + t < 128 \/ 128 + t >= 192) /\ (s.left - 1 = 0) = (s.left = 1) /\ s.left # 0
    OBVIOUS
<1>2. s.value \in Int
    BY DEF Decoders
<1>3. s.value * 64 + (128 + t) - 128 = s.value * 64 + t
    BY <1>2
<1> QED
    BY <1>1, <1>3 DEF Decode

\* What a character can be.  Leaves that see numbers as large as these are for SMT
\* alone: Zenon counts up to them.
Scalars == {c \in Nat : c <= 1114111}

\* A character without its last one, two or three digits of base 64.
LEMMA ShiftsWithin ==
    ASSUME NEW cp \in Scalars
    PROVE  cp \div 64 \in 0..17407 /\ cp \div 4096 \in 0..271 /\ cp \div 262144 \in 0..4
  BY SMT DEF Scalars

\* These digits.
LEMMA DigitsWithin ==
    ASSUME NEW cp \in Scalars
    PROVE  cp % 64 \in 0..63 /\ (cp \div 64) % 64 \in 0..63 /\ (cp \div 4096) % 64 \in 0..63
  BY SMT DEF Scalars

\* The digits make up the character.
LEMMA FirstDigit == \A cp \in Scalars : (cp \div 64) * 64 + (cp % 64) = cp
  BY SMT DEF Scalars

LEMMA SecondDigit ==
    \A cp \in Scalars : (cp \div 4096) * 64 + ((cp \div 64) % 64) = cp \div 64
  BY SMT DEF Scalars

LEMMA ThirdDigit ==
    \A cp \in Scalars : (cp \div 262144) * 64 + ((cp \div 4096) % 64) = cp \div 4096
  BY SMT DEF Scalars

\* A decoder that has met nothing ill-formed.
Partial(left, least, value, characters) ==
    [formed |-> TRUE, left |-> left, least |-> least, value |-> value,
     characters |-> characters]

\* The first byte of a character of several.
LEMMA PartialLeads ==
    ASSUME NEW s \in Decoders, s.formed, s.left = 0, NEW width \in 2..4, NEW byte \in Octets,
           byte >= 192, Width(byte) = width
    PROVE  Decode(s, byte) =
              Partial(width - 1, LeastOf(width), LeadBits(byte), s.characters)
<1>1. width # 1
    OBVIOUS
<1> QED
    BY <1>1, Leads, Zenon DEF Partial

\* A byte that goes on with a character of which v was known, and w is then.
IsTail(byte, v, w) ==
    byte \in 128..191 /\ v \in Int /\ w = v * 64 + (byte - 128)

\* A byte that is not the last of its character.
LEMMA PartialGoesOn ==
    ASSUME NEW cs \in Seq(Int), NEW left \in 2..3, NEW least \in Int, NEW byte, NEW v, NEW w,
           IsTail(byte, v, w), NEW rest, rest = left - 1
    PROVE  Decode(Partial(left, least, v, cs), byte) = Partial(rest, least, w, cs)
<1> DEFINE s == Partial(left, least, v, cs)
           t == byte - 128
<1>1. t \in 0..63 /\ byte = 128 + t /\ v \in Int /\ w = v * 64 + t
    BY DEF IsTail
<1>2. s \in Decoders /\ s.formed /\ s.left = left /\ s.least = least /\ s.value = v
      /\ s.characters = cs /\ s.left \in 1..3
    BY <1>1 DEF Partial, Decoders
<1>3. left # 1
    OBVIOUS
<1> HIDE DEF s, t
<1>4. Decode(s, 128 + t) =
         [formed |-> s.left = 1 => s.value * 64 + t >= s.least,
          left |-> s.left - 1, least |-> s.least, value |-> s.value * 64 + t,
          characters |-> IF s.left = 1 THEN Append(s.characters, s.value * 64 + t)
                         ELSE s.characters]
    BY <1>1, <1>2, Trails
<1>5. (s.left = 1 => s.value * 64 + t >= s.least) = TRUE /\ s.value * 64 + t = w
    BY <1>1, <1>2, <1>3
<1> QED
    BY <1>1, <1>2, <1>3, <1>4, <1>5 DEF Partial, s

\* The last byte of a character.
LEMMA PartialEnds ==
    ASSUME NEW cs \in Seq(Int), NEW least \in Int, NEW byte, NEW v, NEW w,
           IsTail(byte, v, w), w >= least
    PROVE  Decode(Partial(1, least, v, cs), byte) = Partial(0, least, w, Append(cs, w))
<1> DEFINE s == Partial(1, least, v, cs)
           t == byte - 128
<1>1. t \in 0..63 /\ byte = 128 + t /\ v \in Int /\ w = v * 64 + t
    BY DEF IsTail
<1>2. s \in Decoders /\ s.formed /\ s.left = 1 /\ s.least = least /\ s.value = v
      /\ s.characters = cs /\ s.left \in 1..3
    BY <1>1 DEF Partial, Decoders
<1> HIDE DEF s, t
<1>4. Decode(s, 128 + t) =
         [formed |-> s.left = 1 => s.value * 64 + t >= s.least,
          left |-> s.left - 1, least |-> s.least, value |-> s.value * 64 + t,
          characters |-> IF s.left = 1 THEN Append(s.characters, s.value * 64 + t)
                         ELSE s.characters]
    BY <1>1, <1>2, Trails
<1>5. (s.left = 1 => s.value * 64 + t >= s.least) = TRUE /\ s.value * 64 + t = w
      /\ s.left - 1 = 0
    BY <1>1, <1>2
<1> QED
    BY <1>1, <1>2, <1>4, <1>5 DEF Partial, s

\* The bytes so far are well-formed, and the decoder is in this state.
At(o, left, least, v, cs) ==
    /\ o \in Seq(Octets) /\ cs \in Seq(Int) /\ least \in Int /\ v \in Int
    /\ Decoded(o) = Partial(left, least, v, cs)

Clean(o) == o \in Seq(Octets) /\ Decoded(o).formed /\ Decoded(o).left = 0

\* With these bytes behind it, clean text has one character more.
Takes(o, bytes, cp) ==
    /\ o \o bytes \in Seq(Octets) /\ o \o bytes # <<>> /\ Clean(o \o bytes)
    /\ Decoded(o \o bytes).characters = Append(Decoded(o).characters, cp)

IsLead(byte, width, bits) ==
    byte \in Octets /\ byte >= 192 /\ Width(byte) = width /\ bits = LeadBits(byte) /\ bits \in Int

LEMMA TailOctet == ASSUME NEW byte, NEW v, NEW w, IsTail(byte, v, w) PROVE byte \in Octets
  BY DEF IsTail, Octets

\* The same of text: its first byte, those between, and the last.
LEMMA AtLead ==
    ASSUME NEW o, Clean(o), NEW width \in 2..4, NEW byte, NEW bits, IsLead(byte, width, bits),
           NEW left, left = width - 1
    PROVE  At(Append(o, byte), left, LeastOf(width), bits, Decoded(o).characters)
<1>1. o \in Seq(Octets) /\ byte \in Octets /\ byte >= 192 /\ Width(byte) = width
    BY DEF Clean, IsLead
<1>2. Append(o, byte) \in Seq(Octets) /\ Decoded(o) \in Decoders
      /\ Decoded(Append(o, byte)) = Decode(Decoded(o), byte)
    BY <1>1, DecodeNext
<1>3. Decode(Decoded(o), byte) =
         Partial(width - 1, LeastOf(width), LeadBits(byte), Decoded(o).characters)
    BY <1>1, <1>2, PartialLeads DEF Clean
<1>4. LeastOf(width) \in Int
    BY SMT DEF LeastOf
<1>5. Decoded(o).characters \in Seq(Int)
    BY <1>2 DEF Decoders
<1> QED
    BY <1>2, <1>3, <1>4, <1>5, Zenon DEF At, IsLead

LEMMA AtMore ==
    ASSUME NEW o, NEW left \in 2..3, NEW least, NEW v, NEW cs, At(o, left, least, v, cs),
           NEW byte, NEW w, IsTail(byte, v, w), NEW rest, rest = left - 1
    PROVE  At(Append(o, byte), rest, least, w, cs)
<1>1. o \in Seq(Octets) /\ byte \in Octets /\ cs \in Seq(Int) /\ least \in Int
      /\ v \in Int /\ w \in Int
    BY DEF At, Octets, IsTail
<1>2. Append(o, byte) \in Seq(Octets)
      /\ Decoded(Append(o, byte)) = Decode(Decoded(o), byte)
    BY <1>1, DecodeNext
<1>3. Decode(Partial(left, least, v, cs), byte) = Partial(rest, least, w, cs)
    BY <1>1, PartialGoesOn
<1> QED
    BY <1>1, <1>2, <1>3, Zenon DEF At

LEMMA AtEnd ==
    ASSUME NEW o, NEW least, NEW v, NEW cs, At(o, 1, least, v, cs),
           NEW byte, NEW w, IsTail(byte, v, w), w >= least
    PROVE  At(Append(o, byte), 0, least, w, Append(cs, w))
<1>1. o \in Seq(Octets) /\ byte \in Octets /\ cs \in Seq(Int) /\ least \in Int
      /\ v \in Int /\ w \in Int /\ Append(cs, w) \in Seq(Int)
    BY DEF At, Octets, IsTail
<1>2. Append(o, byte) \in Seq(Octets)
      /\ Decoded(Append(o, byte)) = Decode(Decoded(o), byte)
    BY <1>1, DecodeNext
<1>3. Decode(Partial(1, least, v, cs), byte) = Partial(0, least, w, Append(cs, w))
    BY <1>1, PartialEnds, Zenon
<1> QED
    BY <1>1, <1>2, <1>3, Zenon DEF At

\* The character is complete.
LEMMA AtDone ==
    ASSUME NEW o, NEW bytes, NEW least, NEW cp, NEW last, NEW byte, o \o bytes = Append(last, byte),
           last \in Seq(Octets),
           At(o \o bytes, 0, least, cp, Append(Decoded(o).characters, cp))
    PROVE  Takes(o, bytes, cp)
<1>1. Append(last, byte) # <<>>
    OBVIOUS
<1>2. Decoded(o \o bytes) = Partial(0, least, cp, Append(Decoded(o).characters, cp))
      /\ o \o bytes \in Seq(Octets)
    BY Zenon DEF At
<1>3. /\ Decoded(o \o bytes).formed /\ Decoded(o \o bytes).left = 0
      /\ Decoded(o \o bytes).characters = Append(Decoded(o).characters, cp)
    BY <1>2 DEF Partial
<1> QED
    BY <1>1, <1>2, <1>3, Zenon DEF Clean, Takes

\* Characters of one byte, two, three and four.
LEMMA OneByte ==
    ASSUME NEW o, Clean(o), NEW cp \in Nat, cp <= 127
    PROVE  Takes(o, <<cp>>, cp)
<1>1. o \in Seq(Octets) /\ cp \in Octets /\ cp < 128
    BY DEF Clean, Octets
<1>2. o \o <<cp>> = Append(o, cp) /\ Append(o, cp) \in Seq(Octets) /\ Append(o, cp) # <<>>
    BY <1>1
<1>3. Decoded(o) \in Decoders /\ Decoded(Append(o, cp)) = Decode(Decoded(o), cp)
    BY <1>1, DecodeNext
<1>4. Width(cp) = 1 /\ LeadBits(cp) = cp /\ LeastOf(1) = 0
    BY SMT, <1>1 DEF Width, LeadBits, LeastOf
<1>5. Decode(Decoded(o), cp) =
         [formed |-> Width(cp) = 1 => LeadBits(cp) >= LeastOf(Width(cp)),
          left |-> Width(cp) - 1, least |-> LeastOf(Width(cp)), value |-> LeadBits(cp),
          characters |-> IF Width(cp) = 1 THEN Append(Decoded(o).characters, LeadBits(cp))
                         ELSE Decoded(o).characters]
    BY <1>1, <1>3, Leads DEF Clean
<1>6. (Width(cp) = 1 => LeadBits(cp) >= LeastOf(Width(cp))) /\ Width(cp) - 1 = 0
    BY <1>4
<1>7. Decoded(Append(o, cp)) = Partial(0, 0, cp, Append(Decoded(o).characters, cp))
    BY <1>3, <1>4, <1>5, <1>6 DEF Partial
<1>8. At(Append(o, cp), 0, 0, cp, Append(Decoded(o).characters, cp))
  <2>1. Append(Decoded(o).characters, cp) \in Seq(Int) /\ 0 \in Int /\ cp \in Int
      BY <1>3 DEF Decoders
  <2> QED
      BY <1>2, <1>7, <2>1, Zenon DEF At
<1> QED
    BY <1>1, <1>2, <1>8, AtDone, Zenon

LEMMA TwoBytes ==
    ASSUME NEW o, Clean(o), NEW lead, NEW a, IsLead(lead, 2, a),
           NEW low, NEW cp, IsTail(low, a, cp), cp >= LeastOf(2)
    PROVE  Takes(o, <<lead, low>>, cp)
<1> DEFINE o1 == Append(o, lead)
<1>1. 2 \in 2..4 /\ 1 = 2 - 1
    OBVIOUS
<1>2. At(o1, 1, LeastOf(2), a, Decoded(o).characters)
    BY <1>1, AtLead, Zenon
<1>3. At(Append(o1, low), 0, LeastOf(2), cp, Append(Decoded(o).characters, cp))
  <2> HIDE DEF o1
  <2> QED
      BY <1>2, AtEnd, Zenon
<1>4. o \o <<lead, low>> = Append(o1, low)
  <2>1. o \in Seq(Octets) /\ lead \in Octets /\ low \in Octets
      BY TailOctet DEF Clean, IsLead
  <2> QED
      BY <2>1, Appends
<1>5. o1 \in Seq(Octets)
    BY <1>2, Zenon DEF At
<1> HIDE DEF o1
<1> QED
    BY <1>3, <1>4, <1>5, AtDone, Zenon

LEMMA ThreeBytes ==
    ASSUME NEW o, Clean(o), NEW lead, NEW b, IsLead(lead, 3, b),
           NEW mid, NEW a, IsTail(mid, b, a),
           NEW low, NEW cp, IsTail(low, a, cp), cp >= LeastOf(3)
    PROVE  Takes(o, <<lead, mid, low>>, cp)
<1> DEFINE o1 == Append(o, lead)
           o2 == Append(o1, mid)
<1>1. 3 \in 2..4 /\ 2 = 3 - 1 /\ 2 \in 2..3 /\ 1 = 2 - 1
    OBVIOUS
<1>2. At(o1, 2, LeastOf(3), b, Decoded(o).characters)
    BY <1>1, AtLead, Zenon
<1>3. At(o2, 1, LeastOf(3), a, Decoded(o).characters)
  <2> HIDE DEF o1
  <2> QED
      BY <1>1, <1>2, AtMore, Zenon
<1>4. At(Append(o2, low), 0, LeastOf(3), cp, Append(Decoded(o).characters, cp))
  <2> HIDE DEF o2
  <2> QED
      BY <1>3, AtEnd, Zenon
<1>5. o \o <<lead, mid, low>> = Append(o2, low)
  <2>1. o \in Seq(Octets) /\ lead \in Octets /\ low \in Octets /\ mid \in Octets
      BY TailOctet DEF Clean, IsLead
  <2> QED
      BY <2>1, Appends
<1>6. o2 \in Seq(Octets)
    BY <1>3, Zenon DEF At
<1> HIDE DEF o2
<1> QED
    BY <1>4, <1>5, <1>6, AtDone, Zenon

LEMMA FourBytes ==
    ASSUME NEW o, Clean(o), NEW lead, NEW c, IsLead(lead, 4, c),
           NEW high, NEW b, IsTail(high, c, b),
           NEW mid, NEW a, IsTail(mid, b, a),
           NEW low, NEW cp, IsTail(low, a, cp), cp >= LeastOf(4)
    PROVE  Takes(o, <<lead, high, mid, low>>, cp)
<1> DEFINE o1 == Append(o, lead)
           o2 == Append(o1, high)
           o3 == Append(o2, mid)
<1>1. 4 \in 2..4 /\ 3 = 4 - 1 /\ 3 \in 2..3 /\ 2 = 3 - 1 /\ 2 \in 2..3 /\ 1 = 2 - 1
    OBVIOUS
<1>2. At(o1, 3, LeastOf(4), c, Decoded(o).characters)
    BY <1>1, AtLead, Zenon
<1>3. At(o2, 2, LeastOf(4), b, Decoded(o).characters)
  <2> HIDE DEF o1
  <2> QED
      BY <1>1, <1>2, AtMore, Zenon
<1>4. At(o3, 1, LeastOf(4), a, Decoded(o).characters)
  <2> HIDE DEF o2
  <2> QED
      BY <1>1, <1>3, AtMore, Zenon
<1>5. At(Append(o3, low), 0, LeastOf(4), cp, Append(Decoded(o).characters, cp))
  <2> HIDE DEF o3
  <2> QED
      BY <1>4, AtEnd, Zenon
<1>6. o \o <<lead, high, mid, low>> = Append(o3, low)
  <2>1. /\ o \in Seq(Octets) /\ lead \in Octets /\ low \in Octets
        /\ mid \in Octets /\ high \in Octets
      BY TailOctet DEF Clean, IsLead
  <2> QED
      BY <2>1, Appends
<1>7. o3 \in Seq(Octets)
    BY <1>4, Zenon DEF At
<1> HIDE DEF o3
<1> QED
    BY <1>5, <1>6, <1>7, AtDone, Zenon

\* What append_utf8 writes has one of these four shapes.
LEMMA ShapeOne ==
    ASSUME NEW cp \in Scalars, cp <= 127
    PROVE  cp \in Nat /\ append_utf8(cp) = <<cp>>
  BY SMT DEF Scalars, append_utf8

LEMMA ShapeTwo ==
    ASSUME NEW cp \in Scalars, cp > 127, cp <= 2047,
           NEW lead, NEW low, NEW a,
           lead = 192 + (cp \div 64), low = 128 + (cp % 64), a = cp \div 64
    PROVE  /\ append_utf8(cp) = <<lead, low>>
           /\ IsLead(lead, 2, a) /\ IsTail(low, a, cp) /\ cp >= LeastOf(2)
<1>0. cp \in Int /\ cp \div 64 \in Int /\ cp % 64 \in 0..63 /\ (cp \div 64) * 64 + (cp % 64) = cp
    BY SMT DEF Scalars
<1>1. append_utf8(cp) = <<lead, low>>
    BY SMT DEF Scalars, append_utf8
<1>2. a \in 2..31 /\ a \in Int /\ lead = 192 + a
    BY SMT DEF Scalars
<1>3. Width(lead) = 2 /\ LeadBits(lead) = a /\ lead \in Octets /\ lead >= 192
    BY SMT, <1>2 DEF Width, LeadBits, Octets
<1>4. IsLead(lead, 2, a)
    BY SMT, <1>2, <1>3 DEF IsLead
<1>5. IsTail(low, a, cp)
    BY SMT, <1>0 DEF IsTail
<1>6. cp >= LeastOf(2)
    BY SMT, <1>0 DEF LeastOf
<1> QED
    BY SMT, <1>1, <1>4, <1>5, <1>6

LEMMA ShapeThree ==
    ASSUME NEW cp \in Scalars, cp > 2047, cp <= 65535,
           NEW lead, NEW mid, NEW low, NEW b, NEW a,
           lead = 224 + (cp \div 4096), mid = 128 + ((cp \div 64) % 64), low = 128 + (cp % 64),
           b = cp \div 4096, a = cp \div 64
    PROVE  /\ append_utf8(cp) = <<lead, mid, low>>
           /\ IsLead(lead, 3, b) /\ IsTail(mid, b, a) /\ IsTail(low, a, cp) /\ cp >= LeastOf(3)
<1>0. cp \in Int /\ a \in Int /\ b \in Int
    BY SMT DEF Scalars
<1>1. append_utf8(cp) = <<lead, mid, low>>
    BY SMT DEF Scalars, append_utf8
<1>2. b \in 0..15 /\ lead = 224 + b
    BY SMT DEF Scalars
<1>3. Width(lead) = 3 /\ LeadBits(lead) = b /\ lead \in Octets /\ lead >= 192
    BY SMT, <1>2 DEF Width, LeadBits, Octets
<1>4. IsLead(lead, 3, b)
    BY SMT, <1>0, <1>3 DEF IsLead
<1>5. cp % 64 \in 0..63 /\ a * 64 + (cp % 64) = cp
    BY SMT DEF Scalars
<1>6. IsTail(low, a, cp)
    BY SMT, <1>0, <1>5 DEF IsTail
<1>7. (cp \div 64) % 64 \in 0..63 /\ b * 64 + ((cp \div 64) % 64) = a
    BY SMT DEF Scalars
<1>8. IsTail(mid, b, a)
    BY SMT, <1>0, <1>7 DEF IsTail
<1>9. cp >= LeastOf(3)
    BY SMT, <1>0 DEF LeastOf
<1> QED
    BY SMT, <1>1, <1>4, <1>6, <1>8, <1>9

LEMMA ShapeFour ==
    ASSUME NEW cp \in Scalars, cp > 65535,
           NEW lead, NEW high, NEW mid, NEW low, NEW c, NEW b, NEW a,
           lead = 240 + (cp \div 262144), high = 128 + ((cp \div 4096) % 64),
           mid = 128 + ((cp \div 64) % 64), low = 128 + (cp % 64),
           c = cp \div 262144, b = cp \div 4096, a = cp \div 64
    PROVE  /\ append_utf8(cp) = <<lead, high, mid, low>>
           /\ IsLead(lead, 4, c) /\ IsTail(high, c, b) /\ IsTail(mid, b, a)
           /\ IsTail(low, a, cp) /\ cp >= LeastOf(4)
<1>0. cp \in Int /\ a \in Int /\ b \in Int /\ c \in Int
    BY SMT DEF Scalars
<1>1. append_utf8(cp) = <<lead, high, mid, low>>
    BY SMT DEF Scalars, append_utf8
<1>2. c \in 0..4 /\ lead = 240 + c
    BY SMT DEF Scalars
<1>3. Width(lead) = 4 /\ LeadBits(lead) = c /\ lead \in Octets /\ lead >= 192
    BY SMT, <1>2 DEF Width, LeadBits, Octets
<1>4. IsLead(lead, 4, c)
    BY SMT, <1>0, <1>3 DEF IsLead
<1>5. cp % 64 \in 0..63 /\ a * 64 + (cp % 64) = cp
    BY SMT DEF Scalars
<1>6. IsTail(low, a, cp)
    BY SMT, <1>0, <1>5 DEF IsTail
<1>7. (cp \div 64) % 64 \in 0..63 /\ b * 64 + ((cp \div 64) % 64) = a
    BY SMT DEF Scalars
<1>8. IsTail(mid, b, a)
    BY SMT, <1>0, <1>7 DEF IsTail
<1>9. (cp \div 4096) % 64 \in 0..63 /\ c * 64 + ((cp \div 4096) % 64) = b
    BY SMT DEF Scalars
<1>10. IsTail(high, c, b)
    BY SMT, <1>0, <1>9 DEF IsTail
<1>11. cp >= LeastOf(4)
    BY SMT, <1>0 DEF LeastOf
<1> QED
    BY SMT, <1>1, <1>4, <1>6, <1>8, <1>10, <1>11

\* append_utf8 adds one character to well-formed text.
LEMMA AppendTakes ==
    ASSUME NEW o, Clean(o), NEW cp \in Scalars
    PROVE  Takes(o, append_utf8(cp), cp)
<1>1. cp \in Int
    BY SMT DEF Scalars
<1>2. CASE cp <= 127
  <2>1. cp \in Nat /\ append_utf8(cp) = <<cp>>
      BY SMT, <1>2, ShapeOne
  <2>2. Takes(o, <<cp>>, cp)
      BY SMT, <1>2, <2>1, OneByte
  <2> QED
      BY SMT, <2>1, <2>2
<1>3. CASE cp > 127 /\ cp <= 2047
    BY SMT, <1>3, ShapeTwo, TwoBytes
<1>4. CASE cp > 2047 /\ cp <= 65535
    BY SMT, <1>4, ShapeThree, ThreeBytes
<1>5. CASE cp > 65535
    BY SMT, <1>5, ShapeFour, FourBytes
<1> QED
    BY SMT, <1>1, <1>2, <1>3, <1>4, <1>5

-----------------------------------------------------------------------------
(* The loop of utf16le_to_utf8.                                            *)

Texts == {o \in Seq(Octets) : Clean(o)}

\* A code unit alone, and two together, are characters; only NUL is 0.
LEMMA UnitsWithin == \A c \in CodeUnits : c \in Nat /\ c \in Scalars
  BY SMT DEF CodeUnits, Scalars

LEMMA PairScalar ==
    ASSUME NEW u \in Nat, NEW v \in Nat, High(u), Low(v)
    PROVE  Combined(u, v) \in Scalars /\ Combined(u, v) # 0 /\ u # 0
<1>1. u - 55296 \in 0..1023 /\ u # 0
    BY SMT DEF High
<1>2. v - 56320 \in 0..1023
    BY SMT DEF Low
<1> QED
    BY SMT, <1>1, <1>2 DEF Combined, Scalars

LEMMA ReplacementScalar == Replacement \in Scalars /\ Replacement # 0
  BY SMT DEF Replacement, Scalars

LEMMA HalfNotNul == ASSUME NEW u \in Nat, High(u) \/ Low(u) PROVE u # 0
  BY SMT DEF High, Low

LEMMA HighNotLow == ASSUME NEW u \in Nat, High(u), Low(u) PROVE FALSE
<1>1. u <= 56319
    BY SMT DEF High
<1>2. u >= 56320
    BY SMT DEF Low
<1> QED
    BY SMT, <1>1, <1>2

\* What the loop takes for a character is one.
LEMMA CodePointScalar ==
    ASSUME NEW units \in Seq(CodeUnits), NEW i \in 1..Len(units)
    PROVE  /\ CodePoint(units, i) \in Scalars
           /\ CodePoint(units, i) = 0 <=> units[i] = 0
<1>1. units[i] \in CodeUnits /\ (i < Len(units) => units[i + 1] \in CodeUnits)
    OBVIOUS
<1>2. units[i] \in Scalars /\ units[i] \in Nat
    BY <1>1, UnitsWithin, Zenon
<1>3. CASE Paired(units, i)
  <2>1. High(units[i]) /\ Low(units[i + 1]) /\ i < Len(units)
      BY <1>3 DEF Paired
  <2>2. units[i + 1] \in Nat
      BY <1>1, <2>1, UnitsWithin, Zenon
  <2>3. CodePoint(units, i) = Combined(units[i], units[i + 1])
      BY <1>3, Zenon DEF CodePoint
  <2> QED
      BY <1>2, <2>1, <2>2, <2>3, PairScalar, Zenon
<1>4. CASE ~Paired(units, i) /\ (High(units[i]) \/ Low(units[i]))
  <2>1. CodePoint(units, i) = Replacement
      BY <1>4, Zenon DEF CodePoint
  <2> QED
      BY <1>2, <1>4, <2>1, ReplacementScalar, HalfNotNul, Zenon
<1>5. CASE ~Paired(units, i) /\ ~(High(units[i]) \/ Low(units[i]))
    BY <1>2, <1>5, Zenon DEF CodePoint
<1> QED
    BY <1>3, <1>4, <1>5, Zenon

ConvertStates(units) == [taken : 0..Len(units), out : Texts]

\* No bytes are no characters.
LEMMA NoText == <<>> \in Texts /\ Decoded(<<>>).characters = <<>>
<1>1. <<>> \in Seq(Octets)
    OBVIOUS
<1> QED
    BY <1>1, DecodeNone DEF Texts, Clean, Undecoded

\* The text so far is well-formed after every turn.
LEMMA ConvertTyped ==
    ASSUME NEW units \in Seq(CodeUnits), NEW s \in ConvertStates(units)
    PROVE  Convert(units, s) \in ConvertStates(units)
<1> DEFINE i == s.taken + 1
           cp == CodePoint(units, i)
<1>1. Len(units) \in Nat /\ s.taken \in 0..Len(units) /\ s.out \in Texts
    BY DEF ConvertStates
<1>2. CASE s.taken = Len(units)
    BY <1>2, Zenon DEF Convert
<1>3. CASE s.taken # Len(units)
  <2>1. i \in 1..Len(units)
      BY <1>1, <1>3
  <2>2. Convert(units, s) = [taken |-> IF Paired(units, i) THEN i + 1 ELSE i,
                             out |-> IF cp = 0 THEN s.out ELSE s.out \o append_utf8(cp)]
      BY <1>3, Zenon DEF Convert
  <2>3. cp \in Scalars
      BY <2>1, CodePointScalar
  <2>4. Takes(s.out, append_utf8(cp), cp)
    <3> HIDE DEF cp
    <3> QED
        BY <1>1, <2>3, AppendTakes DEF Texts
  <2>5. (s.out \o append_utf8(cp)) \in Texts
    <3> HIDE DEF cp
    <3> QED
        BY <2>4 DEF Takes, Texts
  <2>6. (IF Paired(units, i) THEN i + 1 ELSE i) \in 0..Len(units)
      BY <1>1, <2>1 DEF Paired
  <2> HIDE DEF i, cp
  <2>7. (IF cp = 0 THEN s.out ELSE s.out \o append_utf8(cp)) \in Texts
      BY <1>1, <2>5
  <2>8. ASSUME NEW t \in 0..Len(units), NEW o \in Texts
        PROVE [taken |-> t, out |-> o] \in ConvertStates(units)
      BY DEF ConvertStates
  <2> QED
      BY <2>2, <2>6, <2>7, <2>8, Zenon
<1> QED
    BY <1>2, <1>3

\* The states of the loop.
ConvertsBy(after, units) ==
    /\ after \in [0..Len(units) -> ConvertStates(units)]
    /\ after[0] = [taken |-> 0, out |-> <<>>]
    /\ \A i \in 1..Len(units) : after[i] = Convert(units, after[i - 1])

\* utf16le_to_utf8 goes through states of the loop, from the first on.
LEMMA ConvertLoop ==
    ASSUME NEW units \in Seq(CodeUnits)
    PROVE  \E after : ConvertsBy(after, units) /\ utf16le_to_utf8(units) = after[Len(units)].out
<1> DEFINE N == Len(units)
           V == ConvertStates(units)
           first == [taken |-> 0, out |-> <<>>]
           turn == [x \in V \X (1..N) |-> Convert(units, x[1])]
           after[i \in 0..N] == IF i = 0 THEN first ELSE Convert(units, after[i - 1])
<1>1. N \in Nat
    OBVIOUS
<1>2. IsTurn(turn, V, N)
  <2> HIDE DEF V
  <2>1. \A s \in V : Convert(units, s) \in V
      BY ConvertTyped DEF V
  <2> QED
      BY <2>1 DEF IsTurn
<1>3. first \in V
  <2>1. 0 \in 0..N
      BY <1>1
  <2> QED
      BY <2>1, NoText, Zenon DEF ConvertStates
<1>4. PICK f : Loops(f, V, N, first, turn)
  <2> HIDE DEF turn, N, V, first
  <2> QED
      BY <1>1, <1>2, <1>3, Iterate
<1> HIDE DEF first, V
<1>5. \A i \in 0..N : (IF i = 0 THEN first ELSE turn[<<f[i - 1], i>>]) =
                      (IF i = 0 THEN first ELSE Convert(units, f[i - 1]))
  <2>1. ASSUME NEW i \in 1..N PROVE turn[<<f[i - 1], i>>] = Convert(units, f[i - 1])
    <3>1. f[i - 1] \in V
      <4> HIDE DEF turn
      <4> QED
          BY <1>1, <1>4 DEF Loops
    <3> QED
        BY <3>1
  <2> HIDE DEF turn, N
  <2> QED
      BY <1>1, <2>1
<1>6. f = [i \in 0..N |-> IF i = 0 THEN first ELSE Convert(units, f[i - 1])]
  <2> HIDE DEF turn, N
  <2> QED
      BY <1>4, <1>5, Zenon DEF Loops
<1>7. after = [i \in 0..N |-> IF i = 0 THEN first ELSE Convert(units, after[i - 1])]
  <2> HIDE DEF N
  <2> QED
      BY <1>6
<1> HIDE DEF after
<1> DEFINE Good == {i \in 0..N : after[i] \in V}
<1>8. after[0] = first /\ 0 \in Good
    BY <1>1, <1>3, <1>7
<1>9. \A i \in 1..N : after[i] = Convert(units, after[i - 1])
  <2> HIDE DEF N
  <2> QED
      BY <1>1, <1>7
<1>10. ASSUME NEW i \in 1..N, i - 1 \in Good PROVE i \in Good
    BY <1>1, <1>9, <1>10, ConvertTyped DEF V
<1>11. \A i \in 0..N : i \in Good
  <2> HIDE DEF Good, N
  <2> QED
      BY <1>1, <1>8, <1>10, Kept
<1>12. after \in [0..N -> V]
  <2>1. after = [i \in 0..N |-> after[i]]
    <3> HIDE DEF N
    <3> QED
        BY <1>7
  <2> HIDE DEF N
  <2> QED
      BY <1>11, <2>1
<1>13. utf16le_to_utf8(units) = after[N].out
    BY Zenon DEF utf16le_to_utf8, after, first
<1> QED
    BY <1>8, <1>9, <1>12, <1>13, Zenon DEF ConvertsBy, V, first

-----------------------------------------------------------------------------
(* What the loop has written is what the code units behind it stand for.   *)

JoinsAt(units, i) ==
    i \in DOMAIN units /\ i + 1 \in DOMAIN units /\ High(units[i]) /\ Low(units[i + 1])

\* The character that begins at code unit i, if one does.
Part(units, i) ==
    IF units[i] # 0 /\ ~JoinsAt(units, i - 1)
    THEN <<IF JoinsAt(units, i) THEN Combined(units[i], units[i + 1])
           ELSE IF High(units[i]) \/ Low(units[i]) THEN Replacement
           ELSE units[i]>>
    ELSE <<>>

\* The characters of code units, one part after the other.
LEMMA CharactersAre ==
    ASSUME NEW units \in Seq(CodeUnits)
    PROVE  Characters(units) = FlattenSeq([i \in 1..Len(units) |-> Part(units, i)])
<1>1. DOMAIN units = 1..Len(units)
    OBVIOUS
<1> QED
    BY <1>1, Zenon DEF Characters, Part, JoinsAt

\* Where no pair begins before it, a code unit begins what the loop says.
LEMMA PartIs ==
    ASSUME NEW units \in Seq(CodeUnits), NEW i \in 1..Len(units)
    PROVE  /\ JoinsAt(units, i) = Paired(units, i)
           /\ JoinsAt(units, i - 1) => Part(units, i) = <<>>
           /\ ~JoinsAt(units, i - 1) =>
                 Part(units, i) = IF CodePoint(units, i) = 0 THEN <<>>
                                  ELSE <<CodePoint(units, i)>>
           /\ Part(units, i) \in Seq(Scalars)
<1>1. JoinsAt(units, i) = Paired(units, i)
  <2>1. DOMAIN units = 1..Len(units) /\ Len(units) \in Nat
      OBVIOUS
  <2>2. (i \in DOMAIN units /\ i + 1 \in DOMAIN units) = (i < Len(units))
      BY <2>1
  <2> QED
      BY <2>2, Zenon DEF JoinsAt, Paired
<1>2. JoinsAt(units, i - 1) => Part(units, i) = <<>>
    BY Zenon DEF Part
<1>3. CodePoint(units, i) \in Scalars /\ (CodePoint(units, i) = 0 <=> units[i] = 0)
    BY CodePointScalar
<1>4. ~JoinsAt(units, i - 1) =>
         Part(units, i) = IF CodePoint(units, i) = 0 THEN <<>> ELSE <<CodePoint(units, i)>>
  <2>1. Part(units, i) = IF units[i] # 0 /\ ~JoinsAt(units, i - 1) THEN <<CodePoint(units, i)>>
                         ELSE <<>>
      BY <1>1, Zenon DEF Part, CodePoint
  <2> QED
      BY <1>3, <2>1
<1>5. Part(units, i) \in Seq(Scalars)
  <2>1. \A c \in Scalars : <<c>> \in Seq(Scalars)
      OBVIOUS
  <2>2. <<>> \in Seq(Scalars)
      OBVIOUS
  <2> QED
      BY <1>2, <1>3, <1>4, <2>1, <2>2, Zenon
<1> QED
    BY <1>1, <1>2, <1>4, <1>5

\* The text stands for these characters, and is empty only without them.
Writes(o, cs) == Clean(o) /\ Decoded(o).characters = cs /\ (o = <<>> <=> cs = <<>>)

\* One character more.
LEMMA WritesMore ==
    ASSUME NEW o \in Texts, NEW cs \in Seq(Scalars), Writes(o, cs), NEW cp \in Scalars
    PROVE  Writes(o \o append_utf8(cp), cs \o <<cp>>)
<1>1. Takes(o, append_utf8(cp), cp)
    BY AppendTakes DEF Writes
<1>2. cs \o <<cp>> = Append(cs, cp) /\ cs \o <<cp>> # <<>>
    OBVIOUS
<1> QED
    BY <1>1, <1>2, Zenon DEF Takes, Writes

\* One turn of the loop, with the characters of the first i code units in f[i].
LEMMA ConvertFollows ==
    ASSUME NEW units \in Seq(CodeUnits), NEW s \in ConvertStates(units),
           NEW f \in [0..Len(units) -> Seq(Scalars)],
           \A i \in 1..Len(units) : f[i] = f[i - 1] \o Part(units, i),
           ~JoinsAt(units, s.taken), Writes(s.out, f[s.taken]),
           NEW next, next = Convert(units, s)
    PROVE  /\ ~JoinsAt(units, next.taken) /\ Writes(next.out, f[next.taken])
           /\ next.taken > s.taken \/ next.taken = Len(units)
<1> DEFINE t == s.taken
           i == t + 1
           cp == CodePoint(units, i)
<1>1. Len(units) \in Nat /\ t \in 0..Len(units) /\ s.out \in Texts
    BY DEF ConvertStates
<1>2. CASE t = Len(units)
  <2>1. next = s
      BY <1>2, Zenon DEF Convert
  <2> QED
      BY <1>2, <2>1
<1>3. CASE t # Len(units)
  <2>1. i \in 1..Len(units) /\ i - 1 = t /\ i > t
      BY <1>1, <1>3
  <2>2. next = [taken |-> IF Paired(units, i) THEN i + 1 ELSE i,
                out |-> IF cp = 0 THEN s.out ELSE s.out \o append_utf8(cp)]
      BY <1>3, Zenon DEF Convert
  <2> HIDE DEF t, i
  <2>3. cp \in Scalars /\ JoinsAt(units, i) = Paired(units, i)
        /\ Part(units, i) = IF cp = 0 THEN <<>> ELSE <<cp>>
    <3>1. ~JoinsAt(units, i - 1)
        BY <2>1, Zenon DEF t
    <3> QED
        BY <2>1, <3>1, PartIs, CodePointScalar, Zenon
  <2> HIDE DEF cp
  <2>4. f[t] \in Seq(Scalars) /\ Writes(s.out, f[t]) /\ f[i] = f[t] \o Part(units, i)
        /\ f[i] \in Seq(Scalars)
    <3>1. i \in 0..Len(units)
        BY <2>1
    <3> QED
        BY <1>1, <2>1, <3>1, Zenon DEF t
  <2>5. Writes(IF cp = 0 THEN s.out ELSE s.out \o append_utf8(cp), f[i])
    <3>1. CASE cp = 0
      <4>1. f[t] \o <<>> = f[t]
          BY <2>4
      <4> QED
          BY <2>3, <2>4, <3>1, <4>1, Zenon
    <3>2. CASE cp # 0
      <4>1. Writes(s.out \o append_utf8(cp), f[t] \o <<cp>>)
          BY <1>1, <2>3, <2>4, WritesMore, Zenon
      <4> QED
          BY <2>3, <2>4, <3>2, <4>1, Zenon
    <3> QED
        BY <3>1, <3>2, Zenon
  <2>6. CASE ~Paired(units, i)
    <3>1. next.taken = i /\ Writes(next.out, f[i])
        BY <2>2, <2>5, <2>6
    <3> QED
        BY <2>1, <2>3, <2>6, <3>1 DEF t
  <2>7. CASE Paired(units, i)
    <3>1. i + 1 \in 1..Len(units) /\ (i + 1) - 1 = i /\ Low(units[i + 1]) /\ High(units[i])
          /\ i + 1 > t
        BY <1>1, <2>1, <2>7 DEF Paired
    <3>2. Part(units, i + 1) = <<>>
        BY <2>3, <2>7, <3>1, PartIs, Zenon
    <3>3. f[i + 1] = f[i]
      <4>1. f[i + 1] = f[i] \o <<>>
          BY <3>1, <3>2, Zenon
      <4> QED
          BY <2>4, <4>1
    <3>4. ~JoinsAt(units, i + 1)
      <4>1. units[i + 1] \in CodeUnits
          BY <3>1
      <4>2. ~High(units[i + 1])
          BY <3>1, <4>1, UnitsWithin, HighNotLow, Zenon
      <4> QED
          BY <4>2, Zenon DEF JoinsAt
    <3>5. next.taken = i + 1 /\ Writes(next.out, f[i])
        BY <2>2, <2>5, <2>7
    <3> QED
        BY <3>1, <3>3, <3>4, <3>5 DEF t
  <2> QED
      BY <2>6, <2>7, Zenon
<1> QED
    BY <1>2, <1>3, Zenon

\* utf16le_to_utf8 is right for every name: what it returns is well-formed, stands for
\* the characters of the code units, and is empty only where there are none.
THEOREM NameConverted ==
    ASSUME NEW units \in Seq(CodeUnits)
    PROVE  /\ IsUtf8Of(utf16le_to_utf8(units), Characters(units))
           /\ utf16le_to_utf8(units) = <<>> <=> Characters(units) = <<>>
<1> DEFINE N == Len(units)
           parts == [i \in 1..N |-> Part(units, i)]
<1>0. units \in Seq(CodeUnits) /\ N \in Nat
    OBVIOUS
<1>1. PICK after : ConvertsBy(after, units) /\ utf16le_to_utf8(units) = after[N].out
    BY <1>0, ConvertLoop, Zenon
<1>2. Len(parts) = N /\ \A i \in 1..N : parts[i] = Part(units, i) /\ Part(units, i) \in Seq(Scalars)
    BY <1>0, PartIs
<1>3. SeqsOver(parts, Scalars)
  <2>1. parts \in [1..N -> Seq(Scalars)]
      BY <1>2
  <2> HIDE DEF parts, N
  <2> QED
      BY <1>0, <2>1 DEF SeqsOver
<1>4. Characters(units) = FlattenSeq(parts)
    BY <1>0, CharactersAre, Zenon
<1> HIDE DEF parts
<1>5. PICK f : Joins(f, parts, N, Scalars)
    BY <1>2, <1>3, Join, Zenon
<1>6. Characters(units) = f[N]
    BY <1>2, <1>3, <1>4, <1>5, FlattenIsJoin
<1>7. /\ f \in [0..N -> Seq(Scalars)] /\ f[0] = <<>>
      /\ \A i \in 1..N : f[i] = f[i - 1] \o Part(units, i)
    BY <1>2, <1>5, Zenon DEF Joins
<1> DEFINE Right(n) == LET s == after[n] IN
                       /\ ~JoinsAt(units, s.taken) /\ Writes(s.out, f[s.taken])
                       /\ s.taken >= n \/ s.taken = N
           Good == {n \in 0..N : Right(n)}
<1>8. 0 \in Good
  <2>1. after[0] = [taken |-> 0, out |-> <<>>]
      BY <1>1 DEF ConvertsBy
  <2>2. ~JoinsAt(units, 0)
      BY <1>0 DEF JoinsAt
  <2>3. Writes(<<>>, <<>>)
      BY NoText DEF Writes, Texts
  <2> QED
      BY <1>0, <1>7, <2>1, <2>2, <2>3
<1>9. ASSUME NEW n \in 1..N, n - 1 \in Good PROVE n \in Good
  <2>1. n - 1 \in 0..N /\ n \in 0..N
      BY <1>0
  <2>2. after[n - 1] \in ConvertStates(units) /\ after[n] = Convert(units, after[n - 1])
        /\ after[n] \in ConvertStates(units)
      BY <1>1, <2>1 DEF ConvertsBy
  <2>3. Right(n - 1)
      BY <1>9
  <2>4. /\ ~JoinsAt(units, after[n].taken) /\ Writes(after[n].out, f[after[n].taken])
        /\ after[n].taken > after[n - 1].taken \/ after[n].taken = N
      BY <1>0, <1>7, <2>2, <2>3, ConvertFollows, Zenon
  <2>5. after[n].taken \in 0..N /\ after[n - 1].taken \in 0..N
      BY <2>2 DEF ConvertStates
  <2>6. after[n].taken >= n \/ after[n].taken = N
      BY <1>0, <2>3, <2>4, <2>5
  <2> QED
      BY <2>1, <2>4, <2>6, Zenon
<1>10. N \in Good
  <2>1. \A n \in 0..N : n \in Good
    <3> HIDE DEF Good, N
    <3> QED
        BY <1>0, <1>8, <1>9, Kept
  <2> HIDE DEF Good
  <2> QED
      BY <1>0, <2>1
<1>11. after[N].taken = N
  <2>1. after[N].taken \in 0..N
    <3>1. N \in 0..N
        BY <1>0
    <3> QED
        BY <1>1, <3>1 DEF ConvertsBy, ConvertStates
  <2>2. after[N].taken >= N \/ after[N].taken = N
      BY <1>10
  <2> QED
      BY <1>0, <2>1, <2>2
<1>12. Writes(after[N].out, f[N])
    BY <1>10, <1>11
<1> QED
    BY <1>1, <1>6, <1>12, Zenon DEF Writes, Clean, IsUtf8Of
=============================================================================
