--------------------------- MODULE DataInduction ---------------------------
(***************************************************************************)
(* What the proofs about recursive functions rest on.  The library's       *)
(* induction theorems take an operator; these take a set, and follow from  *)
(* the fact that < is well-founded.  A loop is a function of its turns:    *)
(* Iterate says that there is one, Kept that it keeps what a turn keeps.   *)
(* FlattenSeq is such a loop.                                              *)
(***************************************************************************)
EXTENDS Integers, Sequences, SequencesExt, FiniteSetTheorems, WellFoundedInduction, TLAPS

\* A set of naturals that is not empty has a least element.
LEMMA Least ==
    ASSUME NEW T, T \subseteq Nat, T # {}
    PROVE  \E x \in T : \A y \in T : x <= y
<1> DEFINE R == OpToRel(<, Nat)
<1>1. ASSUME NEW x \in Nat, NEW y \in Nat, y < x PROVE <<y, x>> \in R
    BY <1>1 DEF OpToRel
<1>2. IsWellFoundedOn(R, Nat)
    BY NatLessThanWellFounded
<1> HIDE DEF R
<1>3. PICK x \in T : \A y \in T : ~(<<y, x>> \in R)
    BY <1>2, WFMin
<1>4. ASSUME NEW y \in T, y < x PROVE FALSE
    BY <1>1, <1>3, <1>4, Zenon
<1> QED
    BY <1>4

\* Induction, for a set of numbers.
LEMMA Induct ==
    ASSUME NEW T, 0 \in T, \A n \in Nat : n \in T => n + 1 \in T
    PROVE  Nat \subseteq T
<1> SUFFICES ASSUME Nat \ T # {} PROVE FALSE
    OBVIOUS
<1>1. PICK x \in Nat \ T : \A y \in Nat \ T : x <= y
    BY Least
<1>2. x - 1 \in Nat /\ x - 1 \in T
    BY <1>1
<1> QED
    BY <1>1, <1>2

\* A turn of a loop over 1..N that keeps its state in V, and what the loop computes.
IsTurn(turn, V, N) == turn \in [V \X (1..N) -> V]

Loops(f, V, N, first, turn) ==
    /\ f \in [0..N -> V]
    /\ f = [i \in 0..N |-> IF i = 0 THEN first ELSE turn[<<f[i - 1], i>>]]

\* A loop computes something, whatever its turns are.
LEMMA Iterate ==
    ASSUME NEW V, NEW N, NEW first, NEW turn, N \in Nat, first \in V, IsTurn(turn, V, N)
    PROVE  \E f : Loops(f, V, N, first, turn)
<1> USE DEF IsTurn
<1> DEFINE Computes(f, n) == /\ f \in [0..n -> V] /\ f[0] = first
                             /\ \A i \in 1..n : f[i] = turn[<<f[i - 1], i>>]
           T == {n \in Nat : n <= N => \E f : Computes(f, n)}
<1>1. 0 \in T
  <2>1. Computes([i \in 0..0 |-> first], 0)
      OBVIOUS
  <2> QED
      BY <2>1
<1>2. ASSUME NEW n \in Nat, n \in T PROVE n + 1 \in T
  <2> SUFFICES ASSUME n + 1 <= N PROVE \E f : Computes(f, n + 1)
      OBVIOUS
  <2>1. PICK f : Computes(f, n)
      BY <1>2
  <2> DEFINE g == [i \in 0..(n + 1) |-> IF i = n + 1 THEN turn[<<f[n], n + 1>>] ELSE f[i]]
  <2>2. f[n] \in V /\ turn[<<f[n], n + 1>>] \in V
      BY <2>1
  <2>3. g \in [0..(n + 1) -> V] /\ g[0] = first
      BY <2>1, <2>2
  <2>4. ASSUME NEW i \in 1..(n + 1) PROVE g[i] = turn[<<g[i - 1], i>>]
    <3>1. CASE i = n + 1
      <4>1. i - 1 = n /\ g[i - 1] = f[n] /\ g[i] = turn[<<f[n], n + 1>>]
          BY <3>1
      <4> QED
          BY <3>1, <4>1
    <3>2. CASE i # n + 1
      <4>1. i \in 1..n /\ g[i] = f[i] /\ g[i - 1] = f[i - 1]
          BY <3>2
      <4> QED
          BY <2>1, <4>1
    <3> QED
        BY <3>1, <3>2
  <2> HIDE DEF g
  <2> QED
      BY <2>3, <2>4
<1>3. N \in T
  <2> HIDE DEF T
  <2> QED
      BY <1>1, <1>2, Induct
<1>4. PICK f : Computes(f, N)
    BY <1>3
<1>5. f = [i \in 0..N |-> f[i]]
    BY <1>4
<1>6. \A i \in 0..N : f[i] = IF i = 0 THEN first ELSE turn[<<f[i - 1], i>>]
    BY <1>4
<1>7. f = [i \in 0..N |-> IF i = 0 THEN first ELSE turn[<<f[i - 1], i>>]]
    BY <1>5, <1>6
<1> QED
    BY <1>4, <1>7 DEF Loops

\* What holds of a loop before it and is kept by each turn.
LEMMA Kept ==
    ASSUME NEW N, NEW Good, N \in Nat, 0 \in Good,
           \A i \in 1..N : i - 1 \in Good => i \in Good
    PROVE  \A i \in 0..N : i \in Good
<1> DEFINE T == {n \in Nat : n <= N => n \in Good}
<1>1. 0 \in T
    OBVIOUS
<1>2. ASSUME NEW n \in Nat, n \in T PROVE n + 1 \in T
  <2>1. CASE n + 1 <= N
    <3>1. n + 1 \in 1..N /\ (n + 1) - 1 = n
        BY <2>1
    <3> QED
        BY <1>2, <3>1
  <2> QED
      BY <2>1
<1>3. Nat \subseteq T
  <2> HIDE DEF T
  <2> QED
      BY <1>1, <1>2, Induct
<1> QED
    BY <1>3

-----------------------------------------------------------------------------
(* Sequences that are put together of others.                              *)

SeqsOver(seqs, V) == seqs \in Seq(Seq(V))

\* Lengths that add up: at[i] is the sum of the first i.
Sums(at, len, N) ==
    /\ N \in Nat /\ at \in [0..N -> Nat] /\ len \in [1..N -> Nat] /\ at[0] = 0
    /\ \A i \in 1..N : at[i] = at[i - 1] + len[i]

\* Sums never fall.
LEMMA SumsRise ==
    ASSUME NEW at, NEW len, NEW N, Sums(at, len, N), NEW i \in 0..N, NEW j \in i..N
    PROVE  at[i] <= at[j]
<1> DEFINE M == j - i
           Good == {m \in 0..M : at[i] <= at[i + m]}
<1>1. N \in Nat /\ i \in Nat /\ j \in Nat /\ M \in Nat /\ i + M = j /\ i + 0 = i
      /\ \A m \in 1..M : i + m \in 1..N /\ (i + m) - 1 = i + (m - 1) /\ i + (m - 1) \in 0..N
    BY DEF Sums
<1>2. \A k \in 0..N : at[k] \in Nat
    BY DEF Sums
<1>3. \A k \in 1..N : at[k - 1] <= at[k]
  <2> SUFFICES ASSUME NEW k \in 1..N PROVE at[k - 1] <= at[k]
      OBVIOUS
  <2>1. at[k] = at[k - 1] + len[k] /\ len[k] \in Nat
      BY DEF Sums
  <2>2. k - 1 \in 0..N
      BY <1>1
  <2> QED
      BY <1>2, <2>1, <2>2
<1> HIDE DEF M
<1>4. 0 \in Good
    BY <1>1, <1>2
<1>5. ASSUME NEW m \in 1..M, m - 1 \in Good PROVE m \in Good
  <2>1. at[i] <= at[i + (m - 1)] /\ i + m \in 1..N /\ (i + m) - 1 = i + (m - 1)
        /\ i + (m - 1) \in 0..N
      BY <1>1, <1>5
  <2>2. at[(i + m) - 1] <= at[i + m]
      BY <1>3, <2>1
  <2>3. at[i] \in Nat /\ at[i + m] \in Nat /\ at[i + (m - 1)] \in Nat
    <3>1. i + m \in 0..N
        BY <1>1, <2>1
    <3> QED
        BY <1>2, <2>1, <3>1
  <2>4. at[i] <= at[i + m]
      BY <2>1, <2>2, <2>3
  <2> QED
      BY <1>1, <2>4
<1>6. \A m \in 0..M : m \in Good
  <2> HIDE DEF Good
  <2> QED
      BY <1>1, <1>4, <1>5, Kept
<1>7. M \in Good
    BY <1>1, <1>6
<1> QED
    BY <1>1, <1>7

\* Every place before the last sum is in one of the lengths.
LEMMA SumsWithin ==
    ASSUME NEW at, NEW len, NEW N, Sums(at, len, N), NEW n \in 1..at[N]
    PROVE  \E i \in 1..N : n - at[i - 1] \in 1..len[i]
<1> DEFINE T == {i \in 0..N : n <= at[i]}
<1>1. N \in Nat /\ at[0] = 0 /\ \A k \in 0..N : at[k] \in Nat
    BY DEF Sums
<1>2. N \in T /\ T \subseteq Nat /\ 0 \notin T
    BY <1>1
<1>3. PICK i \in T : \A j \in T : i <= j
  <2> HIDE DEF T
  <2> QED
      BY <1>2, Least
<1>4. i \in 1..N /\ i - 1 \in 0..N /\ i - 1 \notin T
    BY <1>1, <1>2, <1>3
<1>5. at[i - 1] \in Nat /\ at[i - 1] < n /\ n <= at[i]
    BY <1>1, <1>3, <1>4
<1>6. at[i] = at[i - 1] + len[i] /\ len[i] \in Nat
    BY <1>4 DEF Sums
<1>7. n - at[i - 1] \in 1..len[i]
    BY <1>5, <1>6
<1> QED
    BY <1>4, <1>7

\* f[i] is the first i of seqs, one behind the other.
Joins(f, seqs, N, V) ==
    /\ N \in Nat /\ N = Len(seqs) /\ f \in [0..N -> Seq(V)] /\ f[0] = <<>>
    /\ \A i \in 1..N : /\ seqs[i] \in Seq(V) /\ f[i] \in Seq(V) /\ f[i - 1] \in Seq(V)
                       /\ f[i] = f[i - 1] \o seqs[i]

\* What it means to be a sequence of sequences.
LEMMA Members ==
    ASSUME NEW V, NEW seqs, SeqsOver(seqs, V)
    PROVE  /\ Len(seqs) \in Nat /\ (Len(seqs) = 0 => seqs = <<>>)
           /\ \A i \in 1..Len(seqs) : seqs[i] \in Seq(V)
  BY DEF SeqsOver

\* Sequences can be put one behind the other.
LEMMA Join ==
    ASSUME NEW V, NEW seqs, SeqsOver(seqs, V)
    PROVE  \E f : Joins(f, seqs, Len(seqs), V)
<1> DEFINE N == Len(seqs)
           turn == [x \in Seq(V) \X (1..N) |-> x[1] \o seqs[x[2]]]
<1>1. N \in Nat /\ \A i \in 1..N : seqs[i] \in Seq(V)
    BY Members
<1> HIDE DEF N
<1>2. IsTurn(turn, Seq(V), N) /\ <<>> \in Seq(V)
    BY <1>1 DEF IsTurn
<1>3. PICK f : Loops(f, Seq(V), N, <<>>, turn)
  <2> HIDE DEF turn
  <2> QED
      BY <1>1, <1>2, Iterate
<1>4. f \in [0..N -> Seq(V)] /\ f[0] = <<>> /\ \A i \in 1..N : f[i] = turn[<<f[i - 1], i>>]
  <2> HIDE DEF turn
  <2> QED
      BY <1>1, <1>3 DEF Loops
<1>5. ASSUME NEW i \in 1..N
      PROVE  /\ f[i] \in Seq(V) /\ f[i - 1] \in Seq(V) /\ f[i] = f[i - 1] \o seqs[i]
  <2>1. f[i] \in Seq(V) /\ f[i - 1] \in Seq(V) /\ f[i] = turn[<<f[i - 1], i>>]
    <3> HIDE DEF turn
    <3> QED
      BY <1>1, <1>4
  <2> QED
      BY <2>1
<1> HIDE DEF turn
<1> QED
    BY <1>1, <1>4, <1>5 DEF Joins, N

\* FlattenSeq does that.
LEMMA FlattenIsJoin ==
    ASSUME NEW V, NEW seqs, SeqsOver(seqs, V), NEW f, Joins(f, seqs, Len(seqs), V)
    PROVE  FlattenSeq(seqs) = f[Len(seqs)]
<1> DEFINE N == Len(seqs)
           flatten[i \in 1..N] == IF i = 1 THEN seqs[i] ELSE flatten[i - 1] \o seqs[i]
<1>1. /\ N \in Nat /\ N = Len(seqs) /\ f \in [0..N -> Seq(V)] /\ f[0] = <<>>
      /\ \A i \in 1..N : /\ seqs[i] \in Seq(V) /\ f[i] \in Seq(V) /\ f[i - 1] \in Seq(V)
                         /\ f[i] = f[i - 1] \o seqs[i]
    BY DEF Joins
<1>2. N = 0 => seqs = <<>>
    BY Members
<1>3. FlattenSeq(seqs) = IF N = 0 THEN seqs ELSE flatten[N]
    BY DEF FlattenSeq
<1> HIDE DEF N
<1>4. CASE N = 0
    BY <1>1, <1>2, <1>3, <1>4
<1>5. CASE N # 0
  <2>0. 1 \in 1..N => f[1] = seqs[1]
    <3> SUFFICES ASSUME 1 \in 1..N PROVE f[1] = seqs[1]
        OBVIOUS
    <3>1. f[1] = f[1 - 1] \o seqs[1] /\ seqs[1] \in Seq(V)
        BY <1>1
    <3>2. f[1 - 1] = <<>>
        BY <1>1
    <3> QED
        BY <3>1, <3>2
  <2> DEFINE g == [i \in 1..N |-> f[i]]
  <2>1. g = [i \in 1..N |-> IF i = 1 THEN seqs[i] ELSE g[i - 1] \o seqs[i]]
    <3>1. ASSUME NEW i \in 1..N PROVE f[i] = IF i = 1 THEN seqs[i] ELSE g[i - 1] \o seqs[i]
      <4>1. CASE i = 1
          BY <2>0, <4>1
      <4>2. CASE i # 1
        <5>1. i - 1 \in 1..N
            BY <1>1, <4>2
        <5>2. g[i - 1] = f[i - 1]
            BY <5>1
        <5>3. f[i] = f[i - 1] \o seqs[i]
            BY <1>1
        <5> HIDE DEF g
        <5> QED
            BY <4>2, <5>2, <5>3
      <4> QED
          BY <4>1, <4>2
    <3> QED
        BY <3>1
  <2>2. flatten = [i \in 1..N |-> IF i = 1 THEN seqs[i] ELSE flatten[i - 1] \o seqs[i]]
    <3> HIDE DEF g
    <3> QED
      BY <2>1
  <2> HIDE DEF flatten
  <2> DEFINE Good == {i \in 0..N : i = 0 \/ flatten[i] = f[i]}
  <2>3. 0 \in Good
      BY <1>1
  <2>4. ASSUME NEW i \in 1..N, i - 1 \in Good PROVE i \in Good
    <3>1. flatten[i] = IF i = 1 THEN seqs[i] ELSE flatten[i - 1] \o seqs[i]
        BY <2>2
    <3>2. f[i] = f[i - 1] \o seqs[i]
        BY <1>1
    <3>3. CASE i = 1
        BY <1>1, <2>0, <3>1, <3>3
    <3>4. CASE i # 1
      <4>1. flatten[i - 1] = f[i - 1]
        <5>1. i - 1 # 0
            BY <3>4
        <5> QED
            BY <2>4, <5>1
      <4>2. flatten[i] = f[i]
          BY <3>1, <3>2, <3>4, <4>1
      <4> QED
          BY <1>1, <4>2
    <3> QED
        BY <3>3, <3>4
  <2>5. \A i \in 0..N : i \in Good
    <3> HIDE DEF Good
    <3> QED
        BY <1>1, <2>3, <2>4, Kept
  <2>6. N \in Good
      BY <1>1, <2>5
  <2> QED
      BY <1>3, <1>5, <2>6 DEF N, flatten
<1> QED
    BY <1>4, <1>5 DEF N

\* Where each of seqs begins and ends in the whole.
Flat(at, seqs, whole) ==
    /\ Sums(at, [i \in 1..Len(seqs) |-> Len(seqs[i])], Len(seqs))
    /\ at[Len(seqs)] = Len(whole)
    /\ \A i \in 1..Len(seqs) : \A k \in 1..Len(seqs[i]) : whole[at[i - 1] + k] = seqs[i][k]

\* Each of seqs is in what FlattenSeq makes of them, at its place.
LEMMA Flattened ==
    ASSUME NEW V, NEW seqs, SeqsOver(seqs, V)
    PROVE  /\ FlattenSeq(seqs) \in Seq(V)
           /\ \E at : Flat(at, seqs, FlattenSeq(seqs))
<1> DEFINE N == Len(seqs)
           len == [i \in 1..N |-> Len(seqs[i])]
<1>1. PICK f : Joins(f, seqs, N, V)
    BY Join
<1>2. FlattenSeq(seqs) = f[N]
    BY <1>1, FlattenIsJoin
<1>3. /\ N \in Nat /\ f \in [0..N -> Seq(V)] /\ f[0] = <<>>
      /\ \A i \in 1..N : /\ seqs[i] \in Seq(V) /\ f[i] \in Seq(V) /\ f[i - 1] \in Seq(V)
                         /\ f[i] = f[i - 1] \o seqs[i]
    BY <1>1 DEF Joins
<1> HIDE DEF N
<1> DEFINE at == [i \in 0..N |-> Len(f[i])]
           Keeps(i) == \A r \in 1..i : \A k \in 1..len[r] : f[i][at[r - 1] + k] = seqs[r][k]
           Good == {i \in 0..N : Keeps(i)}
<1>4. ASSUME NEW i \in 1..N
      PROVE  /\ Len(f[i]) = Len(f[i - 1]) + Len(seqs[i])
             /\ Len(seqs[i]) \in Nat
             /\ \A k \in 1..Len(f[i - 1]) : f[i][k] = f[i - 1][k]
             /\ \A k \in 1..Len(seqs[i]) : f[i][Len(f[i - 1]) + k] = seqs[i][k]
  <2>1. f[i - 1] \in Seq(V) /\ f[i] \in Seq(V) /\ seqs[i] \in Seq(V) /\ f[i] = f[i - 1] \o seqs[i]
      BY <1>3
  <2> DEFINE s == f[i - 1]
             t == seqs[i]
  <2> HIDE DEF s, t
  <2>2. s \in Seq(V) /\ t \in Seq(V) /\ f[i] = s \o t
      BY <2>1 DEF s, t
  <2>3. /\ Len(s \o t) = Len(s) + Len(t) /\ Len(t) \in Nat
        /\ \A k \in 1..Len(s) : (s \o t)[k] = s[k]
        /\ \A k \in 1..Len(t) : (s \o t)[Len(s) + k] = t[k]
      BY <2>2
  <2> QED
      BY <2>2, <2>3 DEF s, t
<1>5. /\ \A i \in 0..N : at[i] = Len(f[i]) /\ at[i] \in Nat
      /\ \A i \in 1..N : at[i - 1] = Len(f[i - 1]) /\ len[i] = Len(seqs[i])
  <2>1. \A i \in 0..N : f[i] \in Seq(V)
      BY <1>3
  <2>2. \A i \in 1..N : i - 1 \in 0..N
      BY <1>3
  <2> QED
      BY <2>1, <2>2
<1>6. /\ at \in [0..N -> Nat] /\ len \in [1..N -> Nat] /\ at[0] = 0
      /\ \A i \in 1..N : at[i] = at[i - 1] + len[i]
  <2>1. at[0] = 0
      BY <1>3, <1>5
  <2>2. \A i \in 0..N : Len(f[i]) \in Nat
      BY <1>5
  <2>3. at \in [0..N -> Nat] /\ len \in [1..N -> Nat]
      BY <1>4, <2>2
  <2>4. \A i \in 1..N : i \in 0..N
      OBVIOUS
  <2> HIDE DEF at, len
  <2> QED
      BY <1>4, <1>5, <2>1, <2>3, <2>4
<1> HIDE DEF at, len
<1>7. Sums(at, len, N)
    BY <1>3, <1>6 DEF Sums
<1>8. 0 \in Good
    BY <1>3
<1>9. ASSUME NEW i \in 1..N, i - 1 \in Good PROVE i \in Good
  <2>1. Keeps(i - 1) /\ i \in 0..N
      BY <1>9
  <2>2. ASSUME NEW r \in 1..i, NEW k \in 1..len[r] PROVE f[i][at[r - 1] + k] = seqs[r][k]
    <3>1. CASE r = i
      <4>1. at[i - 1] = Len(f[i - 1]) /\ len[i] = Len(seqs[i])
          BY <1>5
      <4>2. k \in 1..Len(seqs[i])
          BY <3>1, <4>1
      <4>3. f[i][Len(f[i - 1]) + k] = seqs[i][k]
          BY <1>4, <4>2
      <4> QED
          BY <3>1, <4>1, <4>3
    <3>2. CASE r # i
      <4>0. i \in Nat
          BY <1>3
      <4>1. r \in 1..(i - 1) /\ r \in 1..N /\ r \in 0..N /\ i - 1 \in r..N
          BY <1>3, <3>2, <4>0
      <4>2. f[i - 1][at[r - 1] + k] = seqs[r][k]
          BY <2>1, <4>1
      <4>3. at[r] <= at[i - 1]
          BY <1>7, <4>1, SumsRise
      <4>4. at[r] = at[r - 1] + len[r] /\ at[r - 1] \in Nat /\ len[r] \in Nat /\ at[i - 1] \in Nat
        <5>1. i - 1 \in 0..N /\ r - 1 \in 0..N
            BY <1>3, <4>1
        <5> QED
            BY <1>6, <4>1, <5>1
      <4>5. at[r - 1] + k \in 1..at[i - 1]
          BY <4>3, <4>4
      <4>6. f[i][at[r - 1] + k] = f[i - 1][at[r - 1] + k]
          BY <1>4, <1>5, <4>5
      <4> QED
          BY <4>2, <4>6
    <3> QED
        BY <3>1, <3>2
  <2> QED
      BY <2>1, <2>2
<1>10. \A i \in 0..N : i \in Good
  <2> HIDE DEF Good
  <2> QED
      BY <1>3, <1>8, <1>9, Kept
<1>11. Keeps(N)
  <2>1. N \in Good
    <3> HIDE DEF Good
    <3> QED
        BY <1>3, <1>10
  <2> QED
      BY <2>1
<1>12. at[N] = Len(f[N]) /\ f[N] \in Seq(V)
    BY <1>3, <1>5
<1>13. \A i \in 1..N : \A k \in 1..Len(seqs[i]) : f[N][at[i - 1] + k] = seqs[i][k]
    BY <1>5, <1>11
<1>14. Flat(at, seqs, FlattenSeq(seqs))
    BY <1>2, <1>7, <1>12, <1>13 DEF Flat, len, N
<1> QED
    BY <1>2, <1>12, <1>14

\* Every place of the whole is in one of seqs.
LEMMA FlatFrom ==
    ASSUME NEW seqs, NEW whole, NEW at, Flat(at, seqs, whole), NEW n \in 1..Len(whole)
    PROVE  \E i \in 1..Len(seqs) : \E k \in 1..Len(seqs[i]) :
              n = at[i - 1] + k /\ whole[n] = seqs[i][k]
<1> DEFINE N == Len(seqs)
           len == [i \in 1..N |-> Len(seqs[i])]
<1>1. /\ Sums(at, len, N) /\ at[N] = Len(whole)
      /\ \A i \in 1..N : \A k \in 1..Len(seqs[i]) : whole[at[i - 1] + k] = seqs[i][k]
    BY Zenon DEF Flat
<1>2. \A i \in 1..N : len[i] = Len(seqs[i])
    OBVIOUS
<1> HIDE DEF N, len
<1>3. n \in 1..at[N]
    BY <1>1
<1>4. PICK i \in 1..N : n - at[i - 1] \in 1..len[i]
    BY <1>1, <1>3, SumsWithin
<1> DEFINE k == n - at[i - 1]
<1>5. at[i - 1] \in Nat /\ n \in Int
    BY <1>1, <1>3 DEF Sums
<1>6. k \in 1..Len(seqs[i]) /\ n = at[i - 1] + k
    BY <1>2, <1>4, <1>5
<1>7. whole[n] = seqs[i][k]
  <2> HIDE DEF k
  <2> QED
      BY <1>1, <1>6
<1> QED
    BY <1>6, <1>7 DEF N

\* Of contributions the first that is not empty comes first.
LEMMA FlatFirst ==
    ASSUME NEW V, NEW seqs, SeqsOver(seqs, V)
    PROVE  /\ FlattenSeq(seqs) = <<>> <=> \A i \in 1..Len(seqs) : seqs[i] = <<>>
           /\ FlattenSeq(seqs) # <<>> =>
                 \E i \in 1..Len(seqs) : /\ seqs[i] # <<>> /\ FlattenSeq(seqs)[1] = seqs[i][1]
                                         /\ \A j \in 1..(i - 1) : seqs[j] = <<>>
<1> DEFINE whole == FlattenSeq(seqs)
           N == Len(seqs)
           len == [i \in 1..N |-> Len(seqs[i])]
<1>1. whole \in Seq(V)
    BY Flattened
<1>2. PICK at : Flat(at, seqs, whole)
    BY Flattened
<1>3. Sums(at, len, N) /\ at[N] = Len(whole)
    BY <1>2, Zenon DEF Flat
<1>4. /\ N \in Nat /\ \A i \in 1..N : seqs[i] \in Seq(V)
    BY Members
<1>5. \A i \in 1..N : len[i] = Len(seqs[i])
    OBVIOUS
<1> HIDE DEF whole, N, len
<1>6. /\ at \in [0..N -> Nat] /\ at[0] = 0 /\ len \in [1..N -> Nat]
      /\ \A i \in 1..N : at[i] = at[i - 1] + len[i]
    BY <1>3 DEF Sums
<1>7. \A i \in 1..N : seqs[i] = <<>> <=> len[i] = 0
    BY <1>4, <1>5
<1>8. Len(whole) \in Nat /\ (whole = <<>> <=> Len(whole) = 0)
    BY <1>1
<1>9. ASSUME NEW i \in 1..N PROVE at[i - 1] \in Nat /\ len[i] \in Nat /\ at[i - 1] + len[i] <= at[N]
  <2>1. i \in 0..N /\ N \in i..N /\ i - 1 \in 0..N
      BY <1>4
  <2>2. at[i] <= at[N]
      BY <1>3, <2>1, SumsRise
  <2> QED
      BY <1>6, <2>1, <2>2
<1>10. ASSUME NEW i \in 1..N, seqs[i] # <<>> PROVE whole # <<>>
  <2>1. len[i] # 0
      BY <1>7, <1>10
  <2> QED
      BY <1>3, <1>8, <1>9, <2>1
<1>11. ASSUME whole # <<>>
      PROVE  \E i \in 1..N : /\ seqs[i] # <<>> /\ whole[1] = seqs[i][1]
                             /\ \A j \in 1..(i - 1) : seqs[j] = <<>>
  <2>1. 1 \in 1..Len(whole)
      BY <1>8, <1>11
  <2>2. PICK i \in 1..N : \E k \in 1..Len(seqs[i]) :
           1 = at[i - 1] + k /\ whole[1] = seqs[i][k]
      BY <1>2, <2>1, FlatFrom DEF N
  <2>3. PICK k \in 1..Len(seqs[i]) : 1 = at[i - 1] + k /\ whole[1] = seqs[i][k]
      BY <2>2
  <2>4. at[i - 1] \in Nat /\ len[i] \in Nat /\ k \in 1..len[i]
      BY <1>5, <1>9
  <2>5. k = 1 /\ at[i - 1] = 0 /\ len[i] # 0
      BY <2>3, <2>4
  <2>6. ASSUME NEW j \in 1..(i - 1) PROVE seqs[j] = <<>>
    <3>1. j \in 0..N /\ j \in 1..N /\ i - 1 \in j..N
        BY <1>4
    <3>2. at[j] <= at[i - 1]
        BY <1>3, <3>1, SumsRise
    <3>3. at[j] = at[j - 1] + len[j] /\ at[j - 1] \in Nat /\ len[j] \in Nat
        BY <1>6, <1>9, <3>1
    <3>4. len[j] = 0
        BY <2>5, <3>2, <3>3
    <3> QED
        BY <1>7, <3>1, <3>4
  <2> QED
      BY <1>7, <2>3, <2>5, <2>6
<1> QED
    BY <1>10, <1>11 DEF whole, N

\* Two wholes whose parts are as long as each other, the last of the second's empty, are
\* as long as each other, and what is related in the parts is related in the wholes.
LEMMA Alongside ==
    ASSUME NEW V, NEW W, NEW s, NEW t, SeqsOver(s, V), SeqsOver(t, W),
           NEW M, NEW N, M = Len(s), N = Len(t), M <= N, NEW R,
           \A i \in 1..M : Len(s[i]) = Len(t[i]),
           \A i \in 1..M : \A k \in 1..Len(s[i]) : <<s[i][k], t[i][k]>> \in R,
           \A i \in (M + 1)..N : Len(t[i]) = 0
    PROVE  /\ Len(FlattenSeq(s)) = Len(FlattenSeq(t))
           /\ \A n \in 1..Len(FlattenSeq(s)) : <<FlattenSeq(s)[n], FlattenSeq(t)[n]>> \in R
<1> DEFINE S == FlattenSeq(s)
           T == FlattenSeq(t)
<1>1. PICK at : Flat(at, s, S)
    BY Flattened
<1>2. PICK bt : Flat(bt, t, T)
    BY Flattened
<1> HIDE DEF S, T
<1>2a. ASSUME NEW n \in 1..Len(S)
      PROVE  \E i \in 1..Len(s) : \E k \in 1..Len(s[i]) : n = at[i - 1] + k /\ S[n] = s[i][k]
  <2> DEFINE parts == s
  <2>1. Flat(at, parts, S)
      BY <1>1
  <2> HIDE DEF parts
  <2>2. \E i \in 1..Len(parts) : \E k \in 1..Len(parts[i]) :
            n = at[i - 1] + k /\ S[n] = parts[i][k]
      BY <2>1, FlatFrom
  <2> QED
      BY <2>2 DEF parts
<1>3. /\ M \in Nat /\ at \in [0..M -> Nat] /\ at[0] = 0 /\ at[M] = Len(S)
      /\ \A i \in 1..M : at[i] = at[i - 1] + Len(s[i])
    BY <1>1 DEF Flat, Sums
<1>4. /\ N \in Nat /\ bt \in [0..N -> Nat] /\ bt[0] = 0 /\ bt[N] = Len(T)
      /\ \A i \in 1..N : bt[i] = bt[i - 1] + Len(t[i])
    BY <1>2 DEF Flat, Sums
<1> DEFINE Good == {i \in 0..M : at[i] = bt[i]}
<1>5. 0 \in Good
    BY <1>3, <1>4
<1>6. ASSUME NEW i \in 1..M, i - 1 \in Good PROVE i \in Good
  <2>1. at[i - 1] = bt[i - 1] /\ i \in 1..N /\ i \in 0..M
      BY <1>3, <1>4, <1>6
  <2>2. at[i] = at[i - 1] + Len(s[i]) /\ bt[i] = bt[i - 1] + Len(t[i])
      BY <1>3, <1>4, <2>1
  <2> QED
      BY <2>1, <2>2
<1>7. \A i \in 0..M : i \in Good
  <2> HIDE DEF Good
  <2> QED
      BY <1>3, <1>5, <1>6, Kept
<1>8. at[M] = bt[M]
    BY <1>3, <1>7
<1> DEFINE K == N - M
           Still == {j \in 0..K : bt[M + j] = bt[M]}
<1>9. K \in Nat /\ M + K = N /\ M + 0 = M
    BY <1>3, <1>4
<1> HIDE DEF K
<1>10. 0 \in Still
    BY <1>9
<1>11. ASSUME NEW j \in 1..K, j - 1 \in Still PROVE j \in Still
  <2>1. /\ bt[M + (j - 1)] = bt[M] /\ M + j \in (M + 1)..N /\ M + j \in 1..N
        /\ (M + j) - 1 = M + (j - 1) /\ M + (j - 1) \in 0..N /\ j \in 0..K
      BY <1>3, <1>4, <1>9, <1>11
  <2>2. bt[M + j] = bt[(M + j) - 1] + Len(t[M + j]) /\ Len(t[M + j]) = 0
      BY <1>4, <2>1
  <2>3. bt[M + (j - 1)] \in Nat
      BY <1>4, <2>1
  <2>4. bt[M + j] = bt[M]
      BY <2>1, <2>2, <2>3
  <2> QED
      BY <2>1, <2>4
<1>12. \A j \in 0..K : j \in Still
  <2> HIDE DEF Still
  <2> QED
      BY <1>9, <1>10, <1>11, Kept
<1>13. bt[N] = bt[M]
  <2>1. K \in Still
      BY <1>9, <1>12
  <2> QED
      BY <1>9, <2>1
<1>14. Len(S) = Len(T)
    BY <1>3, <1>4, <1>8, <1>13
<1>15. ASSUME NEW n \in 1..Len(S) PROVE <<S[n], T[n]>> \in R
  <2>1. PICK i \in 1..Len(s) : \E k \in 1..Len(s[i]) : n = at[i - 1] + k /\ S[n] = s[i][k]
      BY <1>2a
  <2>2. PICK k \in 1..Len(s[i]) : n = at[i - 1] + k /\ S[n] = s[i][k]
      BY <2>1
  <2>3. i \in 1..M /\ i \in 1..N /\ i - 1 \in 0..M
      BY <1>3, <1>4
  <2>4. at[i - 1] = bt[i - 1] /\ k \in 1..Len(t[i])
      BY <1>7, <2>3
  <2>5. T[bt[i - 1] + k] = t[i][k]
      BY <1>2, <2>3, <2>4 DEF Flat
  <2>6. <<s[i][k], t[i][k]>> \in R
      BY <2>3
  <2> QED
      BY <2>2, <2>4, <2>5, <2>6
<1> QED
    BY <1>14, <1>15 DEF S, T
============================================================================
