--------------------------- MODULE CollectTreeMC ---------------------------
(***************************************************************************)
(* Instances of CollectTree for TLC: every index of up to three rows about  *)
(* a root 1, a directory 2 and a record 3 that was a file in one scan and a *)
(* directory in another.  Names 1 and 2 differ in case only; a DOS name is  *)
(* name 3.                                                                 *)
(***************************************************************************)
EXTENDS CollectTree

ThreeRecords == 1..3
ThreeNames == 1..3
CaseKeys == <<1, 1, 3>>

IndexRows ==
    {r \in Rows :
        /\ r.record < 3 => r.dir
        /\ r.dos => r.name = 3
        /\ r.parent = 3 => r.record # 3 /\ r.name = 1}

\* The order of rows matters to better_name only, among those of one entry.
Entry(r) == 4 * r.record + r.name

ThreeRows ==
    {rows \in UNION {[1..n -> IndexRows] : n \in 1..3} :
        \A i, j \in DOMAIN rows : i < j => Entry(rows[i]) <= Entry(rows[j])}
OneRow == [1..1 -> IndexRows]
=============================================================================
