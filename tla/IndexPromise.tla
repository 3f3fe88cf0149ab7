---------------------------- MODULE IndexPromise ----------------------------
(***************************************************************************)
(* What the index promises to its readers, whatever scans run, fail or are  *)
(* killed: it only grows, by one scan at a time, and by what that scan read *)
(* from the start of the device up to the place where it stopped.  A scan  *)
(* that is reported done has given all that the device holds.              *)
(***************************************************************************)
EXTENDS Naturals

CONSTANTS
    Scans,      \* the scans
    Names,      \* the names records have
    Size        \* how many places for a record the device has

VARIABLES
    device,     \* device[k]: the names of the record at place k
    index,      \* the rows a reader finds, each <<scan, place, name>>
    given,      \* the scans that gave their rows
    complete,   \* those of them that gave all
    done        \* the scans reported done

vars == <<device, index, given, complete, done>>

\* What scan s finds in the first n places.
Batch(s, n) == {row \in {s} \X (1..n) \X Names : row[3] \in device[row[2]]}

Init ==
    /\ device \in [1..Size -> SUBSET Names]
    /\ index = {} /\ given = {} /\ complete = {} /\ done = {}

Give(s, n) ==
    /\ s \notin given /\ given' = given \cup {s}
    /\ index' = index \cup Batch(s, n)
    /\ complete' = IF n = Size THEN complete \cup {s} ELSE complete
    /\ UNCHANGED <<device, done>>

Report(s) ==
    /\ s \in complete
    /\ done' = done \cup {s}
    /\ UNCHANGED <<device, index, given, complete>>

Next == \E s \in Scans : Report(s) \/ \E n \in 0..Size : Give(s, n)

Spec == Init /\ [][Next]_vars
=============================================================================
