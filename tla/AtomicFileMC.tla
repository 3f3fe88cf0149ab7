---------------------------- MODULE AtomicFileMC ----------------------------
(***************************************************************************)
(* Instances of AtomicFile for TLC.                                        *)
(***************************************************************************)
EXTENDS AtomicFile, TLC

\* File names.  A name is enough; "a.partial" and "b.partial" are partial names.
OneItem == <<"a">>
TwoItems == <<"a", "b">>
OwnPartials == [f \in {"a", "b"} |-> IF f = "a" THEN "a.partial" ELSE "b.partial"]

\* A directory that held a file named with byte 1 followed by ".partial" and a
\* file "_".  Items are sorted by these names, byte 1 before "_" (Recover.cpp:95-100),
\* and written under their sanitized names, where byte 1 becomes "_"
\* (RecoveryOutput.cpp:89-100): the second item's partial has the first one's name.
ClashingItems == <<"_.partial", "_">>
ClashingPartials ==
    [f \in {"_.partial", "_"} |-> IF f = "_" THEN "_.partial" ELSE "_.partial.partial"]
=============================================================================
