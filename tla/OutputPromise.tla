--------------------------- MODULE OutputPromise ---------------------------
(***************************************************************************)
(* What recovery output promises to a reader of the destination directory, *)
(* whatever system calls, crashes and runs it takes to keep it: a file     *)
(* name shows nothing or one whole version, a version appears in one step, *)
(* a shown version is replaced only by a run that was told to overwrite,   *)
(* and a version once reported as recovered is not taken back.             *)
(*                                                                         *)
(* A power loss is part of the promise: the directory falls back to what   *)
(* the file system last kept, and what it kept is whole too.               *)
(***************************************************************************)
CONSTANTS
    Files,          \* the output file names
    VersionsOf,     \* VersionsOf[f]: the whole contents f may ever show
    MayReplace,     \* the versions written by runs that may overwrite
    Recovered,      \* the versions written by recovery runs
    Protected,      \* versions no run may replace (symlinks, devices, ...)
    Absent          \* the name shows nothing

VARIABLES
    shown,      \* shown[f]: the version a reader of the directory finds
    kept,       \* kept[f]: the version a power loss would leave
    reported    \* the versions reported as recovered

vars == <<shown, kept, reported>>

Init ==
    /\ shown \in {s \in [Files -> (UNION {VersionsOf[f] : f \in Files}) \cup {Absent}] :
                    \A f \in Files : s[f] \in VersionsOf[f] \cup {Absent}}
    /\ kept = shown
    /\ reported = {}

\* A whole version becomes visible in one step; replacing needs permission.
Publish(f, v) ==
    /\ v \in VersionsOf[f] \ reported
    /\ \/ shown[f] = Absent
       \/ v \in MayReplace /\ shown[f] \notin Protected
    /\ shown' = [shown EXCEPT ![f] = v]
    /\ UNCHANGED <<kept, reported>>

\* Only what the name shows at that moment may be reported as recovered.
Report(f) ==
    /\ shown[f] \in Recovered
    /\ reported' = reported \cup {shown[f]}
    /\ UNCHANGED <<shown, kept>>

\* A publication that failed half-way is taken back before it is reported.
Withdraw(f) ==
    /\ shown[f] \in Recovered \ (reported \cup MayReplace)
    /\ shown' = [shown EXCEPT ![f] = Absent]
    /\ UNCHANGED <<kept, reported>>

\* The file system makes the directory durable at times of its own choosing.
Persist ==
    /\ kept' = shown
    /\ UNCHANGED <<shown, reported>>

PowerLoss ==
    /\ shown' = kept
    /\ UNCHANGED <<kept, reported>>

Next ==
    \/ \E f \in Files : \/ \E v \in VersionsOf[f] : Publish(f, v)
                        \/ Report(f)
                        \/ Withdraw(f)
    \/ Persist
    \/ PowerLoss

Spec == Init /\ [][Next]_vars
=============================================================================
