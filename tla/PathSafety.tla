----------------------------- MODULE PathSafety -----------------------------
(***************************************************************************)
(* path_safety: what the validators accept as the places a run may write.  *)
(*                                                                         *)
(* The file system is seen along one path: fs[d] is what the path of its   *)
(* first d components names, [kind, dev] with dev the storage that entries *)
(* below it go to.  fs[0] is the root directory.  A "link" is a symbolic   *)
(* link to a directory, a "dangling" one leads nowhere.  The source is     *)
(* [kind, id]: a block device, the device number id being what the storage *)
(* on it is related to (DeviceRelations), or an image file with an identity *)
(* of its own.                                                             *)
(***************************************************************************)
EXTENDS Integers, FiniteSetsExt

Exists(entry) == entry.kind \notin {"absent", "dangling"}       \* stat(2) succeeds
IsDirectory(entry) == entry.kind \in {"dir", "link"}            \* and says so

\* weakly_canonical of the first d components: links that lead somewhere are resolved.
canonicalize(fs, d) ==
    [k \in DOMAIN fs |-> IF k <= d /\ fs[k].kind = "link" THEN [fs[k] EXCEPT !.kind = "dir"]
                         ELSE fs[k]]

existing_ancestor(fs, d) == fs[Max({k \in 0..d : Exists(fs[k])})]

IsNode(object) == object.kind \in {"block", "char"}

same_opened_object(lhs, rhs) ==
    IF IsNode(lhs) /\ IsNode(rhs) THEN lhs.id = rhs.id ELSE lhs = rhs

reject_source_storage(source, storage) ==
    source.kind = "block" /\ storage.dev = source.id

reject_source_alias(entry) == entry.kind = "source"

\* The database path is one entry, dev being the storage of its directory and a
\* "dir" anything there that is no regular file.
validate_database_path(source, entry) ==
    /\ ~reject_source_alias(entry)
    /\ entry.kind \in {"file", "absent", "dangling"}
    /\ ~reject_source_storage(source, entry)

validate_destination_path(source, fs, d) ==
    LET storage == existing_ancestor(fs, d) IN
    /\ ~reject_source_alias(fs[d])
    /\ IsDirectory(storage)
    /\ ~reject_source_storage(source, storage)
=============================================================================
