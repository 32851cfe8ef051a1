----------------------------- MODULE TreeMerge -----------------------------
(***************************************************************************)
(* Trees and the merges and diffs of trees (src/git/tree-ops.ts,            *)
(* src/git/merge.ts, src/git/tree-diff.ts, and the resolution of conflicts  *)
(* in src/features/pulls/merge-resolution.ts).  A tree is the function from *)
(* the paths of its files to their entries; a directory is what its files   *)
(* have in common.  Paths are sequences of names.                            *)
(***************************************************************************)
EXTENDS Integers, Sequences, SequencesExt, FiniteSetsExt, Functions

CONSTANTS
    Paths,    \* the paths of the trees, in the order of localeCompare: a sequence
    Blobs

SYMLINK == "120000"
Modes == {"100644", "100755", SYMLINK}
Entries == [sha : Blobs, mode : Modes]
Empty == [p \in {} |-> 0]

Within(p, q) == IsStrictPrefix(p, q)
IsTree(t) == \A p, q \in DOMAIN t : ~Within(p, q)
Trees == {t \in UNION {[D -> Entries] : D \in SUBSET ToSet(Paths)} : IsTree(t)}

NoEntry == [sha |-> "none", mode |-> "none"]
At(t, p) == IF p \in DOMAIN t THEN t[p] ELSE NoEntry

(***************************************************************************)
(* tree-ops.ts.  A flattened tree, or its refusal.                           *)
(***************************************************************************)
flattenTree(t) ==
    IF \E p \in DOMAIN t : t[p].mode = SYMLINK THEN [ok |-> FALSE, files |-> Empty]
    ELSE [ok |-> TRUE, files |-> t]

skipSymlinks(t) == Restrict(t, {p \in DOMAIN t : t[p].mode # SYMLINK})

\* What getEntryAtPath finds: a file, a directory, or nothing.
getEntryAtPath(t, path) ==
    IF path \in DOMAIN t THEN t[path]
    ELSE IF \E p \in DOMAIN t : Within(path, p) THEN [sha |-> "tree", mode |-> "040000"]
    ELSE NoEntry

getBlobAtPath(t, path) ==
    LET entry == getEntryAtPath(t, path)
    IN IF entry.mode \in {"none", "040000", SYMLINK} THEN "null" ELSE entry.sha

\* The files are put one after the other: under a file nothing can be put, and a file
\* put where a directory is takes its place with all it holds.
Put(built, file) ==
    IF ~built.ok \/ \E p \in DOMAIN built.files : Within(p, file.path)
    THEN [ok |-> FALSE, files |-> Empty]
    ELSE [ok |-> TRUE,
          files |-> [p \in {q \in DOMAIN built.files : ~Within(file.path, q)} \cup {file.path} |->
                        IF p = file.path THEN file.entry ELSE built.files[p]]]

buildTreeFromPaths(files) == FoldLeft(Put, [ok |-> TRUE, files |-> Empty], files)

\* A map of files in the order in which the merges sort it.
Sorted(map) ==
    LET there == SelectSeq(Paths, LAMBDA p : p \in DOMAIN map)
    IN [i \in DOMAIN there |-> [path |-> there[i], entry |-> map[there[i]]]]

(***************************************************************************)
(* merge.ts                                                                  *)
(***************************************************************************)
entriesEqual(a, b) == a.sha = b.sha /\ a.mode = b.mode

classifyConflict(base, local, upstream) ==
    CASE base = NoEntry /\ local # NoEntry /\ upstream # NoEntry -> "add-add"
      [] base # NoEntry /\ (local = NoEntry) # (upstream = NoEntry) -> "delete-modify"
      [] OTHER -> "content"

\* What becomes of one path: the entry the merge takes, or a conflict.
MergedEntry(base, local, upstream) ==
    CASE entriesEqual(base, upstream) -> [conflict |-> FALSE, entry |-> local]
      [] ~entriesEqual(base, upstream) /\ entriesEqual(base, local) -> [conflict |-> FALSE, entry |-> upstream]
      [] ~entriesEqual(base, upstream) /\ ~entriesEqual(base, local) /\ entriesEqual(local, upstream) ->
            [conflict |-> FALSE, entry |-> local]
      [] OTHER -> [conflict |-> TRUE, entry |-> NoEntry]

mergeTrees3Way(base, local, upstream) ==
    LET paths == DOMAIN base \cup DOMAIN local \cup DOMAIN upstream
        out == [p \in paths |-> MergedEntry(At(base, p), At(local, p), At(upstream, p))]
        conflicts == {p \in paths : out[p].conflict}
        merged == [p \in {q \in paths : out[q].entry # NoEntry} |-> out[p].entry]
        built == buildTreeFromPaths(Sorted(merged))
    IN CASE \E t \in {base, local, upstream} : ~flattenTree(t).ok ->
                [status |-> "throws", tree |-> Empty, conflicts |-> {}]
         [] (\A t \in {base, local, upstream} : flattenTree(t).ok) /\ conflicts # {} ->
                [status |-> "conflicts", tree |-> Empty,
                 conflicts |-> {[path |-> p, type |-> classifyConflict(At(base, p), At(local, p), At(upstream, p))] :
                                   p \in conflicts}]
         [] OTHER -> [status |-> IF built.ok THEN "clean" ELSE "throws",
                      tree |-> built.files, conflicts |-> {}]

(***************************************************************************)
(* merge-resolution.ts                                                       *)
(***************************************************************************)
buildMergedFileMap(base, local, incoming, conflictPaths) ==
    LET paths == (DOMAIN base \cup DOMAIN local \cup DOMAIN incoming) \ conflictPaths
        Changed(side, p) == p \notin DOMAIN base \/ p \notin DOMAIN side \/ base[p] # side[p]
        Kept(p) ==
            CASE ~Changed(incoming, p) -> At(local, p)
              [] ~Changed(local, p) /\ Changed(incoming, p) -> At(incoming, p)
              [] Changed(local, p) /\ Changed(incoming, p) ->
                    IF At(local, p).sha = At(incoming, p).sha THEN At(local, p) ELSE NoEntry
    IN [p \in {q \in paths : Kept(q) # NoEntry} |-> Kept(p)]

\* The conflicts of a merge with what each side has there.
checkConflicts(base, local, incoming) ==
    {[path |-> c.path, type |-> c.type, base |-> getBlobAtPath(base, c.path),
      ours |-> getBlobAtPath(local, c.path), theirs |-> getBlobAtPath(incoming, c.path)] :
        c \in mergeTrees3Way(base, local, incoming).conflicts}

\* Resolutions: from some paths to a blob, or to "delete".
resolveConflicts(base, local, incoming, resolutions) ==
    LET merge == mergeTrees3Way(base, local, incoming)
        conflictPaths == {c.path : c \in merge.conflicts}
        kept == buildMergedFileMap(base, local, incoming, conflictPaths)
        put == {p \in DOMAIN resolutions : resolutions[p] # "delete"}
        files == [p \in (DOMAIN kept \ DOMAIN resolutions) \cup put |->
                    IF p \in put THEN [sha |-> resolutions[p], mode |-> "100644"] ELSE kept[p]]
        built == buildTreeFromPaths(Sorted(files))
    IN CASE merge.status = "throws" -> [status |-> "throws", tree |-> Empty]
         [] merge.status # "throws" /\ ~(conflictPaths \subseteq DOMAIN resolutions) ->
                [status |-> "conflict_unresolved", tree |-> Empty]
         [] OTHER -> [status |-> IF built.ok THEN "clean" ELSE "throws", tree |-> built.files]

(***************************************************************************)
(* tree-diff.ts                                                              *)
(***************************************************************************)
\* The n-th deleted path of a content is paired with the n-th added path of it.
pairRenames(added, deleted) ==
    LET Of(map, sha) == SelectSeq(Paths, LAMBDA p : p \in DOMAIN map /\ map[p].sha = sha)
        Pairs(sha) == {<<Of(added, sha)[i], Of(deleted, sha)[i]>> :
                          i \in DOMAIN Of(added, sha) \cap DOMAIN Of(deleted, sha)}
    IN UNION {Pairs(sha) : sha \in Blobs}

diffTrees(baseTree, headTree) ==
    LET base == skipSymlinks(baseTree)
        head == skipSymlinks(headTree)
        added == Restrict(head, DOMAIN head \ DOMAIN base)
        deleted == Restrict(base, DOMAIN base \ DOMAIN head)
        renamed == pairRenames(added, deleted)
        Line(status, path, oldPath) ==
            [status |-> status, path |-> path, oldPath |-> oldPath, old |-> At(base, oldPath), new |-> At(head, path)]
    IN {Line("modified", p, p) : p \in {q \in DOMAIN base \cap DOMAIN head : base[q] # head[q]}}
       \cup {Line("added", p, p) : p \in DOMAIN added \ {r[1] : r \in renamed}}
       \cup {Line("deleted", p, p) : p \in DOMAIN deleted \ {r[2] : r \in renamed}}
       \cup {Line("renamed", r[1], r[2]) : r \in renamed}

summarizeTreeDiff(entries) ==
    [filesChanged |-> Cardinality(entries)] @@
    [status \in {"added", "modified", "deleted", "renamed"} |->
        Cardinality({e \in entries : e.status = status})]

\* Reference: a diff, applied to the tree it starts from.
Applied(diff, base) ==
    LET gone == {e.oldPath : e \in {d \in diff : d.status \in {"deleted", "renamed"}}}
        there == {d \in diff : d.status # "deleted"}
    IN [p \in (DOMAIN base \ gone) \cup {e.path : e \in there} |->
          IF \E e \in there : e.path = p THEN (CHOOSE e \in there : e.path = p).new ELSE base[p]]

(***************************************************************************)
(* What the merges and diffs promise, of one base and two sides.             *)
(***************************************************************************)
Took(tree, base, side) ==
    \A p \in DOMAIN base \cup DOMAIN side : At(side, p) # At(base, p) => At(tree, p) = At(side, p)

\* A merge that is clean (merge.ts) has every change of either side, nothing that is on
\* neither, and is the same whichever side is called local; and a resolution
\* (merge-resolution.ts) keeps every change, outside the paths it names, of a file the
\* base had.
MergeKeepsBoth(base, local, incoming, resolutions) ==
    LET merge == mergeTrees3Way(base, local, incoming)
        swapped == mergeTrees3Way(base, incoming, local)
        solved == resolveConflicts(base, local, incoming, resolutions)
        Had(t) == Restrict(t, DOMAIN t \cap (DOMAIN base \ DOMAIN resolutions))
    IN /\ merge = swapped
       /\ merge.status = "clean" =>
             /\ Took(merge.tree, base, local) /\ Took(merge.tree, base, incoming)
             /\ \A p \in DOMAIN merge.tree : merge.tree[p] \in {At(local, p), At(incoming, p)}
             /\ IsTree(merge.tree)
       /\ solved.status = "clean" =>
             /\ Took(Had(solved.tree), Had(base), Had(local))
             /\ Took(Had(solved.tree), Had(base), Had(incoming))
             /\ IsTree(solved.tree)

\* What merge-resolution.ts says of itself ("applies user-supplied blob resolutions, builds
\* the merged tree"): a file that only one side added, and no resolution names, is in it.
ResolutionKeepsAdditions(base, local, incoming, resolutions) ==
    LET solved == resolveConflicts(base, local, incoming, resolutions)
    IN solved.status = "clean" =>
         \A p \in (DOMAIN local \cup DOMAIN incoming) \ (DOMAIN base \cup DOMAIN resolutions) : p \in DOMAIN solved.tree

\* The listing of a diff (tree-diff.ts) turns the one tree into the other, with every file
\* in it once, and counts what it lists.
DiffTransforms(base, head) ==
    LET diff == diffTrees(base, head)
        sum == summarizeTreeDiff(diff)
    IN /\ Applied(diff, skipSymlinks(base)) = skipSymlinks(head)
       /\ \A d, e \in diff : d # e => d.path # e.path /\ d.oldPath # e.oldPath
       /\ sum.filesChanged = sum.added + sum.modified + sum.deleted + sum.renamed

\* What the comment in tree-diff.ts says of symbolic links: they are kept in a diff.
SymlinksAreDiffed(base, head) ==
    \A p \in DOMAIN head : head[p].mode = SYMLINK /\ p \notin DOMAIN base => \E d \in diffTrees(base, head) : d.path = p
=============================================================================
