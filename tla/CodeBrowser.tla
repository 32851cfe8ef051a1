----------------------------- MODULE CodeBrowser -----------------------------
(***************************************************************************)
(* Reading a repository's code (src/features/repos/code-browser.ts).  One path *)
(* is looked at: `content` says what each commit has there, which may be         *)
(* nothing, a file's blob, a link or a directory.  Branches and tags are           *)
(* functions from names to commits.                                               *)
(***************************************************************************)
EXTENDS CommitGraph, FiniteSets

CONSTANTS
    Blobs, Links, Directories, Gitlinks,   \* what a path may hold
    Nothing,
    MAX_HISTORY_WALK, MAX_COMMITS

Failed(status) == [status |-> status]

\* refs: [branches, tags, default].  Branches alone are shown in the pages of files and commits.
resolveBranch(refs, requested) ==
    LET name == IF requested = Nothing THEN refs.default ELSE requested
    IN IF name \in DOMAIN refs.branches THEN refs.branches[name] ELSE Nothing

\* A branch hides the tag of its name.
resolveRefToCommit(refs, requested) ==
    LET name == IF requested = Nothing THEN refs.default ELSE requested
    IN IF name \in DOMAIN refs.branches THEN refs.branches[name]
       ELSE IF name \in DOMAIN refs.tags THEN refs.tags[name] ELSE Nothing

commitTips(refs) == SetToSeq({refs.branches[n] : n \in DOMAIN refs.branches} \cup {refs.tags[n] : n \in DOMAIN refs.tags})

-----------------------------------------------------------------------------
(* One path                                                                  *)

\* A link is a blob as well.
blobOidAtPath(content, c) == IF content[c] \in Blobs \cup Links THEN content[c] ELSE Nothing

KindOf(entry) == IF entry \in Directories THEN "tree" ELSE IF entry \in Gitlinks THEN "gitlink" ELSE "blob"

\* handleTree, of the directory that the path is in: the kind the path is listed with.
handleTree(store, refs, content, requested) ==
    LET c == resolveBranch(refs, requested)
    IN CASE c = Nothing -> Failed(404)
         [] c # Nothing /\ c \notin store -> Failed(409)
         [] OTHER -> [status |-> 200, kinds |-> IF content[c] = Nothing THEN {} ELSE {KindOf(content[c])}]

\* handleBlob: neither a directory nor a link is a file, and `large` are the blobs that are too large.
handleBlob(store, refs, content, large, requested) ==
    LET c == resolveBranch(refs, requested)
    IN CASE c = Nothing -> Failed(404)
         [] c # Nothing /\ c \notin store -> Failed(409)
         [] c \in store /\ content[c] \notin Blobs -> Failed(404)
         [] c \in store /\ content[c] \in large -> Failed(413)
         [] OTHER -> [status |-> 200, blob |-> content[c]]

handleBlame(store, refs, content, large, requested) ==
    LET c == resolveRefToCommit(refs, requested)
    IN CASE c \notin store -> Failed(404)
         [] c \in store /\ blobOidAtPath(content, c) = Nothing -> Failed(404)
         [] c \in store /\ blobOidAtPath(content, c) \in large -> Failed(413)
         [] OTHER -> [status |-> 200, commit |-> c]

FirstParent(c) == IF Parents[c] = <<>> THEN Nothing ELSE Head(Parents[c])

\* handleCommits without a path: along first parents, as far as they are stored.
handleCommits(store, tip, limit) ==
    LET chain[n \in 0..limit] ==
            IF n = 0 THEN [list |-> <<>>, cursor |-> tip]
            ELSE LET w == chain[n - 1]
                 IN IF w.cursor = Nothing \/ w.cursor \notin store \/ Contains(w.list, w.cursor) THEN w
                    ELSE [list |-> Append(w.list, w.cursor), cursor |-> FirstParent(w.cursor)]
    IN chain[limit].list

pathStatus(oid, parentOid) == IF parentOid = Nothing THEN "added" ELSE IF oid = Nothing THEN "deleted" ELSE "modified"
Listed(c, oid, parentOid) == [commit |-> c, status |-> pathStatus(oid, parentOid)]

\* What the walk knows of the file when it moves on to the parent.
CursorOid(w, parentOid) == parentOid

\* fileHistory: the commits along first parents that change the path, back to the one that added it.
fileHistory(store, content, tip, limit) ==
    LET Turn(w) ==
            IF w.over \/ w.cursor = Nothing \/ Len(w.list) >= limit THEN [w EXCEPT !.over = TRUE]
            ELSE IF w.walked >= MAX_HISTORY_WALK THEN [w EXCEPT !.over = TRUE, !.truncated = TRUE]
            ELSE LET p == FirstParent(w.cursor)
                     parent == IF p \in store THEN p ELSE Nothing
                     parentOid == IF parent = Nothing THEN Nothing ELSE blobOidAtPath(content, parent)
                 IN [cursor |-> parent, oid |-> CursorOid(w, parentOid), walked |-> w.walked + 1, truncated |-> FALSE,
                     over |-> parentOid = Nothing,
                     list |-> IF w.oid # parentOid THEN Append(w.list, Listed(w.cursor, w.oid, parentOid)) ELSE w.list]
        start == [cursor |-> IF tip \in store THEN tip ELSE Nothing,
                  oid |-> IF tip \in store THEN blobOidAtPath(content, tip) ELSE Nothing,
                  walked |-> 0, truncated |-> FALSE, over |-> FALSE, list |-> <<>>]
        after[n \in 0..(MAX_HISTORY_WALK + 1)] == IF n = 0 THEN start ELSE Turn(after[n - 1])
    IN after[MAX_HISTORY_WALK + 1]

-----------------------------------------------------------------------------
(* Commits and refs                                                          *)

\* handleCommitDetail: a commit that a ref leads to, against its first parent.
handleCommitDetail(store, refs, c) ==
    LET reachable == commitReachableFromTips(store, commitTips(refs), c)
    IN CASE reachable = "throws" -> Failed(413)
         [] reachable = "no" \/ (reachable = "yes" /\ c \notin store) -> Failed(404)
         [] OTHER -> [status |-> 200, base |-> FirstParent(c), commit |-> c]

StatusOf(ahead, behind) ==
    CASE ahead = 0 /\ behind = 0 -> "identical"
      [] ahead > 0 /\ behind = 0 -> "ahead"
      [] ahead = 0 /\ behind > 0 -> "behind"
      [] ahead > 0 /\ behind > 0 -> "diverged"

\* The commits shown: along first parents of the head up to the merge base.
Shown(store, head, mergeBase) ==
    LET chain == handleCommits(store, head, MAX_COMMITS)
    IN IF Contains(chain, mergeBase) THEN SubSeq(chain, 1, Place(chain, mergeBase) - 1) ELSE chain

\* The page of two commits between which there are so many.
ComparePage(store, base, head, counts) ==
    IF counts.mergeBase = "throws" THEN Failed(413)
    ELSE IF head \notin store THEN Failed(404)
    ELSE [status |-> 200, called |-> StatusOf(counts.ahead, counts.behind), base |-> base, head |-> head,
          mergeBase |-> counts.mergeBase, diffBase |-> IF counts.mergeBase = "none" THEN base ELSE counts.mergeBase,
          commits |-> Shown(store, head, counts.mergeBase)]

handleCompare(store, refs, baseName, headName) ==
    LET base == resolveRefToCommit(refs, baseName)
        head == resolveRefToCommit(refs, headName)
    IN IF Nothing \in {base, head} THEN Failed(404)
       ELSE ComparePage(store, base, head, countCommitsBetween(store, base, head))

-----------------------------------------------------------------------------
(* What the pages promise                                                    *)

Chain(store, tip) == handleCommits(store, tip, Cardinality(Commits))
Before(chain, i) == IF i < Len(chain) THEN chain[i + 1] ELSE Nothing
OidOf(content, c) == IF c = Nothing THEN Nothing ELSE blobOidAtPath(content, c)
Changed(content, chain, i) == OidOf(content, chain[i]) # OidOf(content, Before(chain, i))

\* code-browser.ts, "cursorOid !== parentOid": a file's history is exactly the commits along first
\* parents that changed it, the latest first, as far as it goes; and where the page shows the file,
\* the latest of them is the one that brought what is shown.
HistoryIsExact(store, content, tip, limit) ==
    LET found == fileHistory(store, content, tip, limit)
        chain == Chain(store, tip)
        list == [i \in DOMAIN found.list |-> found.list[i].commit]
        changes == SelectSeq([i \in DOMAIN chain |-> <<chain[i], Changed(content, chain, i)>>], LAMBDA x : x[2])
    IN /\ Len(list) <= Len(changes) /\ \A i \in DOMAIN list : list[i] = changes[i][1]
       /\ (tip \in store /\ blobOidAtPath(content, tip) # Nothing /\ ~found.truncated /\ limit > 0)
            => /\ list # <<>> /\ blobOidAtPath(content, list[1]) = blobOidAtPath(content, tip)
               /\ Len(list) < limit => found.list[Len(list)].status = "added"

\* code-browser.ts, merge-base.ts: a head that is called ahead contains the base, one that is called
\* behind is contained in it, and of related commits only the same are identical; what is
\* compared with is in both histories.
CompareIsHonest(store, refs, baseName, headName) ==
    \A page \in {handleCompare(store, refs, baseName, headName)} :
        (page.status = 200 /\ page.mergeBase # "none") =>
            /\ page.called = "ahead" => page.base \in History(page.head)
            /\ page.called = "behind" => page.head \in History(page.base)
            /\ page.called = "identical" => page.base = page.head
            /\ page.diffBase \in History(page.base) \cap History(page.head)

\* code-browser.ts, merge-base.ts "only commits reachable from an advertised ref are viewable".
DetailIsReachable(store, refs, c) ==
    handleCommitDetail(store, refs, c).status = 200 => \E i \in DOMAIN commitTips(refs) : c \in History(commitTips(refs)[i])

\* code-browser.ts: the page of a file is of a path that its directory lists as a file, that can be
\* blamed, and that has a history unless the walk was cut short.
PagesAgree(store, refs, content, large, branch) ==
    handleBlob(store, refs, content, large, branch).status = 200 =>
        /\ handleTree(store, refs, content, branch).kinds = {"blob"}
        /\ handleBlame(store, refs, content, large, branch) = [status |-> 200, commit |-> resolveBranch(refs, branch)]
        /\ LET found == fileHistory(store, content, resolveBranch(refs, branch), 1) IN found.list # <<>> \/ found.truncated

\* code-browser.ts:501: what is called identical is the same commit, and a head that contains the
\* base is not called diverged.
StatusIsAncestry(store, refs, baseName, headName) ==
    LET page == handleCompare(store, refs, baseName, headName)
    IN page.status = 200 =>
         /\ page.called = "identical" => page.base = page.head
         /\ (page.base # page.head /\ page.base \in History(page.head)) => page.called = "ahead"

\* code-browser.ts:486: of a head that is ahead, the commits that the base has not.
ShownIsAhead(store, refs, baseName, headName) ==
    LET page == handleCompare(store, refs, baseName, headName)
    IN page.status = 200 => \A i \in DOMAIN page.commits : page.commits[i] \notin History(page.base)

\* code-browser.ts:239: a path that some commit of the chain has has a history.
GoneHasHistory(store, content, tip) ==
    (\E i \in DOMAIN Chain(store, tip) : blobOidAtPath(content, Chain(store, tip)[i]) # Nothing)
        => fileHistory(store, content, tip, 1).list # <<>>
=============================================================================
