------------------------------ MODULE LineDiff ------------------------------
(***************************************************************************)
(* Line diffs and blame (src/git/text-diff.ts, src/git/blame.ts,            *)
(* src/git/commit-diff.ts).  A text is a sequence of lines.                  *)
(***************************************************************************)
EXTENDS Integers, Sequences, SequencesExt, FiniteSetsExt

CONSTANT MaxCommits   \* DEFAULT_MAX_COMMITS: the changes one blame looks at

\* The longest common subsequences of all prefixes: dp of diffLinesLcs.
Lcs(old, new) ==
    LET dp[p \in (0..Len(old)) \X (0..Len(new))] ==
            LET i == p[1] j == p[2]
            IN CASE i = 0 \/ j = 0 -> 0
                 [] i > 0 /\ j > 0 /\ old[i] = new[j] -> dp[<<i - 1, j - 1>>] + 1
                 [] OTHER -> Max({dp[<<i - 1, j>>], dp[<<i, j - 1>>]})
    IN dp

Op(type, line) == [type |-> type, line |-> line]

\* The edit script from old to new, read back from the corner of dp.
diffLinesLcs(old, new) ==
    LET dp == Lcs(old, new)
        script[p \in (0..Len(old)) \X (0..Len(new))] ==
            LET i == p[1] j == p[2]
            IN CASE i = 0 /\ j = 0 -> <<>>
                 [] j = 0 /\ i > 0 -> Append(script[<<i - 1, j>>], Op("delete", old[i]))
                 [] i = 0 /\ j > 0 -> Append(script[<<i, j - 1>>], Op("insert", new[j]))
                 [] i > 0 /\ j > 0 /\ old[i] = new[j] -> Append(script[<<i - 1, j - 1>>], Op("equal", new[j]))
                 [] OTHER -> IF dp[<<i - 1, j>>] >= dp[<<i, j - 1>>]
                             THEN Append(script[<<i - 1, j>>], Op("delete", old[i]))
                             ELSE Append(script[<<i, j - 1>>], Op("insert", new[j]))
    IN script[<<Len(old), Len(new)>>]

\* The one hunk of a whole file, with the line numbers on both sides (0 for none).
buildHunks(old, new) ==
    LET ops == diffLinesLcs(old, new)
        Nth(i, types) == Cardinality({k \in 1..i : ops[k].type \in types})
    IN [i \in DOMAIN ops |->
          [type |-> CASE ops[i].type = "equal" -> "context"
                      [] ops[i].type = "delete" -> "delete"
                      [] ops[i].type = "insert" -> "add",
           content |-> ops[i].line,
           oldNo |-> IF ops[i].type = "insert" THEN 0 ELSE Nth(i, {"equal", "delete"}),
           newNo |-> IF ops[i].type = "delete" THEN 0 ELSE Nth(i, {"equal", "insert"})]]

countHunkChanges(hunk) ==
    [additions |-> Cardinality({i \in DOMAIN hunk : hunk[i].type = "add"}),
     deletions |-> Cardinality({i \in DOMAIN hunk : hunk[i].type = "delete"})]

\* The diff of one file; a pure rename changes no line, a binary file has none.
fileDiff(old, new, binary, samePath) ==
    IF binary \/ (old = new /\ ~samePath) THEN [additions |-> 0, deletions |-> 0]
    ELSE countHunkChanges(buildHunks(old, new))

(***************************************************************************)
(* blame.ts.  The history of a file along first parents is a sequence of     *)
(* versions, the oldest first; the n-th commit has the n-th version, <<>>    *)
(* where the file is not there.                                               *)
(***************************************************************************)
\* The commits whose version differs from their parent's, from the last down to where the
\* file appeared, or to the one after MaxCommits of them.
changeCommits(history) ==
    LET n == Len(history)
        appeared == Max({i \in 1..n : history[i] # <<>> /\ (i = 1 \/ history[i - 1] = <<>>)})
        changed == {i \in appeared..n : i = appeared \/ history[i] # history[i - 1]}
        newest == {i \in changed : Cardinality({k \in changed : k > i}) <= MaxCommits}
    IN SetToSortSeq(newest, <)

\* The origin of the next version's lines: what is equal keeps its own, what is inserted
\* is the commit's.
attribute(was, ops, commit) ==
    LET Old(i) == Cardinality({k \in 1..i : ops[k].type # "insert"})
        kept == SelectSeq([i \in DOMAIN ops |-> [at |-> i, type |-> ops[i].type]], LAMBDA o : o.type # "delete")
    IN [i \in DOMAIN kept |-> IF kept[i].type = "equal" THEN was[Old(kept[i].at)] ELSE commit]

blameFile(history) ==
    FoldLeft(LAMBDA b, c : [lines |-> history[c],
                            attributions |-> attribute(b.attributions, diffLinesLcs(b.lines, history[c]), c)],
             [lines |-> <<>>, attributions |-> <<>>], changeCommits(history)).attributions

(***************************************************************************)
(* What they promise.                                                        *)
(***************************************************************************)
IsSubsequence(s, t) ==
    \E at \in [DOMAIN s -> DOMAIN t] :
        /\ \A i, j \in DOMAIN s : i < j => at[i] < at[j]
        /\ \A i \in DOMAIN s : s[i] = t[at[i]]

Side(hunk, types) == LET of == SelectSeq(hunk, LAMBDA l : l.type \in types) IN [i \in DOMAIN of |-> of[i].content]

\* A hunk (text-diff.ts) is both texts: its context and deletions are the old one, its
\* context and additions the new one, and no shorter script would do.
HunkIsBoth(old, new) ==
    LET hunk == buildHunks(old, new)
        n == countHunkChanges(hunk)
    IN /\ Side(hunk, {"context", "delete"}) = old /\ Side(hunk, {"context", "add"}) = new
       /\ n.additions - n.deletions = Len(new) - Len(old)
       /\ \A l \in ToSet(hunk) : (l.oldNo > 0 => old[l.oldNo] = l.content) /\ (l.newNo > 0 => new[l.newNo] = l.content)

\* Blame (blame.ts) gives a line to a commit that brought it: of every version it looked
\* at, the lines it gives to that commit or an earlier one are, in order, lines of it.
BlameIsHonest(history) ==
    LET blame == blameFile(history)
        last == history[Len(history)]
        UpTo(c) == LET at == SelectSeq([i \in DOMAIN last |-> i], LAMBDA i : blame[i] <= c)
                   IN [i \in DOMAIN at |-> last[at[i]]]
    IN /\ DOMAIN blame = DOMAIN last
       /\ \A c \in ToSet(changeCommits(history)) : IsSubsequence(UpTo(c), history[c])
       /\ \A i \in DOMAIN last : blame[i] \in ToSet(changeCommits(history))
=============================================================================
