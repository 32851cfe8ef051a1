---------------------------- MODULE CommitGraph ----------------------------
(***************************************************************************)
(* Walks over the commits of one object store (src/git/merge-base.ts,       *)
(* src/git/reachability.ts).  A store is the set of the commits in it; a     *)
(* commit stands for itself with its trees and blobs.  Every walk reads the  *)
(* store as it goes and passes over a commit it cannot read.                 *)
(***************************************************************************)
EXTENDS Integers, Sequences, SequencesExt, FiniteSets, FiniteSetsExt

CONSTANTS
    Commits,
    Parents,   \* the parents of each commit, in the order the commit lists them
    MaxWalk    \* DEFAULT_MAX_WALK: the commits one walk visits

ASSUME GraphAssumption ==
    /\ IsFiniteSet(Commits)
    /\ Parents \in [Commits -> Seq(Commits)]
    /\ MaxWalk \in Nat \ {0}

ParentsIn(store, c) == IF c \in store THEN Parents[c] ELSE <<>>

\* The links from a commit to a parent: a walk follows each once at most.
ParentLinks == UNION {{c} \X DOMAIN Parents[c] : c \in Commits}

\* Enough turns of the loop for any walk from a sequence of starts.
Turns(starts) == Len(starts) + Cardinality(ParentLinks)

\* The loop all walks share: take the first of the queue; pass over what was visited
\* and what the walk stops at; queue the parents of the rest.
WalkTurn(store, stops, w) ==
    IF w.queue = <<>> THEN w
    ELSE LET c == Head(w.queue)
         IN IF c \in stops \/ Contains(w.visited, c)
            THEN [visited |-> w.visited, queue |-> Tail(w.queue)]
            ELSE [visited |-> Append(w.visited, c), queue |-> Tail(w.queue) \o ParentsIn(store, c)]

After(store, starts, stops) ==
    LET after[n \in 0..Turns(starts)] ==
            IF n = 0 THEN [visited |-> <<>>, queue |-> starts] ELSE WalkTurn(store, stops, after[n - 1])
    IN after

Walk(store, starts, stops) == After(store, starts, stops)[Turns(starts)].visited

\* Where c comes in the walk w, 0 when it does not.
Place(w, c) == IF Contains(w, c) THEN CHOOSE i \in DOMAIN w : w[i] = c ELSE 0

\* The answer of a search for c along the walk w: it throws once it has visited too many.
Search(w, c) ==
    CASE Place(w, c) \in 1..MaxWalk -> "yes"
      [] Place(w, c) \notin 1..MaxWalk /\ Len(w) > MaxWalk -> "throws"
      [] OTHER -> "no"

isAncestor(store, ancestor, descendant) ==
    IF ancestor = descendant THEN "yes"
    ELSE Search(Walk(store, <<descendant>>, {}), ancestor)

commitReachableFromTips(store, tips, target) == Search(Walk(store, tips, {}), target)

\* The first commit of the walk ofB that the walk ofA met; "none", or "throws".
FirstMet(ofA, ofB) ==
    LET met == SelectInSeq(ofB, LAMBDA c : Contains(ofA, c))
    IN IF Len(ofA) > MaxWalk \/ met > MaxWalk \/ (met = 0 /\ Len(ofB) > MaxWalk) THEN "throws"
       ELSE IF met = 0 THEN "none" ELSE ofB[met]

findMergeBase(store, a, b) == FirstMet(Walk(store, <<a>>, {}), Walk(store, <<b>>, {}))

\* Commits of from's history that are met without passing through stopAt.
countCommitsTo(store, from, stopAt) == Len(Walk(store, <<from>>, {stopAt}))

CountsFrom(store, base, head, mergeBase) ==
    IF mergeBase = "none" THEN [ahead |-> 0, behind |-> 0, mergeBase |-> mergeBase]
    ELSE [ahead |-> countCommitsTo(store, head, mergeBase),
          behind |-> countCommitsTo(store, base, mergeBase), mergeBase |-> mergeBase]

countCommitsBetween(store, base, head) == CountsFrom(store, base, head, findMergeBase(store, base, head))

\* What collectReachableObjects visits: wants and all they lead to, up to the haves.
ReachableFrom(wants, haves) == ToSet(Walk(Commits, SetToSeq(wants), haves))

\* It throws when the store misses one of them.
CanCollect(store, wants, haves) == ReachableFrom(wants, haves) \subseteq store

\* Reference: the whole history of a commit.
History(c) == ToSet(Walk(Commits, <<c>>, {}))
=============================================================================
