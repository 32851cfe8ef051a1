------------------------- MODULE PullRequestsProofs -------------------------
(***************************************************************************)
(* Proofs about PullRequests, and about the decision of Authorization that it *)
(* rests on, for every number of requests that merge, every list of rules,   *)
(* every CODEOWNERS file and history.                                         *)
(***************************************************************************)
EXTENDS PullRequests, FiniteSetTheorems, WellFoundedInduction, TLAPS

-----------------------------------------------------------------------------
(* Numbers.                                                                  *)

\* Among numbers there is a least one.
LEMMA MinOfNumbers ==
  ASSUME NEW S \in SUBSET Nat, S # {}
  PROVE  Min(S) \in S /\ \A y \in S : Min(S) <= y
  <1> DEFINE Less == {p \in Nat \X Nat : p[1] < p[2]}
  <1>1. Less = OpToRel(<, Nat)
    BY DEF OpToRel
  <1>2. PICK x \in S : \A y \in S : ~(<<y, x>> \in OpToRel(<, Nat))
    BY NatLessThanWellFounded, WFMin
  <1>3. \A y \in S : x <= y
    <2> TAKE y \in S
    <2>1. <<y, x>> \in Nat \X Nat /\ <<y, x>> \notin Less
      BY <1>1, <1>2
    <2> QED
      BY <2>1
  <1> QED
    BY <1>3 DEF Min

\* Among bounded numbers there is a greatest one.
LEMMA MaxOfNumbers ==
  ASSUME NEW n \in Nat, NEW S \in SUBSET (0..n), S # {}
  PROVE  Max(S) \in S /\ \A y \in S : Max(S) >= y
  <1> DEFINE T == {n - x : x \in S}
  <1>1. T \in SUBSET Nat /\ T # {}
    <2>1. \A x \in S : x \in 0..n /\ n - x \in Nat
      OBVIOUS
    <2> QED
      BY <2>1
  <1>2. PICK t \in T : \A u \in T : t <= u
    BY <1>1, MinOfNumbers
  <1>3. PICK x \in S : t = n - x
    OBVIOUS
  <1>4. \A y \in S : x >= y
    <2> TAKE y \in S
    <2>1. n - y \in T
      OBVIOUS
    <2>2. n - x <= n - y
      BY <1>2, <1>3, <2>1
    <2> QED
      BY <2>2
  <1> QED
    BY <1>4 DEF Max

-----------------------------------------------------------------------------
(* Commits.  There is no set of all of them: what is said of a commit is      *)
(* said of those that are at hand.                                            *)

\* What is before a commit has its own history before that commit too.
Sound(c) == \A d \in c.before : d.before \subseteq c.before

\* A commit that is made has the histories it was made of.
LEMMA MadeIsSound ==
  ASSUME NEW on, NEW from, NEW kind, Sound(on), Sound(from)
  PROVE  /\ Sound(Made(kind, on, from))
         /\ History(on) \subseteq Made(kind, on, from).before
         /\ kind = "merge" => from \in Made(kind, on, from).before
  BY DEF Sound, Made, History

LEMMA WorkIsSound ==
  ASSUME NEW on, NEW n, Sound(on)
  PROVE  Sound(Work(n, on)) /\ History(on) \subseteq Work(n, on).before
  BY DEF Sound, Work, History

\* The history of what is in a history is in it.
LEMMA HistoriesNest ==
  ASSUME NEW c, NEW d, Sound(c), d \in History(c)
  PROVE  History(d) \subseteq History(c)
  BY DEF Sound, History

-----------------------------------------------------------------------------
(* The shape of the requests.                                                *)

Fields == {"method", "base", "head", "behind", "baseAt", "headAt", "new", "etag"}
IsRequest(r) == r = [f \in Fields |-> r[f]] /\ r.method \in MethodNames /\ r.base \in Bases

\* The requests that merge; the rows and the refs document.
Requests ==
  /\ pc \in [Mergers -> Pcs]
  /\ req = [m \in Mergers |-> req[m]]
  /\ \A m \in Mergers : IsRequest(req[m])

Stores ==
  /\ tips = [b \in Bases |-> tips[b]] /\ lost = [b \in Bases |-> lost[b]]
  /\ row = [f \in {"base", "merged", "mergeCommit", "into"} |-> row[f]]
  /\ row.base \in Bases /\ editing \in [at : {"idle", "refs", "update"}, to : Bases]
  /\ etag \in Nat

Shape == Requests /\ Stores

LEMMA IdleIsRequest == IsRequest(Idle)
  BY PullsAssumption DEF IsRequest, Fields, Idle, MethodNames

\* A step of m is at one place of m alone.
LEMMA OthersRest ==
  ASSUME Shape, NEW m \in Mergers, MergeRequest(m), NEW n \in Mergers \ {m}
  PROVE  pc'[n] = pc[n] /\ req'[n] = req[n]
  BY DEF Shape, Requests, MergeRequest, BeginMerge, ComputeGitState, EvaluateReviews, EvaluateChecks, MergeRefused,
     AlreadyMerged, ResolveMerge, TakeSnapshot, Install, InstallRefused, MarkRow, MarkIssue, Die, Ended, Goto

LEMMA StoresKept ==
  ASSUME Shape, [Next]_vars
  PROVE  Stores'
  <1>1. ASSUME NEW m \in Mergers, MergeRequest(m) PROVE Stores'
    <2>1. CASE Install(m)
      <3>1. /\ tips' = [tips EXCEPT ![req[m].base] = req[m].new] /\ lost' = lost /\ row' = row
            /\ editing' = editing /\ etag' = etag + 1
        BY <2>1 DEF Install, rowVars, editVars
      <3> QED
        BY <3>1 DEF Shape, Stores
    <2>2. CASE MarkRow(m)
      <3>1. /\ row' = [row EXCEPT !.merged = TRUE, !.mergeCommit = req[m].new, !.into = req[m].base]
            /\ tips' = tips /\ lost' = lost /\ editing' = editing /\ etag' = etag
        BY <2>2 DEF MarkRow, refVars, editVars
      <3> QED
        BY <3>1 DEF Shape, Stores
    <2>3. CASE ~Install(m) /\ ~MarkRow(m)
      <3>1. tips' = tips /\ lost' = lost /\ row' = row /\ editing' = editing /\ etag' = etag
        BY <1>1, <2>3 DEF MergeRequest, BeginMerge, ComputeGitState, EvaluateReviews, EvaluateChecks, MergeRefused,
           AlreadyMerged, ResolveMerge, TakeSnapshot, InstallRefused, MarkIssue, Die, refVars, rowVars, editVars
      <3> QED
        BY <3>1 DEF Shape, Stores
    <2> QED
      BY <2>1, <2>2, <2>3
  <1>2. ASSUME NEW b \in Bases, PushBase(b) \/ DeleteBase(b) PROVE Stores'
    <2>1. /\ row' = row /\ editing' = editing /\ etag' = etag + 1
          /\ \E c : tips' = [tips EXCEPT ![b] = c]
          /\ \E l : lost' = [lost EXCEPT ![b] = l]
      BY <1>2 DEF PushBase, DeleteBase, rowVars, editVars
    <2>2. PICK c, l : tips' = [tips EXCEPT ![b] = c] /\ lost' = [lost EXCEPT ![b] = l]
      BY <2>1
    <2>3. tips' = [x \in Bases |-> tips'[x]] /\ lost' = [x \in Bases |-> lost'[x]]
      BY <2>2 DEF Shape, Stores
    <2> QED
      BY <2>1, <2>3 DEF Shape, Stores
  <1>3. CASE BeginEdit
    <2>1. /\ \E b \in Bases : editing' = [at |-> "refs", to |-> b]
          /\ tips' = tips /\ lost' = lost /\ row' = row /\ etag' = etag
      BY <1>3 DEF BeginEdit, refVars, rowVars
    <2>2. editing' \in [at : {"idle", "refs", "update"}, to : Bases]
      BY <2>1
    <2> QED
      BY <2>1, <2>2 DEF Shape, Stores
  <1>4. CASE FindNewBase
    <2>1. /\ editing' \in {NoEdit, [editing EXCEPT !.at = "update"]}
          /\ tips' = tips /\ lost' = lost /\ row' = row /\ etag' = etag
      BY <1>4 DEF FindNewBase, refVars, rowVars
    <2>2. editing.at \in {"idle", "refs", "update"} /\ editing.to \in Bases /\ Default \in Bases
          /\ editing = [at |-> editing.at, to |-> editing.to]
      BY PullsAssumption DEF Shape, Stores
    <2>3. [editing EXCEPT !.at = "update"] = [at |-> "update", to |-> editing.to]
      BY <2>2
    <2>4. editing' \in [at : {"idle", "refs", "update"}, to : Bases]
      BY <2>1, <2>2, <2>3 DEF NoEdit
    <2> QED
      BY <2>1, <2>4 DEF Shape, Stores
  <1>5. CASE UpdateBase
    <2>1. /\ row' = [row EXCEPT !.base = editing.to] /\ editing' = NoEdit
          /\ tips' = tips /\ lost' = lost /\ etag' = etag
      BY <1>5 DEF UpdateBase, refVars
    <2>2. editing.to \in Bases
      BY DEF Shape, Stores
    <2> QED
      BY <2>1, <2>2, PullsAssumption DEF Shape, Stores, NoEdit
  <1>6. CASE PushHead \/ DeleteHead \/ BeginReview \/ InsertReview \/ WriteStatus \/ Close \/ Reopen \/ UNCHANGED vars
    <2>1. tips' = tips /\ lost' = lost /\ row' = row /\ editing' = editing /\ etag' \in {etag, etag + 1}
      BY <1>6 DEF PushHead, DeleteHead, BeginReview, InsertReview, WriteStatus, Close, Reopen, refVars, rowVars,
         editVars, vars
    <2> QED
      BY <2>1 DEF Shape, Stores
  <1> QED
    BY <1>1, <1>2, <1>3, <1>4, <1>5, <1>6 DEF Next, Others

LEMMA ShapeKept ==
  ASSUME Shape, [Next]_vars
  PROVE  Shape'
  <1>1. ASSUME NEW m \in Mergers, NEW l \in Pcs, Goto(m, l) PROVE pc' \in [Mergers -> Pcs]
    BY <1>1 DEF Shape, Requests, Goto
  <1>2. ASSUME NEW m \in Mergers, NEW r, IsRequest(r), req' = [req EXCEPT ![m] = r]
        PROVE  req' = [n \in Mergers |-> req'[n]] /\ \A n \in Mergers : IsRequest(req'[n])
    BY <1>2 DEF Shape, Requests
  <1>3. ASSUME NEW m \in Mergers, Ended(m)
        PROVE  (pc' \in [Mergers -> Pcs]) /\ req' = [n \in Mergers |-> req'[n]] /\ \A n \in Mergers : IsRequest(req'[n])
    BY <1>1, <1>2, <1>3, IdleIsRequest DEF Ended, Pcs
  <1>4. ASSUME NEW m \in Mergers, MergeRequest(m) PROVE Requests'
    <2>1. CASE BeginMerge(m)
      <3> PICK method \in Methods[m] : req' = [req EXCEPT ![m].method = method, ![m].base = row.base]
        BY <2>1 DEF BeginMerge
      <3>1. method \in MethodNames /\ row.base \in Bases
        BY PullsAssumption DEF Shape, Stores
      <3>2. IsRequest([req[m] EXCEPT !.method = method, !.base = row.base])
        BY <3>1 DEF Shape, Requests, IsRequest, Fields
      <3>3. pc' \in [Mergers -> Pcs]
        BY <1>1, <2>1 DEF BeginMerge, Requests, Pcs
      <3>4. req' = [n \in Mergers |-> req'[n]] /\ \A n \in Mergers : IsRequest(req'[n])
        BY <1>2, <3>2
      <3> QED
        BY <3>3, <3>4 DEF Requests
    <2>2. CASE ComputeGitState(m)
      <3> DEFINE r == [req[m] EXCEPT !.head = IF head = None THEN Work(1, Root) ELSE head,
                                     !.behind = IF head = None \/ tips[req[m].base] = None THEN 0
                                                ELSE behindBy(tips[req[m].base], head)]
      <3>0. \A h, k : IsRequest([req[m] EXCEPT !.head = h, !.behind = k])
        BY DEF Shape, Requests, IsRequest, Fields
      <3>1. IsRequest(r)
        BY <3>0
      <3>2. req' = [req EXCEPT ![m] = r]
        BY <2>2 DEF ComputeGitState
      <3> QED
        BY <1>1, <1>2, <2>2, <3>1, <3>2 DEF ComputeGitState, Requests, Pcs
    <2>3. CASE EvaluateReviews(m) \/ EvaluateChecks(m)
      BY <1>1, <1>3, <2>3 DEF EvaluateReviews, EvaluateChecks, Shape, Requests, Pcs
    <2>4. CASE AlreadyMerged(m)
      <3> DEFINE r == [req[m] EXCEPT !.new = tips[req[m].base], !.headAt = head]
      <3>1. IsRequest(r)
        BY DEF Shape, Requests, IsRequest, Fields
      <3>2. req' = [req EXCEPT ![m] = r]
        BY <2>4 DEF AlreadyMerged
      <3> QED
        BY <1>1, <1>2, <2>4, <3>1, <3>2 DEF AlreadyMerged, Requests, Pcs
    <2>5. CASE ResolveMerge(m)
      <3> DEFINE r == [req[m] EXCEPT !.new = TargetOf(req[m].method, tips[req[m].base]),
                                     !.baseAt = tips[req[m].base], !.headAt = head]
      <3>1. IsRequest(r)
        BY DEF Shape, Requests, IsRequest, Fields
      <3>2. req' = [req EXCEPT ![m] = r]
        BY <2>5 DEF ResolveMerge
      <3> QED
        BY <1>1, <1>2, <2>5, <3>1, <3>2 DEF ResolveMerge, Requests, Pcs
    <2>6. CASE TakeSnapshot(m)
      <3> DEFINE r == [req[m] EXCEPT !.etag = etag]
      <3>1. IsRequest(r)
        BY DEF Shape, Requests, IsRequest, Fields
      <3>2. CASE BaseUnmoved(m)
        <4>1. req' = [req EXCEPT ![m] = r] /\ Goto(m, "cas")
          BY <2>6, <3>2 DEF TakeSnapshot
        <4> QED
          BY <1>1, <1>2, <3>1, <4>1 DEF Requests, Pcs
      <3>3. CASE ~BaseUnmoved(m)
        BY <1>3, <2>6, <3>3 DEF TakeSnapshot, Requests
      <3> QED
        BY <3>2, <3>3
    <2>7. CASE Install(m) \/ MarkRow(m)
      BY <1>1, <2>7 DEF Install, MarkRow, Shape, Requests, Pcs
    <2>8. CASE MergeRefused(m) \/ InstallRefused(m) \/ MarkIssue(m) \/ Die(m)
      BY <1>3, <2>8 DEF MergeRefused, InstallRefused, MarkIssue, Die, Requests
    <2> QED
      BY <1>4, <2>1, <2>2, <2>3, <2>4, <2>5, <2>6, <2>7, <2>8 DEF MergeRequest
  <1>5. ASSUME Others \/ UNCHANGED vars PROVE Requests'
    <2>1. pc' = pc /\ req' = req
      BY <1>5 DEF Others, PushHead, DeleteHead, PushBase, DeleteBase, BeginReview, InsertReview, WriteStatus,
         BeginEdit, FindNewBase, UpdateBase, Close, Reopen, vars
    <2> QED
      BY <2>1 DEF Shape, Requests
  <1>6. Requests'
    <2> QED
      BY <1>4, <1>5 DEF Next
  <1> QED
    BY <1>6, StoresKept DEF Shape

-----------------------------------------------------------------------------
(* What a base has been pushed stays, but for what is rewritten or deleted.   *)

\* What was in the history of a base, and what of it was taken out.
Kept(b) == Reach(b) \cup lost[b]

\* The tips are sound, and what a request is about to put on its base goes on from the base it
\* was resolved on, which is the base as long as nothing was put.
TipsAreSound == Sound(head) /\ \A b \in Bases : Sound(tips[b])

Grows(m) ==
  /\ pc[m] \in {"snapshot", "cas"} => /\ Sound(req[m].new) /\ req[m].new # None
                                      /\ req[m].baseAt \in History(req[m].new)
  /\ pc[m] = "cas" => req[m].etag \in Nat /\ req[m].etag <= etag
  /\ pc[m] = "cas" /\ req[m].etag = etag => tips[req[m].base] = req[m].baseAt

GrowthInv == Shape /\ TipsAreSound /\ \A m \in Mergers : Grows(m)

\* A commit is none that is missing.
LEMMA CommitsAreSome ==
  /\ Root # None /\ \A n, on : Work(n, on) # None
  /\ \A kind \in MethodNames : \A on, from : Made(kind, on, from) # None
  BY DEF Root, Work, Made, None, MethodNames

LEMMA MissingIsSound == Sound(None) /\ Sound(Root)
  BY DEF Sound, None, Root

\* What a merge is to put on the base is sound and goes on from the base.
LEMMA TargetGoesOn ==
  ASSUME NEW base, Sound(base), Sound(head), head # None, NEW method \in MethodNames
  PROVE  /\ Sound(TargetOf(method, base)) /\ base \in History(TargetOf(method, base))
         /\ TargetOf(method, base) # None
         /\ method = "merge" => head \in History(TargetOf(method, base))
  <1>1. \A kind \in MethodNames :
           /\ Sound(Made(kind, base, head)) /\ base \in History(Made(kind, base, head))
           /\ Made(kind, base, head) # None
           /\ kind = "merge" => head \in History(Made(kind, base, head))
    BY MadeIsSound, CommitsAreSome DEF History
  <1>2. isAncestor(base, head) => base \in History(head)
    BY DEF isAncestor
  <1>3. head \in History(head)
    BY DEF History
  <1>4. TargetOf(method, base) \in {head, Made("merge", base, head), Made("rebase", base, head), Made(method, base, head)}
    BY DEF TargetOf
  <1>5. TargetOf(method, base) = head =>
          isAncestor(base, head) \/ head \in {Made("merge", base, head), Made("rebase", base, head), Made(method, base, head)}
    BY DEF TargetOf
  <1>6. method = "merge" => TargetOf(method, base) \in {head, Made("merge", base, head)}
    BY DEF TargetOf
  <1>7. "merge" \in MethodNames /\ "rebase" \in MethodNames
    BY DEF MethodNames
  <1> QED
    BY <1>1, <1>2, <1>3, <1>4, <1>5, <1>6, <1>7

\* How a request comes to be where it is about to write.
LEMMA Coming ==
  ASSUME Shape, [Next]_vars, NEW m \in Mergers
  PROVE  /\ pc'[m] = "snapshot" => (pc[m] = "snapshot" /\ req'[m] = req[m]) \/ ResolveMerge(m)
         /\ pc'[m] = "cas" => (pc[m] = "cas" /\ req'[m] = req[m]) \/ (TakeSnapshot(m) /\ BaseUnmoved(m))
         /\ pc'[m] = "markRow" => (pc[m] = "markRow" /\ req'[m] = req[m]) \/ AlreadyMerged(m) \/ Install(m)
         /\ pc'[m] = "resolve" => (pc[m] = "resolve" /\ req'[m] = req[m]) \/ EvaluateChecks(m)
         /\ pc'[m] = "checks" => (pc[m] = "checks" /\ req'[m] = req[m]) \/ EvaluateReviews(m)
         /\ pc'[m] = "reviews" => (pc[m] = "reviews" /\ req'[m] = req[m]) \/ ComputeGitState(m)
  <1>1. CASE pc'[m] = pc[m] /\ req'[m] = req[m]
    BY <1>1
  <1>2. CASE MergeRequest(m)
    BY <1>2 DEF Shape, Requests, MergeRequest, BeginMerge, ComputeGitState, EvaluateReviews, EvaluateChecks, MergeRefused,
       AlreadyMerged, ResolveMerge, TakeSnapshot, Install, InstallRefused, MarkRow, MarkIssue, Die, Ended, Goto
  <1>3. CASE Others \/ UNCHANGED vars
    BY <1>3 DEF Others, PushHead, DeleteHead, PushBase, DeleteBase, BeginReview, InsertReview, WriteStatus, BeginEdit,
       FindNewBase, UpdateBase, Close, Reopen, vars
  <1> QED
    BY <1>1, <1>2, <1>3, OthersRest DEF Next

\* What a request holds once it has resolved the branches.
LEMMA Resolved ==
  ASSUME Shape, NEW m \in Mergers, ResolveMerge(m)
  PROVE  /\ req'[m].new = TargetOf(req[m].method, tips[req[m].base]) /\ req'[m].baseAt = tips[req[m].base]
         /\ req'[m].headAt = head /\ req'[m].head = req[m].head
         /\ req'[m].method = req[m].method /\ req'[m].base = req[m].base
         /\ req[m].method \in MethodNames /\ req[m].base \in Bases
         /\ head # None /\ pc[m] = "resolve" /\ moved' = moved
  <1> PICK t : t = TargetOf(req[m].method, tips[req[m].base])
    OBVIOUS
  <1>1. /\ req' = [req EXCEPT ![m].new = t, ![m].baseAt = tips[req[m].base], ![m].headAt = head]
        /\ head # None /\ pc[m] = "resolve" /\ moved' = moved
    BY DEF ResolveMerge, refVars
  <1>2. IsRequest(req[m]) /\ req = [n \in Mergers |-> req[n]]
    BY DEF Shape, Requests
  <1> QED
    BY <1>1, <1>2 DEF IsRequest, Fields

\* Someone else moves b, and what b loses by it is written down.
Pushed(b) ==
  /\ tips'[b] = None \/ \E on \in {Root, tips[b]} : tips'[b] = Work(work + 1, on)
  /\ lost'[b] = lost[b] \cup (Reach(b) \ Reach(b)')

\* Who moves a base, and that every put counts.
LEMMA BaseMoves ==
  ASSUME Shape, [Next]_vars, NEW b \in Bases
  PROVE  \/ tips'[b] = tips[b] /\ lost'[b] = lost[b] /\ etag' \in {etag, etag + 1}
         \/ Pushed(b) /\ etag' = etag + 1
         \/ /\ etag' = etag + 1 /\ lost'[b] = lost[b]
            /\ \E m \in Mergers : Install(m) /\ req[m].base = b /\ tips'[b] = req[m].new
  <1>1. ASSUME NEW m \in Mergers, Install(m)
        PROVE  /\ etag' = etag + 1 /\ lost'[b] = lost[b]
               /\ IF req[m].base = b THEN tips'[b] = req[m].new ELSE tips'[b] = tips[b]
    BY <1>1 DEF Install, Shape, Stores
  <1>2. ASSUME NEW m \in Mergers, MergeRequest(m), ~Install(m) PROVE tips' = tips /\ etag' = etag /\ lost' = lost
    BY <1>2 DEF MergeRequest, BeginMerge, ComputeGitState, EvaluateReviews, EvaluateChecks, MergeRefused,
       AlreadyMerged, ResolveMerge, TakeSnapshot, InstallRefused, MarkRow, MarkIssue, Die, refVars
  <1>3. ASSUME NEW c \in Bases, PushBase(c)
        PROVE  /\ etag' = etag + 1
               /\ IF c = b THEN Pushed(b) ELSE tips'[b] = tips[b] /\ lost'[b] = lost[b]
    <2> PICK on \in {Root} \cup (IF tips[c] = None THEN {} ELSE {tips[c]}) : tips' = [tips EXCEPT ![c] = Work(work + 1, on)]
      BY <1>3 DEF PushBase
    <2>1. lost' = [lost EXCEPT ![c] = @ \cup (Reach(c) \ Reach(c)')] /\ etag' = etag + 1
      BY <1>3 DEF PushBase
    <2>2. on \in {Root, tips[c]}
      OBVIOUS
    <2>3. CASE c = b
      BY <2>1, <2>2, <2>3 DEF Shape, Stores, Pushed
    <2>4. CASE c # b
      BY <2>1, <2>4 DEF Shape, Stores
    <2> QED
      BY <2>1, <2>3, <2>4
  <1>4. ASSUME NEW c \in Bases, DeleteBase(c)
        PROVE  /\ etag' = etag + 1
               /\ IF c = b THEN Pushed(b) ELSE tips'[b] = tips[b] /\ lost'[b] = lost[b]
    <2>1. /\ lost' = [lost EXCEPT ![c] = @ \cup Reach(c)] /\ etag' = etag + 1
          /\ tips' = [tips EXCEPT ![c] = None]
      BY <1>4 DEF DeleteBase
    <2>2. CASE c = b
      <3>1. tips'[b] = None /\ lost'[b] = lost[b] \cup Reach(b)
        BY <2>1, <2>2 DEF Shape, Stores
      <3>2. Reach(b)' = {}
        BY <3>1 DEF Reach
      <3> QED
        BY <2>1, <2>2, <3>1, <3>2 DEF Pushed
    <2>3. CASE c # b
      BY <2>1, <2>3 DEF Shape, Stores
    <2> QED
      BY <2>1, <2>2, <2>3
  <1>5. ASSUME Others \/ UNCHANGED vars, \A c \in Bases : ~PushBase(c) /\ ~DeleteBase(c)
        PROVE  tips' = tips /\ lost' = lost /\ etag' \in {etag, etag + 1}
    BY <1>5 DEF Others, PushHead, DeleteHead, BeginReview, InsertReview, WriteStatus, BeginEdit, FindNewBase,
       UpdateBase, Close, Reopen, refVars, vars
  <1>6. CASE \E m \in Mergers : MergeRequest(m)
    BY <1>1, <1>2, <1>6
  <1>7. CASE Others \/ UNCHANGED vars
    BY <1>3, <1>4, <1>5, <1>7
  <1> QED
    BY <1>6, <1>7 DEF Next

\* Who moves the head.
LEMMA HeadPushed ==
  ASSUME Shape, [Next]_vars
  PROVE  \/ head' \in {head, None}
         \/ \E on : /\ head' = Work(work + 1, on)
                    /\ on \in {Root, head} \/ \E b \in Bases : on = Made("merge", head, tips[b])
  <1>1. ASSUME NEW m \in Mergers, MergeRequest(m) PROVE head' = head
    BY <1>1 DEF MergeRequest, BeginMerge, ComputeGitState, EvaluateReviews, EvaluateChecks, MergeRefused,
       AlreadyMerged, ResolveMerge, TakeSnapshot, Install, InstallRefused, MarkRow, MarkIssue, Die, refVars
  <1>2. CASE PushHead
    <2>1. PICK on \in {Root} \cup (IF head = None THEN {}
                               ELSE {head} \cup {Made("merge", head, tips[b]) : b \in {c \in Bases : tips[c] # None}}) :
             head' = Work(work + 1, on)
      BY <1>2 DEF PushHead
    <2>2. on \in {Root, head} \/ \E b \in Bases : on = Made("merge", head, tips[b])
      OBVIOUS
    <2> QED
      BY <2>1, <2>2
  <1>3. ASSUME Others \/ UNCHANGED vars, ~PushHead PROVE head' \in {head, None}
    BY <1>3 DEF Others, DeleteHead, PushBase, DeleteBase, BeginReview, InsertReview, WriteStatus, BeginEdit,
       FindNewBase, UpdateBase, Close, Reopen, refVars, vars
  <1> QED
    BY <1>1, <1>2, <1>3 DEF Next

\* What was in the history of a base is still, or was taken out by whom it was rewritten or deleted;
\* and what was taken out stays written down.
LEMMA GrowthKept ==
  ASSUME GrowthInv, [Next]_vars
  PROVE  GrowthInv' /\ \A b \in Bases : lost[b] \subseteq lost'[b] /\ Kept(b) \subseteq Kept(b)'
  <1>1. Shape /\ Shape' /\ etag \in Nat
    BY ShapeKept DEF GrowthInv, Shape, Stores
  <1>2. ASSUME NEW b \in Bases
        PROVE  Sound(tips'[b]) /\ lost[b] \subseteq lost'[b] /\ Kept(b) \subseteq Kept(b)'
    <2>1. CASE tips'[b] = tips[b] /\ lost'[b] = lost[b]
      <3>1. Reach(b)' = Reach(b)
        BY <2>1 DEF Reach
      <3> QED
        BY <2>1, <3>1 DEF GrowthInv, TipsAreSound, Kept
    <2>2. CASE Pushed(b)
      <3>1. Sound(tips'[b])
        BY <2>2, WorkIsSound, MissingIsSound DEF Pushed, GrowthInv, TipsAreSound
      <3> QED
        BY <2>2, <3>1 DEF Pushed, Kept
    <2>3. ASSUME NEW m \in Mergers, Install(m), req[m].base = b, tips'[b] = req[m].new, lost'[b] = lost[b]
          PROVE  Sound(tips'[b]) /\ lost[b] \subseteq lost'[b] /\ Kept(b) \subseteq Kept(b)'
      <3>1. /\ Sound(req[m].new) /\ req[m].new # None /\ req[m].baseAt \in History(req[m].new)
            /\ tips[b] = req[m].baseAt
        BY <2>3 DEF Install, GrowthInv, Grows
      <3>2. History(tips[b]) \subseteq History(tips'[b])
        BY <2>3, <3>1, HistoriesNest
      <3>3. Reach(b) \subseteq History(tips[b]) /\ Reach(b)' = History(tips'[b])
        BY <2>3, <3>1 DEF Reach
      <3> QED
        BY <2>3, <3>1, <3>2, <3>3 DEF Kept
    <2> QED
      BY <1>1, <2>1, <2>2, <2>3, BaseMoves
  <1>3. Sound(head')
    <2>1. Sound(head) /\ \A b \in Bases : Sound(tips[b])
      BY DEF GrowthInv, TipsAreSound
    <2>2. CASE head' \in {head, None}
      BY <2>1, <2>2, MissingIsSound
    <2>3. ASSUME NEW on, head' = Work(work + 1, on),
                 on \in {Root, head} \/ \E b \in Bases : on = Made("merge", head, tips[b])
          PROVE  Sound(head')
      <3>1. Sound(on)
        BY <2>1, <2>3, MadeIsSound, MissingIsSound
      <3> QED
        BY <2>3, <3>1, WorkIsSound
    <2>4. \/ head' \in {head, None}
          \/ \E on : /\ head' = Work(work + 1, on)
                     /\ on \in {Root, head} \/ \E b \in Bases : on = Made("merge", head, tips[b])
      BY <1>1, HeadPushed
    <2> QED
      BY <2>2, <2>3, <2>4
  <1>4. ASSUME NEW m \in Mergers PROVE Grows(m)'
    <2> DEFINE at == req[m].base
    <2>0. at \in Bases /\ req[m].method \in MethodNames
      BY <1>1 DEF Shape, Requests, IsRequest
    <2>1. ASSUME pc'[m] \in {"snapshot", "cas"}
          PROVE  Sound(req'[m].new) /\ req'[m].new # None /\ req'[m].baseAt \in History(req'[m].new)
      <3>1. CASE pc[m] \in {"snapshot", "cas"} /\ req'[m] = req[m]
        BY <3>1 DEF GrowthInv, Grows
      <3>2. CASE ResolveMerge(m)
        <4>1. req'[m].new = TargetOf(req[m].method, tips[at]) /\ req'[m].baseAt = tips[at] /\ head # None
          BY <1>1, <3>2, Resolved
        <4>2. Sound(head) /\ Sound(tips[at])
          BY <2>0 DEF GrowthInv, TipsAreSound
        <4> QED
          BY <2>0, <4>1, <4>2, TargetGoesOn
      <3>3. CASE TakeSnapshot(m) /\ BaseUnmoved(m)
        <4>1. req'[m].new = req[m].new /\ req'[m].baseAt = req[m].baseAt /\ pc[m] = "snapshot"
          BY <1>1, <3>3 DEF TakeSnapshot, Shape, Requests, IsRequest, Fields
        <4> QED
          BY <4>1 DEF GrowthInv, Grows
      <3> QED
        BY <1>1, <2>1, <3>1, <3>2, <3>3, Coming
    <2>2. ASSUME pc'[m] = "cas"
          PROVE  /\ req'[m].etag \in Nat /\ req'[m].etag <= etag'
                 /\ req'[m].etag = etag' => tips'[req'[m].base] = req'[m].baseAt
      <3>1. CASE pc[m] = "cas" /\ req'[m] = req[m]
        <4>1. req[m].etag \in Nat /\ req[m].etag <= etag /\ (req[m].etag = etag => tips[at] = req[m].baseAt)
          BY <3>1 DEF GrowthInv, Grows
        <4>2. etag' \in {etag, etag + 1} /\ (etag' = etag => tips'[at] = tips[at])
          BY <1>1, <2>0, BaseMoves
        <4> QED
          BY <1>1, <3>1, <4>1, <4>2
      <3>2. CASE TakeSnapshot(m) /\ BaseUnmoved(m)
        <4>1. /\ req'[m].etag = etag /\ req'[m].baseAt = req[m].baseAt /\ req'[m].base = at
              /\ tips' = tips /\ etag' = etag
          BY <1>1, <3>2 DEF TakeSnapshot, Shape, Requests, IsRequest, Fields, refVars
        <4> QED
          BY <1>1, <3>2, <4>1 DEF BaseUnmoved
      <3> QED
        BY <1>1, <2>2, <3>1, <3>2, Coming
    <2> QED
      BY <2>1, <2>2 DEF Grows
  <1> QED
    BY <1>1, <1>2, <1>3, <1>4 DEF GrowthInv, TipsAreSound

LEMMA GrowthInvariance == Spec => []GrowthInv
  <1>1. Init => GrowthInv
    <2> SUFFICES ASSUME Init PROVE GrowthInv
      OBVIOUS
    <2>1. TipsAreSound
      BY MissingIsSound, WorkIsSound DEF Init, TipsAreSound
    <2>2. Shape
      BY IdleIsRequest, PullsAssumption DEF Init, Shape, Requests, Stores, Pcs, NoEdit
    <2> QED
      BY <2>1, <2>2 DEF GrowthInv, Grows, Init
  <1> QED
    BY <1>1, GrowthKept, PTL DEF Spec

\* Whatever races the merge, and whoever gives the pull request another base meanwhile, the commit
\* that a merged pull request names is in the history of the branch it was merged into, and nothing
\* but a rewrite or a deletion of that branch takes it out: the row is written after the put, and
\* merges only ever add to a base.
THEOREM MergedStaysInBase == Spec => []MergedIsInBase
  <1> DEFINE Marks == \A m \in Mergers : pc[m] = "markRow" => \A b : b = req[m].base => req[m].new \in Kept(b)
             Marked == row.merged => row.into \in Bases /\ \A b : b = row.into => row.mergeCommit \in Kept(b)
  <1>1. Init => Marked /\ Marks
    BY DEF Init
  <1>2. GrowthInv /\ Marked /\ Marks /\ [Next]_vars => Marked' /\ Marks'
    <2> SUFFICES ASSUME GrowthInv, Marked, Marks, [Next]_vars PROVE Marked' /\ Marks'
      OBVIOUS
    <2>1. Shape /\ \A b \in Bases : Kept(b) \subseteq Kept(b)'
      BY GrowthKept DEF GrowthInv
    <2>2. Marks'
      <3> SUFFICES ASSUME NEW m \in Mergers, pc'[m] = "markRow", NEW at, at = req'[m].base
                   PROVE  req'[m].new \in Kept(at)'
        OBVIOUS
      <3>1. req[m].base \in Bases
        BY <2>1 DEF Shape, Requests, IsRequest
      <3>2. CASE pc[m] = "markRow" /\ req'[m] = req[m]
        <4>1. req[m].new \in Kept(at) /\ at \in Bases
          BY <3>1, <3>2
        <4> QED
          BY <2>1, <3>2, <4>1
      <3>3. CASE AlreadyMerged(m)
        <4>1. req'[m].new = tips[at] /\ req[m].base = at /\ tips[at] # None
          BY <2>1, <3>3 DEF AlreadyMerged, Shape, Requests, IsRequest, Fields
        <4>2. tips[at] \in Kept(at)
          BY <4>1 DEF Kept, Reach, History
        <4> QED
          BY <2>1, <3>1, <4>1, <4>2
      <3>4. CASE Install(m)
        <4>1. req' = req /\ tips' = [tips EXCEPT ![at] = req[m].new] /\ req[m].new # None /\ at \in Bases
          BY <3>1, <3>4 DEF Install, GrowthInv, Grows
        <4>2. tips'[at] = req[m].new
          BY <2>1, <4>1 DEF Shape, Stores
        <4> QED
          BY <4>1, <4>2 DEF Kept, Reach, History
      <3> QED
        BY <2>1, <3>2, <3>3, <3>4, Coming
    <2>3. ASSUME row'.merged = row.merged, row'.mergeCommit = row.mergeCommit, row'.into = row.into PROVE Marked'
      BY <2>1, <2>3
    <2>4. ASSUME NEW m \in Mergers, MarkRow(m) PROVE Marked'
      <3>1. row'.mergeCommit = req[m].new /\ row'.into = req[m].base /\ pc[m] = "markRow" /\ req[m].base \in Bases
        BY <2>1, <2>4 DEF MarkRow, Shape, Requests, IsRequest
      <3> QED
        BY <2>1, <3>1
    <2>5. \/ row'.merged = row.merged /\ row'.mergeCommit = row.mergeCommit /\ row'.into = row.into
          \/ \E m \in Mergers : MarkRow(m)
      <3>1. CASE UpdateBase
        BY <2>1, <3>1 DEF UpdateBase, Shape, Stores
      <3>2. CASE ~UpdateBase
        BY <3>2 DEF Next, MergeRequest, BeginMerge, ComputeGitState, EvaluateReviews, EvaluateChecks, MergeRefused,
           AlreadyMerged, ResolveMerge, TakeSnapshot, Install, InstallRefused, MarkIssue, Die, Others, PushHead,
           DeleteHead, PushBase, DeleteBase, BeginReview, InsertReview, WriteStatus, BeginEdit, FindNewBase, Close,
           Reopen, rowVars, vars
      <3> QED
        BY <3>1, <3>2
    <2> HIDE DEF Marks, Marked
    <2> QED
      BY <2>2, <2>3, <2>4, <2>5
  <1>3. Marked => MergedIsInBase
    BY DEF Kept, MergedIsInBase, Reach
  <1> QED
    BY <1>1, <1>2, <1>3, GrowthInvariance, PTL DEF Spec

-----------------------------------------------------------------------------
(* Nothing is merged twice.                                                  *)

IsList(s) == \E S : s \in Seq(S)

LEMMA EmptyIsList == IsList(<<>>)
  BY DEF IsList

\* A list that is added to goes on as it was.
LEMMA Added ==
  ASSUME NEW s, IsList(s), NEW e
  PROVE  /\ IsList(Append(s, e))
         /\ Len(s) \in Nat /\ DOMAIN s = 1..Len(s)
         /\ Len(Append(s, e)) = Len(s) + 1 /\ DOMAIN Append(s, e) = 1..(Len(s) + 1)
         /\ \A i \in 1..Len(s) : Append(s, e)[i] = s[i]
         /\ Append(s, e)[Len(s) + 1] = e
  <1>1. PICK S : s \in Seq(S)
    BY DEF IsList
  <1>2. s \in Seq(S \cup {e})
    BY <1>1
  <1> QED
    BY <1>2 DEF IsList

\* A request that is to put a merge on the base found its head missing there, and brings it.
Brings(m) ==
  pc[m] \in {"snapshot", "cas"} /\ req[m].method = "merge" =>
    req[m].headAt \in History(req[m].new) \ History(req[m].baseAt)

\* What a merge put is in the base still, or was taken out by a rewrite or a deletion.
PutIsThere ==
  \A i \in DOMAIN installs :
     /\ installs[i].base \in Bases
     /\ installs[i].method = "merge" => \A b : b = installs[i].base => installs[i].head \in Kept(b)

OnceInv == IsList(installs) /\ PutIsThere /\ (\A m \in Mergers : Brings(m)) /\ MergedOnce

\* Who merges: a request that found the base as it was.
LEMMA WhoInstalls ==
  ASSUME Shape, [Next]_vars
  PROVE  installs' = installs \/ \E m \in Mergers : Install(m)
  BY DEF Next, MergeRequest, BeginMerge, ComputeGitState, EvaluateReviews, EvaluateChecks, MergeRefused,
     AlreadyMerged, ResolveMerge, TakeSnapshot, InstallRefused, MarkRow, MarkIssue, Die, Others, PushHead,
     DeleteHead, PushBase, DeleteBase, BeginReview, InsertReview, WriteStatus, BeginEdit, FindNewBase, UpdateBase,
     Close, Reopen, vars

LEMMA OnceKept ==
  ASSUME GrowthInv, OnceInv, [Next]_vars
  PROVE  OnceInv'
  <1>1. Shape /\ TipsAreSound /\ \A b \in Bases : lost[b] \subseteq lost'[b] /\ Kept(b) \subseteq Kept(b)'
    BY GrowthKept DEF GrowthInv
  <1>2. ASSUME NEW m \in Mergers PROVE Brings(m)'
    <2> SUFFICES ASSUME pc'[m] \in {"snapshot", "cas"}, req'[m].method = "merge"
                 PROVE  req'[m].headAt \in History(req'[m].new) /\ req'[m].headAt \notin History(req'[m].baseAt)
      BY DEF Brings, History
    <2> DEFINE at == req[m].base
    <2>1. CASE pc[m] \in {"snapshot", "cas"} /\ req'[m] = req[m]
      BY <2>1 DEF OnceInv, Brings
    <2>2. CASE ResolveMerge(m)
      <3>1. /\ req'[m].new = TargetOf(req[m].method, tips[at]) /\ req'[m].baseAt = tips[at] /\ req'[m].headAt = head
            /\ req'[m].method = req[m].method /\ head # None /\ at \in Bases
        BY <1>1, <2>2, Resolved
      <3>2. head \notin History(tips[at])
        BY <2>2, <3>1 DEF ResolveMerge, isAncestor
      <3>3. "merge" \in MethodNames /\ Sound(head) /\ Sound(tips[at])
        BY <1>1, <3>1 DEF TipsAreSound, MethodNames
      <3>4. head \in History(TargetOf("merge", tips[at]))
        BY <3>1, <3>3, TargetGoesOn
      <3> QED
        BY <3>1, <3>2, <3>4
    <2>3. CASE TakeSnapshot(m) /\ BaseUnmoved(m)
      <3>1. /\ req'[m].new = req[m].new /\ req'[m].baseAt = req[m].baseAt /\ req'[m].headAt = req[m].headAt
            /\ req'[m].method = req[m].method /\ pc[m] = "snapshot"
        BY <1>1, <2>3 DEF TakeSnapshot, Shape, Requests, IsRequest, Fields
      <3> QED
        BY <3>1 DEF OnceInv, Brings
    <2> QED
      BY <1>1, <2>1, <2>2, <2>3, Coming
  <1>3. ASSUME installs' = installs PROVE IsList(installs)' /\ PutIsThere' /\ MergedOnce'
    <2>2. PutIsThere'
      BY <1>1, <1>3 DEF OnceInv, PutIsThere
    <2>3. MergedOnce'
      BY <1>1, <1>3 DEF OnceInv, PutIsThere, MergedOnce
    <2> QED
      BY <1>3, <2>2, <2>3 DEF OnceInv
  <1>4. ASSUME NEW m \in Mergers, Install(m) PROVE IsList(installs)' /\ PutIsThere' /\ MergedOnce'
    <2> PICK at : at = req[m].base
      OBVIOUS
    <2> DEFINE put == [base |-> req[m].base, method |-> req[m].method, head |-> req[m].headAt,
                       evaluated |-> req[m].head, moved |-> m \in moved]
               n == Len(installs)
    <2>1. /\ installs' = Append(installs, put) /\ tips' = [tips EXCEPT ![at] = req[m].new]
          /\ tips[at] = req[m].baseAt /\ pc[m] = "cas" /\ at \in Bases /\ req[m].new # None
      BY <1>1, <1>4 DEF Install, GrowthInv, Grows, Shape, Requests, IsRequest
    <2>2. /\ IsList(installs') /\ n \in Nat /\ DOMAIN installs = 1..n /\ DOMAIN installs' = 1..(n + 1)
          /\ \A i \in 1..n : installs'[i] = installs[i]
          /\ installs'[n + 1] = put
      BY <2>1, Added DEF OnceInv
    <2>3. put.base = at /\ (put.method = "merge" => put.head \in Kept(at)' /\ put.head \notin Reach(at))
      <3>1. put.method = "merge" => put.head \in History(req[m].new) /\ put.head \notin History(req[m].baseAt)
        BY <2>1 DEF OnceInv, Brings
      <3>2. Reach(at) \subseteq History(req[m].baseAt)
        BY <2>1 DEF Reach
      <3>3. tips'[at] = req[m].new
        BY <1>1, <2>1 DEF Shape, Stores
      <3>4. History(req[m].new) \subseteq Kept(at)'
        BY <2>1, <3>3 DEF Kept, Reach
      <3> QED
        BY <3>1, <3>2, <3>4
    <2>4. \A i \in 1..n :
             /\ installs[i].base \in Bases
             /\ installs[i].method = "merge" => installs[i].head \in Reach(installs[i].base) \cup lost[installs[i].base]
      BY <2>2 DEF OnceInv, PutIsThere, Kept
    <2> HIDE DEF put, n
    <2>6. PutIsThere'
      <3>1. ASSUME NEW i \in 1..n
            PROVE  /\ installs'[i].base \in Bases
                   /\ installs'[i].method = "merge" => \A b : b = installs'[i].base => installs'[i].head \in Kept(b)'
        BY <1>1, <2>2, <2>4 DEF Kept
      <3>2. /\ installs'[n + 1].base \in Bases
            /\ installs'[n + 1].method = "merge" =>
                 \A b : b = installs'[n + 1].base => installs'[n + 1].head \in Kept(b)'
        BY <2>1, <2>2, <2>3
      <3>3. \A i \in 1..(n + 1) : i \in 1..n \/ i = n + 1
        BY <2>2
      <3> QED
        BY <2>2, <3>1, <3>2, <3>3 DEF PutIsThere
    <2> DEFINE Twice(i, j) == /\ installs'[i].method = "merge" /\ installs'[j].method = "merge"
                              /\ installs'[i].base = installs'[j].base /\ installs'[i].head = installs'[j].head
               Gone(i) == installs'[i].head \in lost'[installs'[i].base]
    <2>7. \A i, j \in 1..(n + 1) : Twice(i, j) => i = j \/ Gone(i)
      <3> TAKE i, j \in 1..(n + 1)
      <3>1. CASE i \in 1..n /\ j \in 1..n
        <4>1. Twice(i, j) => i = j \/ installs[i].head \in lost[installs[i].base]
          BY <2>2, <3>1 DEF OnceInv, MergedOnce
        <4> QED
          BY <1>1, <2>2, <2>4, <3>1, <4>1
      <3>2. CASE i = n + 1 /\ j \in 1..n
        <4>1. Twice(i, j) => put.head \in lost[at]
          BY <2>2, <2>3, <2>4, <3>2
        <4> QED
          BY <1>1, <2>1, <2>2, <2>3, <3>2, <4>1
      <3>3. CASE j = n + 1 /\ i \in 1..n
        <4>1. Twice(i, j) => put.head \in lost[at]
          BY <2>2, <2>3, <2>4, <3>3
        <4> QED
          BY <1>1, <2>1, <2>2, <2>3, <3>3, <4>1
      <3> QED
        BY <2>2, <3>1, <3>2, <3>3
    <2> QED
      BY <2>2, <2>6, <2>7 DEF MergedOnce
  <1> QED
    BY <1>1, <1>2, <1>3, <1>4, WhoInstalls DEF OnceInv

\* Two merge requests, or a retry, never merge one head into one base twice, unless a rewrite or a
\* deletion took the first merge away: a request that merges found the head missing in the base it
\* puts the merge on, and merges only ever add to a base.
THEOREM MergedOnlyOnce == Spec => []MergedOnce
  <1>1. Init => OnceInv
    <2> SUFFICES ASSUME Init PROVE OnceInv
      OBVIOUS
    <2>1. installs = <<>> /\ \A m \in Mergers : pc[m] = "idle"
      BY DEF Init
    <2> QED
      BY <2>1, EmptyIsList DEF OnceInv, PutIsThere, Brings, MergedOnce
  <1>2. OnceInv => MergedOnce
    BY DEF OnceInv
  <1> QED
    BY <1>1, <1>2, GrowthInvariance, OnceKept, PTL DEF Spec

-----------------------------------------------------------------------------
(* What the evaluation answers, read against its reference.                  *)

\* Reviews are rows of reviewers other than the author, who approved or asked for changes.
ReviewRow(r) == r.by \in Reviewers \ {Author} /\ r.state \in {"approved", "changes_requested"}

\* What was said and what the rules are.
Papers ==
  /\ IsList(reviews) /\ \A i \in DOMAIN reviews : ReviewRow(reviews[i])
  /\ writing = NoReview \/ ReviewRow(writing)
  /\ IsList(statuses)
  /\ rules \in Rules

ReviewsCleared(b, h) == \A j \in DOMAIN rules[b] : rules[b][j].enforceAdmins => WasApproved(rules[b][j], h)
ChecksCleared(b, h) == \A j \in DOMAIN rules[b] : rules[b][j].enforceAdmins => WasPassing(rules[b][j], h)

\* A function takes a finite set to a finite set.
LEMMA ImagesAreFinite ==
  ASSUME NEW S, IsFiniteSet(S), NEW f
  PROVE  IsFiniteSet({f[i] : i \in S})
  <1> DEFINE T == {f[i] : i \in S}
             g == [i \in S |-> f[i]]
  <1>1. g \in Surjection(S, T)
    <2>1. g \in [S -> T]
      OBVIOUS
    <2>2. \A y \in T : \E i \in S : g[i] = y
      OBVIOUS
    <2> QED
      BY <2>1, <2>2, Zenon DEF Surjection
  <1> HIDE DEF g, T
  <1>2. IsFiniteSet(T)
    BY <1>1, FS_Surjection, Zenon
  <1> QED
    BY <1>2 DEF T

LEMMA ListIsNumbered ==
  ASSUME NEW s, IsList(s)
  PROVE  Len(s) \in Nat /\ DOMAIN s = 1..Len(s)
  BY DEF IsList

LEMMA RulesAreRows ==
  ASSUME rules \in Rules, NEW b \in Bases
  PROVE  DOMAIN rules[b] \subseteq Nat /\ \A j \in DOMAIN rules[b] : rules[b][j] \in RuleRows
  <1>1. rules[b] \in Seq(RuleRows)
    BY PullsAssumption
  <1> QED
    BY <1>1

\* The last of a path's lines in CODEOWNERS names an owner who approved.
LEMMA OwnersApproved ==
  ASSUME NEW approvers \in SUBSET Reviewers, evaluateCodeOwners(OwnersFile, Changed, approvers) = "ok"
  PROVE  OwnersFile.status = "read" /\ \A p \in Changed : OwnedBy(p, approvers)
  <1> DEFINE list == OwnersFile.list
             n == Len(list)
  <1>1. /\ OwnersFile.status \in {"read", "missing", "unreadable"}
        /\ n \in Nat /\ DOMAIN list = 1..n
    BY PullsAssumption
  <1>2. OwnersFile.status = "read"
    BY <1>1 DEF evaluateCodeOwners
  <1>3. \A p \in Changed : ownersForPath(list, p) = {} \/ ownersForPath(list, p) \cap approvers # {}
    BY <1>2 DEF evaluateCodeOwners
  <1>4. ASSUME NEW p \in Changed, NEW i \in {j \in DOMAIN list : p \in list[j].matches},
               \A j \in {l \in DOMAIN list : p \in list[l].matches} : j <= i
        PROVE  list[i].owners = ownersForPath(list, p)
    <2> DEFINE hits == {j \in DOMAIN list : p \in list[j].matches}
    <2>1. hits \in SUBSET (0..n) /\ i \in hits
      BY <1>1
    <2>2. Max(hits) \in hits /\ Max(hits) >= i
      BY <1>1, <2>1, MaxOfNumbers
    <2>3. Max(hits) <= i
      BY <1>4, <2>2
    <2>4. Max(hits) = i
      BY <2>1, <2>2, <2>3
    <2> QED
      BY <2>1, <2>4 DEF ownersForPath
  <1> QED
    BY <1>2, <1>3, <1>4 DEF OwnedBy

\* To have been approved is to have been approved when there were k reviews.
LEMMA ApprovedThen ==
  ASSUME NEW rule, NEW h, NEW k \in 0..Len(reviews), NEW approvers,
         approvers = {r \in Reviewers \ {Author} : "approved" \in LastWord(k, rule, h, r)},
         Cardinality(approvers) >= rule.requiredReviews,
         \A r \in Reviewers \ {Author} : "changes_requested" \notin LastWord(k, rule, h, r),
         rule.requireCodeOwner => OwnersFile.status = "read" /\ \A p \in Changed : OwnedBy(p, approvers)
  PROVE  WasApproved(rule, h)
  BY Zenon DEF WasApproved

\* An evaluation that has no objection let every rule that binds administrators speak.
LEMMA ReviewsPermitted ==
  ASSUME Papers, NEW b \in Bases, NEW h, ReviewsPermit(b, h)
  PROVE  ReviewsCleared(b, h)
  <1> SUFFICES ASSUME NEW j \in DOMAIN rules[b], rules[b][j].enforceAdmins PROVE WasApproved(rules[b][j], h)
    BY DEF ReviewsCleared
  <1> DEFINE rule == rules[b][j]
             Verdict(x) == ReviewsVerdict(x, "maintainer", "merger", {}, reviews, h, Author, CodeOwnersVerdict)
             n == Len(reviews)
  <1>1. rule \in RuleRows /\ DOMAIN rules[b] \subseteq Nat
    BY RulesAreRows DEF Papers
  <1>2. n \in Nat /\ DOMAIN reviews = 1..n
    BY ListIsNumbered DEF Papers
  <1>3. Verdict(rule) = "ok"
    <2> DEFINE objections == {i \in DOMAIN rules[b] : ~adminBypass(rules[b][i], "maintainer") /\ Verdict(rules[b][i]) # "ok"}
    <2>1. objections = {} \/ Verdict(rules[b][Min(objections)]) = "ok"
      BY DEF ReviewsPermit, evaluateMergeProtection
    <2>2. objections # {} => Min(objections) \in objections
      BY <1>1, MinOfNumbers
    <2>3. objections = {}
      BY <2>1, <2>2
    <2>4. ~adminBypass(rules[b][j], "maintainer")
      BY DEF adminBypass
    <2> QED
      BY <2>3, <2>4
  <1> DEFINE verdicts == latestReviewVerdicts(reviews, h, rule.dismissStale, Author)
             Approvers(k) == {r \in Reviewers \ {Author} : "approved" \in LastWord(k, rule, h, r)}
  <1>4. \/ rule.requiredReviews = 0 /\ ~rule.requireCodeOwner
        \/ /\ ~verdicts.changesRequested
           /\ ~(Cardinality(verdicts.approvedReviewerIds) < rule.requiredReviews)
           /\ rule.requireCodeOwner => CodeOwnersVerdict[verdicts.approvedReviewerIds] = "ok"
    BY <1>3 DEF ReviewsVerdict
  <1>5. CASE rule.requiredReviews = 0 /\ ~rule.requireCodeOwner
    <2>1. \A r : LastWord(0, rule, h, r) = {}
      BY DEF LastWord
    <2>2. Approvers(0) = {} /\ Cardinality({}) = 0
      BY <2>1, FS_EmptySet
    <2>3. Cardinality(Approvers(0)) >= rule.requiredReviews
      BY <1>5, <2>2
    <2>4. \A r \in Reviewers \ {Author} : "changes_requested" \notin LastWord(0, rule, h, r)
      BY <2>1
    <2>5. 0 \in 0..Len(reviews)
      BY <1>2
    <2> QED
      BY <1>5, <2>3, <2>4, <2>5, ApprovedThen
  <1>6. CASE /\ ~verdicts.changesRequested
             /\ ~(Cardinality(verdicts.approvedReviewerIds) < rule.requiredReviews)
             /\ rule.requireCodeOwner => CodeOwnersVerdict[verdicts.approvedReviewerIds] = "ok"
    <2> DEFINE counted == {i \in 1..n : rule.dismissStale => reviews[i].sha = h}
               latest == {i \in counted : \A l \in counted : reviews[l].by = reviews[i].by => l <= i}
    <2>1. \A i \in 1..n : reviews[i].by \in Reviewers \ {Author} /\ reviews[i].state \in {"approved", "changes_requested"}
      BY <1>2 DEF Papers, ReviewRow
    <2>2. Counted(reviews, h, rule.dismissStale, Author) = counted
      BY <1>2, <2>1, PullsAssumption DEF Counted
    <2>3. /\ verdicts.approvedReviewerIds = {reviews[i].by : i \in {l \in latest : reviews[l].state = "approved"}}
          /\ verdicts.changesRequested = (\E i \in latest : reviews[i].state = "changes_requested")
      BY <2>2 DEF latestReviewVerdicts
    <2>4. \A r : LastWord(n, rule, h, r) = {reviews[i].state : i \in {l \in latest : reviews[l].by = r}}
      BY DEF LastWord
    <2>5. verdicts.approvedReviewerIds = Approvers(n)
      BY <2>1, <2>3, <2>4
    <2>6. \A r \in Reviewers \ {Author} : "changes_requested" \notin LastWord(n, rule, h, r)
      BY <1>6, <2>3, <2>4
    <2>7. Cardinality(Approvers(n)) >= rule.requiredReviews
      <3>1. IsFiniteSet(latest)
        <4>1. IsFiniteSet(1..n)
          BY <1>2, FS_Interval
        <4>2. latest \in SUBSET (1..n)
          OBVIOUS
        <4> QED
          BY <4>1, <4>2, FS_Subset
      <3>2. IsFiniteSet({l \in latest : reviews[l].state = "approved"})
        BY <3>1, FS_Subset
      <3>3. IsFiniteSet(verdicts.approvedReviewerIds)
        <4>1. PICK said : said = {l \in latest : reviews[l].state = "approved"}
          OBVIOUS
        <4>2. PICK by : by = [i \in said |-> reviews[i].by]
          OBVIOUS
        <4>3. IsFiniteSet({by[i] : i \in said})
          BY <3>2, <4>1, <4>2, ImagesAreFinite
        <4> QED
          BY <2>3, <4>1, <4>2, <4>3
      <3>4. Cardinality(verdicts.approvedReviewerIds) \in Nat /\ rule.requiredReviews \in Nat
        BY <1>1, <3>3, FS_CardinalityType DEF RuleRows
      <3> QED
        BY <1>6, <2>5, <3>4
    <2>8. rule.requireCodeOwner => OwnersFile.status = "read" /\ \A p \in Changed : OwnedBy(p, Approvers(n))
      <3>1. Approvers(n) \in SUBSET Reviewers
        OBVIOUS
      <3>2. CodeOwnersVerdict[Approvers(n)] = evaluateCodeOwners(OwnersFile, Changed, Approvers(n))
        BY <3>1 DEF CodeOwnersVerdict
      <3> QED
        BY <1>6, <2>5, <3>1, <3>2, OwnersApproved
    <2>9. n \in 0..Len(reviews)
      BY <1>2
    <2> QED
      BY <2>6, <2>7, <2>8, <2>9, ApprovedThen
  <1> QED
    BY <1>4, <1>5, <1>6

LEMMA ChecksPermitted ==
  ASSUME Papers, NEW b \in Bases, NEW h, NEW behind, ChecksPermit(b, h, behind)
  PROVE  ChecksCleared(b, h)
  <1> SUFFICES ASSUME NEW j \in DOMAIN rules[b], rules[b][j].enforceAdmins PROVE WasPassing(rules[b][j], h)
    BY DEF ChecksCleared
  <1> DEFINE rule == rules[b][j]
             Verdict(x) == ChecksVerdict(x, LatestStatuses(statuses, h), behind)
             n == Len(statuses)
  <1>1. rule \in RuleRows /\ DOMAIN rules[b] \subseteq Nat
    BY RulesAreRows DEF Papers
  <1>2. n \in Nat /\ DOMAIN statuses = 1..n
    BY ListIsNumbered DEF Papers
  <1>3. Verdict(rule) = "ok"
    <2> DEFINE objections == {i \in DOMAIN rules[b] : ~adminBypass(rules[b][i], "maintainer") /\ Verdict(rules[b][i]) # "ok"}
    <2>1. objections = {} \/ Verdict(rules[b][Min(objections)]) = "ok"
      BY DEF ChecksPermit, evaluateMergeProtection
    <2>2. objections # {} => Min(objections) \in objections
      BY <1>1, MinOfNumbers
    <2>3. objections = {}
      BY <2>1, <2>2
    <2>4. ~adminBypass(rules[b][j], "maintainer")
      BY DEF adminBypass
    <2> QED
      BY <2>3, <2>4
  <1>4. unsatisfiedContexts(LatestStatuses(statuses, h), rule.contexts) = {}
    BY <1>3 DEF ChecksVerdict
  <1>5. ASSUME NEW x \in rule.contexts
        PROVE  LET of == {i \in 1..n : statuses[i].sha = h /\ statuses[i].context = x}
               IN \E i \in of : statuses[i].state = "success" /\ \A l \in of : l <= i
    <2> DEFINE of == {i \in 1..n : statuses[i].sha = h /\ statuses[i].context = x}
    <2>1. x \in Contexts /\ LatestStatuses(statuses, h)[x] = "success"
      BY <1>1, <1>4 DEF RuleRows, unsatisfiedContexts
    <2>2. LatestStatuses(statuses, h)[x] = IF of = {} THEN "none" ELSE statuses[Max(of)].state
      BY <1>2, <2>1 DEF LatestStatuses
    <2>3. of # {} /\ statuses[Max(of)].state = "success"
      BY <2>1, <2>2
    <2>4. Max(of) \in of /\ \A l \in of : Max(of) >= l
      <3>1. of \in SUBSET (0..n)
        BY <1>2
      <3> QED
        BY <1>2, <2>3, <3>1, MaxOfNumbers
    <2>5. \A l \in of : l <= Max(of)
      BY <1>2, <2>4
    <2> QED
      BY <2>3, <2>4, <2>5
  <1> QED
    BY <1>2, <1>5 DEF WasPassing

-----------------------------------------------------------------------------
(* What is merged was cleared.                                               *)

\* What was said stays said: a clearance that was given is not taken back by what comes later.
LEMMA ClearancesLast ==
  ASSUME Papers, [Next]_vars
  PROVE  /\ Papers' /\ rules' = rules
         /\ \A b, h : ReviewsCleared(b, h) => ReviewsCleared(b, h)'
         /\ \A b, h : ChecksCleared(b, h) => ChecksCleared(b, h)'
  <1>1. /\ rules' = rules
        /\ reviews' = reviews \/ (reviews' = Append(reviews, writing) /\ writing # NoReview)
        /\ statuses' = statuses \/ \E s : statuses' = Append(statuses, s)
    BY DEF Next, MergeRequest, BeginMerge, ComputeGitState, EvaluateReviews, EvaluateChecks, MergeRefused,
       AlreadyMerged, ResolveMerge, TakeSnapshot, Install, InstallRefused, MarkRow, MarkIssue, Die, Others, PushHead,
       DeleteHead, PushBase, DeleteBase, BeginReview, InsertReview, WriteStatus, BeginEdit, FindNewBase, UpdateBase,
       Close, Reopen, fixed, vars
  <1>2. writing' \in {writing, NoReview} \/ ReviewRow(writing')
    <2>1. CASE BeginReview
      BY <2>1 DEF BeginReview, ReviewRow
    <2>2. CASE ~BeginReview
      BY <2>2 DEF Next, MergeRequest, BeginMerge, ComputeGitState, EvaluateReviews, EvaluateChecks, MergeRefused,
         AlreadyMerged, ResolveMerge, TakeSnapshot, Install, InstallRefused, MarkRow, MarkIssue, Die, Others, PushHead,
         DeleteHead, PushBase, DeleteBase, InsertReview, WriteStatus, BeginEdit, FindNewBase, UpdateBase, Close, Reopen,
         vars
    <2> QED
      BY <2>1, <2>2
  <1>3. /\ IsList(reviews') /\ Len(reviews) \in Nat /\ Len(reviews') \in Nat /\ Len(reviews) <= Len(reviews')
        /\ \A i \in 1..Len(reviews) : reviews'[i] = reviews[i]
        /\ \A i \in DOMAIN reviews' : ReviewRow(reviews'[i])
    <2>1. IsList(reviews) /\ Len(reviews) \in Nat /\ DOMAIN reviews = 1..Len(reviews)
      BY ListIsNumbered DEF Papers
    <2>2. CASE reviews' = reviews
      BY <2>1, <2>2 DEF Papers
    <2>3. CASE reviews' = Append(reviews, writing) /\ writing # NoReview
      <3>1. ReviewRow(writing) /\ \A i \in 1..Len(reviews) : ReviewRow(reviews[i])
        BY <2>1, <2>3 DEF Papers
      <3>2. /\ IsList(reviews') /\ Len(reviews') = Len(reviews) + 1 /\ DOMAIN reviews' = 1..(Len(reviews) + 1)
            /\ \A i \in 1..Len(reviews) : reviews'[i] = reviews[i]
            /\ reviews'[Len(reviews) + 1] = writing
        BY <2>1, <2>3, Added
      <3>3. \A i \in 1..(Len(reviews) + 1) : i \in 1..Len(reviews) \/ i = Len(reviews) + 1
        BY <2>1
      <3> QED
        BY <2>1, <3>1, <3>2, <3>3
    <2> QED
      BY <1>1, <2>2, <2>3
  <1>4. /\ IsList(statuses') /\ Len(statuses) \in Nat /\ Len(statuses') \in Nat /\ Len(statuses) <= Len(statuses')
        /\ \A i \in 1..Len(statuses) : statuses'[i] = statuses[i]
    <2>1. IsList(statuses) /\ Len(statuses) \in Nat
      BY ListIsNumbered DEF Papers
    <2>2. CASE statuses' = statuses
      BY <2>1, <2>2
    <2>3. ASSUME NEW s, statuses' = Append(statuses, s)
          PROVE  /\ IsList(statuses') /\ Len(statuses') = Len(statuses) + 1
                 /\ \A i \in 1..Len(statuses) : statuses'[i] = statuses[i]
      BY <2>1, <2>3, Added
    <2> QED
      BY <1>1, <2>1, <2>2, <2>3
  <1>5. Papers'
    BY <1>1, <1>2, <1>3, <1>4 DEF Papers
  <1>6. ASSUME NEW b, NEW h, ReviewsCleared(b, h) PROVE ReviewsCleared(b, h)'
    <2> SUFFICES ASSUME NEW j \in DOMAIN rules[b], rules[b][j].enforceAdmins PROVE WasApproved(rules[b][j], h)'
      BY <1>1 DEF ReviewsCleared
    <2> PICK rule : rule = rules[b][j]
      OBVIOUS
    <2>1. PICK k \in 0..Len(reviews) :
            LET approvers == {r \in Reviewers \ {Author} : "approved" \in LastWord(k, rule, h, r)}
            IN /\ Cardinality(approvers) >= rule.requiredReviews
               /\ \A r \in Reviewers \ {Author} : "changes_requested" \notin LastWord(k, rule, h, r)
               /\ rule.requireCodeOwner => OwnersFile.status = "read" /\ \A p \in Changed : OwnedBy(p, approvers)
      BY <1>6 DEF ReviewsCleared, WasApproved
    <2>2. \A r : LastWord(k, rule, h, r)' = LastWord(k, rule, h, r)
      <3> TAKE r
      <3>1. \A i \in 1..k : reviews'[i] = reviews[i]
        BY <1>3
      <3> QED
        BY <3>1 DEF LastWord
    <2>3. k \in 0..Len(reviews')
      BY <1>3
    <2>4. WasApproved(rule, h)'
      BY <2>1, <2>2, <2>3, Zenon DEF WasApproved
    <2> QED
      BY <1>1, <2>4 DEF WasApproved, LastWord
  <1>7. ASSUME NEW b, NEW h, ChecksCleared(b, h) PROVE ChecksCleared(b, h)'
    <2> SUFFICES ASSUME NEW j \in DOMAIN rules[b], rules[b][j].enforceAdmins PROVE WasPassing(rules[b][j], h)'
      BY <1>1 DEF ChecksCleared
    <2> PICK rule : rule = rules[b][j]
      OBVIOUS
    <2>1. PICK k \in 0..Len(statuses) : \A x \in rule.contexts :
            LET of == {i \in 1..k : statuses[i].sha = h /\ statuses[i].context = x}
            IN \E i \in of : statuses[i].state = "success" /\ \A l \in of : l <= i
      BY <1>7 DEF ChecksCleared, WasPassing
    <2>2. k \in 0..Len(statuses') /\ \A i \in 1..k : statuses'[i] = statuses[i]
      BY <1>4
    <2>3. \A x : {i \in 1..k : statuses'[i].sha = h /\ statuses'[i].context = x}
                 = {i \in 1..k : statuses[i].sha = h /\ statuses[i].context = x}
      BY <2>2
    <2>4. \A i \in 1..k : statuses'[i].state = statuses[i].state
      BY <2>2
    <2>5. WasPassing(rule, h)'
      <3>1. SUFFICES ASSUME NEW x \in rule.contexts
                     PROVE  LET of == {i \in 1..k : statuses'[i].sha = h /\ statuses'[i].context = x}
                            IN \E i \in of : statuses'[i].state = "success" /\ \A l \in of : l <= i
        BY <2>2 DEF WasPassing
      <3>2. PICK of : of = {i \in 1..k : statuses[i].sha = h /\ statuses[i].context = x}
        OBVIOUS
      <3>3. \E i \in of : statuses[i].state = "success" /\ \A l \in of : l <= i
        BY <2>1, <3>2
      <3> QED
        BY <2>3, <2>4, <3>2, <3>3
    <2> QED
      BY <1>1, <2>5 DEF WasPassing
  <1> QED
    BY <1>1, <1>5, <1>6, <1>7

\* A request whose evaluated head is moved before it is merged is known by it, until it evaluates
\* again.
LEMMA MovesAreKnown ==
  ASSUME Shape, [Next]_vars, NEW m \in Mergers, pc[m] # "gitState"
  PROVE  /\ m \in moved => m \in moved'
         /\ pc[m] \in {"reviews", "checks", "resolve"} => head' = head \/ m \in moved'
  <1>1. ASSUME NEW n \in Mergers, MergeRequest(n) PROVE head' = head /\ (moved' = moved \/ ComputeGitState(n))
    BY <1>1 DEF MergeRequest, BeginMerge, ComputeGitState, EvaluateReviews, EvaluateChecks, MergeRefused,
       AlreadyMerged, ResolveMerge, TakeSnapshot, Install, InstallRefused, MarkRow, MarkIssue, Die, refVars
  <1>2. ASSUME NEW n \in Mergers, ComputeGitState(n) PROVE n # m /\ moved' = moved \ {n}
    BY <1>2 DEF ComputeGitState
  <1>3. CASE PushHead \/ DeleteHead
    <2>1. moved' = moved \cup {n \in Mergers : pc[n] \in {"reviews", "checks", "resolve"}}
      BY <1>3 DEF PushHead, DeleteHead, HeadMoved
    <2> QED
      BY <2>1
  <1>4. ASSUME Others \/ UNCHANGED vars, ~PushHead, ~DeleteHead PROVE head' = head /\ moved' = moved
    BY <1>4 DEF Others, PushBase, DeleteBase, BeginReview, InsertReview, WriteStatus, BeginEdit, FindNewBase,
       UpdateBase, Close, Reopen, refVars, vars
  <1> QED
    BY <1>1, <1>2, <1>3, <1>4 DEF Next

\* The head the evaluation sees, which is the row's where the branch is gone.
SeenHead == IF head = None THEN Work(1, Root) ELSE head

\* A request holds the head it was evaluated with, and past each evaluation its clearance; it is
\* known if that is not the head it merges.
Evaluated(m) ==
  /\ \A b, h : b = req[m].base /\ h = req[m].head =>
       /\ pc[m] \in {"checks", "resolve", "snapshot", "cas"} => ReviewsCleared(b, h)
       /\ pc[m] \in {"resolve", "snapshot", "cas"} => ChecksCleared(b, h)
  /\ pc[m] \in {"reviews", "checks", "resolve"} => req[m].head = SeenHead \/ m \in moved
  /\ pc[m] \in {"snapshot", "cas"} => req[m].headAt = req[m].head \/ m \in moved

InstallsCleared ==
  \A i \in DOMAIN installs :
     /\ \A b, h : b = installs[i].base /\ h = installs[i].evaluated => ReviewsCleared(b, h) /\ ChecksCleared(b, h)
     /\ installs[i].head = installs[i].evaluated \/ installs[i].moved

ClearedInv == Papers /\ IsList(installs) /\ (\A m \in Mergers : Evaluated(m)) /\ InstallsCleared

\* One evaluation of one request: a step brings it to a place with what that place needs.
LEMMA EvaluatedKept ==
  ASSUME Shape, ClearedInv, [Next]_vars, NEW m \in Mergers
  PROVE  Evaluated(m)'
  <1> PICK b, h : b = req[m].base /\ h = req[m].head
    OBVIOUS
  <1>1. /\ \A c, k : ReviewsCleared(c, k) => ReviewsCleared(c, k)'
        /\ \A c, k : ChecksCleared(c, k) => ChecksCleared(c, k)'
    BY ClearancesLast DEF ClearedInv
  <1>2. Evaluated(m) /\ Papers /\ req[m].base \in Bases
    BY DEF ClearedInv, Shape, Requests, IsRequest
  <1>3. /\ pc[m] # "gitState" /\ m \in moved => m \in moved'
        /\ pc[m] \in {"reviews", "checks", "resolve"} => SeenHead' = SeenHead \/ m \in moved'
    BY MovesAreKnown DEF SeenHead
  <1>4. CASE req'[m] = req[m] /\ pc'[m] = pc[m]
    <2>1. /\ pc'[m] \in {"checks", "resolve", "snapshot", "cas"} => ReviewsCleared(b, h)'
          /\ pc'[m] \in {"resolve", "snapshot", "cas"} => ChecksCleared(b, h)'
      BY <1>1, <1>2, <1>4 DEF Evaluated
    <2> QED
      BY <1>2, <1>3, <1>4, <2>1 DEF Evaluated
  <1>5. CASE pc'[m] = "reviews" /\ ComputeGitState(m)
    <2>1. req'[m].head = SeenHead /\ SeenHead' = SeenHead
      BY <1>5 DEF ComputeGitState, Shape, Requests, IsRequest, Fields, SeenHead
    <2> QED
      BY <1>5, <2>1 DEF Evaluated
  <1>6. CASE pc'[m] = "checks" /\ EvaluateReviews(m)
    <2>1. req'[m] = req[m] /\ pc[m] = "reviews" /\ ReviewsPermit(req[m].base, req[m].head)
      BY <1>6 DEF EvaluateReviews, Ended, Goto, Shape, Requests
    <2>2. ReviewsCleared(b, h)'
      BY <1>1, <1>2, <2>1, ReviewsPermitted
    <2>3. req'[m].head = SeenHead' \/ m \in moved'
      BY <1>2, <1>3, <2>1 DEF Evaluated
    <2> QED
      BY <1>6, <2>1, <2>2, <2>3 DEF Evaluated
  <1>7. CASE pc'[m] = "resolve" /\ EvaluateChecks(m)
    <2>1. req'[m] = req[m] /\ pc[m] = "checks" /\ ChecksPermit(req[m].base, req[m].head, req[m].behind)
      BY <1>7 DEF EvaluateChecks, Ended, Goto, Shape, Requests
    <2>2. ReviewsCleared(b, h)' /\ ChecksCleared(b, h)'
      BY <1>1, <1>2, <2>1, ChecksPermitted DEF Evaluated
    <2>3. req'[m].head = SeenHead' \/ m \in moved'
      BY <1>2, <1>3, <2>1 DEF Evaluated
    <2> QED
      BY <1>7, <2>1, <2>2, <2>3 DEF Evaluated
  <1>8. CASE pc'[m] = "snapshot" /\ ResolveMerge(m)
    <2>1. /\ req'[m].head = req[m].head /\ req'[m].base = req[m].base /\ req'[m].headAt = head
          /\ head # None /\ pc[m] = "resolve" /\ moved' = moved
      BY <1>8, Resolved
    <2>2. ReviewsCleared(b, h)' /\ ChecksCleared(b, h)'
      BY <1>1, <1>2, <2>1 DEF Evaluated
    <2>3. req'[m].headAt = req'[m].head \/ m \in moved'
      BY <1>2, <2>1 DEF SeenHead, Evaluated
    <2> QED
      BY <1>8, <2>1, <2>2, <2>3 DEF Evaluated
  <1>9. CASE pc'[m] = "cas" /\ TakeSnapshot(m) /\ BaseUnmoved(m)
    <2>1. /\ req'[m].head = req[m].head /\ req'[m].base = req[m].base /\ req'[m].headAt = req[m].headAt
          /\ pc[m] = "snapshot"
      BY <1>9 DEF TakeSnapshot, Shape, Requests, IsRequest, Fields
    <2>2. ReviewsCleared(b, h)' /\ ChecksCleared(b, h)'
      BY <1>1, <1>2, <2>1 DEF Evaluated
    <2>3. req'[m].headAt = req'[m].head \/ m \in moved'
      BY <1>2, <1>3, <2>1 DEF Evaluated
    <2> QED
      BY <1>9, <2>1, <2>2, <2>3 DEF Evaluated
  <1> QED
    BY <1>4, <1>5, <1>6, <1>7, <1>8, <1>9, Coming DEF Evaluated

LEMMA ClearedKept ==
  ASSUME GrowthInv, ClearedInv, [Next]_vars
  PROVE  ClearedInv'
  <1>1. /\ Shape /\ Papers'
        /\ \A b, h : ReviewsCleared(b, h) => ReviewsCleared(b, h)'
        /\ \A b, h : ChecksCleared(b, h) => ChecksCleared(b, h)'
    BY ClearancesLast DEF ClearedInv, GrowthInv
  <1>2. \A m \in Mergers : Evaluated(m)'
    BY <1>1, EvaluatedKept
  <1>3. CASE installs' = installs
    <2>1. InstallsCleared'
      BY <1>1, <1>3 DEF ClearedInv, InstallsCleared
    <2> QED
      BY <1>1, <1>2, <1>3, <2>1 DEF ClearedInv
  <1>4. ASSUME NEW m \in Mergers, Install(m) PROVE ClearedInv'
    <2> DEFINE put == [base |-> req[m].base, method |-> req[m].method, head |-> req[m].headAt,
                       evaluated |-> req[m].head, moved |-> m \in moved]
               n == Len(installs)
    <2>1. installs' = Append(installs, put) /\ pc[m] = "cas"
      BY <1>4 DEF Install
    <2>2. /\ IsList(installs') /\ n \in Nat /\ DOMAIN installs = 1..n /\ DOMAIN installs' = 1..(n + 1)
          /\ \A i \in 1..n : installs'[i] = installs[i]
          /\ installs'[n + 1] = put
      BY <2>1, Added DEF ClearedInv
    <2>3. /\ \A b, h : b = put.base /\ h = put.evaluated => ReviewsCleared(b, h) /\ ChecksCleared(b, h)
          /\ put.head = put.evaluated \/ put.moved
      BY <2>1 DEF ClearedInv, Evaluated
    <2>4. \A i \in 1..(n + 1) : i \in 1..n \/ i = n + 1
      BY <2>2
    <2> HIDE DEF put, n
    <2>5. \A i \in 1..n : /\ \A b, h : b = installs[i].base /\ h = installs[i].evaluated =>
                                          ReviewsCleared(b, h) /\ ChecksCleared(b, h)
                          /\ installs[i].head = installs[i].evaluated \/ installs[i].moved
      BY <2>2 DEF ClearedInv, InstallsCleared
    <2>6. ASSUME NEW i \in 1..(n + 1)
          PROVE  /\ \A b, h : b = installs'[i].base /\ h = installs'[i].evaluated =>
                                ReviewsCleared(b, h)' /\ ChecksCleared(b, h)'
                 /\ installs'[i].head = installs'[i].evaluated \/ installs'[i].moved
      BY <1>1, <2>2, <2>3, <2>4, <2>5
    <2>7. InstallsCleared'
      BY <2>2, <2>6 DEF InstallsCleared
    <2> QED
      BY <1>1, <1>2, <2>2, <2>7 DEF ClearedInv
  <1> QED
    BY <1>1, <1>3, <1>4, WhoInstalls

\* Whoever moves the branches, reviews, closes and gives the pull request another base, every merge
\* was evaluated under the rules of the base it lands on, with a head that had the approvals and the
\* checks that they ask for from administrators too: the base is the one of the row that was read
\* at first, and the two evaluations read rows that only grow.  The head that is merged is that one,
\* unless it was moved after the evaluation.
THEOREM MergesWereEvaluated == Spec => []MergedWasEvaluated
  <1>1. Init => ClearedInv
    <2> SUFFICES ASSUME Init PROVE ClearedInv
      OBVIOUS
    <2>1. installs = <<>> /\ reviews = <<>> /\ statuses = <<>> /\ \A m \in Mergers : pc[m] = "idle"
      BY DEF Init
    <2> QED
      BY <2>1, EmptyIsList DEF Init, ClearedInv, Papers, Evaluated, InstallsCleared
  <1>2. ClearedInv => MergedWasEvaluated
    BY DEF ClearedInv, InstallsCleared, MergedWasEvaluated, WasCleared, ReviewsCleared, ChecksCleared
  <1>3. GrowthInv /\ ClearedInv /\ [Next]_vars => ClearedInv'
    BY ClearedKept
  <1> QED
    BY <1>1, <1>2, <1>3, GrowthInvariance, PTL DEF Spec

-----------------------------------------------------------------------------
(* The decision on a request.                                                *)

\* acl.ts, listBranchProtectionRules: more rules bind no fewer, and each of those that bound still does.
LEMMA BindingGrows ==
  ASSUME NEW few, NEW more, NEW role, NEW branch
  PROVE  Binding(few, role, branch) \subseteq Binding(few \cup more, role, branch)
  BY DEF Binding

\* acl.ts, checkBranchProtection: what is allowed under all the rules is allowed under some of them.
LEMMA ProtectionOnlyDenies ==
  ASSUME NEW few, NEW more, NEW principal, NEW role, NEW action, NEW branch, NEW deleting,
         checkBranchProtection(few \cup more, principal, role, action, branch, deleting).allow
  PROVE  checkBranchProtection(few, principal, role, action, branch, deleting).allow
  <1> DEFINE Passes(r) == /\ deleting => r.allowDeletions
                          /\ MayPush(few, r, principal)
                          /\ (action = "contents.write" /\ ~deleting) => r.requiredReviews = 0
                          /\ (action = "pulls.merge") => roleAtLeast(role, "maintainer")
  <1>1. \A r \in Binding(few \cup more, role, branch) : Passes(r)
    BY DEF checkBranchProtection, Denied, MayPush
  <1>2. \A r \in Binding(few, role, branch) : Passes(r)
    BY <1>1, BindingGrows
  <1> QED
    BY <1>2 DEF checkBranchProtection

\* acl.ts, "it only ever ADDS denials, never grants access": for any roles, rules, credentials and actions, more
\* rules allow no more, and a private repository answers who has no role on it as a missing one does.
THEOREM RulesOnlyDeny ==
  \A repo, few, more, principal, channel, scopes, action, branch, deleting :
     DecisionsHold(repo, few, more, principal, channel, scopes, action, branch, deleting)
  <1> SUFFICES ASSUME NEW repo, NEW few, NEW more, NEW principal, NEW channel, NEW scopes, NEW action, NEW branch,
                      NEW deleting
               PROVE  DecisionsHold(repo, few, more, principal, channel, scopes, action, branch, deleting)
    OBVIOUS
  <1> DEFINE role == effectiveRole(repo, principal)
             Decision(found, some) == authorizeRepo(found, repo, some, principal, channel, scopes, action, branch, deleting)
             Writes == action \in {"contents.write", "pulls.merge"} /\ branch # "*"
             Allows(some) == Writes => checkBranchProtection(some, principal, role, action, branch, deleting).allow
  <1>1. \A some : Decision(TRUE, some).allow <=>
            /\ role # "none" /\ roleAtLeast(role, ACTION_REQUIRED_ROLE[action])
            /\ ~(channel = "interface" /\ ACTION_REQUIRED_SCOPE[action] \notin scopes)
            /\ Allows(some)
    BY DEF authorizeRepo, Deny
  <1>2. Allows(few \cup more) => Allows(few)
    BY ProtectionOnlyDenies
  <1>3. role = "none" => Decision(TRUE, few) = Decision(FALSE, few)
    BY DEF authorizeRepo
  <1> QED
    BY <1>1, <1>2, <1>3 DEF DecisionsHold
=============================================================================
