------------------------------ MODULE RefsDoc ------------------------------
(***************************************************************************)
(* The refs of one repository: a JSON document in R2 that every writer      *)
(* replaces whole, by a put conditional on the ETag it read.  The writers   *)
(* are git pushes (handleReceivePack), pull-request merges (performMerge,   *)
(* resolveConflictsAndMerge) and tag operations (createTagRef,              *)
(* deleteTagRef); the last two go through writeRefsWithMetadata, which      *)
(* projects to D1 after the put.  Each await of the code is a point where   *)
(* other writers may run and where the worker may die.                      *)
(*                                                                         *)
(* The repository exists throughout; RepoLifecycle has its creation and     *)
(* deletion.  An object id is a commit together with its trees and blobs.   *)
(***************************************************************************)
EXTENDS Naturals

CONSTANTS
  Pushers, Mergers, Taggers,  \* the clients, by the kind of request they make
  Branches, Tags,             \* the refs under refs/heads/ and refs/tags/
  Main,                       \* the branch called main
  FirstOf,                    \* the branch a set of branches sorts first
  Commits, Anc,               \* the commits, each with itself and its ancestors
  None,                       \* the object id of no object, and no branch
  RuleSpace,                  \* the rows a branch's protection may be set to
  PushRequests,               \* the requests a git client may send
  TagsById,                   \* clients may name a tag's target by object id
  VersionedEtags,             \* a put of equal content gets a new ETag
  MaxWrites                   \* bound: puts of the refs document

Writers == Pushers \cup Mergers \cup Taggers
Refs == Branches \cup Tags
Sha == Commits \cup {None}
Changes == [touch : SUBSET Refs, old : [Refs -> Sha], new : [Refs -> Sha]]
NoChange == [touch |-> {},
             old   |-> [r \in Refs |-> None],
             new   |-> [r \in Refs |-> None]]

ASSUME WritersAssumption ==
  /\ Pushers \cap Mergers = {}
  /\ Pushers \cap Taggers = {}
  /\ Mergers \cap Taggers = {}

ASSUME RefsAssumption ==
  /\ Branches \cap Tags = {}
  /\ Main \in Branches
  /\ None \notin Commits \cup Branches
  /\ FirstOf \in [SUBSET Branches -> Branches \cup {None}]
  /\ \A S \in SUBSET Branches : S # {} => FirstOf[S] \in S
  /\ FirstOf[{}] = None

ASSUME CommitsAssumption ==
  /\ Anc \in [Commits -> SUBSET Commits]
  /\ \A c \in Commits : c \in Anc[c] /\ \A d \in Anc[c] : Anc[d] \subseteq Anc[c]

\* A rule row as checkBranchProtection reads it for a direct push; NoRule is
\* the absence of a matching row.
NoRule == [deny |-> FALSE, force |-> FALSE, keep |-> FALSE]

ASSUME RequestsAssumption ==
  /\ PushRequests \subseteq [change : Changes, pack : SUBSET Commits]
  /\ RuleSpace \subseteq [deny : BOOLEAN, force : BOOLEAN, keep : BOOLEAN]
  /\ VersionedEtags \in BOOLEAN /\ TagsById \in BOOLEAN
  /\ MaxWrites \in Nat

VARIABLES
  stored,    \* the refs document in R2: its content and its ETag
  writes,    \* puts of it so far
  objects,   \* the objects in the repository's object store
  rules,     \* D1: the protection rule of each branch
  prRow,     \* D1: the merge each merger's pull request records
  pc,        \* where each client's request is
  req,       \* the change it is to make
  pack,      \* objects of its pack still to be stored
  toClear,   \* refs whose authorization is still to be decided
  forced,    \* branches it may move other than by fast-forward
  snap,      \* the snapshot of the refs document it works from
  answer,    \* what the client heard of its last request
  past       \* history: everything each branch ever pointed at

bucketVars == <<stored, writes, objects, past>>
requestVars == <<pc, req, pack, toClear, forced, snap, answer>>
vars == <<stored, writes, objects, rules, prRow,
          pc, req, pack, toClear, forced, snap, answer, past>>

-----------------------------------------------------------------------------
(* The document.                                                            *)

Docs == [refs : [Refs -> Sha], defaultBranch : Branches \cup {None}]

EMPTY == [refs |-> [r \in Refs |-> None], defaultBranch |-> None]

\* R2 derives an ETag from the content; the test bucket numbers the puts.
EtagOf(d, n) == [of |-> d, nth |-> IF VersionedEtags THEN n ELSE 0]

Etags == [of : Docs, nth : Nat]
Snapshots == [doc : Docs, etag : Etags]

AppliedTo(f, q) == [r \in Refs |-> IF r \in q.touch THEN q.new[r] ELSE f[r]]

LiveBranches(f) == {b \in Branches : f[b] # None}

\* Mutant: a default branch, once set, stays.
nextRefsDocKeepsDefault(current, q) ==
  LET f == AppliedTo(current.refs, q)
      live == LiveBranches(f)
  IN [refs |-> f,
      defaultBranch |-> IF current.defaultBranch # None
                        THEN current.defaultBranch
                        ELSE IF Main \in live THEN Main ELSE FirstOf[live]]

nextRefsDoc(current, q) ==
  LET f == AppliedTo(current.refs, q)
      live == LiveBranches(f)
  IN [refs |-> f,
      defaultBranch |-> IF current.defaultBranch \in live
                        THEN current.defaultBranch
                        ELSE IF Main \in live THEN Main ELSE FirstOf[live]]

\* A two-phase writer replaces refs and keeps the default branch.
mutateRefs(current, q) == [current EXCEPT !.refs = AppliedTo(current.refs, q)]

nextDoc(w) == IF w \in Pushers THEN nextRefsDoc(snap[w].doc, req[w])
                               ELSE mutateRefs(snap[w].doc, req[w])

\* The values a request relies on are the values of f.
Fresh(f, q) == \A r \in q.touch : f[r] = q.old[r]

isAncestor(a, c) == a \in Anc[c]

-----------------------------------------------------------------------------
(* What every request shares.                                               *)

Goto(w, l) == pc' = [pc EXCEPT ![w] = l]

\* The request ends, its local state with it, and the client hears a.
Answered(w, a) ==
  /\ Goto(w, "idle")
  /\ answer' = [answer EXCEPT ![w] = a]
  /\ req' = [req EXCEPT ![w] = NoChange]
  /\ pack' = [pack EXCEPT ![w] = {}]
  /\ toClear' = [toClear EXCEPT ![w] = {}]
  /\ forced' = [forced EXCEPT ![w] = {}]
  /\ snap' = [snap EXCEPT ![w] = None]

\* readRepoRefsSnapshot: the document and its ETag come from one get.
TakeSnapshot(w) == snap' = [snap EXCEPT ![w] = stored]

\* Mutant: a put without onlyIf.
etagIgnored(w) == TRUE

\* The put is conditional on the ETag of the snapshot.
etagMatches(w) == stored.etag = snap[w].etag

\* Whoever dies after its put leaves it done: the client heard nothing.
Crash(w) ==
  /\ pc[w] # "idle"
  /\ Answered(w, "lost")
  /\ UNCHANGED <<bucketVars, rules, prRow>>

\* writeRepoRefs, the commit point of every writer.
Write(w) ==
  /\ pc[w] = "cas"
  /\ etagMatches(w)
  /\ writes < MaxWrites
  /\ writes' = writes + 1
  /\ stored' = [doc |-> nextDoc(w), etag |-> EtagOf(nextDoc(w), writes + 1)]
  /\ past' = [b \in Branches |-> past[b] \cup {nextDoc(w).refs[b]}]
  /\ Goto(w, "applied")
  /\ UNCHANGED <<objects, rules, prRow, req, pack, toClear, forced, snap, answer>>

\* "concurrent ref update" of a push, "conflict" of a two-phase writer.
LoseRace(w) ==
  /\ pc[w] = "cas"
  /\ ~etagMatches(w)
  /\ Answered(w, "refused")
  /\ UNCHANGED <<bucketVars, rules, prRow>>

-----------------------------------------------------------------------------
(* handleReceivePack.                                                       *)

PushStart(p) ==
  /\ pc[p] = "idle"
  /\ \E q \in PushRequests :
       /\ Fresh(stored.doc.refs, q.change)
       /\ req' = [req EXCEPT ![p] = q.change]
       /\ pack' = [pack EXCEPT ![p] = q.pack]
       /\ toClear' = [toClear EXCEPT ![p] = q.change.touch]
  /\ TakeSnapshot(p)
  /\ Goto(p, "authorize")
  /\ UNCHANGED <<bucketVars, rules, prRow, forced, answer>>

PushStale(p) ==
  /\ pc[p] = "idle"
  /\ \E q \in PushRequests : ~Fresh(stored.doc.refs, q.change)
  /\ Answered(p, "refused")
  /\ UNCHANGED <<bucketVars, rules, prRow>>

\* checkBranchProtection; tags and branches without a rule are free.
RuleOf(r) == IF r \in Branches THEN rules[r] ELSE NoRule
Deleting(p, r) == req[p].new[r] = None
Allowed(p, r) == IF Deleting(p, r) THEN ~RuleOf(r).keep ELSE ~RuleOf(r).deny

ForceAllowed(p, r) == RuleOf(r).force /\ ~Deleting(p, r)

PushAuthorize(p, r) ==
  /\ pc[p] = "authorize"
  /\ r \in toClear[p]
  /\ Allowed(p, r)
  /\ toClear' = [toClear EXCEPT ![p] = @ \ {r}]
  /\ forced' = [forced EXCEPT ![p] = IF ForceAllowed(p, r) THEN @ \cup {r} ELSE @]
  /\ UNCHANGED <<bucketVars, rules, prRow, pc, req, pack, snap, answer>>

\* A rule refuses the update, or the query failed: the gate fails closed.
PushDenied(p, r) ==
  /\ pc[p] = "authorize"
  /\ r \in toClear[p]
  /\ Answered(p, "refused")
  /\ UNCHANGED <<bucketVars, rules, prRow>>

\* Objects are stored one at a time, and stay whatever becomes of the push.
PushStore(p, c) ==
  /\ pc[p] = "authorize"
  /\ toClear[p] = {}
  /\ c \in pack[p]
  /\ objects' = objects \cup {c}
  /\ pack' = [pack EXCEPT ![p] = @ \ {c}]
  /\ UNCHANGED <<stored, writes, past, rules, prRow,
                 pc, req, toClear, forced, snap, answer>>

\* validateCommitClosure, collectReachableObjects, and the fast-forward rule.
Closed(c) == Anc[c] \subseteq objects

\* Mutant: the target must exist, what it reaches need not.
ValidUpdateShallow(p, r) ==
  LET old == req[p].old[r]
      new == req[p].new[r]
  IN new # None =>
       /\ new \in objects
       /\ r \in Branches /\ old # None => isAncestor(old, new) \/ r \in forced[p]

ValidUpdate(p, r) ==
  LET old == req[p].old[r]
      new == req[p].new[r]
  IN new # None =>
       /\ Closed(new)
       /\ r \in Branches /\ old # None => isAncestor(old, new) \/ r \in forced[p]

PushValidate(p) ==
  /\ pc[p] = "authorize"
  /\ toClear[p] = {}
  /\ pack[p] = {}
  /\ \A r \in req[p].touch : ValidUpdate(p, r)
  /\ Goto(p, "cas")
  /\ UNCHANGED <<bucketVars, rules, prRow, req, pack, toClear, forced, snap, answer>>

\* An update is not valid, or the pack turned out unreadable half-way.
PushInvalid(p) ==
  /\ pc[p] = "authorize"
  /\ toClear[p] = {}
  /\ pack[p] # {} \/ \E r \in req[p].touch : ~ValidUpdate(p, r)
  /\ Answered(p, "refused")
  /\ UNCHANGED <<bucketVars, rules, prRow>>

\* The onApplied hook never changes the answer of a push that was applied.
PushAnswer(p) ==
  /\ pc[p] = "applied"
  /\ Answered(p, "ok")
  /\ UNCHANGED <<bucketVars, rules, prRow>>

-----------------------------------------------------------------------------
(* performMerge and resolveConflictsAndMerge.                               *)

\* The commit a merge may put on base b: the head itself, a merge commit, or
\* one squashed or rebased onto the base.
MergeTargets(base, head) ==
  {n \in Commits : \/ n = head /\ isAncestor(base, head)
                   \/ /\ n # base /\ n # head
                      /\ Anc[n] \in {{n} \cup Anc[base] \cup Anc[head],
                                     {n} \cup Anc[base]}}

OneRef(r, old, new) == [touch |-> {r},
                        old   |-> [NoChange.old EXCEPT ![r] = old],
                        new   |-> [NoChange.new EXCEPT ![r] = new]]

\* Both tips come from one read; head is not merged into base yet.
MergeResolve(m) ==
  /\ pc[m] = "idle"
  /\ \E b, h \in LiveBranches(stored.doc.refs) :
       LET base == stored.doc.refs[b]
           head == stored.doc.refs[h]
       IN /\ ~isAncestor(head, base)
          /\ \E n \in MergeTargets(base, head) :
               /\ req' = [req EXCEPT ![m] = OneRef(b, base, n)]
               /\ pack' = [pack EXCEPT ![m] = IF n = head THEN {} ELSE {n}]
  /\ Goto(m, "prepare")
  /\ UNCHANGED <<bucketVars, rules, prRow, toClear, forced, snap, answer>>

\* Head is an ancestor of base: no ref changes, the row is marked.
MergeAlready(m) ==
  /\ pc[m] = "idle"
  /\ \E b, h \in LiveBranches(stored.doc.refs) :
       LET base == stored.doc.refs[b]
           head == stored.doc.refs[h]
       IN /\ isAncestor(head, base)
          /\ req' = [req EXCEPT ![m] = OneRef(b, base, base)]
  /\ Goto(m, "applied")
  /\ UNCHANGED <<bucketVars, rules, prRow, pack, toClear, forced, snap, answer>>

\* putCommit, before the refs document is read again.
MergePutCommit(m) ==
  /\ pc[m] = "prepare"
  /\ pack[m] # {}
  /\ objects' = objects \cup pack[m]
  /\ pack' = [pack EXCEPT ![m] = {}]
  /\ UNCHANGED <<stored, writes, past, rules, prRow,
                 pc, req, toClear, forced, snap, answer>>

\* writeRefsWithMetadata: snapshot, then mutateRefs in the same turn.
TwoPhaseSnapshot(w) ==
  /\ w \in Mergers \cup Taggers
  /\ pc[w] = "prepare"
  /\ pack[w] = {}
  /\ Fresh(stored.doc.refs, req[w])
  /\ TakeSnapshot(w)
  /\ Goto(w, "cas")
  /\ UNCHANGED <<bucketVars, rules, prRow, req, pack, toClear, forced, answer>>

\* mutateRefs returned null.
TwoPhaseAbort(w) ==
  /\ w \in Mergers \cup Taggers
  /\ pc[w] = "prepare"
  /\ pack[w] = {}
  /\ ~Fresh(stored.doc.refs, req[w])
  /\ Answered(w, "refused")
  /\ UNCHANGED <<bucketVars, rules, prRow>>

NoRow == [base |-> None, sha |-> None]

\* projectMetadata: markMerged writes the pull request's row.
MergeProject(m) ==
  /\ pc[m] = "applied"
  /\ \E b \in req[m].touch :
       prRow' = [prRow EXCEPT ![m] = [base |-> b, sha |-> req[m].new[b]]]
  /\ Answered(m, "ok")
  /\ UNCHANGED <<bucketVars, rules>>

\* metadataDeferred: D1 failed, and the merge is still reported as done.  On
\* the path of MergeAlready the error reaches the client: that is a Crash.
MergeDeferred(m) ==
  /\ pc[m] = "applied"
  /\ snap[m] # None
  /\ Answered(m, "ok")
  /\ UNCHANGED <<bucketVars, rules, prRow>>

-----------------------------------------------------------------------------
(* createTagRef and deleteTagRef.                                           *)

\* The targets a client can name: a branch, a tag, or the id of an object
\* that exists.
resolveCommitish(f) ==
  ({f[r] : r \in Refs} \ {None}) \cup (IF TagsById THEN objects ELSE {})

\* findTagRef refuses a tag that is there.
TagCreate(t) ==
  /\ pc[t] = "idle"
  /\ \E r \in Tags, c \in resolveCommitish(stored.doc.refs) :
       /\ stored.doc.refs[r] = None
       /\ req' = [req EXCEPT ![t] = OneRef(r, None, c)]
  /\ Goto(t, "prepare")
  /\ UNCHANGED <<bucketVars, rules, prRow, pack, toClear, forced, snap, answer>>

\* deleteTagRef names no old value: it removes what its snapshot holds.
TagDelete(t) ==
  /\ pc[t] = "idle"
  /\ \E r \in Tags :
       /\ stored.doc.refs[r] # None
       /\ req' = [req EXCEPT ![t] = OneRef(r, stored.doc.refs[r], None)]
  /\ TakeSnapshot(t)
  /\ Goto(t, "cas")
  /\ UNCHANGED <<bucketVars, rules, prRow, pack, toClear, forced, answer>>

TagAnswer(t) ==
  /\ pc[t] = "applied"
  /\ Answered(t, "ok")
  /\ UNCHANGED <<bucketVars, rules, prRow>>

-----------------------------------------------------------------------------
\* An administrator edits the protection of a branch.
SetRule(b) ==
  /\ \E rule \in RuleSpace \ {rules[b]} : rules' = [rules EXCEPT ![b] = rule]
  /\ UNCHANGED <<bucketVars, prRow, requestVars>>

Init ==
  /\ stored = [doc |-> EMPTY, etag |-> EtagOf(EMPTY, 0)]
  /\ writes = 0
  /\ objects = {}
  /\ rules = [b \in Branches |-> NoRule]
  /\ prRow = [m \in Mergers |-> NoRow]
  /\ pc = [w \in Writers |-> "idle"]
  /\ req = [w \in Writers |-> NoChange]
  /\ pack = [w \in Writers |-> {}]
  /\ toClear = [w \in Writers |-> {}]
  /\ forced = [w \in Writers |-> {}]
  /\ snap = [w \in Writers |-> None]
  /\ answer = [w \in Writers |-> "idle"]
  /\ past = [b \in Branches |-> {None}]

Push(p) ==
  \/ PushStart(p) \/ PushStale(p)
  \/ \E r \in Refs : PushAuthorize(p, r) \/ PushDenied(p, r)
  \/ \E c \in Commits : PushStore(p, c)
  \/ PushValidate(p) \/ PushInvalid(p) \/ PushAnswer(p)

Merge(m) ==
  \/ MergeResolve(m) \/ MergeAlready(m) \/ MergePutCommit(m)
  \/ MergeProject(m) \/ MergeDeferred(m)

Tag(t) == TagCreate(t) \/ TagDelete(t) \/ TagAnswer(t)

Next ==
  \/ \E p \in Pushers : Push(p)
  \/ \E m \in Mergers : Merge(m)
  \/ \E t \in Taggers : Tag(t)
  \/ \E w \in Writers :
       TwoPhaseSnapshot(w) \/ TwoPhaseAbort(w) \/ Write(w) \/ LoseRace(w) \/ Crash(w)
  \/ \E b \in Branches : SetRule(b)

Spec == Init /\ [][Next]_vars

-----------------------------------------------------------------------------
(* Properties.                                                              *)

Answers == {"idle", "ok", "refused", "lost"}

BucketTypeOK ==
  /\ stored \in Snapshots
  /\ writes \in 0 .. MaxWrites
  /\ objects \subseteq Commits
  /\ past \in [Branches -> SUBSET Sha]

MetadataTypeOK ==
  /\ rules \in [Branches -> RuleSpace \cup {NoRule}]
  /\ prRow \in [Mergers -> [base : Branches \cup {None}, sha : Sha]]

RequestTypeOK ==
  /\ pc \in [Writers -> {"idle", "authorize", "prepare", "cas", "applied"}]
  /\ req \in [Writers -> Changes]
  /\ pack \in [Writers -> SUBSET Commits]
  /\ toClear \in [Writers -> SUBSET Refs]
  /\ forced \in [Writers -> SUBSET Branches]
  /\ snap \in [Writers -> Snapshots \cup {None}]
  /\ answer \in [Writers -> Answers]

\* Every variable has its type; in particular force is only ever granted on
\* branches, and the default branch is a branch.
TypeOK == BucketTypeOK /\ MetadataTypeOK /\ RequestTypeOK

\* Whatever interleaves with it, a fetch of any branch finds every object it
\* needs: handleUploadPack never has to answer repository_incomplete for one.
BranchesComplete ==
  \A b \in LiveBranches(stored.doc.refs) : Closed(stored.doc.refs[b])

\* The same of a fetch of any tag.
TagsComplete ==
  \A t \in Tags : stored.doc.refs[t] # None => Closed(stored.doc.refs[t])

\* A branch only moves forward, except in a push that was granted force on
\* that very branch: no interleaving of pushes and merges makes a
\* fast-forward check that passed apply to another tip than the checked one.
OnlyForcedRewrites ==
  [][\A b \in Branches :
       LET old == stored.doc.refs[b]
           new == stored'.doc.refs[b]
       IN old # None /\ new # None /\ ~isAncestor(old, new)
            => \E p \in Pushers : pc[p] = "cas" /\ pc'[p] = "applied" /\ b \in forced[p]
    ]_vars

\* The default branch, which HEAD and every clone follow, is a branch that
\* exists, and there is one as soon as there is a branch.
DefaultBranchExists ==
  LET live == LiveBranches(stored.doc.refs)
  IN IF live = {} THEN stored.doc.defaultBranch = None
                  ELSE stored.doc.defaultBranch \in live

\* D1 never runs ahead of R2: a pull request recorded as merged records a
\* commit its base branch really pointed at.
MergedRowWasInstalled ==
  \A m \in Mergers : prRow[m].base # None => prRow[m].sha \in past[prRow[m].base]

\* How far a request is, as its client could know it.
RegisterStatus == [w \in Writers |-> IF pc[w] = "idle" THEN answer[w]
                                    ELSE IF pc[w] = "applied" THEN "applied"
                                    ELSE "asked"]

Register == INSTANCE RefRegister WITH refs   <- stored.doc.refs,
                                      asked  <- req,
                                      status <- RegisterStatus

\* No update is lost, applied in part, applied twice or answered wrongly,
\* whichever writers race and die.
AtomicRefs == Register!Spec
=============================================================================
