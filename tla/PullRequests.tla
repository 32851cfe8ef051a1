---------------------------- MODULE PullRequests ----------------------------
(***************************************************************************)
(* One pull request of a repository (src/features/pulls): its row, its       *)
(* reviews, the statuses of its heads, and the requests that merge it.       *)
(* A request reads the row, then the refs, then the rules, then the refs     *)
(* again, and writes the refs document and two rows; meanwhile the branches   *)
(* are pushed to, rewritten and deleted, the pull request is reviewed, closed *)
(* and given another base.  Commits are built by what made them.             *)
(***************************************************************************)
EXTENDS MergeProtection

CONSTANTS
    Mergers,           \* requests that merge, as maintainers
    Reviewers, Author, \* principals
    Bases, Default,    \* branches it may be merged into; the one that is not deleted
    Rules,             \* what may protect them: functions from branches to sequences of rules
    Contexts,          \* contexts of commit statuses
    Methods,           \* what each asks for: "merge", "squash", "rebase", "resolve"
    OwnersFile, Changed, \* the base's CODEOWNERS; the paths the pull request changes
    Bounds             \* for each of Rules, how much may happen: a set of records of
                       \*   work      moves of the branches by anyone but a merge, and one
                       \*   reviews, statuses
                       \*   edits     PATCHes of the base
                       \*   installs  puts of the refs document by merges
                       \*   faults    requests that die

MethodNames == {"merge", "squash", "rebase", "resolve"}

RuleRows ==
    [requiredReviews : Nat, dismissStale : BOOLEAN, requireCodeOwner : BOOLEAN, contexts : SUBSET Contexts,
     strict : BOOLEAN, enforceAdmins : BOOLEAN, restrictPush : BOOLEAN, allowlist : Seq(STRING)]

ASSUME PullsAssumption ==
    /\ "nobody" \notin Reviewers
    /\ Default \in Bases
    /\ Methods \in [Mergers -> SUBSET MethodNames]
    /\ Bounds \in [Rules -> SUBSET [work : Nat, reviews : Nat, statuses : Nat, edits : Nat, installs : Nat,
                                    faults : Nat]]
    /\ Rules \subseteq [Bases -> Seq(RuleRows)]
    /\ OwnersFile \in [status : {"read", "missing", "unreadable"},
                      list : Seq([matches : SUBSET STRING, owners : SUBSET Reviewers])]

VARIABLES
    rules,        \* D1: the rules that match each branch
    tips, head,   \* R2: the tips in the refs document, of each base and of the head; None when deleted
    etag,         \* R2: changes with every put
    row,          \* D1: pull_requests, and as a ghost the branch it was merged into
    issue,        \* D1: state of the row of issues it belongs to
    reviews,      \* D1: pr_reviews in the order of their created_at
    statuses,     \* D1: commit_statuses in the order of their created_at
    pc, req,      \* what each merge request is at, and holds
    writing,      \* the reviewer's request: what it read before it inserts
    editing,      \* the request that changes the base: what it is at, and the base it asks for
    work, edits, faults, \* counted for the bounds
    most,         \* the bounds
    installs,     \* ghost: what merges put, in order
    lost,         \* ghost: what rewriting or deleting a base took out of its history
    moved         \* ghost: requests whose head was moved after it was evaluated, before it is merged

refVars == <<tips, head, etag, work, lost, moved>>
rowVars == <<row, issue>>
editVars == <<editing, edits>>
fixed == <<rules, most>>
vars == <<fixed, refVars, rowVars, reviews, statuses, pc, req, writing, editVars, faults, installs>>

-----------------------------------------------------------------------------
\* Commits: pushed work on top of a commit, or what a merge of `from` onto `on` makes; each
\* with the commits before it, those of its parents and they themselves.
History(c) == {c} \cup c.before

Root == [kind |-> "root", n |-> 0, of |-> {}, before |-> {}]
Work(n, on) == [kind |-> "work", n |-> n, of |-> {}, before |-> History(on)]
Made(kind, on, from) ==
    [kind |-> kind, n |-> 0, of |-> {<<on, from>>},
     before |-> History(on) \cup (IF kind = "merge" THEN History(from) ELSE {})]

\* What the refs document has for a branch that is deleted.
None == [kind |-> "none", n |-> 0, of |-> {}, before |-> {}]

isAncestor(a, c) == a \in History(c)

\* Their histories always meet in Root; the base is behind by what the head does not have.
behindBy(b, h) == Cardinality(History(b) \ History(h))

-----------------------------------------------------------------------------
Idle == [method |-> "merge", base |-> Default, head |-> Root, behind |-> 0, baseAt |-> Root, headAt |-> Root,
         new |-> Root, etag |-> 0]

Pcs == {"idle", "gitState", "reviews", "checks", "resolve", "snapshot", "cas", "markRow", "markIssue"}

NoEdit == [at |-> "idle", to |-> Default]

NoReview == [by |-> "nobody", state |-> "commented", sha |-> Root]

TypeOK ==
    /\ rules \in Rules /\ most \in Bounds[rules]
    /\ row.merged \in BOOLEAN /\ row.base \in Bases
    /\ issue \in {"open", "closed"}
    /\ \A i \in DOMAIN reviews : reviews[i].by \in Reviewers
    /\ pc \in [Mergers -> Pcs]
    /\ editing \in [at : {"idle", "refs", "update"}, to : Bases]
    /\ moved \subseteq Mergers
    /\ etag \in Nat /\ work \in Nat /\ edits \in 0..most.edits /\ faults \in 0..most.faults

Init ==
    /\ rules \in Rules /\ most \in Bounds[rules]
    /\ tips = [b \in Bases |-> Root] /\ head = Work(1, Root) /\ etag = 0
    /\ row = [base |-> Default, merged |-> FALSE, mergeCommit |-> None, into |-> Default]
    /\ issue = "open"
    /\ reviews = <<>> /\ statuses = <<>>
    /\ pc = [m \in Mergers |-> "idle"] /\ req = [m \in Mergers |-> Idle]
    /\ writing = NoReview /\ editing = NoEdit
    /\ work = 1 /\ edits = 0 /\ faults = 0
    /\ installs = <<>> /\ lost = [b \in Bases |-> {}] /\ moved = {}

\* The state of each context's last status at a commit.
LatestStatuses(list, c) ==
    [x \in Contexts |->
        LET of == {i \in DOMAIN list : list[i].sha = c /\ list[i].context = x}
        IN IF of = {} THEN "none" ELSE list[Max(of)].state]

CodeOwnersVerdict == [approvers \in SUBSET Reviewers |-> evaluateCodeOwners(OwnersFile, Changed, approvers)]

ReviewsPermit(b, h) ==
    evaluateMergeProtection(rules[b], "maintainer",
        LAMBDA rule : ReviewsVerdict(rule, "maintainer", "merger", {}, reviews, h, Author, CodeOwnersVerdict)) = "ok"

ChecksPermit(b, h, behind) ==
    evaluateMergeProtection(rules[b], "maintainer",
        LAMBDA rule : ChecksVerdict(rule, LatestStatuses(statuses, h), behind)) = "ok"

Goto(m, l) == pc' = [pc EXCEPT ![m] = l]

Ended(m) == Goto(m, "idle") /\ req' = [req EXCEPT ![m] = Idle]

\* What is reachable from a base.
Reach(b) == IF tips[b] = None THEN {} ELSE History(tips[b])

\* Someone else puts the refs document: those that have evaluated the head, and not yet read it
\* again to merge it, merge another than the one they evaluated.
HeadMoved == moved' = moved \cup {m \in Mergers : pc[m] \in {"reviews", "checks", "resolve"}}

-----------------------------------------------------------------------------
\* POST .../merge and .../resolve

\* The row is read, and refused when it is merged or not open; its base is the base from now on.
BeginMerge(m) ==
    /\ pc[m] = "idle" /\ ~row.merged /\ issue = "open"
    /\ \E method \in Methods[m] : req' = [req EXCEPT ![m].method = method, ![m].base = row.base]
    /\ Goto(m, "gitState")
    /\ UNCHANGED <<fixed, refVars, rowVars, reviews, statuses, writing, editVars, faults, installs>>

\* computeGitState; where a branch is gone it falls back on the row, and nothing is behind.
ComputeGitState(m) ==
    /\ pc[m] = "gitState"
    /\ req' = [req EXCEPT ![m].head = IF head = None THEN Work(1, Root) ELSE head,
                          ![m].behind = IF head = None \/ tips[req[m].base] = None THEN 0
                                        ELSE behindBy(tips[req[m].base], head)]
    /\ Goto(m, "reviews")
    /\ moved' = moved \ {m}
    /\ UNCHANGED <<fixed, tips, head, etag, work, lost, rowVars, reviews, statuses, writing, editVars, faults, installs>>

EvaluateReviews(m) ==
    /\ pc[m] = "reviews"
    /\ IF ReviewsPermit(req[m].base, req[m].head) THEN Goto(m, "checks") /\ UNCHANGED req ELSE Ended(m)
    /\ UNCHANGED <<fixed, refVars, rowVars, reviews, statuses, writing, editVars, faults, installs>>

EvaluateChecks(m) ==
    /\ pc[m] = "checks"
    /\ IF ChecksPermit(req[m].base, req[m].head, req[m].behind) THEN Goto(m, "resolve") /\ UNCHANGED req ELSE Ended(m)
    /\ UNCHANGED <<fixed, refVars, rowVars, reviews, statuses, writing, editVars, faults, installs>>

\* performMerge and resolveConflictsAndMerge read the refs: a branch is gone, or the two have
\* diverged and their trees conflict or cannot be replayed.
MergeRefused(m) ==
    /\ pc[m] = "resolve"
    /\ LET base == tips[req[m].base]
       IN \/ head = None \/ base = None
          \/ /\ head # None /\ base # None
             /\ ~isAncestor(head, base) /\ ~isAncestor(base, head)
    /\ Ended(m)
    /\ UNCHANGED <<fixed, refVars, rowVars, reviews, statuses, writing, editVars, faults, installs>>

\* The head is in the base already: only the rows are written.
AlreadyMerged(m) ==
    /\ pc[m] = "resolve" /\ head # None /\ tips[req[m].base] # None /\ req[m].method # "resolve"
    /\ isAncestor(head, tips[req[m].base])
    /\ req' = [req EXCEPT ![m].new = tips[req[m].base], ![m].headAt = head]
    /\ Goto(m, "markRow")
    /\ UNCHANGED <<fixed, refVars, rowVars, reviews, statuses, writing, editVars, faults, installs>>

\* The commit the base is to move to.
TargetOf(method, base) ==
    CASE method = "resolve" -> Made("merge", base, head)
      [] method # "squash" /\ method # "resolve" /\ isAncestor(base, head) -> head
      [] method = "rebase" /\ ~isAncestor(base, head) -> Made("rebase", base, head)
      [] OTHER -> Made(method, base, head)

ResolveMerge(m) ==
    /\ pc[m] = "resolve" /\ head # None /\ tips[req[m].base] # None
    /\ req[m].method = "resolve" \/ ~isAncestor(head, tips[req[m].base])
    /\ req' = [req EXCEPT ![m].new = TargetOf(req[m].method, tips[req[m].base]),
                          ![m].baseAt = tips[req[m].base], ![m].headAt = head]
    /\ Goto(m, "snapshot")
    /\ UNCHANGED <<fixed, refVars, rowVars, reviews, statuses, writing, editVars, faults, installs>>

\* Mutant: the base that was resolved is not looked at again.
BaseUnmovedUnchecked(m) == TRUE

BaseUnmoved(m) == tips[req[m].base] = req[m].baseAt

\* The snapshot for the put, and mutateRefs.
TakeSnapshot(m) ==
    /\ pc[m] = "snapshot"
    /\ IF BaseUnmoved(m)
       THEN req' = [req EXCEPT ![m].etag = etag] /\ Goto(m, "cas")
       ELSE Ended(m)
    /\ UNCHANGED <<fixed, refVars, rowVars, reviews, statuses, writing, editVars, faults, installs>>

Install(m) ==
    /\ pc[m] = "cas" /\ req[m].etag = etag
    /\ Len(installs) < most.installs
    /\ tips' = [tips EXCEPT ![req[m].base] = req[m].new] /\ etag' = etag + 1
    /\ installs' = Append(installs, [base |-> req[m].base, method |-> req[m].method, head |-> req[m].headAt,
                                     evaluated |-> req[m].head, moved |-> m \in moved])
    /\ Goto(m, "markRow")
    /\ UNCHANGED <<fixed, head, work, lost, moved, rowVars, reviews, statuses, req, writing, editVars, faults>>

InstallRefused(m) ==
    /\ pc[m] = "cas" /\ req[m].etag # etag
    /\ Ended(m)
    /\ UNCHANGED <<fixed, refVars, rowVars, reviews, statuses, writing, editVars, faults, installs>>

\* markMerged: two statements, neither asks what the rows say now, nor names the base.
MarkRow(m) ==
    /\ pc[m] = "markRow"
    /\ row' = [row EXCEPT !.merged = TRUE, !.mergeCommit = req[m].new, !.into = req[m].base]
    /\ Goto(m, "markIssue")
    /\ UNCHANGED <<fixed, refVars, issue, reviews, statuses, req, writing, editVars, faults, installs>>

MarkIssue(m) ==
    /\ pc[m] = "markIssue"
    /\ issue' = "closed"
    /\ Ended(m)
    /\ UNCHANGED <<fixed, refVars, row, reviews, statuses, writing, editVars, faults, installs>>

\* The invocation dies, or a statement of markMerged fails and is deferred for good.
Die(m) ==
    /\ pc[m] # "idle" /\ faults < most.faults
    /\ faults' = faults + 1
    /\ Ended(m)
    /\ UNCHANGED <<fixed, refVars, rowVars, reviews, statuses, writing, editVars, installs>>

-----------------------------------------------------------------------------
\* Everyone else.

\* A push to the head: on top of it, on top of a merge of a base into it, or a rewrite of the
\* branch, which also creates it anew.
PushHead ==
    /\ work < most.work
    /\ \E on \in {Root} \cup (IF head = None THEN {}
                              ELSE {head} \cup {Made("merge", head, tips[b]) : b \in {c \in Bases : tips[c] # None}}) :
         head' = Work(work + 1, on)
    /\ HeadMoved
    /\ work' = work + 1 /\ etag' = etag + 1
    /\ UNCHANGED <<fixed, tips, lost, rowVars, reviews, statuses, pc, req, writing, editVars, faults, installs>>

DeleteHead ==
    /\ work < most.work /\ head # None
    /\ head' = None
    /\ HeadMoved
    /\ work' = work + 1 /\ etag' = etag + 1
    /\ UNCHANGED <<fixed, tips, lost, rowVars, reviews, statuses, pc, req, writing, editVars, faults, installs>>

\* A push to a base: on top of it or, where its rules let one force, over it; also one that
\* creates it anew.
PushBase(b) ==
    /\ work < most.work
    /\ \E on \in {Root} \cup (IF tips[b] = None THEN {} ELSE {tips[b]}) :
         tips' = [tips EXCEPT ![b] = Work(work + 1, on)]
    /\ lost' = [lost EXCEPT ![b] = @ \cup (Reach(b) \ Reach(b)')]
    /\ work' = work + 1 /\ etag' = etag + 1
    /\ UNCHANGED <<fixed, head, moved, rowVars, reviews, statuses, pc, req, writing, editVars, faults, installs>>

DeleteBase(b) ==
    /\ work < most.work /\ b # Default /\ tips[b] # None
    /\ tips' = [tips EXCEPT ![b] = None]
    /\ lost' = [lost EXCEPT ![b] = @ \cup Reach(b)]
    /\ work' = work + 1 /\ etag' = etag + 1
    /\ UNCHANGED <<fixed, head, moved, rowVars, reviews, statuses, pc, req, writing, editVars, faults, installs>>

\* handleSubmit of reviews.ts: the head is read, then the row is inserted.
BeginReview ==
    /\ writing = NoReview /\ issue = "open" /\ head # None
    /\ Len(reviews) < most.reviews
    /\ \E r \in Reviewers, s \in {"approved", "changes_requested"} :
         /\ r # Author
         /\ writing' = [by |-> r, state |-> s, sha |-> head]
    /\ UNCHANGED <<fixed, refVars, rowVars, reviews, statuses, pc, req, editVars, faults, installs>>

InsertReview ==
    /\ writing # NoReview
    /\ reviews' = Append(reviews, writing)
    /\ writing' = NoReview
    /\ UNCHANGED <<fixed, refVars, rowVars, statuses, pc, req, editVars, faults, installs>>

\* A status of the head is written.
WriteStatus ==
    /\ head # None /\ Len(statuses) < most.statuses
    /\ \E x \in Contexts, s \in {"success", "failure"} :
         statuses' = Append(statuses, [sha |-> head, context |-> x, state |-> s])
    /\ UNCHANGED <<fixed, refVars, rowVars, reviews, pc, req, writing, editVars, faults, installs>>

\* handleUpdate of pull-crud.ts: the row is read, and must be open; the refs are read, and must
\* have the base asked for; then the row is written, whatever it has become.
BeginEdit ==
    /\ editing = NoEdit /\ edits < most.edits /\ issue = "open"
    /\ \E b \in Bases \ {row.base} : editing' = [at |-> "refs", to |-> b]
    /\ edits' = edits + 1
    /\ UNCHANGED <<fixed, refVars, rowVars, reviews, statuses, pc, req, writing, faults, installs>>

FindNewBase ==
    /\ editing.at = "refs"
    /\ editing' = IF tips[editing.to] = None THEN NoEdit ELSE [editing EXCEPT !.at = "update"]
    /\ UNCHANGED <<fixed, refVars, rowVars, reviews, statuses, pc, req, writing, edits, faults, installs>>

UpdateBase ==
    /\ editing.at = "update"
    /\ row' = [row EXCEPT !.base = editing.to]
    /\ editing' = NoEdit
    /\ UNCHANGED <<fixed, refVars, issue, reviews, statuses, pc, req, writing, edits, faults, installs>>

\* setState of pull-crud.ts, by the author or a maintainer.
Close ==
    /\ ~row.merged /\ issue = "open"
    /\ issue' = "closed"
    /\ UNCHANGED <<fixed, refVars, row, reviews, statuses, pc, req, writing, editVars, faults, installs>>

Reopen ==
    /\ ~row.merged /\ issue = "closed"
    /\ issue' = "open"
    /\ UNCHANGED <<fixed, refVars, row, reviews, statuses, pc, req, writing, editVars, faults, installs>>

MergeRequest(m) ==
    \/ BeginMerge(m) \/ ComputeGitState(m) \/ EvaluateReviews(m) \/ EvaluateChecks(m)
    \/ MergeRefused(m) \/ AlreadyMerged(m) \/ ResolveMerge(m) \/ TakeSnapshot(m)
    \/ Install(m) \/ InstallRefused(m) \/ MarkRow(m) \/ MarkIssue(m) \/ Die(m)

Others ==
    \/ PushHead \/ DeleteHead \/ \E b \in Bases : PushBase(b) \/ DeleteBase(b)
    \/ BeginReview \/ InsertReview \/ WriteStatus
    \/ BeginEdit \/ FindNewBase \/ UpdateBase
    \/ Close \/ Reopen

Next == Others \/ \E m \in Mergers : MergeRequest(m)

Spec == Init /\ [][Next]_vars

-----------------------------------------------------------------------------
\* Reference: of the lines of CODEOWNERS that match the path the last one, if it names owners,
\* names one of those who approved.
OwnedBy(path, approvers) ==
    LET lines == {i \in DOMAIN OwnersFile.list : path \in OwnersFile.list[i].matches}
    IN \A i \in lines :
         (\A j \in lines : j <= i) /\ OwnersFile.list[i].owners # {} => OwnersFile.list[i].owners \cap approvers # {}

\* Reference: what r's reviews had come to when there were k: the last of those that count.
LastWord(k, rule, h, r) ==
    LET said == {i \in 1..k : reviews[i].by = r /\ (rule.dismissStale => reviews[i].sha = h)}
    IN {reviews[i].state : i \in {j \in said : \A l \in said : l <= j}}

\* Reference: at some moment each principal asked for had approved the head as it is and
\* nobody's last word was a request for changes.
WasApproved(rule, h) ==
    \E k \in 0..Len(reviews) :
        LET approvers == {r \in Reviewers \ {Author} : "approved" \in LastWord(k, rule, h, r)}
        IN /\ Cardinality(approvers) >= rule.requiredReviews
           /\ \A r \in Reviewers \ {Author} : "changes_requested" \notin LastWord(k, rule, h, r)
           /\ rule.requireCodeOwner => OwnersFile.status = "read" /\ \A p \in Changed : OwnedBy(p, approvers)

\* Reference: at some moment the last status of each context asked for was a success.
WasPassing(rule, h) ==
    \E k \in 0..Len(statuses) : \A x \in rule.contexts :
        LET of == {i \in 1..k : statuses[i].sha = h /\ statuses[i].context = x}
        IN \E i \in of : statuses[i].state = "success" /\ \A j \in of : j <= i

\* A head had, at some moment before, the approvals and the checks that the rules of the base
\* ask for from administrators too.
WasCleared(b, h) ==
    \A j \in DOMAIN rules[b] :
        rules[b][j].enforceAdmins => WasApproved(rules[b][j], h) /\ WasPassing(rules[b][j], h)

\* Every merge was evaluated, under the rules of the very base it lands on, with a head that had
\* the approvals and the checks; and that head is the one that is merged, unless the head was
\* moved between the evaluation and the merge's own reading of the refs.
MergedWasEvaluated ==
    \A i \in DOMAIN installs :
        /\ WasCleared(installs[i].base, installs[i].evaluated)
        /\ installs[i].head = installs[i].evaluated \/ installs[i].moved

\* docs/github-parity-build.md, "rejected unless required approvals/checks are satisfied": the
\* head that is merged itself had the approvals and the checks.
MergedWasCleared == \A i \in DOMAIN installs : WasCleared(installs[i].base, installs[i].head)

\* The commit a merged pull request names is in the history of the branch it was merged into,
\* and nothing but a rewrite or a deletion of that branch takes it out.
MergedIsInBase == row.merged => row.mergeCommit \in Reach(row.into) \cup lost[row.into]

\* pull-crud.ts, "Cannot edit a closed or merged pull request": the base a merged pull request
\* names is the branch it was merged into.
MergedIntoItsBase == row.merged => row.base = row.into

\* Two merge requests, or the retry of one whose answer was lost, do not merge one head into one
\* base twice: the second finds it in the base, or loses the race for the refs document.  Only
\* where a rewrite or a deletion took the first merge away is there a second.
MergedOnce ==
    \A i, j \in DOMAIN installs :
        installs[i].method = "merge" /\ installs[j].method = "merge"
            /\ installs[i].base = installs[j].base /\ installs[i].head = installs[j].head
        => i = j \/ installs[i].head \in lost[installs[i].base]
=============================================================================
