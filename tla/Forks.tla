------------------------------- MODULE Forks -------------------------------
(***************************************************************************)
(* A repository, its fork, and what runs between them                       *)
(* (src/features/forks): the request that creates the fork by copying       *)
(* objects and refs, the requests that bring one branch up to the           *)
(* upstream's, and the pushes and deletions both see meanwhile.  A request   *)
(* runs to its end, fails, or dies with its invocation.                      *)
(***************************************************************************)
EXTENDS CommitGraph, FiniteSets

CONSTANTS
    Branches,
    Forker, Syncers,     \* requests: the one that forks, those that sync
    None,
    Absent,              \* no refs document
    Readers,             \* may the caller of a sync read the upstream?
    MaxPushes,           \* bound: pushes to either repository
    MaxForkFaults            \* bound: invocations that die, D1 statements that fail

ASSUME ForksAssumption ==
    /\ {MaxPushes, MaxForkFaults} \subseteq Nat
    /\ Readers \subseteq BOOLEAN
    /\ Forker \notin Syncers /\ None \notin Commits

VARIABLES
    upRow,      \* D1: the upstream's row is there, and active
    up,         \* R2: the upstream's refs document
    upObjects,  \* R2: its objects
    late,       \* ghost: the objects that came too late for a copy of it, or went too early
    forkRow,    \* D1: None, or the fork's row: what it says it was forked from
    edge,       \* D1: None, or the fork's row in repo_forks: its upstream
    fork,       \* R2: the fork's refs document and the number of the put that wrote it
    objects,    \* R2: the fork's objects
    pc, forkReq,    \* what each request is at, and holds
    pushes, forkFaults

upstreamVars == <<upRow, up, upObjects, late>>
forkVars == <<forkRow, edge, fork, objects>>
vars == <<upstreamVars, forkVars, pc, forkReq, pushes, forkFaults>>

-----------------------------------------------------------------------------
ForkRequests == {Forker} \cup Syncers

BranchTips == [Branches -> Commits \cup {None}]

EMPTY == [b \in Branches |-> None]

\* readRepoRefs: a missing document reads as the empty one.
readRepoRefs(doc) == IF doc = Absent THEN EMPTY ELSE doc

Sources == {"upstream", "nothing"}

\* `refs`: the source's refs as read; `snap`: the fork's document to write over;
\* `left`: objects still to be copied.
ForkRequestType == [branch : Branches \cup {None}, left : SUBSET Commits, refs : BranchTips, tip : Commits \cup {None},
            snap : [refs : BranchTips, nth : Nat] \cup {Absent}]

NoForkRequest == [branch |-> None, left |-> {}, refs |-> EMPTY, tip |-> None, snap |-> Absent]

Pcs == {"idle", "copy", "read", "snapshot", "cas", "project", "edge", "rollback",
        "deleteRow", "mirror", "done"}

TypeOK ==
    /\ upRow \in BOOLEAN
    /\ up \in BranchTips \cup {Absent}
    /\ {upObjects, late, objects} \subseteq SUBSET Commits
    /\ forkRow \in Sources \cup {None} /\ edge \in Sources \cup {None}
    /\ fork \in [refs : BranchTips, nth : Nat] \cup {Absent}
    /\ pc \in [ForkRequests -> Pcs]
    /\ forkReq \in [ForkRequests -> ForkRequestType]
    /\ pushes \in 0..MaxPushes /\ forkFaults \in 0..MaxForkFaults

Init ==
    /\ upRow = TRUE
    /\ up \in {r \in BranchTips : \A b \in Branches : r[b] # None}
    /\ upObjects = UNION {History(up[b]) : b \in Branches} /\ late = {}
    /\ forkRow = None /\ edge = None /\ fork = Absent /\ objects = {}
    /\ pc = [r \in ForkRequests |-> "idle"] /\ forkReq = [r \in ForkRequests |-> NoForkRequest]
    /\ pushes = 0 /\ forkFaults = 0

Goto(r, l) == pc' = [pc EXCEPT ![r] = l]

\* The request has answered, or died: its memory is gone.
Ended(r) ==
    /\ Goto(r, IF r = Forker THEN "done" ELSE "idle")
    /\ forkReq' = [forkReq EXCEPT ![r] = NoForkRequest]

-----------------------------------------------------------------------------
\* POST .../forks

\* createForkHandler up to provisionRepo, which creates the document and the row.
Provision ==
    /\ pc[Forker] = "idle" /\ upRow
    /\ forkRow = None /\ fork = Absent
    /\ forkRow' = "upstream"
    /\ fork' = [refs |-> EMPTY, nth |-> 1]
    /\ Goto(Forker, "copy")
    /\ forkReq' = [forkReq EXCEPT ![Forker].left = upObjects]
    /\ UNCHANGED <<upstreamVars, edge, objects, pushes, forkFaults>>

\* copyRepoObjects: one object, if it is still there.
CopyObject ==
    /\ pc[Forker] = "copy"
    /\ \E c \in forkReq[Forker].left :
         /\ objects' = objects \cup ({c} \cap upObjects)
         /\ forkReq' = [forkReq EXCEPT ![Forker].left = @ \ {c}]
    /\ UNCHANGED <<upstreamVars, forkRow, edge, fork, pc, pushes, forkFaults>>

\* readRepoRefs of the source.
ReadSource ==
    /\ pc[Forker] = "copy" /\ forkReq[Forker].left = {}
    /\ forkReq' = [forkReq EXCEPT ![Forker].refs = readRepoRefs(up)]
    /\ Goto(Forker, "snapshot")
    /\ UNCHANGED <<upstreamVars, forkVars, pushes, forkFaults>>

\* The edge's foreign key refuses an upstream that is gone.
InsertEdge ==
    /\ pc[Forker] = "edge" /\ upRow /\ forkRow # None
    /\ edge' = "upstream"
    /\ Ended(Forker)
    /\ UNCHANGED <<upstreamVars, forkRow, fork, objects, pushes, forkFaults>>

EdgeRefused ==
    /\ pc[Forker] = "edge" /\ ~(upRow /\ forkRow # None)
    /\ Goto(Forker, "rollback")
    /\ UNCHANGED <<upstreamVars, forkVars, forkReq, pushes, forkFaults>>

\* deleteForkRollback: the document and the objects, if there is a document; then the row.
Rollback ==
    /\ pc[Forker] = "rollback"
    /\ fork' = Absent
    /\ objects' = IF fork = Absent THEN objects ELSE {}
    /\ Goto(Forker, "deleteRow")
    /\ UNCHANGED <<upstreamVars, forkRow, edge, forkReq, pushes, forkFaults>>

DeleteRow ==
    /\ pc[Forker] = "deleteRow"
    /\ forkRow' = None /\ edge' = None
    /\ Ended(Forker)
    /\ UNCHANGED <<upstreamVars, fork, objects, pushes, forkFaults>>

-----------------------------------------------------------------------------
\* POST .../sync

\* resolveUpstream: the edge first, the row's column when there is no edge or it is empty.
ResolvedUpstream ==
    IF edge \in {None, "nothing"} THEN forkRow ELSE edge

FastForward(old, new) == old = None \/ isAncestor(upObjects, old, new) = "yes"

\* syncHandler and syncFork up to the ancestry check; all refusals change nothing.
StartSync(s) ==
    /\ pc[s] = "idle"
    /\ forkRow # None /\ ResolvedUpstream = "upstream" /\ upRow
    /\ TRUE \in Readers
    /\ \E b \in Branches :
         /\ readRepoRefs(up)[b] # None
         /\ forkReq' = [forkReq EXCEPT ![s].branch = b, ![s].tip = up[b]]
    /\ Goto(s, "read")
    /\ UNCHANGED <<upstreamVars, forkVars, pushes, forkFaults>>

\* The fork's tip: the same, not an ancestor of the upstream's, or what the copy may stop at.
ReadFork(s) ==
    LET q == forkReq[s]
        forkTip == IF fork = Absent THEN None ELSE fork.refs[q.branch]
        haves == {forkTip} \ {None}
    IN
    /\ pc[s] = "read"
    /\ \/ /\ forkTip = q.tip \/ ~FastForward(forkTip, q.tip)
             \/ ~CanCollect(upObjects, {q.tip}, haves)
          /\ Ended(s)
       \/ /\ forkTip # q.tip /\ FastForward(forkTip, q.tip)
          /\ CanCollect(upObjects, {q.tip}, haves)
          /\ forkReq' = [forkReq EXCEPT ![s].left = ReachableFrom({q.tip}, haves)]
          /\ Goto(s, "mirror")
    /\ UNCHANGED <<upstreamVars, forkVars, pushes, forkFaults>>

\* copyReachableObjects: one object, if it is still there.
MirrorObject(s) ==
    /\ pc[s] = "mirror"
    /\ \E c \in forkReq[s].left :
         /\ objects' = objects \cup ({c} \cap upObjects)
         /\ forkReq' = [forkReq EXCEPT ![s].left = @ \ {c}]
    /\ UNCHANGED <<upstreamVars, forkRow, edge, fork, pc, pushes, forkFaults>>

\* Mutant: the branch moves while objects are still being copied.
MirroredInPart(s) ==
    /\ pc[s] = "mirror"
    /\ Goto(s, "snapshot")
    /\ UNCHANGED <<upstreamVars, forkVars, forkReq, pushes, forkFaults>>

Mirrored(s) ==
    /\ pc[s] = "mirror" /\ forkReq[s].left = {}
    /\ Goto(s, "snapshot")
    /\ UNCHANGED <<upstreamVars, forkVars, forkReq, pushes, forkFaults>>

-----------------------------------------------------------------------------
\* writeRefsWithMetadata, for both.

Snapshot(r) ==
    /\ pc[r] = "snapshot"
    /\ forkReq' = [forkReq EXCEPT ![r].snap = fork]
    /\ Goto(r, "cas")
    /\ UNCHANGED <<upstreamVars, forkVars, pushes, forkFaults>>

\* The fork takes over all refs it read; a sync moves its branch, whatever it is at now.
mutateRefs(r) ==
    IF r = Forker THEN forkReq[r].refs
    ELSE [forkReq[r].snap.refs EXCEPT ![forkReq[r].branch] = forkReq[r].tip]

\* Mutant: a put without onlyIf.
EtagIgnored(r) == fork # Absent

EtagMatches(r) == fork # Absent /\ forkReq[r].snap = fork

CommitRefs(r) ==
    /\ pc[r] = "cas" /\ forkReq[r].snap # Absent /\ EtagMatches(r)
    /\ fork' = [refs |-> mutateRefs(r), nth |-> fork.nth + 1]
    /\ Goto(r, "project")
    /\ UNCHANGED <<upstreamVars, forkRow, edge, objects, forkReq, pushes, forkFaults>>

\* No document, or the race is lost: a sync answers "conflict", a fork rolls back.
CommitRefused(r) ==
    /\ pc[r] = "cas" /\ (forkReq[r].snap = Absent \/ ~EtagMatches(r))
    /\ IF r = Forker THEN Goto(r, "rollback") /\ UNCHANGED forkReq ELSE Ended(r)
    /\ UNCHANGED <<upstreamVars, forkVars, pushes, forkFaults>>

\* projectRefIndex, and the edge's last_synced_at: nothing reads what it writes, and a
\* failure of it is deferred for good, so that it only takes time.
Project(r) ==
    /\ pc[r] = "project"
    /\ IF r = Forker THEN Goto(r, "edge") /\ UNCHANGED forkReq ELSE Ended(r)
    /\ UNCHANGED <<upstreamVars, forkVars, pushes, forkFaults>>

-----------------------------------------------------------------------------
\* What happens meanwhile.

\* What the requests have listed and still have to copy.
ToBeCopied == UNION {forkReq[r].left : r \in {q \in ForkRequests : pc[q] \in {"copy", "mirror"}}}

\* A push of one branch, of the whole history it needs, or its deletion.  What it stores once
\* the forker has listed the objects is not in the list, but the refs are still to be read.
PushUpstream ==
    /\ upRow /\ up # Absent /\ pushes < MaxPushes
    /\ \E b \in Branches, c \in Commits \cup {None} :
         LET brought == IF c = None THEN {} ELSE History(c) \ upObjects
         IN /\ up[b] # c
            /\ up' = [up EXCEPT ![b] = c]
            /\ upObjects' = upObjects \cup brought
            /\ late' = late \cup (IF pc[Forker] = "copy" THEN brought ELSE {})
    /\ pushes' = pushes + 1
    /\ UNCHANGED <<upRow, forkVars, pc, forkReq, forkFaults>>

PushFork ==
    /\ forkRow # None /\ fork # Absent /\ pushes < MaxPushes
    /\ \E b \in Branches, c \in Commits \cup {None} :
         /\ fork.refs[b] # c
         /\ fork' = [refs |-> [fork.refs EXCEPT ![b] = c], nth |-> fork.nth + 1]
         /\ objects' = objects \cup (IF c = None THEN {} ELSE History(c))
    /\ pushes' = pushes + 1
    /\ UNCHANGED <<upstreamVars, forkRow, edge, pc, forkReq, forkFaults>>

\* The upstream is deleted: its row first (the columns that name it become NULL when the
\* sweep removes it), what it stored later; both in one step here.
DeleteUpstream ==
    /\ upRow
    /\ upRow' = FALSE /\ up' = Absent /\ upObjects' = {}
    /\ late' = late \cup ToBeCopied
    /\ forkRow' = IF forkRow = None THEN None ELSE "nothing"
    /\ edge' = IF edge = None THEN None ELSE "nothing"
    /\ UNCHANGED <<fork, objects, pc, forkReq, pushes, forkFaults>>

\* R2 or D1 fails under a fork that is being made: it rolls back.
ForkFails ==
    /\ pc[Forker] \in {"copy", "snapshot", "cas", "edge"} /\ forkFaults < MaxForkFaults
    /\ Goto(Forker, "rollback")
    /\ forkFaults' = forkFaults + 1
    /\ UNCHANGED <<upstreamVars, forkVars, forkReq, pushes>>

\* Either statement of a rollback fails and is caught: what it would have removed stays.
RollbackFails ==
    /\ pc[Forker] \in {"rollback", "deleteRow"} /\ forkFaults < MaxForkFaults
    /\ IF pc[Forker] = "rollback" THEN Goto(Forker, "deleteRow") /\ UNCHANGED forkReq ELSE Ended(Forker)
    /\ forkFaults' = forkFaults + 1
    /\ UNCHANGED <<upstreamVars, forkVars, pushes>>

RequestDies(r) ==
    /\ pc[r] \notin {"idle", "done"} /\ forkFaults < MaxForkFaults
    /\ Ended(r)
    /\ forkFaults' = forkFaults + 1
    /\ UNCHANGED <<upstreamVars, forkVars, pushes>>

ForkRequest == Provision \/ CopyObject \/ ReadSource \/ InsertEdge \/ EdgeRefused \/ Rollback \/ DeleteRow

SyncRequest(s) == StartSync(s) \/ ReadFork(s) \/ MirrorObject(s) \/ Mirrored(s)

WriteRefs(r) == Snapshot(r) \/ CommitRefs(r) \/ CommitRefused(r) \/ Project(r)

Next ==
    \/ ForkRequest
    \/ \E s \in Syncers : SyncRequest(s)
    \/ \E r \in ForkRequests : WriteRefs(r) \/ RequestDies(r)
    \/ PushUpstream \/ PushFork \/ DeleteUpstream
    \/ ForkFails \/ RollbackFails

Spec == Init /\ [][Next]_vars

-----------------------------------------------------------------------------
\* What a branch of a completed fork leads to is in the fork's own store, but for what was pushed
\* to the upstream between the forker's listing of the objects and its reading of the refs, and
\* what a deletion of the upstream took from under a copy: each request copies before it writes
\* the document, and a sync may stop at the fork's tip because nothing else was missing there.
LacksOnlyTheLate ==
    edge # None /\ fork # Absent =>
        \A b \in Branches : fork.refs[b] # None => History(fork.refs[b]) \subseteq objects \cup late

\* Stronger, and not so: the whole history of every branch is in the fork's own store.
ForkIsComplete ==
    edge # None /\ fork # Absent =>
        \A b \in Branches : fork.refs[b] # None => History(fork.refs[b]) \subseteq objects

\* A sync leaves every branch but its own where the document had it, whoever pushed to the
\* fork while it ran.
SyncMovesOneBranch ==
    [][\A s \in Syncers : pc[s] = "cas" /\ pc'[s] = "project" =>
          \A b \in Branches \ {forkReq[s].branch} : fork'.refs[b] = fork.refs[b]]_vars

\* A sync only ever fast-forwards its branch.
SyncFastForwards ==
    [][\A s \in Syncers : pc[s] = "cas" /\ pc'[s] = "project" =>
          \/ fork.refs[forkReq[s].branch] = None
          \/ fork.refs[forkReq[s].branch] \in History(forkReq[s].tip)]_vars
=============================================================================
