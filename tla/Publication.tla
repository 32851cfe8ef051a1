----------------------------- MODULE Publication -----------------------------
(***************************************************************************)
(* Publishing a release of the Worker (scripts/deploy.ts, build-worker.ts).   *)
(* Releasers run the script, each in a clone of their own, against one origin  *)
(* and one GitHub repository.  Meanwhile they commit, build and push, other     *)
(* commits arrive, and any command may fail, a mutating one after it took       *)
(* effect.  A Worker's bytes are the commits that its code and its embedded     *)
(* pages were built from; an annotated tag is the releaser who made it and the  *)
(* commit it names.                                                            *)
(***************************************************************************)
EXTENDS Naturals, FiniteSets

CONSTANTS
    Releasers,
    VersionOf,      \* the version of package.json in each commit, commits being 1, 2, ...
    NoOne,          \* what is not there
    MaxRuns,        \* bound: runs of the script
    MaxFailures,    \* bound: commands that fail
    BuildsAt        \* the places in the script at which a releaser may also build by hand

Revisions == DOMAIN VersionOf
Versions == {VersionOf[c] : c \in Revisions}
Assets == {"worker.js", "worker.js.sha256", "takosumi-artifact.json"}

\* Commits are numbered as they come; what is not there is none of what may be.
PublicationAssumption ==
    /\ IsFiniteSet(Revisions) /\ Revisions # {} /\ Revisions = 1..Cardinality(Revisions)
    /\ MaxRuns \in Nat /\ MaxFailures \in Nat
    /\ NoOne \notin Revisions /\ NoOne \notin [code : Revisions, pages : Revisions]
    /\ NoOne \notin [by : Releasers, commit : Revisions]
    /\ NoOne \notin [tag : [by : Releasers, commit : Revisions], bytes : [code : Revisions, pages : Revisions],
                     assets : SUBSET Assets, draft : BOOLEAN]

VARIABLES
    head,         \* releaser -> commit of main in the clone
    web,          \* releaser -> commit web/dist was built from
    dist,         \* releaser -> the commits of the code and of the pages in dist/worker.js
    localTag,     \* releaser -> version -> tag
    originMain, originTag,
    ghRelease,      \* version -> NoOne, or the tag's commit, the bytes, and the assets that arrived; a draft until all have
    run,          \* releaser -> the run under way
    runs, failures

pvars == <<head, web, dist, localTag, originMain, originTag, ghRelease, run, runs, failures>>

NoRun == [at |-> "idle", version |-> 0, first |-> 0, commit |-> 0, bytes |-> NoOne, execute |-> FALSE, second |-> FALSE]
TagOf(r, c) == [by |-> r, commit |-> c]

Stages == {"idle", "source", "absent", "gate", "prepare", "dry", "tag", "push", "readTag", "publish", "readRelease",
           "published", "untouched", "indeterminate"}
Bytes == [code : Revisions, pages : Revisions]
TagObjects == [by : Releasers, commit : Revisions]
PTypeOK ==
    /\ head \in [Releasers -> Revisions] /\ web \in [Releasers -> Revisions \cup {NoOne}] /\ dist \in [Releasers -> Bytes \cup {NoOne}]
    /\ localTag \in [Releasers -> [Versions -> TagObjects \cup {NoOne}]]
    /\ originMain \in Revisions /\ originTag \in [Versions -> TagObjects \cup {NoOne}]
    /\ ghRelease \in [Versions -> {NoOne} \cup [tag : TagObjects, bytes : Bytes, assets : SUBSET Assets, draft : BOOLEAN]]
    /\ run \in [Releasers -> [at : Stages, version : Versions \cup {0}, first : Revisions \cup {0}, commit : Revisions \cup {0},
                              bytes : Bytes \cup {NoOne}, execute : BOOLEAN, second : BOOLEAN]]
    /\ runs \in 0..MaxRuns /\ failures \in 0..MaxFailures

PInit ==
    /\ head = [r \in Releasers |-> 1] /\ web = [r \in Releasers |-> NoOne] /\ dist = [r \in Releasers |-> NoOne]
    /\ localTag = [r \in Releasers |-> [v \in Versions |-> NoOne]]
    /\ originMain = 1 /\ originTag = [v \in Versions |-> NoOne] /\ ghRelease = [v \in Versions |-> NoOne]
    /\ run = [r \in Releasers |-> NoRun] /\ runs = 0 /\ failures = 0

-----------------------------------------------------------------------------
(* The releaser's clone, and the others'                                     *)

\* Main moves on in the clone: a commit of one's own, or a pull.
Advance(r) ==
    /\ head[r] < Cardinality(Revisions) /\ head' = [head EXCEPT ![r] = @ + 1]
    /\ UNCHANGED <<web, dist, localTag, originMain, originTag, ghRelease, run, runs, failures>>

PushMain(r) ==
    /\ head[r] > originMain /\ originMain' = head[r]
    /\ UNCHANGED <<head, web, dist, localTag, originTag, ghRelease, run, runs, failures>>

\* A fetch brings the tags of origin that the clone has not.
FetchTags(r) ==
    /\ localTag' = [localTag EXCEPT ![r] = [v \in Versions |-> IF @[v] = NoOne THEN originTag[v] ELSE @[v]]]
    /\ UNCHANGED <<head, web, dist, originMain, originTag, ghRelease, run, runs, failures>>

Built(code, pages) == [code |-> code, pages |-> pages]

\* build-worker.ts run by itself: the code that is checked out, with the pages that are there.
BuildWorker(r) ==
    /\ run[r].at \in BuildsAt /\ web[r] # NoOne /\ dist' = [dist EXCEPT ![r] = Built(head[r], web[r])]
    /\ UNCHANGED <<head, web, localTag, originMain, originTag, ghRelease, run, runs, failures>>

-----------------------------------------------------------------------------
(* The script                                                                *)

RunAt(r, where) == run[r].at = where
RunTo(r, where) == run' = [run EXCEPT ![r].at = where]
Stop(r, how) == RunTo(r, how)
Finished == {"idle", "dry", "published", "untouched", "indeterminate"}
Mutated(r) == run[r].at \in {"push", "readTag", "publish", "readRelease"}
OutsideRun == <<head, web, dist, localTag, originMain, originTag, ghRelease>>

\* The version is read first, from the worktree.
StartRun(r, execute) ==
    /\ run[r].at \in Finished /\ runs < MaxRuns /\ runs' = runs + 1
    /\ run' = [run EXCEPT ![r] = [NoRun EXCEPT !.at = "source", !.version = VersionOf[head[r]], !.execute = execute]]
    /\ UNCHANGED <<OutsideRun, failures>>

\* requireSourceIdentity: the tree is clean, on main, and what it is at is what origin is at.
RequireSource(r) ==
    /\ RunAt(r, "source")
    /\ IF head[r] # originMain THEN Stop(r, "untouched")
       ELSE run' = [run EXCEPT ![r].at = "absent", ![r].commit = head[r], ![r].first = IF @ = 0 THEN head[r] ELSE @]
    /\ UNCHANGED <<OutsideRun, runs, failures>>

\* Mutant: the commit after the gate is taken without a look at the one before.
AnyCommit(r) == TRUE
SameCommit(r) == run[r].commit = run[r].first

\* requireNoExistingIdentity: no tag here, none at origin, no release.
RequireAbsent(r) ==
    LET v == run[r].version
    IN /\ RunAt(r, "absent")
       /\ IF ~SameCommit(r) \/ localTag[r][v] # NoOne \/ originTag[v] # NoOne \/ ghRelease[v] # NoOne THEN Stop(r, "untouched")
          ELSE RunTo(r, IF run[r].second THEN "prepare" ELSE "gate")
       /\ UNCHANGED <<OutsideRun, runs, failures>>

\* bun run check ends in the build; then everything is looked at again.
Gate(r) ==
    /\ RunAt(r, "gate")
    /\ web' = [web EXCEPT ![r] = head[r]] /\ dist' = [dist EXCEPT ![r] = Built(head[r], head[r])]
    /\ run' = [run EXCEPT ![r].at = "source", ![r].second = TRUE]
    /\ UNCHANGED <<head, localTag, originMain, originTag, ghRelease, runs, failures>>

\* prepareCandidate copies the bytes; a dry run ends here.
Prepare(r) ==
    /\ RunAt(r, "prepare")
    /\ run' = [run EXCEPT ![r].at = IF run[r].execute THEN "tag" ELSE "dry", ![r].bytes = dist[r]]
    /\ UNCHANGED <<OutsideRun, runs, failures>>

\* createTag: the local tag, then a push that does not force.
CreateTag(r) ==
    LET v == run[r].version
    IN /\ RunAt(r, "tag")
       /\ IF localTag[r][v] # NoOne THEN Stop(r, "indeterminate") /\ UNCHANGED localTag
          ELSE RunTo(r, "push") /\ localTag' = [localTag EXCEPT ![r][v] = TagOf(r, run[r].commit)]
       /\ UNCHANGED <<head, web, dist, originMain, originTag, ghRelease, runs, failures>>

PushTaken(r) == originTag[run[r].version] \in {NoOne, localTag[r][run[r].version]}

PushTag(r) ==
    LET v == run[r].version
    IN /\ RunAt(r, "push")
       /\ IF PushTaken(r) THEN RunTo(r, "readTag") /\ originTag' = [originTag EXCEPT ![v] = localTag[r][v]]
          ELSE Stop(r, "indeterminate") /\ UNCHANGED originTag
       /\ UNCHANGED <<head, web, dist, localTag, originMain, ghRelease, runs, failures>>

\* verifyRemoteTag: both the object and the commit.
ReadTag(r) ==
    /\ RunAt(r, "readTag")
    /\ RunTo(r, IF originTag[run[r].version] = TagOf(r, run[r].commit) THEN "publish" ELSE "indeterminate")
    /\ UNCHANGED <<OutsideRun, runs, failures>>

\* gh release create --verify-tag: refused where there is a release; a draft until the last asset is up.
CreateRelease(r) ==
    LET v == run[r].version
    IN /\ RunAt(r, "publish")
       /\ IF ghRelease[v] # NoOne \/ originTag[v] = NoOne THEN Stop(r, "indeterminate") /\ UNCHANGED ghRelease
          ELSE /\ RunTo(r, "readRelease")
               /\ ghRelease' = [ghRelease EXCEPT ![v] = [tag |-> originTag[v], bytes |-> run[r].bytes, assets |-> Assets, draft |-> FALSE]]
       /\ UNCHANGED <<head, web, dist, localTag, originMain, originTag, runs, failures>>

\* verifyReleaseAssets: no draft, the three assets and no other, and every byte as it was.
ReadRelease(r) ==
    LET got == ghRelease[run[r].version]
    IN /\ RunAt(r, "readRelease")
       /\ RunTo(r, IF got # NoOne /\ ~got.draft /\ got.assets = Assets /\ got.bytes = run[r].bytes THEN "published" ELSE "indeterminate")
       /\ UNCHANGED <<OutsideRun, runs, failures>>

\* A command fails: before publication nothing has happened yet, later it may have.
Fail(r) ==
    LET v == run[r].version
        tagged == RunAt(r, "push") /\ PushTaken(r)
        drafted == RunAt(r, "publish") /\ ghRelease[v] = NoOne /\ originTag[v] # NoOne
    IN /\ run[r].at \notin Finished /\ failures < MaxFailures /\ failures' = failures + 1
       /\ Stop(r, IF Mutated(r) \/ RunAt(r, "tag") THEN "indeterminate" ELSE "untouched")
       /\ \/ UNCHANGED <<originTag, ghRelease>>
          \/ tagged /\ originTag' = [originTag EXCEPT ![v] = localTag[r][v]] /\ UNCHANGED ghRelease
          \/ drafted /\ UNCHANGED originTag
             /\ \E up \in {{}, {"worker.js"}} :
                  ghRelease' = [ghRelease EXCEPT ![v] = [tag |-> originTag[v], bytes |-> run[r].bytes, assets |-> up, draft |-> TRUE]]
       /\ UNCHANGED <<head, web, dist, localTag, originMain, runs>>

PNext ==
    \E r \in Releasers :
        \/ Advance(r) \/ PushMain(r) \/ FetchTags(r) \/ BuildWorker(r)
        \/ \E execute \in BOOLEAN : StartRun(r, execute)
        \/ RequireSource(r) \/ RequireAbsent(r) \/ Gate(r) \/ Prepare(r)
        \/ CreateTag(r) \/ PushTag(r) \/ ReadTag(r) \/ CreateRelease(r) \/ ReadRelease(r)
        \/ Fail(r)

PSpec == PInit /\ [][PNext]_pvars

-----------------------------------------------------------------------------

\* deploy.ts, the contract's provenance and post-conditions: what is reported as published is
\* at origin, complete, and was built from the commit its tag names; and where two published
\* the same version, they published the same.
PublishedIsExact ==
    \A r \in Releasers : RunAt(r, "published") =>
        LET v == run[r].version
        IN /\ originTag[v] = TagOf(r, run[r].commit)
           /\ ghRelease[v] = [tag |-> originTag[v], bytes |-> Built(run[r].commit, run[r].commit), assets |-> Assets, draft |-> FALSE]

\* deploy.ts:46 "never replaces or deletes a release or tag", and "production is untouched" of a
\* run that says so.
NothingReplaced ==
    \A v \in Versions :
        /\ originTag[v] # NoOne => originTag'[v] = originTag[v]
        /\ ghRelease[v] # NoOne => ghRelease'[v] = ghRelease[v]
        /\ (originTag'[v] # originTag[v]) => run'[originTag'[v].by].at # "untouched"

\* deploy.ts:27 "github-release:.../v<package-version>": a release carries the version of its commit.
PublishedIsVersion ==
    \A v \in Versions : ghRelease[v] # NoOne => VersionOf[ghRelease[v].tag.commit] = v
=============================================================================
