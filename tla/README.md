# Takos Git in TLA+

Takos Git is a Git host that runs as one Cloudflare Worker. It keeps what it
knows in several stores that share no transaction: **R2** (an object store whose
only coordination is a put conditional on an ETag), **D1** (SQLite, one
statement or one batch at a time), the private storage of **Durable Objects**,
and a **queue**. Every request may be interrupted between two awaits, every
message delivered twice, every worker evicted. What the program promises in
spite of that is what these modules state, check with TLC and prove with TLAPS.

Contents: [The system](#the-system) ·
[Modules](#modules) · [Runs](#runs) · [Bounds](#bounds) · [Fairness](#fairness) ·
[What the code does not keep](#what-the-code-does-not-keep) ·
[Proofs](#proofs) · [Not modelled](#not-modelled) · [Plan](#plan)

## The system

Paths are relative to `src/` of the repository. `PROJECT.json` lists every part
with its files and, under `hazards`, what is hard to test in it, each at its line.

| Part | State | Operations | Hard behaviour | Module |
|---|---|---|---|---|
| Refs document, `git/refs-store.ts` | R2 `refs.json` of each repository: all refs and the default branch in one document; a second one with the pins of running workflows | snapshot with ETag, conditional put, create if absent, delete | writers replace the whole document; who loses the race must notice | `RefsDoc`, `RunPins` |
| Two-phase write, `git/two-phase.ts` | none | snapshot → mutate → conditional put → D1 projection | the projection fails after the put | `RefsDoc`, `PullRequests`, `Forks` |
| Smart HTTP, `smart-http.ts`, `worker.ts` | a request's snapshot, grants and pack | receive-pack; info/refs and upload-pack | objects become visible before refs; grants age; a clone is two requests with nothing between them | `RefsDoc`, `UploadPack` |
| Branch protection and access, `auth/acl.ts` | D1 principals, roles, rules | decide a request | edited while requests run; several doors to one decision | `Authorization`, `MergeProtection`, `Surfaces` |
| Pull requests, `features/pulls/` | D1 pull request, reviews | review, check protection, resolve branches, write a merge commit, move the base | the branches and the reviews move between the steps; retries | `PullRequests`, `TreeMerge` |
| Releases and tags, `features/releases/` | refs, D1 tags and releases, R2 assets | create, publish, delete; upload assets | three stores crossed one after the other | `Releases`, `RefsDoc` |
| Repository life, `features/repos/repositories.ts`, `git/repository-deletion.ts` | D1 row and deletion ledger; R2 document, objects, quarantine marker | create, delete, the cron sweep | sweeps that overlap, requests of a repository that is gone, names used again | `RepoLifecycle` |
| Forks, `features/forks/` | as a repository, and D1 edges | copy objects and refs, synchronize | both sides are pushed to meanwhile | `Forks` |
| Requests for runs, `features/actions/` `http.ts`, `push-trigger.ts`, `orchestrator.ts` | D1 workflows, runs, counter | push, dispatch, rerun, list | they draw numbers and attempts at the same time | `RunRequests` |
| Workflow runs, `features/actions/service.ts` | D1 run, jobs, steps; check runs, statuses | create, start, complete, finalize, cancel | rows of four tables written one after the other by three kinds of actor | `ActionsRun` |
| Coordinator, `features/actions/runner/coordinator.ts` | Durable Object storage: dispatch marks, deadlines, alarm | tick, job result, alarm | redelivery, eviction at any await, time-outs racing late results | `ActionsRun` |
| Job runner, `features/actions/runner/`, `containers/runner/` | containers; R2 logs and artifacts | run a job, send its log, report its verdict | lost answers, appended logs, tokens that expire | `Runner` |
| Workflow engine, `features/actions/engine/` | none | validate, expand matrices, order jobs, match triggers | limits, colliding names | `WorkflowExpansion` |
| Checks, `features/checks/` | D1 check runs, statuses; R2 texts | post, patch, combine | text and row are two writes | `Checks` |
| Webhooks, `features/webhooks/` | D1 hooks and outbox, R2 payloads | enqueue, lease, deliver, retry | leases that run out while the attempt goes on | `WebhookOutbox` |
| Issues, `features/issues/` | D1 issues, labels, milestones, comments, counter | open, edit, close, list | statement by statement, deaths between | `IssueTracker` |
| Members, `features/repos/` `owners.ts`, `collaborators.ts`, `identity.ts` | D1 principals, members, teams, grants | check, then write | two administrators at once; one person by several automations | `Membership` |
| Code browser, `features/repos/code-browser.ts`, `git/` walks | none | trees, histories, comparisons | histories that are cut short | `CodeBrowser`, `CommitGraph` |
| Git formats, `git/` | R2 objects | packs, deltas, zlib, objects, merges, diffs, blame | boundaries of every format | `PackFile`, `Inflate`, `GitObjects`, `TreeMerge`, `LineDiff` |
| Sign-in, `browser-auth.ts`, `interface-oauth-auth.ts` | sealed cookies | sign in, verify, log out | tabs share cookies, answers cross | `Sessions` |
| Frame, `worker.ts`, `lifecycle.ts`, `db/ensure-schema.ts` | D1 ledger of versions | migrate, serve, drain background work | isolates race; work outlives its answer | `Serving` |
| Issue page, `web/src/views/issues/` | signals of the page | load, comment, close, label | overlapping requests, navigation | `IssueScreen` |
| Scripts, `scripts/` | git, GitHub, buckets | publish a release, purge the buckets | killed half-way, run twice at once | `Publication`, `Purge` |

How they interact: a push, a merge, a tag operation and a fork's synchronization
meet only in the refs document. A deletion reserves the name in D1, then fences
the document, then leaves the rest to cron. A push may create workflow runs; a
run's tick goes through the queue to its coordinator, which writes the same D1
rows that the HTTP cancellation writes, and pins the commit in a document of the
repository's R2 space; containers report to the coordinator. Checks and statuses
decide, with reviews and rules, what may be merged. Issues and pull requests
draw from one counter. Webhooks follow every mutation.

What makes each part correct:

- *refs*: the document is one atomic register; no branch or tag points at an
  incomplete history; a branch is rewritten only with permission; HEAD exists;
  whatever a client has tracked it has completely.
- *repository life*: an active repository is usable and keeps what was applied
  to it; a deleted one loses nothing before its window ends; a new one under an
  old name starts empty; a deletion finishes. A completed fork
  lacks nothing but what came too late for its copy.
- *pull requests*: what is merged was evaluated under the rules of the base it lands
  on; it stays in that base until somebody rewrites or deletes it, and is merged once.
- *workflow runs*: a job starts only when all it needs has succeeded; at most so
  many at once; verdicts are final; the run's verdict follows from its jobs';
  the run ends; checks and statuses say what the jobs say; attempts are counted
  without a gap; logs keep what was acknowledged; a pin stays until taken back.
- *webhooks*: a delivery that arrived stays delivered; every delivery ends.
- *access*: all doors come to the same decision; an organization keeps an
  administrator; an identity keeps its row; nobody is taken for whom they have
  not been proven to be while the request ran.
- *formats and algorithms*: what is written reads back, byte for byte; merges keep
  both sides; histories, diffs, comparisons and blame are what they say.

## Modules

| Module | Models | Composes or extends |
|---|---|---|
| `RefRegister` | what the refs promise: an atomic multi-ref register (abstract) | |
| `RefsDoc` | pushes, merges and tag operations on one repository's refs document | implements `RefRegister` |
| `RepoLifecycle` | one repository name: creation, pushes, tags, deletion, sweeps, over R2 and D1 | a coarser view of `RefsDoc`'s writers |
| `WorkflowRun` | what a run promises: the rows of a run and its jobs (abstract) | |
| `ActionsRun` | one run: creator, queue, coordinator, containers, canceller | implements `WorkflowRun` |
| `RunRequests` | the requests that make runs, and the walk over their list | |
| `RunPins` | the document of pins, under the calls of several runs | one step of `ActionsRun`, taken apart |
| `Runner` | one job in its container, and its log | |
| `WebhookOutbox` | hooks, deliveries, and the invocations that send them | |
| `CommitGraph` | walks, ancestry, merge base | |
| `Forks`, `UploadPack` | a repository and its fork; a repository and its clones | extend `CommitGraph` |
| `CodeBrowser` | the pages of a repository's code | extends `CommitGraph` |
| `Authorization` | the decision on a request | |
| `MergeProtection` | the rules of a base branch on a merge | extends `Authorization` |
| `PullRequests` | one pull request and the requests that merge it | extends `MergeProtection` |
| `Surfaces` | the HTTP API, smart HTTP and MCP on the way to that decision | extends `Authorization` |
| `Membership`, `Sessions` | who someone is, and who may administer | |
| `IssueTracker`, `Releases`, `Checks` | handlers over D1 and R2, statement by statement | |
| `IssueScreen` | the page of an issue in the browser | a client of `IssueTracker`'s handlers |
| `Serving` | isolates, the schema, background work | |
| `Publication`, `Purge` | the scripts | |
| `PackFile`, `Inflate`, `GitObjects`, `TreeMerge`, `LineDiff`, `WorkflowExpansion` | algorithms, with reference definitions | |
| `MCRefsDoc`, `MCRepoLifecycle`, `MCActionsRun`, `MCPullRequests` | small instances for TLC; `WebhookOutbox` needs only its configuration | |
| `MCAlgorithms` | each algorithm over every input of a small domain | instantiates the algorithms, `CodeBrowser`, `Authorization`, `Surfaces` |
| `MCServices` | one instance of each remaining part | extends `Forks`, `UploadPack`, `Membership`, `Purge`, `Publication`, `Releases`, `RunPins`, `RunRequests`, `Serving`, `Sessions`, `IssueTracker`, `IssueScreen`, `Checks`; instantiates `Runner` and `MCAlgorithms` |
| `RefsDocProofs`, `RepoLifecycleProofs`, `ActionsRunProofs`, `PullRequestsProofs`, `WebhookOutboxProofs` | theorems about one module each, and that `RefsDoc` and `ActionsRun` implement `RefRegister` and `WorkflowRun` | |
| `WorkerProofs` | theorems about `Serving`, `RunPins`, `Releases`, `Sessions` | |
| `CopiesProofs` | theorems about the walks of `CommitGraph`, and about `Forks` and `UploadPack` | |
| `ServicesProofs` | theorems about `Purge`, `Membership`, `Publication`, `IssueScreen`, `IssueTracker`, `RunRequests`, `Checks` | extends `CopiesProofs`, for its lemma on induction |

In all of them an await is the boundary between two actions: everything the
code does between two awaits is one action, and a request that dies does so
between two. An action's name is the function's where it is one function
(`etagMatches`, `nextRefsDoc`, `mutateRefs`, `CompleteJob`), or the actor and
what it does there (`PushValidate`, `SweepCommit`). The comment `Mutant:` marks
an operator that no specification uses: a plausible bug, put in place of the
definition after it to show that a property notices.

### Refs, repositories and clones

**RefsDoc.** `stored` is the document with its ETag, `objects` the object store,
`rules` the protection row of each branch, `prRow` the merges D1 records, and
`pc`, `req`, `pack`, `toClear`, `forced`, `snap` the locals of a request. A
commit stands for itself with its trees and blobs, `Anc` gives its history. A
push stores its pack commit by commit, so other requests see any part of it;
`Closed` is `validateCommitClosure`. `VersionedEtags` chooses between R2, where
equal content has an equal ETag, and the test bucket, which numbers its puts.

**UploadPack.** A fetch is two requests. The advertisement is read; branches are
pushed, moved and deleted, the repository too; then the refs are read again, the
wants are granted against them, and the walk reads the store while it goes.

**RepoLifecycle.** `doc`, `objects`, `marker` are R2; `row`, `ledger` are D1, with
one entry for each generation (each repository that ever had the name);
`elapsed` says whose `not_before` has passed. A process is a request or one run
of the sweep. A D1 batch is one action. An error of D1 or R2 leaves its
statement undone, and the eight lost races after which a quarantine gives up are
such an error. The window of a deletion ends when no request that began before
it is left: the code calls the ten minutes of `REPOSITORY_QUARANTINE_MS` the
*drain window*, far beyond the life of a request.

**Forks.** `up` and `fork` are the two refs documents, `objects` the fork's own
store, `edge` the row in D1. The forker copies objects, then reads the source's
refs and writes its own, and takes back what it did when a step fails; a
synchronization checks, copies and writes under the document's ETag. Pushes to the
upstream and its deletion come at any moment, also during a copy; `late` records
what they brought after the forker had listed the objects, and what a deletion took
from under a copy. The upstream itself is complete until then, which `RefsDoc` shows.

**Releases.** `tagRef`, `tagObject` are refs and objects, `gitTag`, `release`, `asset`
rows, `bytes` R2. The writer of the refs document is `RefsDoc`'s, here one step.

**CodeBrowser, CommitGraph.** The walks as recursive functions over the set of
commits that are stored, one path of the tree at a time.

### Pull requests and access

**Authorization, MergeProtection, Surfaces.** Operators on rows that were read:
the role of a principal, the rules that apply, what a door asks before. Nothing
moves in them; `PullRequests` and `RefsDoc` decide when the rows are read.

**PullRequests.** `row`, `reviews`, `statuses`, `rules` are D1; `tips` (of the
bases), `head` refs. A merge request reads the row, the git state, the protection,
the refs again, then writes; others review, post statuses, close and reopen
meanwhile, push to the head and the bases, rewrite them, delete them, and give the
pull request another base by PATCH, whose UPDATE comes after awaits of its own
(`editing`). `lost` records what rewrites and deletions took out of a base, `moved`
the requests whose head moved after it was evaluated. A commit is a record of what
made it, so that a squash or a resolution is a new commit and a merge has its
parents.

**Membership, Sessions.** `Membership` has a request read its caller, then whether
they may, then write. In `Sessions` the cookie jar is shared by the tabs;
Accounts is a variable that changes while a request waits for its answer, `live` are
the tokens it has not revoked, and a request keeps the configuration of the Worker
that it began on.

### Workflows

**ActionsRun.** `run`, `job`, `check`, `post` are D1; `mark`, `deadline`, `alarm`
the coordinator's storage; `pin` is in R2. `deliveries` are those the queue has
left (`max_retries` of main.tf); `running` and `results` the containers. The
coordinator's program is `pc` with the locals of the pass it is in; the Durable
Object takes one event at a time (`blockConcurrencyWhile`), while the creator,
the canceller and the containers interleave with each of its steps. `clock`
counts deadlines instead of milliseconds: they are set in order, and the alarm
fires at its time or at any later one.

**RunPins.** What `ActionsRun` takes for one step: read the document, change one
pin, put it if its content is what was read, up to `MaxAttempts` times. A call
may throw anywhere, also after its write took effect.

**RunRequests, WorkflowExpansion, Runner.** The counter and the rows behind a run's
number; the parsed workflow up to the rows of its jobs; the steps of one job with
the chain of its log calls, each of which may be answered late, refused or lost.

### The rest of the Worker

**WebhookOutbox.** Times are what is left of them: `due` and `lease` count down.
`local` is an invocation with the delivery it has claimed. **IssueTracker** keeps
what a handler has still to run in `todo`. **Checks** has the spilled texts.
**Serving** has isolates that come and go, each with its migration step by step,
and the tasks a request leaves behind, with or without an owner; `dropped` has what
was cut off, and whether by the end of its request or the death of the isolate. **IssueScreen**
has each request of the page sent, done and answered apart. **Publication** and
**Purge** interleave two runs of a script with everything that may fail.

### Algorithms

Each module has the code's algorithm and, apart from it, what it is to compute: the
history of a commit as a closure, a merged tree path by path, a diff by applying
it, the objects of a pack by what it was made from, a matrix as a set of
combinations, a glob as a relation. `Inflate` is exact to the bit and is compared
with an encoder of streams; `GitObjects` is exact to the byte with one byte for
each character, which keeps what UTF-8 keeps: separators and order.

## Runs

| Run | Checks | Shows |
|---|---|---|
| `refs_pushes` | `BranchesComplete`, `DefaultBranchExists`, `OnlyForcedRewrites` | two pushers with incomplete packs, rewrites, deletions and a rule that is edited meanwhile never corrupt a branch |
| `refs_merge` | `TagsComplete`, `AtomicRefs` | a push, a merge and a tag operation together are one atomic register |
| `life_recreate` | `ActiveIsUsable`, `KeptUntilElapsed`, `StartsEmpty` | a name that is created, written, deleted, swept and created again, with a failure or a death anywhere |
| `life_fence` | `AppliedIsKept`, `TombstoneFences` | two pushes race each other and the quarantine |
| `life_completes` | `DeletingIsQueued`, `DeletionCompletes` | two deletions and two overlapping sweeps, two of which fail or die: the deletion is never forgotten and finishes |
| `actions_dag` | `NeedsRespected`, `ConcurrencyBounded`, `PinnedWhileRunning`, `RunVerdictHolds`, `KeepsContract` | a matrix and a job that needs it, ticks delivered twice, results lost and late, the repository deleted, the run cancelled over HTTP, a crash at any await |
| `actions_completes` | `ChecksAgree`, `RunCompletes` | without a crash the projections agree and the run ends whatever is lost |
| `actions_lost_deadline` (violation) | `RunCompletes` | a crash between a job's row and its deadline |
| `webhooks` | `SuccessIsFinal`, `DeliveriesSettle` | two invocations send and retry the deliveries of a hook that administrators edit and delete, and one dies |
| `pulls` | `MergedWasEvaluated`, `MergedIsInBase`, `MergedOnce` | two merges of one pull request, by any method, race pushes, rewrites and deletions of head and bases, a PATCH of the base, reviews, statuses, closing, reopening and each other's retries |
| `services` | one property of each remaining part, below | the parts that share no state, each with its own concurrent requests, failures and deaths, and the algorithms over every input of a domain |
| `merged_head_moves` (violation) | `MergedWasCleared` | a head that was pushed after the protection had been evaluated is merged in place of the evaluated one |

`services` is many small models in one run: the initial state chooses one
(`which`), the variables of the others rest, and no step mixes two. Parts that have
theorems are extended, so that the run checks the very properties that are
proved. `Runner` and the algorithms are instantiated, and theirs are the parts of
`ComputedIsExact`:

| Property | Means |
|---|---|
| `LacksOnlyTheLate` | `Forks`: the store of a completed fork has the history of each of its branches, but for what was pushed between the copy and the reading of the refs, or deleted from under it |
| `FetchedIsComplete` | `UploadPack`: a clone has the history of what it tracks, and a pack that is answered completes what was wanted |
| `SyncMovesOneBranch` | `Forks`: a synchronization overwrites nobody's push |
| `ComputedIsExact` | what a definition computes for an input, in four parts: |
| – `HistoryHolds` | `MergeKeepsBoth`, `DiffTransforms`, `BlameIsHonest`, `PackIsFaithful`, `InflateIsExact`, objects that read back; of the pages `HistoryIsExact`, `CompareIsHonest`, `DetailIsReachable`, `PagesAgree` |
| – `WorkflowsAreExact` | `AcceptedCanRun`, `GlobIsExact`, `PushStartsRun` |
| – `DecisionsHold` | a rule only ever denies, what may not be read is not shown, `DoorsAgree`, `OneDoor`, `ListIsComplete`, `RouteIsGuarded` |
| – `Runner.LogIsKept` | the log of a job has what was acknowledged, in order |
| `RunsHold` | `RunRequests`: the attempts of a number are 1, 2, ... of one commit, and a walk through the list passes over no run |
| `OrgKeepsAdmin`, `IdentityKeepsId` | `Membership`: two demotions or removals at once leave an administrator; whoever has a row keeps it |
| `IssuesHold` | `IssueTracker`: issues and pull requests share no number, and a walk passes over no issue that stays open |
| `ReleasesHold` | `Releases`: `PublishedIsTagged`, `ListedHasBytes` |
| `IdentityIsProven` | `Sessions`: who a request is taken for was true at some moment of it |
| `ChecksHold` | `Checks`: a row that points at a text has one, and the combined status is that of the newest status of each context |
| `PinsHold` | `RunPins`: `PinIsKept`, `LostToOthers`, `DocIsSound` |
| `PublishedIsExact` | `Publication`: what is published was built from its tag |
| `SucceededIsClean` | `Purge`: a run that reports success left nothing of what it found, and no cleaner |
| `ServingHolds` | `Serving`: `SchemaIsWhole`, `AnsweredKeepsWork` (an answer cuts off no work, and without a context nothing is left that an isolate could take with it) |
| `CommentedOnce` | `IssueScreen`: a text becomes one comment, unless the page was told that it failed, or another write enabled its button |

The `RefsDoc` runs check for deadlock: a client can always ask again. The others
stop by design: the name's generations are used up, the run has ended, the bound
on requests is reached, the input has been looked at.

Every module with variables of its own states its type invariant, checked on its
instance when it was written. In the modules with proofs it is a theorem, or part
of the inductive invariant behind one, but for `PullRequests`, whose commits are
no set, and `WebhookOutbox`, whose proof needs less (see below).
`MergedRowWasInstalled` (`RefsDoc`) and `CompletedMeansGone` (`RepoLifecycle`) are
theorems and no property of a run: wider properties have taken their place there.
`InFlightIsArmed` (`ActionsRun`) holds on the instance of `actions_completes`.

### Bounds

- `RefsDoc`: two branches, a tag, four commits in a diamond (so that there is a
  fast-forward, a rewrite, a merge and a merge already made), three puts of the
  document. Two clients suffice for every race over one conditional put: a third
  could only change the ETag once more. `MaxWrites` = 3 gives one put before,
  between and after two racing requests.
- `RepoLifecycle`: one or two clients of each kind; `MaxGen` = 2 where the name is
  used again; one or two faults (`MaxFaults`), enough for a failure and a failure
  of its retry. Tokens are the only commits: one for each writer and generation.
- `ActionsRun`: one to five jobs in three shapes (one job; a join declared before
  the matrix it needs; a wide matrix with two levels behind it, so that a skip
  causes a skip), fewer places than ready jobs, up to three deliveries, one
  fault. `MaxDeliveries` stands for six; `MaxFaults` bounds crashes of any
  handler. Without a fault the deadlines, hence `clock`, are bounded by the jobs.
- `WebhookOutbox`: one hook, two deliveries, two invocations, three attempts for
  five, a lease of 2 and attempts of at most 1: the code's lease of 30 seconds
  is longer than its time-out of ten, which also covers the writes after it.
- `PullRequests`: two mergers, two reviewers, two bases; three sets of rules that
  between them have every requirement, each with the bounds (`Bounds`) of what can
  go wrong under it. With nothing to clear: up to two moves of the branches after the
  first commit, two puts, a PATCH and a death, for the race of the puts. With approvals
  and checks: two reviews, or a review and a PATCH, and one move, for the race of the
  evaluation. With an owner and `strict`: two moves, so that the head falls behind
  and is brought up to date.
- `Forks`, `UploadPack`: three commits, two of them children of the first, on two
  branches, so that there is a fast-forward and two tips that share a history;
  what matters is whether a commit is stored before a tip that leads to it.
- `RunPins`: two runs, each with its two kinds of calls, two attempts for six.
- `MCServices`, the rest: two actors (symmetric), three to five requests, one or two
  failures: each pair of handlers meets at each pair of their statements. `Membership`
  has four requests: an organization, a second administrator, and the two demoting
  each other; the last of the four (`LastOps`) is about a member. On the issue's page
  one request fails or one change is made by others (`MaxUpsets`); in `Checks` a push
  that moves the branch counts among the three requests.
- `MCAlgorithms`: three paths that include a file and a directory of one name; texts
  of up to four lines; packs of up to three entries of every kind with limits
  below them; two blocks of a stream, of each type; object names and messages
  made of the characters that separate things; workflows of up to three jobs
  with matrices whose values look alike; words of up to four characters; every
  history of four commits with up to two parents.

### Fairness

No safety run assumes any. `FairSpec` of `RepoLifecycle`: cron keeps calling the
sweep (`scheduled` in `worker.ts`), time passes, and a request once begun
goes on or dies; nobody is obliged to begin one. With faults bounded, a failed
sweep is followed by one that does not fail. `FairSpec` of `ActionsRun`: the
platform delivers the tick while deliveries are left, fires an alarm that is
set, and a handler that has begun goes on; nothing at all is assumed of
containers, whose jobs the alarm must reap. `FairSpec` of `WebhookOutbox`: time
passes, an invocation that has begun goes on, and drains are started again
(cron calls `processDueWebhookDeliveries` each minute); receivers may fail for ever, since
attempts are counted. All of it is weak fairness: each of these steps stays
possible until it is taken.

## What the code does not keep

Two statements of the repository's own comments and docs are refuted by runs that
are kept, with the findings in `PROJECT.json`: "a lost dispatch is still reaped by
the alarm" (`coordinator.ts:254`) and "rejected `409 branch_protected` unless required
approvals/checks are satisfied" (`docs/github-parity-build.md:1060`, and `:1133`): the
protection is evaluated on one head, another is merged (`merge-handlers.ts:51`).
Others were refuted with the instances
below; the properties are stated in the modules, and a configuration that differs
from the named one as described reproduces them. The passing runs hold under
what these exclude.

| Property | Instance | What happens |
|---|---|---|
| `TagsComplete` | `RefsDoc_merge` with `TagsById` | a tag by object id may name an incomplete history (`releases/service.ts:203`, `tags.ts:117`) |
| `ActiveIsUsable` | `Life_recreate` with two sweepers, no pusher, no tagger, no fault | a sweep that another one overtook destroys the next repository of the name (`repository-deletion.ts:167`) |
| `MarkerHasLastRefs` | `Life_recreate` with `MaxGen` = 1, no tagger | a second quarantine reads the tombstone and saves its empty refs over the marker (`repository-deletion.ts:122`, "Safe to retry after any intermediate failure") |
| `KeptUntilElapsed` | `Life_recreate` with two creators, no tagger, no fault | the rollback of a creation that lost deletes the objects of the quarantined repository (`repositories.ts:242`) |
| `NoOrphanDocument` | `Life_recreate` with `MaxGen` = 1, `MaxFaults` = 2, `MayDie` = FALSE | INSERT and rollback both fail; the name is taken for ever (`repositories.ts:240`) |
| `TombstoneFences` | `Life_fence` with a tagger and one pusher | a tag request in flight replaces the tombstone by a live document (`two-phase.ts:78`) |
| `PinDropped` | `Actions_lost_deadline`, under `Spec`, `MaxFaults` = 0, `MayCancel` = "created" | the pin of a run that was cancelled over HTTP stays (`coordinator.ts:159`, `:370`) |
| `ChecksSettle` | `Actions_lost_deadline`, under `Spec` | a crash between the verdict and its projection leaves the check in progress (`service.ts:436`) |
| `ChecksSettle` | the same with `MaxFaults` = 0, `MayCancel` = "created" | `startJob` writes `in_progress` over the check a cancellation has ended (`service.ts:372`) |
| `RunVerdictHolds` | `Actions_dag` with `MayCancel` = "always", no fault, no deletion | jobs inserted after the cancellation stay queued under a completed run (`service.ts:536`) |
| `RunCompletes` | `Actions_dag` under `FairSpec`, no cancellation, no fault, one delivery | the repository is gone: the first job fails, nothing wakes the coordinator for the next (`coordinator.ts:224`) |
| `SuccessIsFinal` | `Webhooks` with `AttemptLimit` = 2 | an attempt that outlives its lease overwrites the outcome of the next (`webhooks/service.ts:405`) |
| `DeliveriesSettle` | `Webhooks` with `DieInLast`, or with `RedeliverSpent` | a death in the last attempt leaves the row pending, and no drain selects it; nor one that was exhausted and is redelivered |
| `BodyMatchesHeader` | `Webhooks` with both content types | the type is read at each attempt, the payload was encoded before |
| `MergedIntoItsBase` | `PullRequests` | a PATCH that began before the merge gives the merged row another base (`pull-crud.ts:202`, "Cannot edit a closed or merged pull request") |
| `ResolutionKeepsAdditions` | `Services` | a merge with resolutions drops a file that one side alone added (`merge-resolution.ts:175`; `:6` "applies user-supplied blob resolutions, builds the merged tree") |
| `ForkIsComplete` | `Services` | a fork whose upstream moves while it is copied has refs without objects (`forks/service.ts:380`) |
| `SyncFastForwards` | `Services` | the fork is pushed to after the check (`forks/service.ts:519`, "Rejects any non-fast-forward") |
| `PublishedIsExact` | `Services` with `BuildsAt` = {"absent"} | a build by hand between the identity check and the candidate is published |
| `NeverLost` | `Services` | what runs without a context is cancelled with the request (`lifecycle.ts:23`, "slower but never lost") |

Refuted in the same way, on the instance of the run that has the module, and
left as statements because they are of less weight or are the design:

- *Releases*: a release's recorded target is its tag's (`TargetIsTag`); an annotated
  tag's object is the one the ref has (`AnnotationIsOfTag`); bytes without a row
  are swept (`BytesAreSwept`, `releases.ts:303`).
- *Issues*: `comment_count` drifts from the comments (`CountIsComments`,
  `store.ts:724`). A label set is replaced by a DELETE and INSERTs; PATCH writes
  fields before a later check refuses the request; an offset walk over open
  issues passes over one when another is closed; a number is burnt when a
  milestone goes between its read and the INSERT.
- *Runs*: numbers have gaps (`NumbersAreDense`: the SELECT and INSERT of the workflow's row,
  `service.ts:97`, lose a race and the pushed run is lost with it); two attempts of a run
  at once (`OneAttemptAtATime`, `http.ts:414`), and the second of two concurrent
  reruns answers 500; the cached workflow is an old commit's (`CachedIsTip`). A
  listing with a status filter may pass over a run that changes its status.
- *Pins*: `unpinRun` gives up silently after six lost races; the pin stays.
- *Runner*: reports after the verdict (`NothingAfterVerdict`, `contract.ts:64`), a
  log that ends early when its token does (`EndedMeansLogged`), paths of over 100
  bytes in the checkout archive (`CheckoutIsTree`). download-artifact asks with
  GET for a route that takes POST. Two executions of a job append to one log
  without a condition (`Executions` = {1, 2} breaks `LogIsKept`).
- *Checks*: a completed check without a conclusion (`CompletedHasConclusion`); a
  branch name that is not resolved (`RefNameResolves`, `http.ts:84`).
- *Sessions*: the answer to a request sent with an old cookie clears the new session
  (`NewSessionStays`).
- *Access*: a maintainer who bypasses a rule does not get the force push that the
  rule grants a writer (`AdminsMayDoMore`, `acl.ts:237`); deleting needs another
  role through MCP than through HTTP (`DeletersAgree`, `repo-admin.ts:225`); a
  route without an action does not ask for the role it declares
  (`DeclaredRoleIsAsked`, `router.ts:9`); a list stops at `MAX_LIST_SCAN` rows
  (`ListIsComplete` with a scan of 2, `repositories.ts:587`). Writes of
  collaborators, teams and settings are checked before they are made, so that a
  right withdrawn in between is still used; a member who is removed keeps their
  team and their role on repositories.
- *Pull requests*: `enforce_admins` = FALSE lets whoever may merge pass every
  rule; a draft is not refused at the merge; two squashes of one head may both be
  installed (`MergedOnce` is about merge commits); markMerged's two UPDATEs and a
  reopening interleave.
- *Pages*: a comparison with an older base is called diverged when the merge base is
  not the nearest (`StatusIsAncestry`, `code-browser.ts:501`); it shows commits the
  base has (`ShownIsAhead`, `:486`); a file that is gone has no history
  (`GoneHasHistory`, `:239`); the diff of a link throws (`SymlinksAreDiffed`,
  `tree-diff.ts:55`).
- *Formats*: names that mix characters from U+E000 to U+FFFF with ones beyond 16
  bits are sorted otherwise than git does (`TreeIsSorted`, `object.ts:29`: UTF-16
  units, not bytes); the instance has 16-bit names. `decodeTree` stops at a
  truncated entry without an error. A stream's checksum is not compared, and a
  run of lengths beyond the header's total is cut instead of refused.
- *Workflows*: a plain job named like a matrix's cell replaces it (`Replaced`).
- *Clones*: what was advertised may be refused a moment later (`AdvertisedIsGranted`,
  `smart-http.ts:199`).
- *Scripts*: a release under another commit's version (`PublishedIsVersion`,
  `deploy.ts:27`); a bucket that the installation's own Worker refills during the
  purge (`SucceededIsEmpty`).
- *Issue page*: the label picker's answer enables the buttons while a comment is being
  sent (`AlwaysCommentedOnce`); going on to another issue shows, and closes, what the
  late answers are about (`ShownIsAddressed`, `TimelineIsAddressed`,
  `ClosesCommented`, `ShownIsServer`).

## Proofs

TLC decides the runs' instances; the theorems hold for every value of the
constants that satisfies the modules' assumptions: disjoint clients, a reflexive
and transitive ancestor relation, numbers that are naturals. They bound
neither clients, refs, commits, generations nor failures. Where a theorem has a
hypothesis of its own, it excludes what the table
[above](#what-the-code-does-not-keep) refutes the property by, and as little else as
could be managed:

| Theorem | Hypothesis |
|---|---|
| `TagsStayComplete` | `~TagsById` |
| `ActiveStaysUsable`, `AppliedStays`, `CommitsOutliveWindow`, `CompletedStaysGone`, `BeginsEmpty` | `[]NoOverlap`: no two creations of the name, and no two sweeps, are under way at once |
| `TombstonesFence` | the same; it is about pushes, among any number of tag requests |
| `RowsKeepContract`, `VerdictHolds`, `RunningStaysPinned`, `ProjectionsKeepUp` | `MayCancel` # "always" |
| `SentStaysSent` | `AttemptLimit < Lease`, as in the code |
| `PublishedStaysExact` | `BuildsApart`: nobody builds by hand between the look at the source and the copy of the bytes |

**`RefsDocProofs`**

- `TypeCorrect` from the inductive `IInv`. Types alone are not inductive: what is
  put is made from a snapshot, so `IInv` adds `RequestsFit` (whoever is about to
  write holds a well-formed snapshot with which its request is consistent) and
  `EtagNamesContent` (an ETag identifies the content it came with).
- `RefsAreAtomic`: `RefsDoc` implements `RefRegister`. Each action maps to a step
  of the register or to a stutter; the put is the linearization point. The step
  that matters is `WriteIsFresh`: an equal ETag means, by `EtagNamesContent`, an
  unchanged document, so the old values checked on the snapshot hold at the put.
- `BranchesStayComplete` needs `HInv`: the objects only grow, the closure of every
  request that has passed its validation is stored, and that of every tip is.
- `OnlyForcedRewritesHold` from the same: a branch update about to be put is a
  creation, a deletion, a descendant of the snapshot's tip, or one in `forced`.
- `DefaultBranchStays`: HEAD can only be lost by a write that deletes it or changes
  the default. Pushes refuse the one, nobody does the other; that a merge does
  neither needs `MergesReplace`, since it holds tips from before its awaits.
- `TagsStayComplete`: as for branches, with `TagsEstablished` for the three kinds of
  requests that write tags. A tag by id is the one that does not validate.
- `RowsFollowRefs`: a pull request that D1 calls merged has its commit in `past`, the
  tips its base has had. The row is written after the put (`AppliedIsPast`), or
  because the head was found in a tip (`TipsArePast`).

**`RepoLifecycleProofs`**

- `TypeCorrect` from `TInv`: the types, and `Located`: who is past its snapshot has
  one, and who writes is bound to a generation.
- `DeletingStaysQueued` from `LedgerInv`. The property is not inductive: that a row
  which turns "deleting" has an open ledger entry depends on who may still close
  it. `LedgerInv` says that a generation is drawn by one creation only
  (`DrawnOnce`), that one which is active has no entry yet and one not drawn has
  neither row nor entry (`EntriesFit`), and what each place in the code knows of
  its generation (`Knows`): a creation about to insert, that it has no trace; whoever
  is past a deletion's batch, that it has an entry. None of this is ever taken
  back by another process, which is why the unconditional updates of the ledger
  are harmless for this property, whatever number of deletions and sweeps overlap.
- The properties of what a repository holds, all from `NameInv`. One generation at
  most has the name (`Stored`); commits and refs are those of the generation that
  has it, an object is deleted only when the window of its generation has elapsed,
  and each actor knows something that stays true while it waits: a creation that
  nothing of the name is stored but its own, a writer the document its snapshot is of,
  a deletion and a sweep how far they have come. `ActiveStaysUsable`, `AppliedStays`,
  `CommitsOutliveWindow`, `CompletedStaysGone` are among its conjuncts or follow from
  them; `BeginsEmpty` and `TombstonesFence` are about the steps that insert a row
  and by which a push puts a document.
  The theorems are about behaviours: `NoOverlap` says of each state that no two
  creations and no two sweeps are between their first and last step, for any number of
  creators and sweepers, one after the other, and writers and deletions
  without limit and at any time. While two sweeps overlap, `AtSweep` is not stable,
  while two creations do, `AtCreation` is not, which is what the table's
  counterexamples exploit; that cron runs never overlap is not something the code sees
  to, so the condition has to be seen to by whoever relies on these theorems.
  `DeletingStaysQueued` needs no such condition. `TombstonesFence` says no push puts a
  document over a tombstone; a tag request does (`TombstoneFences` in the table).

**`ActionsRunProofs`**

- `TypeCorrect` from `TInv`: the types, and `BudgetLeft`: whoever is past the choice
  of a job to dispatch holds a place of the budget, since the steps that spend the
  budget do not look at it.
- `NeedsAreRespected` from `OInv`, about the two facts that never change once they
  hold: that all a job needs has succeeded (`NeedsMet`), and that it has all ended
  and something otherwise (`NeedsFailed`). What is ready, running, armed with a
  deadline, timed out or delivering a result has the first, what is about to be
  skipped has the second, so that a decision taken at the scan is still right at
  the end of any number of awaits. That nothing is put back to "queued" (`Unborn`)
  makes them stable. The one argument that is not bookkeeping is `ReadyMet`: the
  worst verdict of a matrix says "success" also when some of its cells were
  skipped; none was, since the cells have the same needs and one of them ran.
- `ConcurrencyIsBounded` from `RoomLeft`: the jobs in progress and the budget left
  are together within the limit, but for the job between its start and its send.

For the rest `MayCancel # "always"`: a run cancelled while it is being created does
break the contract (see the table above).

- `RowsKeepContract`: `ActionsRun` implements `WorkflowRun`. `CInv` adds who is at work
  on the rows: the creator alone until it has queued the tick, and the rows are all
  there by then; no job left once the run has ended or its jobs are cancelled;
  what was given to a container has begun, and so has the run; at "finish" all jobs
  have ended and the verdict is the worst of theirs. Eight actions write the rows
  (`RowWriters`): each is a step of the contract, or none where the row it would
  write has ended meanwhile. `VerdictIsWorst` is that the code's ranking and the
  contract's list give the same verdict.
- `VerdictHolds` from the same invariant.
- `RunningStaysPinned` from `PinHeld`: the commit is pinned before the dispatch that
  starts a job and its pin is taken back after the last of them, so that only who
  takes it back has to know that no job is in progress, which `CInv` says.
- `ProjectionsKeepUp`: as long as nothing has stopped half-way and nobody has begun to
  cancel (`Undisturbed`), a job that has ended has its check and its status, except
  for the one the coordinator is at (`Projecting`). Whatever happened to the queue,
  the results and the deadlines does not matter.

**`PullRequestsProofs`**, under `PullsAssumption`; a commit carries its history

- `MergedStaysInBase` from `GrowthInv`: what a request is about to put is sound (it
  is made of commits that are) and goes on from the base it read, and an equal ETag
  means that this is the base still. So a merge only adds to its base, and what is
  missing of a merged commit's base was taken by a push that rewrote it, or a deletion
  (`lost`). The row's `into` is the base of the request that wrote it, whatever base a
  PATCH has given it since.
- `MergedOnlyOnce` from `OnceInv`: a head that was merged is in the base for good
  (`PutIsThere`); a request that is about to put brings a head its base does not
  have (`Brings`), hence one that was not merged since it read that base.
- `MergesWereEvaluated` from `ClearedInv`. At some moment the reviews of the evaluated
  head satisfied the rules of the branch the merge lands on, at some moment its checks
  did. Reviews and statuses are lists that only grow, so that neither clearance is
  ever taken back (`ClearancesLast`), and each place a request may be at carries what has been
  evaluated so far (`Evaluated`), about the head it holds: which is the branch's head
  until that moves (`MovesAreKnown`). That a head which has moved is merged
  nevertheless is the run `merged_head_moves`.
- `RulesOnlyDeny`, about the decision of `Authorization`, on which `MergeProtection` rests: for any roles, rules and credentials, more rules allow no
  more, and a private repository answers who has no role on it as a missing one does.
  It is the first part of `DecisionsHold` in the table above, for every input.

**`WebhookOutboxProofs`**, under `OutboxAssumption` and `NamesAssumption`

- `SentStaysSent`. `FinishAttempt` writes by id, whoever has the claim, so nothing in
  the statement keeps two invocations apart; time does. `Held`: an attempt that is
  under way has its row's claim, and what is left of the lease and the attempt's
  age together are at least the lease. As the age stays below it, the row is not due
  and cannot be claimed by another. That the pause before a retry is not negative is
  not needed; it could not be proved either, being a power of two.

**`WorkerProofs`**

- *Serving*, under `ServingAssumption`. `ServingTyped`; `SchemaStaysWhole` from
  `SchemaInv`: a version took effect once if it is on the ledger and not at all
  otherwise (`Recorded`), since its statements and its row commit together; an
  isolate has passed only versions that are on the ledger (`PastIsRecorded`), from
  which nothing is taken; a request is served on an isolate that has passed them
  all (`ServedOnWhole`). `SchemaIsWhole` alone is not inductive: it says nothing of
  isolates on their way. `WorkIsKept` from `CutOffWithFailed`: the end of a
  request cuts off its tasks only if the request fails, and a dead isolate those of an
  answered request only if it had a context; one without has none left by then. `ServingIsWhole` is both.
- *RunPins*, under `PinsAssumption`. `PinsTyped`; `PinsKept` follows with it alone: a
  write that goes through is made from the document it replaces, so it changes one
  pin and keeps the others; `PinsAreOwn` likewise: what a run pins is its own commit.
  `AttemptsLost` from `SeenIsOlder`: what has been written since a call began is at
  least the number of its lost attempts, and more than that unless the document
  is still the one it has read. A lost attempt is therefore another's success.
  `PinsStay` is all three.
- *Releases*, under `ReleasesAssumption`. `ReleasesStay`: a published release's tag is
  there or was deleted on request, and so are a listed asset's bytes. A handler
  relies on its earlier writes: on the tag it has made when it writes the release,
  on the bytes it has put when it inserts the asset (`JobIsSound`). No step of
  another takes these away without a record of it (`NothingIsLost`).
- *Sessions*, under `SessionsAssumption`. `IdentityStaysProven` from `TabIsSound`:
  while a request is verified, what Accounts says now is among what it has seen,
  and Accounts' answer is read under the installation its cookie was sealed for;
  so whom the request is taken for was true while it ran.

**`CopiesProofs`**, under `GraphAssumption` (finitely many commits, whose parents are
commits), `ForksAssumption` and `FetchAssumption`

- *The walks.* `History` is the least set that has a commit and is closed under
  parents; the code has a queue and a set of visited commits. The loop ends, since
  each turn takes one commit off the queue and what it puts there are links of a
  commit not visited before (`Measure`); what it has visited is closed under
  parents up to the stops, and nothing else is (`WalkVisits`). Hence what is
  collected for a tip has, with the histories of the stops, the tip's whole history
  (`WalksCollect`). The library's induction
  theorems take an operator; `NumbersByStep` takes the set of numbers that have
  the property instead, from the well-founded order of the naturals.
- *Forks.* `ForksStayTyped`. `SyncsMoveOneBranch`: a synchronization's put goes through on
  the document it was made from alone, so other branches, and whatever was pushed
  to them meanwhile, stay. `ForksLackOnlyTheLate` from `CopiesInv`, whatever the
  upstream does meanwhile: a request that is about to put names what it has brought,
  what came too late or what the document had (`RequestIsSound`); objects are taken
  away only with the document, by a fork that fails.
- *UploadPack.* `FetchTypesStay`; `FetchedStaysComplete` from `FetchInv`: a clone has with each
  commit its history, so that what a client says it has may stop a walk, and a
  pack that was collected without a missing object completes what it grants
  (`CloneIsSound`). That the store may lose objects while it is read, and tips move
  after they were advertised, changes which walks fail, not what a walk that
  ends has brought.

**`ServicesProofs`**

- *Purge*, under `PurgeAssumption`. `PurgeHolds` is the inductive invariant: what is yet
  to be written is found by nobody (`Apart`), the buckets behind a run hold nothing
  of what it found (`LeftIsClean`), and a cleaner that is left belongs to a run that
  is at its bucket or will not succeed (`CleanersAreUsed`). `PurgesAreClean` is what
  these say of a run at the last bucket.
- *Membership*, under `MembershipAssumption`. `AdminsRemain`, `IdentitiesStay` and
  `RowsAreOwn`, from one invariant: what each request has read of its caller and
  its target holds while it waits (`Calls`), and an identity has at most one row
  (`OwnRow`). Both statements that could take an administrator carry their condition
  in SQL, which is why no reading needs to be fresh.
- *Publication*, under `PublicationAssumption`. `PublishedStaysExact`: each place of a
  run orders the revisions it has looked at, and the two looks at the source are one
  from the gate on (`Placed`); what lies in the clone between the gate and the copy was
  built from a revision between these looks (`GateBuilt`), hence from that one; tag
  and assets are of it, step by step (`PublishedSoFar`); a release is of its tag
  (`ReleasesAreTagged`).
- *IssueScreen*. `TextsStaySingle` from `ScreenInv`: of each text at most one request is under
  way, and none once it has become a comment that the page knows of
  (`DraftIsSound`). With two texts or more (the run has one) a first version of the model
  did not have it: the `finally` of a post that fails enables the buttons as well,
  also when the post of another text is under way. The model now records that as
  a crossing like those of the page's other writes (`TakePost`).
- *IssueTracker*, under `IssueAssumption`. `IssuesStaySound` from `IssuesInv`: the counter is above
  every number in use and every number drawn, and no two callers about to insert hold
  the same one (`CallerIsSound`, `RowIsSound`); whatever has still to run of a handler
  draws at most once, before it inserts (`InOrder`). What a walk began with and has
  not shown lies at its offset or after it (`WalkIsSound`).
- *RunRequests*, under `RunAssumption`. `RunsStaySound` from `RunsInv`: requests that
  hold one number are of one commit, that of its rows; the attempt a request is
  about to insert is the next one or is taken, in which case the unique index
  refuses it (`RequestIsNext`). New rows come before what a reader has passed
  (`ReaderIsSound`).
- *Checks*. `ChecksStaySound` from `ChecksInv`: who is about to write a row with a pointer has
  put the text (`BotIsSound`), and no text is taken away. That the loop over the
  newest first finds the newest of each context, and its verdict is theirs,
  is by induction along the list (`Counted`).

**Only model-checked.** Liveness (`DeletionCompletes`, `RunCompletes`, `DeliveriesSettle`):
TLAPS has no rules for fairness and ENABLED here. `ComputedIsExact`: merges, diffs,
packs, streams, globs, expansions and the pages are RECURSIVE operators or folds
over their input, and what these compute for every input is out of the prover's
reach (of `DecisionsHold` the first part is proved, see `RulesOnlyDeny`); `LogIsKept`
is about filtered sequences, which it does not know either. Every other property
of a passing run is stated by a theorem.

## Not modelled

`PROJECT.json` gives the reason part by part.

- *Forms*: SHA-1 (an object's id is the object), packet lines, YAML, JSON envelopes,
  the tables' SQL beyond what a statement reads and writes, tar beyond names and
  sizes, signatures and sealed cookies beyond whether they verify.
- *Reads that decide nothing*: listings of comments, members, steps; the landing
  page; assets; the smoke test.
- *Rows that nothing else reads*: the steps of a job, download counters, titles and
  bodies, `ref_index`, which only forks write.
- *The browser interface* but for the page of an issue, whose requests overlap: the
  other pages load and show, and their forms follow the same pattern.
- *Inside the modelled parts*: more than one repository in a lifecycle; more than one
  rule on a branch in `RefsDoc` (`Authorization` has them); the sweep's limit of 20
  rows; the meta entry of the coordinator and its cancel endpoint, which nothing
  calls; workflow secrets; a negotiation round that upload-pack answers at once;
  the masking of secrets in a log; the edit of a comment in the page of an issue.

## Plan

Every part with state of its own has its module. What is left:

1. That `RunPins` implements the pin of `ActionsRun`, and `IssueTracker`'s counter one
   sequence that both issues and pull requests draw from.
2. Compositions: a pull request's merge with the pushes of `RefsDoc` under one
   protection row; a deletion of the repository under an upload of a release.

Runs are few and each is one question; a run that a theorem or a wider run has
made redundant gives way.
