---------------------------- MODULE MCAlgorithms ----------------------------
(* The pure algorithms, each over every input of a small domain: a state is one input, and nothing moves. *)
EXTENDS Integers, Sequences, SequencesExt, FiniteSets, TLC

VARIABLES
    kind,     \* the algorithm
    first,    \* its first argument
    rest      \* the others; <<>> while they are still to be chosen

(* Trees: a file a, a file below a directory a, a file b *)
T == INSTANCE TreeMerge WITH Paths <- << <<"a">>, <<"a", "x">>, <<"b">> >>, Blobs <- {"b1", "b2"}

SomeEntries == {[sha |-> "b1", mode |-> "100644"], [sha |-> "b1", mode |-> "100755"], [sha |-> "b2", mode |-> "100644"]}
TreesOf(entries) == {t \in T!Trees : \A p \in DOMAIN t : t[p] \in entries}
OneEntry == {[sha |-> "b1", mode |-> "100644"]}
Linked == SomeEntries \cup {[sha |-> "b2", mode |-> "120000"]}
Resolutions == {T!Empty, <<"a">> :> "b2", <<"b">> :> "delete"}
TreeRests == TreesOf(SomeEntries) \X TreesOf(SomeEntries) \X Resolutions

(* Lines: three of them, texts of up to three, histories of up to four versions *)
L == INSTANCE LineDiff WITH MaxCommits <- 2
Texts(n) == UNION {[1..k -> {"p", "q"}] : k \in 1..n}
Histories == {h \in UNION {[1..k -> Texts(3) \cup {<<>>}] : k \in 1..3} : h[Len(h)] # <<>>}


(* Packs *)
K == INSTANCE PackFile WITH MaxObjectBytes <- 8, MaxTagBytes <- 1, MaxInflatedBytes <- 22, MaxPackObjects <- 4, MaxDeltaDepth <- 2
b1 == K!Object("blob", <<1>>)
b12 == K!Object("blob", <<1, 2>>)
t1 == K!Object("tag", <<1>>)
Copy(from, size) == [op |-> "copy", from |-> from, size |-> size, bytes |-> <<>>]
Insert(bytes) == [op |-> "insert", from |-> 0, size |-> 0, bytes |-> bytes]
Delta(src, tgt, ops) == [src |-> src, tgt |-> tgt, ops |-> ops]
Deltas == {Delta(1, 2, <<Copy(0, 1), Insert(<<2>>)>>), Delta(2, 3, <<Copy(1, 1), Copy(0, 2)>>), Delta(2, 2, <<Copy(1, 2)>>)}
PackEntries ==
    {K!PlainEntry(o) : o \in {b1, b12, t1}}
    \cup {[kind |-> "ofs", object |-> K!NoObject, back |-> n, base |-> K!NoObject, delta |-> d] : n \in 0..2, d \in Deltas}
    \cup {[kind |-> "ref", object |-> K!NoObject, back |-> 0, base |-> o, delta |-> d] : o \in {b1, b12, t1}, d \in Deltas}
Packs == UNION {[1..k -> PackEntries] : k \in 1..3}

(* Streams: a block of each kind, alone or with a second one behind it *)
Z == INSTANCE Inflate
Block(type, bytes, runs, lits, dists, tokens) == [type |-> type, bytes |-> bytes, runs |-> runs, lits |-> lits, dists |-> dists, tokens |-> tokens]
Stored(bytes) == Block("stored", bytes, <<>>, <<>>, <<>>, <<>>)
Fixed(tokens) == Block("fixed", <<>>, <<>>, <<>>, <<>>, tokens)
Lit(b) == <<b, 0, 0, 0>>
Near(dsym) == <<257, 0, dsym, 0>>        \* three bytes again, some of them just written
FixedTokens == {<<>>, <<Lit(97), Lit(200), Lit(0)>>, <<Lit(97), Near(0), Lit(97)>>, <<Lit(97), Lit(98), <<265, 1, 1, 0>>, Lit(97)>>,
                <<Lit(1), Lit(2), Lit(3), Lit(4), Lit(5), <<284, 30, 4, 0>>>>, <<Lit(1), Lit(2), Lit(3), Lit(4), <<285, 0, 3, 0>>>>}
\* 97 and 98 have short codes, one length and two distances; the lengths are written with runs of zeros.
Zeros == Block("dynamic", <<>>,
    <<<<18, 86>>, <<2, 0>>, <<2, 0>>, <<18, 127>>, <<17, 7>>, <<17, 6>>, <<3, 0>>, <<3, 0>>, <<1, 0>>, <<1, 0>>>>,
    [i \in 1..258 |-> IF i \in {98, 99} THEN 2 ELSE IF i \in {257, 258} THEN 3 ELSE 0], <<1, 1>>, <<>>)
\* 0 to 3 have codes; a run of one length goes on from the first code's lengths into the second's.
RunBlock == Block("dynamic", <<>>,
    <<<<3, 0>>, <<16, 0>>, <<18, 127>>, <<18, 103>>, <<2, 0>>, <<16, 0>>>>,
    [i \in 1..258 |-> IF i \in 1..4 THEN 3 ELSE IF i \in {257, 258} THEN 2 ELSE 0], <<2, 2>>, <<>>)
Dynamics == {[Zeros EXCEPT !.tokens = t] : t \in {<<>>, <<Lit(97), Lit(98), Near(1)>>, <<Lit(98), Near(0), Lit(97)>>}}
    \cup {[RunBlock EXCEPT !.tokens = t] : t \in {<<Lit(0), Lit(3)>>, <<Lit(1), Lit(2), Near(1)>>}}
Blocks == {Stored(<<>>), Stored(<<1, 2>>)} \cup {Fixed(t) : t \in FixedTokens} \cup Dynamics
NextBlocks == {<<>>, <<Stored(<<7>>)>>, <<Fixed(<<Lit(65)>>)>>}
Surroundings == {<<<<>>, 1>>, <<<<255>>, 4>>, <<<<120, 156>>, 5>>}      \* what is around a stream, and how much of it is cut off

(* Objects: ids with the bytes of separators, names around "/", messages like headers *)
O == INSTANCE GitObjects WITH ShaBytes <- 2
RegularFile == <<49, 48, 48, 54, 52, 52>>
Spellings == {RegularFile, O!Directory, <<48>> \o O!Directory}
TreeEntries == [mode : Spellings, name : {<<97>>, <<97, 45>>, <<97, 48>>, <<97, 65281>>}, sha : {<<0, 32>>}]
    \cup [mode : Spellings, name : {<<97>>}, sha : {<<32, 0>>, <<47, 48>>}]
EntryLists == {s \in UNION {[1..k -> TreeEntries] : k \in 0..2} : \A i, j \in DOMAIN s : i # j => s[i].name # s[j].name}
Signature(name) == [name |-> name, email |-> <<101>>, time |-> <<49, 48>>, zone |-> <<43, 48>>]
Signatures == {Signature(n) : n \in {<<>>, <<97, 32, 97>>, <<60, 97>>, <<97, 32, 60, 97, 62>>}}
Messages == UNION {[1..k -> {O!Blank, O!Line("tree", <<98>>), O!Line("author", <<97>>), O!Line("text", <<97>>)}] : k \in 1..2}
CommitTexts == [tree : {<<1>>}, parents : {<<>>, <<<<1>>, <<2>>>>}, author : Signatures, committer : {Signature(<<97>>)}, message : Messages]
TagTexts == [object : {<<1>>}, type : {<<99>>}, tag : {<<118>>}, tagger : Signatures, message : Messages]
Raw == UNION {[1..k -> {0, 32, 49}] : k \in 0..2} \cup {[i \in 1..11 |-> 49]}
Signed == <<O!Line("gpgsig", <<>>), O!Line(" ", <<>>)>>


(* Workflows: up to three jobs, values of a matrix of which 1 and "1" look alike *)
SameLook(v) == IF v = "text1" THEN "1" ELSE v
W == INSTANCE WorkflowExpansion WITH Serialized <- SameLook, MaxCombinations <- 3, MaxExpandedJobs <- 4, MaxExpandedSteps <- 5,
                                     MaxJobs <- 3, MaxSteps <- 2
V(key, values) == [keys |-> <<key>>, values |-> key :> values, exclude |-> {}, include |-> <<>>]
Matrices == {
    W!NoMatrix,
    V("k", <<"1", "text1">>),
    [V("k", <<"1", "text1">>) EXCEPT !.exclude = {"k" :> "1"}],
    [V("k", <<"1">>) EXCEPT !.exclude = {"k" :> "1"}],
    [V("k", <<"1", "2">>) EXCEPT !.include = <<"k" :> "1" @@ "o" :> "2", "k" :> "text1", "o" :> "1">>],
    [W!NoMatrix EXCEPT !.include = <<"k" :> "1", "k" :> "text1">>],
    [keys |-> <<"k", "o">>, values |-> "k" :> <<"1", "2">> @@ "o" :> <<"1", "text1">>, exclude |-> {"k" :> "1" @@ "o" :> "1"},
     include |-> <<>>]}
JobA == W!PlainId("A")
JobB == W!PlainId("B")
JobLike == W!JobId(JobA, "k" :> "1")     \* a plain job named as the cell of A with k: 1
Job(id, needs, matrix, steps) == [id |-> id, needs |-> needs, matrix |-> matrix, steps |-> steps]
NeedLists == {<<>>, <<JobA>>, <<JobB>>, <<JobA, JobB>>, <<JobLike>>}
FirstJobs == {Job(JobA, n, m, k) : n \in NeedLists, m \in Matrices, k \in 1..2}
OtherJobs == {Job(id, n, m, 1) : id \in {JobB, JobLike}, n \in NeedLists, m \in {W!NoMatrix, V("k", <<"1", "2">>)}}
MoreJobs == {<<>>} \cup {<<j>> : j \in OtherJobs} \cup {<<j, k>> : j \in {x \in OtherJobs : x.id = JobB}, k \in {x \in OtherJobs : x.id = JobLike}}

Tokens == {"**", "*", "?", "a", "/"}
Patterns == UNION {[1..k -> Tokens] : k \in 1..3}
Words == UNION {[1..k -> {"a", "b", "/"}] : k \in 0..4}

Filter(b, bi, p, pi) == [event |-> "push", bare |-> FALSE, tags |-> {}, branches |-> b, branchesIgnore |-> bi, paths |-> p, pathsIgnore |-> pi]
PushTriggers == {Filter(b, bi, {}, {}) : b \in {{}, {<<"*">>}}, bi \in {{}, {<<"a", "**">>}}}
    \cup {Filter({}, {}, p, {}) : p \in {{<<"a">>}, {<<"**", "a">>}}} \cup {Filter({}, {}, {}, p) : p \in {{<<"a">>}, {<<"*">>}}}
Files == {<<"a">>, <<"b", "/", "a">>}
Contents == UNION {[d -> {"b1", "b2"}] : d \in SUBSET Files}
Updates == {[branch |-> b, isBranch |-> i, deletes |-> d, before |-> x, after |-> y, files |-> <<>>] :
              b \in {<<"a">>, <<"b", "/", "a">>}, i \in BOOLEAN, d \in {FALSE}, x \in Contents, y \in Contents}
OneJob == <<Job(JobA, <<>>, W!NoMatrix, 1)>>

(* Authorization: one repository of an organization, a branch m, rules for it *)
A == INSTANCE Authorization
Who(kind_, member, teams) == [id |-> "p", kind |-> kind_, member |-> member, teams |-> teams]
Principals == {Who("user", m, t) : m \in BOOLEAN, t \in {{}, {"team"}}} \cup {Who("service_account", FALSE, {}), Who("anonymous", FALSE, {})}
Repo(v, org, role) == [visibility |-> v, ownerType |-> "org", ownerPrincipal |-> "nobody", orgRoles |-> "p" :> org,
                       collaborators |-> "p" :> role, teamRoles |-> "p" :> "none"]
Repos == {Repo(v, o, r) : v \in {"public", "internal", "private"}, o \in {"admin", "member"}, r \in {"none", "reader", "writer", "maintainer"}}
Rules == {[matches |-> {"m"}, enforceAdmins |-> e, restrictPush |-> l # <<>>, allowlist |-> l, requiredReviews |-> n,
           allowForcePush |-> f, allowDeletions |-> f] :
             e \in BOOLEAN, l \in {<<>>, <<"p">>, <<"team">>, <<"q">>}, n \in 0..1, f \in BOOLEAN}
Decided == {[repo |-> r, channel |-> c, action |-> a, branch |-> b, deleting |-> d] :
             r \in Repos, c \in {"browser", "interface"}, a \in {"contents.read", "contents.write", "pulls.merge"}, b \in {"m", "*"}, d \in BOOLEAN}
MoreRules == {[matches |-> {"m"}, enforceAdmins |-> TRUE, restrictPush |-> TRUE, allowlist |-> <<"p">>, requiredReviews |-> 0,
               allowForcePush |-> TRUE, allowDeletions |-> TRUE]}

(* Code pages: histories of four commits with up to two parents, a path that may be a file or a link *)
Line4 == <<"c1", "c2", "c3", "c4">>
ParentLists(n) == {<<>>} \cup {<<Line4[i]>> : i \in 1..(n - 1)} \cup {<<Line4[p[1]], Line4[p[2]]>> : p \in {q \in (1..(n - 1)) \X (1..(n - 1)) : q[1] # q[2]}}
Graphs == {"c1" :> <<>> @@ "c2" :> p2 @@ "c3" :> p3 @@ "c4" :> p4 : p2 \in ParentLists(2), p3 \in ParentLists(3), p4 \in ParentLists(4)}
B(parents) == INSTANCE CodeBrowser WITH
        Commits <- ToSet(Line4), Parents <- parents, MaxWalk <- 10, Blobs <- {"b1", "b2"}, Links <- {"l1"},
        Directories <- {"d1"}, Gitlinks <- {"g1"}, Nothing <- "nothing", MAX_HISTORY_WALK <- 3, MAX_COMMITS <- 3
PathContents == [ToSet(Line4) -> {"b1", "b2", "nothing"}] \cup [ToSet(Line4) -> {"b1", "l1"}] \cup [ToSet(Line4) -> {"d1", "b1"}]
Stores == {ToSet(Line4), ToSet(Line4) \ {"c1"}}
MainAt(tip) == [branches |-> "main" :> tip, tags |-> "main" :> "c1", default |-> "main"]
TwoRefs(base, head) == [branches |-> "main" :> base, tags |-> "main" :> "c1" @@ "v1" :> head, default |-> "main"]

(* Doors: an organization's repositories, and one that nobody owns yet *)
D == INSTANCE Surfaces
ServiceAccounts == {Who("service_account", FALSE, t) : t \in {{}}}
Installations == [db : BOOLEAN, oauth : BOOLEAN, secret : BOOLEAN]
Owned == Repos \cup {[r EXCEPT !.ownerType = "user", !.ownerPrincipal = p] : r \in Repos, p \in {"p", "q"}}
Credentials == {D!NoCredential, D!Secret} \cup
    {D!Bearer(s, f) : s \in {"hosting.read", "hosting.write", "hosting.admin", "source.git.smart_http.read",
                             "source.git.smart_http.write", "mcp.invoke"}, f \in {"/api/v1", "/git", "/mcp"}}
Lists == UNION {[1..k -> 1..4] : k \in 0..4}
NoRepeat(l) == \A i, j \in DOMAIN l : i # j => l[i] # l[j]
Routes == [auth : {"public", "browser", "interface", "both"}, role : {"none", "reader", "writer"},
           action : {"none", "contents.read", "repo.admin"}, scope : {"none", "hosting.read"}]

(***************************************************************************)
(* Each algorithm's property, over the inputs chosen for it.                 *)
(***************************************************************************)
Chosen(k) == kind = k /\ rest # <<>>

\* git/merge.ts, merge-resolution.ts: what both sides agree on, or one side alone changed, is
\* in the merged tree; the rest is a conflict; a resolution never changes another path.
MergeKeepsBoth == Chosen("merge") => T!MergeKeepsBoth(first, rest[1], rest[2], rest[3])

\* git/tree-diff.ts, text-diff.ts: the changes listed take the old tree to the new one, and the
\* hunks shown take the old text to the new one.
DiffTransforms ==
    /\ Chosen("diff") => T!DiffTransforms(first, rest[1])
    /\ Chosen("text") => L!HunkIsBoth(first, rest[1])

\* git/blame.ts: a line is blamed on a version that has it, and not on one before it was added.
BlameIsHonest == Chosen("blame") => L!BlameIsHonest(rest[1])

\* git/pack-reader.ts, pack.ts: the objects of a pack are the ones it was made from, and a
\* written pack reads back.
PackIsFaithful == Chosen("pack") => K!PackIsFaithful(rest[1], first)

\* git/inflate-raw.ts: a stream becomes the bytes it stands for, and takes as much of the pack as
\* it is long.
StreamsAreExact == Chosen("inflate") => Z!TablesAreRight /\ Z!InflateIsExact(<<first>> \o rest[1], rest[2][1], rest[2][1], rest[2][2])

\* git/object.ts, git-tags.ts: what is stored reads back, and a tree has one encoding, in git's order.
ObjectsReadBack ==
    /\ Chosen("tree") => O!TreeReadsBack(rest[1]) /\ O!TreeIsSorted(rest[1])
    /\ Chosen("commit") => O!CommitReadsBack(rest[1], Signed)
    /\ Chosen("tag") => O!TagReadsBack(rest[1])
    /\ Chosen("object") => \A type \in DOMAIN O!Types : O!ObjectReadsBack(type, rest[1])

\* actions: a workflow file that is accepted becomes rows that can all be started.
AcceptedCanRun == Chosen("workflow") => W!AcceptedCanRun(<<first>> \o rest[1])

\* actions: branch and path patterns select what they describe, and a push starts a run
\* exactly when they select its branch and one of its changes.
TriggersAreExact ==
    /\ Chosen("glob") => W!GlobIsExact(first, rest[1])
    /\ Chosen("push") => W!PushStartsRun(rest[1], first, OneJob)

\* auth/acl.ts: a rule only ever denies, and a private repository is not shown.
DecisionsHold ==
    Chosen("decision") =>
        LET d == rest[1]
        IN A!DecisionsHold(d.repo, {first[2]}, MoreRules, first[1], d.channel, {"smart_http.write"}, d.action, d.branch, d.deleting)

\* repos/code-browser.ts: a file's history is its changes, a comparison is called what it is, and no
\* commit is shown that no ref leads to.
PagesAreHonest ==
    /\ Chosen("history") => /\ \A n \in 1..3 : B(first)!HistoryIsExact(rest[2], rest[1], "c4", n)
                            /\ B(first)!PagesAgree(rest[2], MainAt("c4"), rest[1], {"b2"}, "nothing")
    /\ Chosen("compare") => /\ B(first)!CompareIsHonest(rest[3], TwoRefs(rest[1], rest[2]), "main", "v1")
                            /\ B(first)!DetailIsReachable(rest[3], MainAt(rest[1]), rest[2])

\* worker.ts, mcp.ts, router.ts: every door comes to the same decision, a credential opens one door,
\* and the list of repositories shows those that may be read.
DoorsAgree ==
    /\ Chosen("doors") => /\ D!DoorsAgree(rest[1].found, rest[1].repo, first)
                          /\ D!OneDoor(rest[1].installation, rest[1].found, TRUE, rest[1].repo, first, rest[1].credential)
    /\ Chosen("list") => D!ListIsComplete(first, rest[1], rest[2], 4)
    /\ Chosen("route") => D!RouteIsGuarded(first, rest[1].found, rest[1].repo, Who("user", TRUE, {}), rest[1].credential, TRUE)

\* code-browser.ts:501: what is called identical is the same, and what contains the base is ahead.
StatusIsAncestry == Chosen("compare") => B(first)!StatusIsAncestry(rest[3], TwoRefs(rest[1], rest[2]), "main", "v1")

\* code-browser.ts:486: the commits shown of a comparison are those that the base has not.
ShownIsAhead == Chosen("compare") => B(first)!ShownIsAhead(rest[3], TwoRefs(rest[1], rest[2]), "main", "v1")

\* code-browser.ts:239: a path that was there has a history.
GoneHasHistory == Chosen("history") => B(first)!GoneHasHistory(rest[2], rest[1], "c4")

\* repo-admin.ts:225 "Owner role required to delete": by any door.
DeletersAgree == Chosen("doors") => D!DeletersAgree(rest[1].found, rest[1].repo, first)

\* repositories.ts:587 "Bound on rows scanned per list request": the list is complete all the same.
ListIsComplete == Chosen("list") => D!ListIsComplete(first, rest[1], rest[2], 2)

\* router.ts:9 "forgot the auth check is a build failure".
DeclaredRoleIsAsked ==
    Chosen("route") => D!DeclaredRoleIsAsked(first, rest[1].found, rest[1].repo, Who("user", TRUE, {}), rest[1].credential, TRUE)

\* acl.ts:237 "Admins (role >= maintainer) bypass a rule unless it sets enforce_admins": what a
\* writer may do on a branch, a maintainer may do.
AdminsMayDoMore ==
    Chosen("decision") => A!AdminsMayDoMore({first[2]}, first[1], rest[1].action, "m", rest[1].deleting)

\* merge-resolution.ts:6 "applies user-supplied blob resolutions, builds the merged tree": a file
\* that one side alone added is in the resolved merge.
ResolutionKeepsAdditions == Chosen("merge") => T!ResolutionKeepsAdditions(first, rest[1], rest[2], rest[3])

\* tree-diff.ts:55 "Symlinks are diffable blobs; keep them rather than throwing".
SymlinksAreDiffed == Chosen("diff") => T!SymlinksAreDiffed(first, rest[1])

(***************************************************************************)
Rests(k) ==
    CASE k = "merge" -> TreeRests
      [] k = "diff" -> {<<t>> : t \in TreesOf(Linked)}
      [] k = "text" -> {<<t>> : t \in Texts(4)}
      [] k = "blame" -> {<<h>> : h \in Histories}
      [] k = "pack" -> {<<p>> : p \in Packs}
      [] k = "inflate" -> NextBlocks \X Surroundings
      [] k = "tree" -> {<<t>> : t \in EntryLists}
      [] k = "commit" -> {<<c>> : c \in CommitTexts}
      [] k = "tag" -> {<<t>> : t \in TagTexts}
      [] k = "object" -> {<<c>> : c \in Raw}
      [] k = "workflow" -> {<<m>> : m \in MoreJobs}
      [] k = "glob" -> {<<w>> : w \in Words}
      [] k = "push" -> {<<u>> : u \in Updates}
      [] k = "decision" -> {<<d>> : d \in Decided}
      [] k = "history" -> PathContents \X Stores
      [] k = "compare" -> ToSet(Line4) \X ToSet(Line4) \X Stores
      [] k = "doors" -> {<<d>> : d \in [installation : Installations, found : BOOLEAN, repo : Owned, credential : Credentials]}
      [] k = "list" -> (SUBSET (1..4)) \X (1..3)
      [] k = "route" -> {<<d>> : d \in [found : BOOLEAN, repo : Repos, credential : Credentials]}

AInit ==
    /\ \/ kind = "merge" /\ first \in TreesOf(OneEntry)
       \/ kind = "diff" /\ first \in TreesOf(Linked)
       \/ kind = "text" /\ first \in Texts(4)
       \/ kind = "blame" /\ first = <<>>
       \/ kind = "pack" /\ first \in {{}, {b1}}
       \/ kind = "inflate" /\ first \in Blocks
       \/ kind \in {"tree", "commit", "tag", "object"} /\ first = <<>>
       \/ kind = "workflow" /\ first \in FirstJobs
       \/ kind = "glob" /\ first \in Patterns
       \/ kind = "push" /\ first \in PushTriggers
       \/ kind = "decision" /\ first \in Principals \X Rules
       \/ kind \in {"history", "compare"} /\ first \in Graphs
       \/ kind = "doors" /\ first \in ServiceAccounts
       \/ kind = "list" /\ first \in {l \in Lists : NoRepeat(l)}
       \/ kind = "route" /\ first \in Routes
    /\ rest = <<>>

Choose == rest = <<>> /\ rest' \in Rests(kind) /\ UNCHANGED <<kind, first>>
avars == <<kind, first, rest>>
ASpec == AInit /\ [][Choose]_avars
=============================================================================
