------------------------------ MODULE Releases ------------------------------
(***************************************************************************)
(* Releases, their assets, and tags (src/features/releases).  The tag refs    *)
(* live in the repository's refs document, which one compare-and-swap writes   *)
(* (RefsDoc models the writer: here its commit is one step, and a conflict one  *)
(* outcome); release, asset and git_tags rows live in D1; the bytes of an       *)
(* asset in R2.  A handler crosses the three with no transaction.               *)
(***************************************************************************)
EXTENDS Integers, Sequences, FiniteSets

CONSTANTS
    Tags, TagTargets,
    ReleaseCallers, \* requests that run at a time
    MaxObjects,     \* bound: annotated tag objects written
    MaxAssets,      \* bound: assets uploaded
    MaxReleases,    \* bound: release ids handed out
    MaxJobs,        \* bound: requests begun
    MaxDeaths       \* bound: Workers lost

VARIABLES
    tagRef,      \* refs document: tag -> what it points at, NoSha when there is none
    tagObject,   \* annotated tag objects in R2: the commit each peels to
    gitTag,      \* git_tags: tag -> the tag object its cached annotation is of, 0 when there is none
    release,     \* tag -> its release row, NoRow when there is none
    asset,       \* release_assets: asset -> the id of its release, 0 when there is no row
    bytes,       \* assets whose bytes are in R2
    job,         \* caller -> the handler it runs
    ids,         \* release ids handed out
    jobs, lost,  \* counters for the bounds
    untagged,    \* ghost: tags somebody has deleted
    condemned    \* ghost: assets a deletion has started on

rvars == <<tagRef, tagObject, gitTag, release, asset, bytes, job, ids, jobs, lost, untagged, condemned>>

NoSha == "none"
ReleasesAssumption == Tags # {} /\ NoSha \notin TagTargets /\ {MaxObjects, MaxAssets, MaxReleases} \subseteq Nat
NoRow == [id |-> 0, draft |-> TRUE, target |-> NoSha, published |-> FALSE]
NoJob == [at |-> "idle", tag |-> CHOOSE t \in Tags : TRUE, target |-> NoSha, draft |-> TRUE, id |-> 0, of |-> 0]
TagObjectIds == 1..MaxObjects
AssetIds == 1..MaxAssets
CommitAt(c) == [commit |-> c, object |-> 0]
ObjectAt(o) == [commit |-> NoSha, object |-> o]
NoRef == CommitAt(NoSha)

\* peelToCommit: a ref that points at a tag object is followed to its commit.
peelToCommit(at) == IF at.object = 0 THEN at.commit ELSE tagObject[at.object]
findTagRef(t) == tagRef[t] # NoRef

JobPlaces ==
    {"idle", "createRef", "insertRelease", "publishRef", "update", "put", "insertAsset",
     "deleteRow", "writeTag", "cacheTag", "dropTag"}

RTypeOK ==
    /\ \A t \in Tags : tagRef[t] \in {CommitAt(c) : c \in TagTargets \cup {NoSha}} \cup {ObjectAt(o) : o \in TagObjectIds}
    /\ gitTag \in [Tags -> 0..MaxObjects] /\ asset \in [AssetIds -> 0..MaxReleases]
    /\ \A t \in Tags : release[t].id \in 0..ids
    /\ bytes \subseteq AssetIds /\ condemned \subseteq AssetIds /\ untagged \subseteq Tags
    /\ \A c \in ReleaseCallers : job[c].at \in JobPlaces

RInit ==
    /\ tagRef = [t \in Tags |-> NoRef] /\ tagObject = [o \in TagObjectIds |-> NoSha]
    /\ gitTag = [t \in Tags |-> 0] /\ release = [t \in Tags |-> NoRow]
    /\ asset = [a \in AssetIds |-> 0] /\ bytes = {} /\ job = [c \in ReleaseCallers |-> NoJob]
    /\ ids = 0 /\ jobs = 0 /\ lost = 0 /\ untagged = {} /\ condemned = {}

Refs == <<tagRef, tagObject>>
ReleaseRows == <<gitTag, release, asset>>
Ghosts == <<untagged, condemned>>

Start(c, to) ==
    /\ job[c] = NoJob /\ jobs < MaxJobs
    /\ jobs' = jobs + 1 /\ job' = [job EXCEPT ![c] = to] /\ UNCHANGED lost
Go(c, at) == job' = [job EXCEPT ![c].at = at] /\ UNCHANGED <<jobs, lost>>
Finish(c) == job' = [job EXCEPT ![c] = NoJob] /\ UNCHANGED <<jobs, lost>>
JobAt(c, place) == job[c].at = place

-----------------------------------------------------------------------------
(* Releases.                                                                 *)
\* createReleaseHandler up to its first write: no row under the tag yet; a tag that is
\* there gives the target, else the commitish asked for does; a published release needs one.
createReleaseHandler(c) ==
    \E t \in Tags, asks \in TagTargets \cup {NoSha}, draft \in BOOLEAN :
        LET target == IF findTagRef(t) THEN peelToCommit(tagRef[t]) ELSE asks IN
        /\ release[t] = NoRow /\ (draft \/ target # NoSha)
        /\ Start(c, [NoJob EXCEPT !.at = IF draft \/ findTagRef(t) THEN "insertRelease" ELSE "createRef",
                                 !.tag = t, !.target = target, !.draft = draft])
        /\ UNCHANGED <<Refs, ReleaseRows, bytes, ids, Ghosts>>

\* createTagRef: committed, or aborted because the ref is there; both go on.
CreateRef(c, next) ==
    LET t == job[c].tag IN
    /\ tagRef' = IF findTagRef(t) THEN tagRef ELSE [tagRef EXCEPT ![t] = CommitAt(job[c].target)]
    /\ Go(c, next) /\ UNCHANGED <<tagObject, ReleaseRows, bytes, ids, Ghosts>>
CreateRefOfRelease(c) == JobAt(c, "createRef") /\ CreateRef(c, "insertRelease")

\* The unique index on (repo_id, tag_name) refuses a second row.
InsertRelease(c) ==
    /\ JobAt(c, "insertRelease") /\ ids < MaxReleases
    /\ IF release[job[c].tag] = NoRow
       THEN /\ ids' = ids + 1
            /\ release' = [release EXCEPT ![job[c].tag] =
                             [id |-> ids + 1, draft |-> job[c].draft, target |-> job[c].target, published |-> ~job[c].draft]]
       ELSE UNCHANGED <<ids, release>>
    /\ Finish(c) /\ UNCHANGED <<Refs, gitTag, asset, bytes, Ghosts>>

IsPublishing(row, draft) == row.draft /\ ~draft

FirstWrite(publishing, t) == IF publishing /\ ~findTagRef(t) THEN "publishRef" ELSE "update"

\* patchReleaseHandler with is_draft in the body, up to its first write.
PatchRelease(c) ==
    \E t \in {s \in Tags : release[s] # NoRow}, draft \in BOOLEAN :
        LET publishing == IsPublishing(release[t], draft) IN
        /\ ~publishing \/ release[t].target # NoSha
        /\ Start(c, [NoJob EXCEPT !.at = FirstWrite(publishing, t),
                                 !.tag = t, !.target = release[t].target, !.draft = draft])
        /\ UNCHANGED <<Refs, ReleaseRows, bytes, ids, Ghosts>>
PublishRef(c) == JobAt(c, "publishRef") /\ CreateRef(c, "update")

\* The UPDATE names the tag, not the row that was read.
UpdateRelease(c) ==
    LET t == job[c].tag
        row == release[t] IN
    /\ JobAt(c, "update")
    /\ release' = IF row = NoRow THEN release
                  ELSE [release EXCEPT ![t] = [row EXCEPT !.draft = job[c].draft, !.published = row.published \/ ~job[c].draft]]
    /\ Finish(c) /\ UNCHANGED <<Refs, gitTag, asset, bytes, ids, Ghosts>>

\* deleteReleaseHandler: the assets' rows go with the row; their bytes and the tag stay.
DeleteRelease(c) ==
    \E t \in {s \in Tags : release[s] # NoRow} :
        /\ release' = [release EXCEPT ![t] = NoRow]
        /\ asset' = [a \in AssetIds |-> IF asset[a] = release[t].id THEN 0 ELSE asset[a]]
        /\ Start(c, NoJob) /\ UNCHANGED <<Refs, gitTag, bytes, ids, Ghosts>>

\* What a reader of the release API is shown: drafts only from writer up.
VisibleReleases(writer) == {t \in Tags : release[t] # NoRow /\ (writer \/ ~release[t].draft)}

-----------------------------------------------------------------------------
(* Assets.                                                                   *)
InHand == {job[c].id : c \in {d \in ReleaseCallers : job[d].at \in {"put", "insertAsset"}}}

\* uploadAssetHandler up to the write of the bytes (a name of its own per asset: the
\* check for a duplicate, and the unique index behind it, are left out).
Upload(c) ==
    \E t \in {s \in Tags : release[s] # NoRow}, a \in AssetIds \ (bytes \cup InHand \cup condemned) :
        /\ asset[a] = 0
        /\ Start(c, [NoJob EXCEPT !.at = "put", !.tag = t, !.id = a, !.of = release[t].id])
        /\ UNCHANGED <<Refs, ReleaseRows, bytes, ids, Ghosts>>

\* Mutant: the row first, then the bytes.
RowFirst(c) ==
    \/ /\ JobAt(c, "put") /\ asset' = [asset EXCEPT ![job[c].id] = job[c].of]
       /\ Go(c, "insertAsset") /\ UNCHANGED <<Refs, gitTag, release, bytes, ids, Ghosts>>
    \/ /\ JobAt(c, "insertAsset") /\ bytes' = bytes \cup {job[c].id}
       /\ Finish(c) /\ UNCHANGED <<Refs, ReleaseRows, ids, Ghosts>>

\* The bytes first; the row's foreign key refuses it when the release is gone.
Store(c) ==
    \/ /\ JobAt(c, "put") /\ bytes' = bytes \cup {job[c].id}
       /\ Go(c, "insertAsset") /\ UNCHANGED <<Refs, ReleaseRows, ids, Ghosts>>
    \/ /\ JobAt(c, "insertAsset")
       /\ asset' = IF \E t \in Tags : release[t].id = job[c].of
                   THEN [asset EXCEPT ![job[c].id] = job[c].of] ELSE asset
       /\ Finish(c) /\ UNCHANGED <<Refs, gitTag, release, bytes, ids, Ghosts>>

\* deleteAssetHandler: the bytes, then the row.
DeleteBytes(c) ==
    \E a \in {b \in AssetIds : asset[b] # 0} :
        /\ bytes' = bytes \ {a} /\ condemned' = condemned \cup {a}
        /\ Start(c, [NoJob EXCEPT !.at = "deleteRow", !.id = a])
        /\ UNCHANGED <<Refs, ReleaseRows, ids, untagged>>
DeleteAssetRow(c) ==
    /\ JobAt(c, "deleteRow") /\ asset' = [asset EXCEPT ![job[c].id] = 0]
    /\ Finish(c) /\ UNCHANGED <<Refs, gitTag, release, bytes, ids, Ghosts>>

-----------------------------------------------------------------------------
(* Tags.                                                                     *)
\* createTagHandler up to the ref: the tag is not there yet; an annotated one has its
\* object written first.
createTagHandler(c) ==
    \E t \in {s \in Tags : ~findTagRef(s)}, k \in TagTargets, annotated \in BOOLEAN :
        \E o \in IF annotated THEN {p \in TagObjectIds : tagObject[p] = NoSha} ELSE {0} :
            /\ tagObject' = IF annotated THEN [tagObject EXCEPT ![o] = k] ELSE tagObject
            /\ Start(c, [NoJob EXCEPT !.at = "writeTag", !.tag = t, !.target = k, !.id = o])
            /\ UNCHANGED <<tagRef, ReleaseRows, bytes, ids, Ghosts>>

\* Here a ref that is there refuses the request.
WriteTag(c) ==
    /\ JobAt(c, "writeTag")
    /\ IF findTagRef(job[c].tag) THEN UNCHANGED tagRef /\ Finish(c)
       ELSE /\ tagRef' = [tagRef EXCEPT ![job[c].tag] = IF job[c].id = 0 THEN CommitAt(job[c].target) ELSE ObjectAt(job[c].id)]
            /\ IF job[c].id = 0 THEN Finish(c) ELSE Go(c, "cacheTag")
    /\ UNCHANGED <<tagObject, ReleaseRows, bytes, ids, Ghosts>>
CacheTag(c) ==
    /\ JobAt(c, "cacheTag") /\ gitTag' = [gitTag EXCEPT ![job[c].tag] = job[c].id]
    /\ Finish(c) /\ UNCHANGED <<Refs, release, asset, bytes, ids, Ghosts>>

\* deleteTagHandler: the ref, then the cached annotation.
DeleteTag(c) ==
    \E t \in {s \in Tags : findTagRef(s)} :
        /\ tagRef' = [tagRef EXCEPT ![t] = NoRef] /\ untagged' = untagged \cup {t}
        /\ Start(c, [NoJob EXCEPT !.at = "dropTag", !.tag = t])
        /\ UNCHANGED <<tagObject, ReleaseRows, bytes, ids, condemned>>
DropTag(c) ==
    /\ JobAt(c, "dropTag") /\ gitTag' = [gitTag EXCEPT ![job[c].tag] = 0]
    /\ Finish(c) /\ UNCHANGED <<Refs, release, asset, bytes, ids, Ghosts>>

\* listTagsHandler: what it says of a tag.
ListedTag(t) ==
    [annotated |-> gitTag[t] # 0 \/ tagRef[t].object # 0, annotation |-> gitTag[t], commit |-> peelToCommit(tagRef[t])]

-----------------------------------------------------------------------------
\* A conflict of the refs document, or the Worker's death, ends a handler where it is.
Die(c) ==
    /\ job[c] # NoJob /\ lost < MaxDeaths /\ lost' = lost + 1
    /\ job' = [job EXCEPT ![c] = NoJob] /\ UNCHANGED <<Refs, ReleaseRows, bytes, ids, jobs, Ghosts>>

Handler(c) ==
    \/ createReleaseHandler(c) \/ PatchRelease(c) \/ DeleteRelease(c) \/ Upload(c) \/ DeleteBytes(c)
    \/ createTagHandler(c) \/ DeleteTag(c)
Step(c) ==
    \/ CreateRefOfRelease(c) \/ InsertRelease(c) \/ PublishRef(c) \/ UpdateRelease(c) \/ Store(c)
    \/ DeleteAssetRow(c) \/ WriteTag(c) \/ CacheTag(c) \/ DropTag(c)

RNext == \E c \in ReleaseCallers : Handler(c) \/ Step(c) \/ Die(c)
RSpec == RInit /\ [][RNext]_rvars

-----------------------------------------------------------------------------
(* A release that is published has its tag, unless somebody has deleted the     *)
(* tag: whichever of creating, publishing, hiding again and recreating ran, in    *)
(* whatever order their reads and writes fell.                                    *)
PublishedIsTagged ==
    \A t \in Tags : release[t] # NoRow /\ ~release[t].draft => findTagRef(t) \/ t \in untagged

(* An asset that is listed can be downloaded, unless a deletion of it has begun:  *)
(* neither an upload that dies nor one that meets the release's deletion leaves    *)
(* a row with nothing behind it.                                                   *)
ListedHasBytes == \A a \in AssetIds : asset[a] # 0 => a \in bytes \/ a \in condemned

\* releases.ts, assets.ts: what is published and what is listed is there.
ReleasesHold == PublishedIsTagged /\ ListedHasBytes

(* Refuted: "every SHA here is an advisory projection re-derived from the R2 refs   *)
(* doc" (service.ts:5-6): a draft's target is never looked at again, and a tag made  *)
(* meanwhile points elsewhere.                                                       *)
TargetIsTag ==
    \A t \in Tags : release[t] # NoRow /\ ~release[t].draft /\ findTagRef(t) => peelToCommit(tagRef[t]) = release[t].target

(* Refuted: a cached annotation is the one of the tag it is listed with.            *)
AnnotationIsOfTag ==
    \A t \in Tags : (\A c \in ReleaseCallers : job[c] = NoJob) /\ findTagRef(t) => gitTag[t] \in {0, tagRef[t].object}

(* Refuted: "R2 asset bytes are swept by the reconcile job keyed off the dropped     *)
(* rows" (releases.ts:304): no such job is there, and the bytes stay.                *)
BytesAreSwept == \A a \in AssetIds : [](a \in bytes /\ asset[a] # 0 => <>(asset[a] # 0 \/ a \notin bytes))
=============================================================================
