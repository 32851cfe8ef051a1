----------------------------- MODULE UploadPack -----------------------------
(***************************************************************************)
(* Cloning and fetching over smart HTTP (handleInfoRefs and handleUploadPack   *)
(* of src/smart-http.ts) while others push to the repository and delete it.     *)
(* Two requests make a fetch, and between them nothing is remembered: the refs   *)
(* are read, then, with what the client wants and has, read again, walked from     *)
(* and packed.  A commit stands for itself with its trees and blobs.                *)
(***************************************************************************)
EXTENDS CommitGraph, FiniteSets

CONSTANTS
    FetchBranches, Clients,
    NoCommit,
    MaxPacked,    \* MAX_REACHABLE_OBJECTS, and what a pack may hold
    MaxMoves,      \* bound: pushes and deletions of branches
    MaxFetches,    \* bound: fetches begun
    MaxLost        \* bound: answers that do not arrive

ASSUME FetchAssumption == {MaxPacked, MaxMoves, MaxFetches, MaxLost} \subseteq Nat /\ NoCommit \notin Commits

VARIABLES
    refs,       \* branch -> its tip
    store,      \* the commits stored
    push,       \* the push under way: its branch, its tip, and what of its pack is still to be stored
    deleted,    \* the repository: the refs are a tombstone, the objects are being removed
    mine,       \* client -> the commits of its clone
    tracked,    \* client -> branch -> what it last fetched there
    fetch,      \* client -> the fetch under way
    moves, fetches, losses

fetchVars == <<refs, store, push, deleted, mine, tracked, fetch, moves, fetches, losses>>

NoPush == [branch |-> NoCommit, tip |-> NoCommit, rest |-> {}]
NoFetch == [at |-> "idle", heard |-> [b \in FetchBranches |-> NoCommit], wants |-> {}, haves |-> {}, pack |-> {}]
Tips(r) == {r[b] : b \in FetchBranches} \ {NoCommit}

FetchTypeOK ==
    /\ refs \in [FetchBranches -> Commits \cup {NoCommit}] /\ store \in SUBSET Commits /\ deleted \in BOOLEAN
    /\ push \in [branch : FetchBranches \cup {NoCommit}, tip : Commits \cup {NoCommit}, rest : SUBSET Commits]
    /\ mine \in [Clients -> SUBSET Commits] /\ tracked \in [Clients -> [FetchBranches -> Commits \cup {NoCommit}]]
    /\ fetch \in [Clients -> [at : {"idle", "heard", "asked", "granted", "collected", "answered"},
                             heard : [FetchBranches -> Commits \cup {NoCommit}], wants : SUBSET Commits,
                             haves : SUBSET Commits, pack : SUBSET Commits]]
    /\ moves \in 0..MaxMoves /\ fetches \in 0..MaxFetches /\ losses \in 0..MaxLost

FetchInit ==
    /\ refs = [b \in FetchBranches |-> NoCommit] /\ store = {} /\ push = NoPush /\ deleted = FALSE
    /\ mine = [k \in Clients |-> {}] /\ tracked = [k \in Clients |-> [b \in FetchBranches |-> NoCommit]]
    /\ fetch = [k \in Clients |-> NoFetch] /\ moves = 0 /\ fetches = 0 /\ losses = 0

-----------------------------------------------------------------------------
(* The others (RefsDoc and RepoLifecycle have it in full)                    *)

\* A push brings what it says is missing; it need not be all.
StartPush(b, c) ==
    /\ push.tip = NoCommit /\ ~deleted /\ moves < MaxMoves /\ moves' = moves + 1
    /\ \E brought \in SUBSET (History(c) \ store) : push' = [branch |-> b, tip |-> c, rest |-> brought]
    /\ UNCHANGED <<refs, store, deleted, mine, tracked, fetch, fetches, losses>>

StoreObject(c) ==
    /\ c \in push.rest /\ store' = store \cup {c} /\ push' = [push EXCEPT !.rest = @ \ {c}]
    /\ UNCHANGED <<refs, deleted, mine, tracked, fetch, moves, fetches, losses>>

\* The ref moves when all it leads to is stored, and by force if need be.
FinishPush ==
    /\ push.tip # NoCommit /\ push.rest = {} /\ push' = NoPush
    /\ refs' = IF deleted \/ ~CanCollect(store, {push.tip}, {}) THEN refs ELSE [refs EXCEPT ![push.branch] = push.tip]
    /\ UNCHANGED <<store, deleted, mine, tracked, fetch, moves, fetches, losses>>

DeleteBranch(b) ==
    /\ refs[b] # NoCommit /\ moves < MaxMoves /\ moves' = moves + 1 /\ refs' = [refs EXCEPT ![b] = NoCommit]
    /\ UNCHANGED <<store, push, deleted, mine, tracked, fetch, fetches, losses>>

DeleteRepository ==
    /\ ~deleted /\ moves < MaxMoves /\ moves' = moves + 1
    /\ deleted' = TRUE /\ refs' = [b \in FetchBranches |-> NoCommit]
    /\ UNCHANGED <<store, push, mine, tracked, fetch, fetches, losses>>

RemoveObject(c) ==
    /\ deleted /\ c \in store /\ store' = store \ {c}
    /\ UNCHANGED <<refs, push, deleted, mine, tracked, fetch, moves, fetches, losses>>

-----------------------------------------------------------------------------
(* The fetch                                                                 *)

Unmoved == <<refs, store, push, deleted, moves>>
MoveTo(k, where) == fetch' = [fetch EXCEPT ![k].at = where]
GiveUp(k) == fetch' = [fetch EXCEPT ![k] = NoFetch]

\* handleInfoRefs
Advertise(k) ==
    /\ fetch[k].at = "idle" /\ fetches < MaxFetches /\ fetches' = fetches + 1
    /\ fetch' = [fetch EXCEPT ![k] = [NoFetch EXCEPT !.at = "heard", !.heard = refs]]
    /\ UNCHANGED <<Unmoved, mine, tracked, losses>>

\* Some of the tips, and of what the clone has as much as the client says.
Wish(k) ==
    /\ fetch[k].at = "heard"
    /\ \E wants \in (SUBSET Tips(fetch[k].heard)) \ {{}}, haves \in SUBSET mine[k] :
          fetch' = [fetch EXCEPT ![k].at = "asked", ![k].wants = wants, ![k].haves = haves]
    /\ UNCHANGED <<Unmoved, mine, tracked, fetches, losses>>

\* Every want must be a tip as the refs are now; what was advertised may have moved on.
Grant(k) ==
    /\ fetch[k].at = "asked"
    /\ IF fetch[k].wants \subseteq Tips(refs) THEN MoveTo(k, "granted") ELSE GiveUp(k)
    /\ UNCHANGED <<Unmoved, mine, tracked, fetches, losses>>

\* collectReachableObjects: an object that is not there ends the walk.
Collect(k) ==
    LET q == fetch[k]
        found == ReachableFrom(q.wants, q.haves)
    IN /\ q.at = "granted"
       /\ IF CanCollect(store, q.wants, q.haves) /\ Cardinality(found) <= MaxPacked
          THEN fetch' = [fetch EXCEPT ![k].at = "collected", ![k].pack = found] ELSE GiveUp(k)
       /\ UNCHANGED <<Unmoved, mine, tracked, fetches, losses>>

\* Mutant: an object that has gone meanwhile is left out.
WhatIsThere(k) == TRUE
\* writePackFromShas reads every object again.
NoneMissing(k) == fetch[k].pack \subseteq store

WritePack(k) ==
    /\ fetch[k].at = "collected"
    /\ IF NoneMissing(k) THEN fetch' = [fetch EXCEPT ![k].at = "answered", ![k].pack = @ \cap store] ELSE GiveUp(k)
    /\ UNCHANGED <<Unmoved, mine, tracked, fetches, losses>>

\* The client stores the pack and moves its branches to what it wanted.
TakePack(k) ==
    LET q == fetch[k]
    IN /\ q.at = "answered" /\ GiveUp(k)
       /\ mine' = [mine EXCEPT ![k] = @ \cup q.pack]
       /\ tracked' = [tracked EXCEPT ![k] = [b \in FetchBranches |-> IF q.heard[b] \in q.wants THEN q.heard[b] ELSE @[b]]]
       /\ UNCHANGED <<Unmoved, fetches, losses>>

\* The client goes away at any time and begins anew.
LoseFetch(k) ==
    /\ fetch[k].at # "idle" /\ losses < MaxLost /\ losses' = losses + 1 /\ GiveUp(k)
    /\ UNCHANGED <<Unmoved, mine, tracked, fetches>>

\* The client commits on top of what it has.
CommitLocally(k, c) ==
    /\ fetch[k].at = "idle" /\ c \notin mine[k] /\ moves < MaxMoves /\ moves' = moves + 1
    /\ History(c) \subseteq mine[k] \cup {c} /\ mine' = [mine EXCEPT ![k] = @ \cup {c}]
    /\ UNCHANGED <<refs, store, push, deleted, tracked, fetch, fetches, losses>>

FetchNext ==
    \/ \E b \in FetchBranches : DeleteBranch(b) \/ \E c \in Commits : StartPush(b, c)
    \/ \E c \in Commits : StoreObject(c) \/ RemoveObject(c)
    \/ FinishPush \/ DeleteRepository
    \/ \E k \in Clients : \/ Advertise(k) \/ Wish(k) \/ Grant(k) \/ Collect(k) \/ WritePack(k) \/ TakePack(k) \/ LoseFetch(k)
                          \/ \E c \in Commits : CommitLocally(k, c)

FetchSpec == FetchInit /\ [][FetchNext]_fetchVars

-----------------------------------------------------------------------------

\* smart-http.ts, reachability.ts: whatever is pushed, moved or removed between the two requests and
\* during the second, what a clone has tracked it has with all its history, and a pack that is
\* answered completes what was wanted, with what the client said it has.
FetchedIsComplete ==
    \A k \in Clients :
        /\ \A b \in FetchBranches : tracked[k][b] # NoCommit => History(tracked[k][b]) \subseteq mine[k]
        /\ fetch[k].at = "answered" => \A w \in fetch[k].wants : History(w) \subseteq mine[k] \cup fetch[k].pack

\* smart-http.ts:200 "Every want must be a tip advertised by this repository": what was advertised is granted.
AdvertisedIsGranted ==
    \A k \in Clients : fetch[k].at = "asked" /\ ~deleted => fetch[k].wants \subseteq Tips(refs)
=============================================================================
