--------------------------- MODULE RepoLifecycle ---------------------------
(***************************************************************************)
(* The life of one repository name: creation (provisionRepo), writes by     *)
(* pushes and by tag requests, deletion (deleteRepository) and the cleanup  *)
(* that cron runs (processRepositoryDeletionQueue).  The name is kept in    *)
(* two stores that share no transaction: D1 has the repository's row and    *)
(* the deletion ledger; R2 has the refs document, whose existence is the    *)
(* repository's, the objects, and one quarantine marker per generation.     *)
(*                                                                         *)
(* Every repository of the name is a generation, numbered as it is created. *)
(* Every await is a step of its own, so that requests interleave between    *)
(* any two, and a worker may die there.  An error of D1 or R2 leaves the    *)
(* statement undone.                                                        *)
(***************************************************************************)
EXTENDS Naturals, FiniteSets

CONSTANTS
  Creators, Pushers, Taggers, Deleters,  \* the clients, by what they request
  Sweepers,    \* the runs of the cleanup that may overlap
  None,        \* no document, no snapshot, no marker
  MaxGen,      \* bound: repositories created under the name
  MaxFaults,   \* bound: errors and deaths of workers
  MayDie       \* workers may die; errors of D1 and R2 may always happen

Writers == Pushers \cup Taggers
Quarantiners == Deleters \cup Sweepers
Procs == Creators \cup Writers \cup Quarantiners
Gens == 1 .. MaxGen

ASSUME ProcsAssumption ==
  /\ Creators \cap (Writers \cup Quarantiners) = {}
  /\ Writers \cap Quarantiners = {}
  /\ Pushers \cap Taggers = {}
  /\ Deleters \cap Sweepers = {}

ASSUME BoundsAssumption ==
  MaxGen \in Nat /\ MaxFaults \in Nat /\ MayDie \in BOOLEAN

\* What one client wrote to one generation: a branch with its commit, or a tag.
Tokens == [by : Writers, gen : Gens]

\* A refs document; a tombstone names the generation it deletes.
Docs == [refs : SUBSET Tokens, deletion : 0 .. MaxGen]

ASSUME NoneAssumption == None \notin Docs

\* What a quarantine marker saves.
Markers == [refs : SUBSET Tokens]

VARIABLES
  doc,       \* R2: the refs document, None when there is none
  objects,   \* R2: the commits stored under the name
  marker,    \* R2: the refs each generation's quarantine marker has saved
  row,       \* D1: the lifecycle_state of each generation's row
  ledger,    \* D1: the status of each generation's deletion
  elapsed,   \* generations whose not_before has passed
  nextGen,   \* the generation the next creation draws
  faults,    \* errors and deaths so far
  acked,     \* history: the writes that were applied
  pc, gen,   \* where each process is, and the generation it works on
  snap,      \* the snapshot of the refs document it works from
  back,      \* where it goes on when the repository is quarantined
  todo, due  \* a sweeper's rows, and what had elapsed when it started

r2Vars == <<doc, objects, marker>>
d1Vars == <<row, ledger>>
localVars == <<pc, gen, snap, back, todo, due>>
vars == <<doc, objects, marker, row, ledger, elapsed, nextGen, faults, acked,
          pc, gen, snap, back, todo, due>>

-----------------------------------------------------------------------------
(* Shared.                                                                  *)

NewDoc == [refs |-> {}, deletion |-> 0]
Tombstone(g) == [refs |-> {}, deletion |-> g]

Active == {g \in Gens : row[g] = "active"}

\* The generations that hold the name: its row is unique in D1.
Reserved == {g \in Gens : row[g] # "absent"}

Goto(p, l) == pc' = [pc EXCEPT ![p] = l]

\* p goes on at l, with its other local state as it is.
Step(p, l) == Goto(p, l) /\ UNCHANGED <<gen, snap, back, todo, due>>

Bind(p, g) == gen' = [gen EXCEPT ![p] = g]

\* Request or sweep is over.
Quit(p) ==
  /\ Goto(p, "idle")
  /\ Bind(p, 0)
  /\ snap' = [snap EXCEPT ![p] = None]
  /\ back' = [back EXCEPT ![p] = "ledger"]
  /\ todo' = [todo EXCEPT ![p] = {}]
  /\ due' = [due EXCEPT ![p] = {}]

OneFault == faults < MaxFaults /\ faults' = faults + 1

\* The worker dies.
Crash(p) ==
  /\ MayDie
  /\ pc[p] # "idle"
  /\ OneFault
  /\ Quit(p)
  /\ UNCHANGED <<r2Vars, d1Vars, elapsed, nextGen, acked>>

-----------------------------------------------------------------------------
(* provisionRepo.                                                           *)

\* No row has the name.
CreateStart(c) ==
  /\ pc[c] = "idle"
  /\ Reserved = {}
  /\ nextGen <= MaxGen
  /\ nextGen' = nextGen + 1
  /\ Bind(c, nextGen)
  /\ Goto(c, "createDoc")
  /\ UNCHANGED <<r2Vars, d1Vars, elapsed, faults, acked, snap, back, todo, due>>

\* createRepo: put if absent.
CreateDoc(c) ==
  /\ pc[c] = "createDoc"
  /\ doc = None
  /\ doc' = NewDoc
  /\ Step(c, "insert")
  /\ UNCHANGED <<objects, marker, d1Vars, elapsed, nextGen, faults, acked>>

CreateExists(c) ==
  /\ pc[c] = "createDoc"
  /\ doc # None
  /\ Quit(c)
  /\ UNCHANGED <<r2Vars, d1Vars, elapsed, nextGen, faults, acked>>

CreateInsert(c) ==
  /\ pc[c] = "insert"
  /\ Reserved = {}
  /\ row' = [row EXCEPT ![gen[c]] = "active"]
  /\ Quit(c)
  /\ UNCHANGED <<r2Vars, ledger, elapsed, nextGen, faults, acked>>

\* The name is taken, by uq_repositories_storage_key, or D1 failed.
CreateRefused(c) ==
  /\ pc[c] = "insert"
  /\ \/ Reserved # {} /\ faults' = faults
     \/ OneFault
  /\ Step(c, "rollback")
  /\ UNCHANGED <<r2Vars, d1Vars, elapsed, nextGen, acked>>

\* deleteRepo: head, then list and delete until nothing is listed, then the
\* document.
RollbackHead(c) ==
  /\ pc[c] = "rollback"
  /\ IF doc = None THEN Quit(c) ELSE Step(c, "rollbackObjects")
  /\ UNCHANGED <<r2Vars, d1Vars, elapsed, nextGen, faults, acked>>

RollbackObjects(c) ==
  /\ pc[c] = "rollbackObjects"
  /\ objects' = {}
  /\ Step(c, IF objects = {} THEN "rollbackDoc" ELSE "rollbackObjects")
  /\ UNCHANGED <<doc, marker, d1Vars, elapsed, nextGen, faults, acked>>

RollbackDoc(c) ==
  /\ pc[c] = "rollbackDoc"
  /\ doc' = None
  /\ Quit(c)
  /\ UNCHANGED <<objects, marker, d1Vars, elapsed, nextGen, faults, acked>>

\* The error of a rollback is swallowed: the answer is repo_conflict anyway.
RollbackError(c) ==
  /\ pc[c] \in {"rollback", "rollbackObjects", "rollbackDoc"}
  /\ OneFault
  /\ Quit(c)
  /\ UNCHANGED <<r2Vars, d1Vars, elapsed, nextGen, acked>>

-----------------------------------------------------------------------------
(* Pushes: authorized when they arrive and, ref by ref, after the snapshot. *)

Token(w) == [by |-> w, gen |-> gen[w]]

\* authorizeSmartHttpRepo and repoExists; then the body may take any time.
PushStart(p) ==
  /\ pc[p] = "idle"
  /\ Active # {} /\ doc # None
  /\ Step(p, "body")
  /\ UNCHANGED <<r2Vars, d1Vars, elapsed, nextGen, faults, acked>>

\* gen says which generation's document was read, if it has a row yet.
PushSnapshot(p) ==
  /\ pc[p] = "body"
  /\ doc # None
  /\ snap' = [snap EXCEPT ![p] = doc]
  /\ \/ \E g \in Reserved : Bind(p, g)
     \/ Reserved = {} /\ Bind(p, 0)
  /\ Goto(p, "authorize")
  /\ UNCHANGED <<r2Vars, d1Vars, elapsed, nextGen, faults, acked, back, todo, due>>

PushNotFound(p) ==
  /\ pc[p] = "body"
  /\ doc = None
  /\ Quit(p)
  /\ UNCHANGED <<r2Vars, d1Vars, elapsed, nextGen, faults, acked>>

\* Mutant: refs are not authorized again.
PushAuthorizeOnce(p) ==
  /\ pc[p] = "authorize"
  /\ \E g \in Reserved : Bind(p, g)
  /\ Goto(p, "store")
  /\ UNCHANGED <<r2Vars, d1Vars, elapsed, nextGen, faults, acked, snap, back, todo, due>>

\* authorizeRef looks the row up by name: any active generation will do.
PushAuthorize(p) ==
  /\ pc[p] = "authorize"
  /\ \E g \in Active : Bind(p, g)
  /\ Goto(p, "store")
  /\ UNCHANGED <<r2Vars, d1Vars, elapsed, nextGen, faults, acked, snap, back, todo, due>>

PushDenied(p) ==
  /\ pc[p] = "authorize"
  /\ Active = {}
  /\ Quit(p)
  /\ UNCHANGED <<r2Vars, d1Vars, elapsed, nextGen, faults, acked>>

PushStore(p) ==
  /\ pc[p] = "store"
  /\ objects' = objects \cup {Token(p)}
  /\ Step(p, "validate")
  /\ UNCHANGED <<doc, marker, d1Vars, elapsed, nextGen, faults, acked>>

\* validateCommitClosure finds the commit, or somebody has removed it.
PushValidate(p) ==
  /\ pc[p] = "validate"
  /\ IF Token(p) \in objects THEN Step(p, "write") ELSE Quit(p)
  /\ UNCHANGED <<r2Vars, d1Vars, elapsed, nextGen, faults, acked>>

\* Mutant: a put without onlyIf.
WriteBlindly(w) ==
  /\ pc[w] = "write"
  /\ doc' = [refs |-> snap[w].refs \cup {Token(w)}, deletion |-> 0]
  /\ acked' = acked \cup {Token(w)}
  /\ Quit(w)
  /\ UNCHANGED <<objects, marker, d1Vars, elapsed, nextGen, faults>>

\* The put is conditional on the snapshot's ETag, the hash of its content.
\* Reading a tombstone drops its deletion record.
Write(w) ==
  /\ pc[w] = "write"
  /\ doc = snap[w]
  /\ doc' = [refs |-> snap[w].refs \cup {Token(w)}, deletion |-> 0]
  /\ acked' = acked \cup {Token(w)}
  /\ Quit(w)
  /\ UNCHANGED <<objects, marker, d1Vars, elapsed, nextGen, faults>>

LoseRace(w) ==
  /\ pc[w] = "write"
  /\ doc # snap[w]
  /\ Quit(w)
  /\ UNCHANGED <<r2Vars, d1Vars, elapsed, nextGen, faults, acked>>

(* createTagHandler: authorized once, before writeRefsWithMetadata reads.   *)

TagStart(t) ==
  /\ pc[t] = "idle"
  /\ \E g \in Active : Bind(t, g)
  /\ Goto(t, "prepare")
  /\ UNCHANGED <<r2Vars, d1Vars, elapsed, nextGen, faults, acked, snap, back, todo, due>>

TagSnapshot(t) ==
  /\ pc[t] = "prepare"
  /\ doc # None
  /\ snap' = [snap EXCEPT ![t] = doc]
  /\ Goto(t, "write")
  /\ UNCHANGED <<r2Vars, d1Vars, elapsed, nextGen, faults, acked, gen, back, todo, due>>

TagNotFound(t) ==
  /\ pc[t] = "prepare"
  /\ doc = None
  /\ Quit(t)
  /\ UNCHANGED <<r2Vars, d1Vars, elapsed, nextGen, faults, acked>>

-----------------------------------------------------------------------------
(* quarantineRepository, called by deletions and by sweeps.                 *)

ReadRefs(q) ==
  /\ pc[q] = "snapshot"
  /\ snap' = [snap EXCEPT ![q] = doc]
  /\ Goto(q, IF doc = None THEN "findMarker" ELSE "putMarker")
  /\ UNCHANGED <<r2Vars, d1Vars, elapsed, nextGen, faults, acked, gen, back, todo, due>>

\* The refs are gone already: make sure there is a marker.
FindMarker(q) ==
  /\ pc[q] = "findMarker"
  /\ Step(q, IF marker[gen[q]] = None THEN "putNull" ELSE back[q])
  /\ UNCHANGED <<r2Vars, d1Vars, elapsed, nextGen, faults, acked>>

PutNull(q) ==
  /\ pc[q] = "putNull"
  /\ marker' = [marker EXCEPT ![gen[q]] = [refs |-> {}]]
  /\ Step(q, back[q])
  /\ UNCHANGED <<doc, objects, d1Vars, elapsed, nextGen, faults, acked>>

PutMarker(q) ==
  /\ pc[q] = "putMarker"
  /\ marker' = [marker EXCEPT ![gen[q]] = [refs |-> snap[q].refs]]
  /\ Step(q, "tombstone")
  /\ UNCHANGED <<doc, objects, d1Vars, elapsed, nextGen, faults, acked>>

\* A lost race starts over.
PutTombstone(q) ==
  /\ pc[q] = "tombstone"
  /\ IF doc = snap[q]
     THEN doc' = Tombstone(gen[q]) /\ Step(q, "deleteDoc")
     ELSE doc' = doc /\ Step(q, "snapshot")
  /\ UNCHANGED <<objects, marker, d1Vars, elapsed, nextGen, faults, acked>>

\* The refs document, and the actions pins with it.
DeleteDoc(q) ==
  /\ pc[q] = "deleteDoc"
  /\ doc' = None
  /\ Step(q, back[q])
  /\ UNCHANGED <<objects, marker, d1Vars, elapsed, nextGen, faults, acked>>

Quarantine(q) ==
  ReadRefs(q) \/ FindMarker(q) \/ PutNull(q) \/ PutMarker(q) \/ PutTombstone(q) \/ DeleteDoc(q)

-----------------------------------------------------------------------------
(* deleteRepository.                                                        *)

\* Mutant: the bytes are fenced before the row is.
DeleteStartAtBytes(d) ==
  /\ pc[d] = "idle"
  /\ \E g \in Active : Bind(d, g)
  /\ Goto(d, "snapshot")
  /\ UNCHANGED <<r2Vars, d1Vars, elapsed, nextGen, faults, acked, snap, back, todo, due>>

DeleteStart(d) ==
  /\ pc[d] = "idle"
  /\ \E g \in Active : Bind(d, g)
  /\ Goto(d, "batch")
  /\ UNCHANGED <<r2Vars, d1Vars, elapsed, nextGen, faults, acked, snap, back, todo, due>>

\* Mutant: the ledger entry is written by the quarantine that follows.
DeleteBatchSplit(d) ==
  /\ pc[d] = "batch"
  /\ row' = [row EXCEPT ![gen[d]] = IF @ = "active" THEN "deleting" ELSE @]
  /\ Step(d, "snapshot")
  /\ UNCHANGED <<r2Vars, ledger, elapsed, nextGen, faults, acked>>

\* One transaction; INSERT OR IGNORE.
DeleteBatch(d) ==
  /\ pc[d] = "batch"
  /\ row' = [row EXCEPT ![gen[d]] = IF @ = "active" THEN "deleting" ELSE @]
  /\ ledger' = [ledger EXCEPT ![gen[d]] = IF @ = "none" THEN "queued" ELSE @]
  /\ Step(d, "snapshot")
  /\ UNCHANGED <<r2Vars, elapsed, nextGen, faults, acked>>

QuarantineSteps ==
  {"snapshot", "findMarker", "putNull", "putMarker", "tombstone", "deleteDoc", "ledger"}

\* Neither update asks what the ledger says meanwhile.
DeleteDone(d) ==
  /\ pc[d] = "ledger"
  /\ ledger' = [ledger EXCEPT ![gen[d]] = "quarantined"]
  /\ Quit(d)
  /\ UNCHANGED <<r2Vars, row, elapsed, nextGen, faults, acked>>

DeleteError(d) ==
  /\ pc[d] \in QuarantineSteps
  /\ OneFault
  /\ Step(d, "failing")
  /\ UNCHANGED <<r2Vars, d1Vars, elapsed, nextGen, acked>>

DeleteFailed(d) ==
  /\ pc[d] = "failing"
  /\ ledger' = [ledger EXCEPT ![gen[d]] = "failed"]
  /\ Quit(d)
  /\ UNCHANGED <<r2Vars, row, elapsed, nextGen, faults, acked>>

-----------------------------------------------------------------------------
(* processRepositoryDeletionQueue.                                          *)

\* The oldest of the rows S is next.
TakeRow(s, S) ==
  IF S = {} THEN Quit(s)
  ELSE /\ \E g \in S : (\A h \in S : g <= h) /\ Bind(s, g)
       /\ todo' = [todo EXCEPT ![s] = S]
       /\ back' = [back EXCEPT ![s] = "ledger"]
       /\ snap' = [snap EXCEPT ![s] = None]
       /\ Goto(s, "row")
       /\ UNCHANGED due

NextRow(s) == TakeRow(s, todo[s] \ {gen[s]})

\* Mutant: a failed deletion is not retried.
EligibleOnce ==
  {g \in Gens : \/ ledger[g] = "queued"
                \/ ledger[g] \in {"quarantined", "cleaning"} /\ g \in elapsed}

Eligible ==
  {g \in Gens : \/ ledger[g] \in {"queued", "failed"}
                \/ ledger[g] \in {"quarantined", "cleaning"} /\ g \in elapsed}

SweepStart(s) ==
  /\ pc[s] = "idle"
  /\ Eligible # {}
  /\ \E g \in Eligible :
       /\ \A h \in Eligible : g <= h
       /\ Bind(s, g)
  /\ todo' = [todo EXCEPT ![s] = Eligible]
  /\ due' = [due EXCEPT ![s] = elapsed]
  /\ Goto(s, "row")
  /\ UNCHANGED <<r2Vars, d1Vars, elapsed, nextGen, faults, acked, snap, back>>

\* The row is gone: cleaned before, only the ledger is behind.
SweepGone(s) ==
  /\ pc[s] = "row"
  /\ row[gen[s]] = "absent"
  /\ ledger' = [ledger EXCEPT ![gen[s]] = "completed"]
  /\ NextRow(s)
  /\ UNCHANGED <<r2Vars, row, elapsed, nextGen, faults, acked>>

SweepRow(s) ==
  /\ pc[s] = "row"
  /\ row[gen[s]] # "absent"
  /\ Step(s, IF row[gen[s]] = "deleting" THEN "snapshot" ELSE "failing")
  /\ UNCHANGED <<r2Vars, d1Vars, elapsed, nextGen, faults, acked>>

\* Mutant: not_before is not looked at again.
SweepQuarantinedAtOnce(s) ==
  /\ pc[s] = "ledger"
  /\ ledger' = [ledger EXCEPT ![gen[s]] = "quarantined"]
  /\ Step(s, "cleaning")
  /\ UNCHANGED <<r2Vars, row, elapsed, nextGen, faults, acked>>

SweepQuarantined(s) ==
  /\ pc[s] = "ledger"
  /\ ledger' = [ledger EXCEPT ![gen[s]] = "quarantined"]
  /\ IF gen[s] \in due[s] THEN Step(s, "cleaning") ELSE NextRow(s)
  /\ UNCHANGED <<r2Vars, row, elapsed, nextGen, faults, acked>>

SweepCleaning(s) ==
  /\ pc[s] = "cleaning"
  /\ ledger' = [ledger EXCEPT ![gen[s]] = "cleaning"]
  /\ Step(s, "marker")
  /\ UNCHANGED <<r2Vars, row, elapsed, nextGen, faults, acked>>

\* cleanupQuarantinedRepository: no marker, no cleanup; then once more the
\* quarantine, and everything under the name.
SweepMarker(s) ==
  /\ pc[s] = "marker"
  /\ back' = [back EXCEPT ![s] = "objects"]
  /\ Goto(s, IF marker[gen[s]] = None THEN "failing" ELSE "snapshot")
  /\ UNCHANGED <<r2Vars, d1Vars, elapsed, nextGen, faults, acked, gen, snap, todo, due>>

SweepObjects(s) ==
  /\ pc[s] = "objects"
  /\ objects' = {}
  /\ Step(s, IF objects = {} THEN "commit" ELSE "objects")
  /\ UNCHANGED <<doc, marker, d1Vars, elapsed, nextGen, faults, acked>>

\* One transaction again.
SweepCommit(s) ==
  /\ pc[s] = "commit"
  /\ row' = [row EXCEPT ![gen[s]] = IF @ = "deleting" THEN "absent" ELSE @]
  /\ ledger' = [ledger EXCEPT ![gen[s]] = "completed"]
  /\ Step(s, "verify")
  /\ UNCHANGED <<r2Vars, elapsed, nextGen, faults, acked>>

SweepVerify(s) ==
  /\ pc[s] = "verify"
  /\ Step(s, IF row[gen[s]] = "absent" THEN "unmark" ELSE "failing")
  /\ UNCHANGED <<r2Vars, d1Vars, elapsed, nextGen, faults, acked>>

SweepUnmark(s) ==
  /\ pc[s] = "unmark"
  /\ marker' = [marker EXCEPT ![gen[s]] = None]
  /\ NextRow(s)
  /\ UNCHANGED <<doc, objects, d1Vars, elapsed, nextGen, faults, acked>>

SweepSteps ==
  QuarantineSteps \cup {"row", "cleaning", "marker", "objects", "commit", "verify", "unmark"}

SweepError(s) ==
  /\ pc[s] \in SweepSteps
  /\ OneFault
  /\ Step(s, "failing")
  /\ UNCHANGED <<r2Vars, d1Vars, elapsed, nextGen, acked>>

SweepFailed(s) ==
  /\ pc[s] = "failing"
  /\ ledger' = [ledger EXCEPT ![gen[s]] = "failed"]
  /\ NextRow(s)
  /\ UNCHANGED <<r2Vars, row, elapsed, nextGen, faults, acked>>

-----------------------------------------------------------------------------
\* Ten minutes after the deletion: no request of that generation is still
\* running (REPOSITORY_QUARANTINE_MS is the "drain window").
WindowElapses(g) ==
  /\ ledger[g] # "none"
  /\ g \notin elapsed
  /\ \A w \in Writers \cup Deleters : gen[w] # g
  /\ elapsed' = elapsed \cup {g}
  /\ UNCHANGED <<r2Vars, d1Vars, nextGen, faults, acked, localVars>>

Init ==
  /\ doc = None
  /\ objects = {}
  /\ marker = [g \in Gens |-> None]
  /\ row = [g \in Gens |-> "absent"]
  /\ ledger = [g \in Gens |-> "none"]
  /\ elapsed = {}
  /\ nextGen = 1
  /\ faults = 0
  /\ acked = {}
  /\ pc = [p \in Procs |-> "idle"]
  /\ gen = [p \in Procs |-> 0]
  /\ snap = [p \in Procs |-> None]
  /\ back = [p \in Procs |-> "ledger"]
  /\ todo = [p \in Procs |-> {}]
  /\ due = [p \in Procs |-> {}]

Create(c) ==
  \/ CreateDoc(c) \/ CreateExists(c) \/ CreateInsert(c) \/ CreateRefused(c)
  \/ RollbackHead(c) \/ RollbackObjects(c) \/ RollbackDoc(c)

Push(p) ==
  \/ PushSnapshot(p) \/ PushNotFound(p) \/ PushAuthorize(p) \/ PushDenied(p)
  \/ PushStore(p) \/ PushValidate(p) \/ Write(p) \/ LoseRace(p)

Tag(t) == TagSnapshot(t) \/ TagNotFound(t) \/ Write(t) \/ LoseRace(t)

Delete(d) == DeleteBatch(d) \/ Quarantine(d) \/ DeleteDone(d) \/ DeleteFailed(d)

Sweep(s) ==
  \/ SweepStart(s) \/ SweepGone(s) \/ SweepRow(s) \/ Quarantine(s)
  \/ SweepQuarantined(s) \/ SweepCleaning(s) \/ SweepMarker(s) \/ SweepObjects(s)
  \/ SweepCommit(s) \/ SweepVerify(s) \/ SweepUnmark(s) \/ SweepFailed(s)

Next ==
  \/ \E c \in Creators : CreateStart(c) \/ Create(c) \/ RollbackError(c)
  \/ \E p \in Pushers : PushStart(p) \/ Push(p)
  \/ \E t \in Taggers : TagStart(t) \/ Tag(t)
  \/ \E d \in Deleters : DeleteStart(d) \/ Delete(d) \/ DeleteError(d)
  \/ \E s \in Sweepers : Sweep(s) \/ SweepError(s)
  \/ \E p \in Procs : Crash(p)
  \/ \E g \in Gens : WindowElapses(g)

Spec == Init /\ [][Next]_vars

\* Cron keeps sweeping and time passes; a request, once started, ends.
Fairness ==
  /\ \A s \in Sweepers : WF_vars(Sweep(s))
  /\ \A g \in Gens : WF_vars(WindowElapses(g))
  /\ \A c \in Creators : WF_vars(Create(c))
  /\ \A p \in Pushers : WF_vars(Push(p))
  /\ \A t \in Taggers : WF_vars(Tag(t))
  /\ \A d \in Deleters : WF_vars(Delete(d))

FairSpec == Spec /\ Fairness

-----------------------------------------------------------------------------
(* Properties.                                                              *)

RowStates == {"absent", "active", "deleting"}
Statuses == {"none", "queued", "quarantined", "cleaning", "failed", "completed"}

PCs == SweepSteps \cup
       {"idle", "createDoc", "insert", "rollback", "rollbackObjects", "rollbackDoc",
        "body", "authorize", "store", "validate", "write", "prepare", "batch", "failing"}

StoreTypeOK ==
  /\ doc \in Docs \cup {None}
  /\ objects \subseteq Tokens
  /\ marker \in [Gens -> Markers \cup {None}]
  /\ row \in [Gens -> RowStates]
  /\ ledger \in [Gens -> Statuses]
  /\ elapsed \subseteq Gens
  /\ nextGen \in 1 .. MaxGen + 1
  /\ faults \in 0 .. MaxFaults
  /\ acked \subseteq Tokens

LocalTypeOK ==
  /\ pc \in [Procs -> PCs]
  /\ gen \in [Procs -> 0 .. MaxGen]
  /\ snap \in [Procs -> Docs \cup {None}]
  /\ back \in [Procs -> {"ledger", "objects"}]
  /\ todo \in [Procs -> SUBSET Gens]
  /\ due \in [Procs -> SUBSET Gens]

\* Every variable has its type.
TypeOK == StoreTypeOK /\ LocalTypeOK

\* A repository that D1 calls active can be used: its refs document is there,
\* is no tombstone, and the commits it names are stored.  No creation,
\* deletion, cleanup or retry of an earlier one takes them away.
ActiveIsUsable ==
  Active # {} => /\ doc # None
                 /\ doc.deletion = 0
                 /\ \A c \in doc.refs : c.by \in Pushers => c \in objects

\* What was pushed to the active repository is in it.
AppliedIsKept ==
  \A c \in acked : c.gen \in Active => doc # None /\ c \in doc.refs

\* No pushed commit goes before the window of its repository's deletion has
\* elapsed.
KeptUntilElapsed ==
  \A c \in acked : c.by \in Pushers /\ c.gen \notin elapsed => c \in objects

\* A deletion reported completed is complete: neither a row nor a byte of the
\* generation is left, and none appears later.
CompletedMeansGone ==
  \A g \in Gens : ledger[g] = "completed" =>
    /\ row[g] = "absent"
    /\ \A c \in objects : c.gen # g
    /\ doc # None => doc.deletion # g /\ \A c \in doc.refs : c.gen # g

\* A repository on its way out is on the ledger, so that some sweep finds it:
\* no failure, death or late update strands the row, and the name, for ever.
DeletingIsQueued ==
  \A g \in Gens : row[g] = "deleting" => ledger[g] \notin {"none", "completed"}

\* Under a name that was deleted, a new repository starts empty: it shows
\* nothing of its predecessor.
StartsEmpty ==
  [][\A g \in Gens : row[g] = "absent" /\ row'[g] = "active"
                       => objects = {} /\ doc # None /\ doc.refs = {}]_vars

\* Once a tombstone is in place no writer puts a document over it.
TombstoneFences ==
  [][doc # None /\ doc.deletion # 0 => doc' = None \/ doc'.deletion # 0]_vars

\* A quarantine marker, once the tombstone is in place, has the last refs.
MarkerHasLastRefs ==
  \A g \in Gens :
    row[g] = "deleting" /\ marker[g] # None /\ (doc # None => doc.deletion = g)
      => \A c \in acked : c.gen = g => c \in marker[g].refs

\* A refs document nobody is creating has a row: the rollback of a failed
\* creation took it away.
NoOrphanDocument ==
  Reserved = {} /\ doc # None
    => \E c \in Creators : pc[c] \notin {"idle", "createDoc"}

\* A deletion asked for is carried out, whatever fails on the way.
DeletionCompletes ==
  \A g \in Gens : row[g] = "deleting" ~> row[g] = "absent" /\ ledger[g] = "completed"
=============================================================================
