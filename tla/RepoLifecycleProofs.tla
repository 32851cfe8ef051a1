------------------------ MODULE RepoLifecycleProofs ------------------------
(***************************************************************************)
(* Proofs about RepoLifecycle, for every number of clients, of overlapping  *)
(* sweeps, of generations and of failures.                                  *)
(***************************************************************************)
EXTENDS RepoLifecycle, TLAPS

-----------------------------------------------------------------------------
(* Type correctness.  The types alone are not inductive: what a writer puts *)
(* is a token only if it is bound to a generation by then, and what is made *)
(* from a snapshot is a document only if there was one.                     *)

WithSnapshot == {"authorize", "store", "validate", "write", "putMarker", "tombstone"}
WithGeneration == {"store", "validate", "write", "prepare"}

Located ==
  \A p \in Procs :
    /\ pc[p] \in WithSnapshot => snap[p] \in Docs
    /\ pc[p] = "prepare" => p \in Taggers
    /\ pc[p] \in WithGeneration => gen[p] \in Gens

LocalInv == LocalTypeOK /\ Located

TInv == StoreTypeOK /\ LocalInv

\* Where a step can lead.
LEMMA Places ==
  /\ SweepSteps \subseteq PCs
  /\ {"idle", "createDoc", "insert", "rollback", "rollbackObjects", "rollbackDoc",
      "body", "authorize", "store", "validate", "write", "prepare", "batch",
      "failing", "snapshot", "findMarker", "putNull", "putMarker", "tombstone",
      "deleteDoc", "ledger", "objects"} \subseteq PCs
  /\ SweepSteps \cap WithGeneration = {}
  BY DEF PCs, SweepSteps, QuarantineSteps, WithGeneration

\* The end of a request or of a sweep.
LEMMA QuitLocal ==
  ASSUME LocalInv, NEW p \in Procs, Quit(p)
  PROVE  LocalInv'
  <1> USE DEF LocalInv, Quit, Goto, Bind
  <1>1. 0 \in 0 .. MaxGen
    BY BoundsAssumption
  <1>2. LocalTypeOK'
    BY <1>1, Places DEF LocalTypeOK
  <1>3. Located'
    BY DEF LocalTypeOK, Located, WithSnapshot, WithGeneration
  <1> QED
    BY <1>2, <1>3

\* A step that changes nothing local but the place p is at.
LEMMA StepLocal ==
  ASSUME LocalInv, NEW p \in Procs, NEW l \in PCs, Step(p, l), l # "prepare",
         l \in WithSnapshot => snap[p] \in Docs,
         l \in WithGeneration => gen[p] \in Gens
  PROVE  LocalInv'
  <1> USE DEF LocalInv, Step, Goto
  <1>1. LocalTypeOK'
    BY DEF LocalTypeOK
  <1>2. Located'
    BY DEF LocalTypeOK, Located
  <1> QED
    BY <1>1, <1>2

\* A step that binds p to a generation.
LEMMA BindLocal ==
  ASSUME LocalInv, NEW p \in Procs, NEW l \in PCs, NEW g \in 0 .. MaxGen,
         Goto(p, l), Bind(p, g), UNCHANGED <<snap, back, todo, due>>,
         l = "prepare" => p \in Taggers,
         l \in WithSnapshot => snap[p] \in Docs,
         l \in WithGeneration => g \in Gens
  PROVE  LocalInv'
  <1> USE DEF LocalInv, Goto, Bind
  <1>1. LocalTypeOK'
    BY DEF LocalTypeOK
  <1>2. Located'
    BY DEF LocalTypeOK, Located
  <1> QED
    BY <1>1, <1>2

\* A step that reads the refs document.
LEMMA SnapshotLocal ==
  ASSUME TInv, NEW p \in Procs, NEW l \in PCs, NEW g \in 0 .. MaxGen,
         Goto(p, l), gen' = [gen EXCEPT ![p] = g], snap' = [snap EXCEPT ![p] = doc],
         UNCHANGED <<back, todo, due>>,
         l # "prepare",
         l \in WithSnapshot => doc # None,
         l \in WithGeneration => g \in Gens
  PROVE  LocalInv'
  <1> USE DEF TInv, LocalInv, Goto
  <1>1. LocalTypeOK'
    BY DEF LocalTypeOK, StoreTypeOK
  <1>2. Located'
    BY DEF LocalTypeOK, StoreTypeOK, Located
  <1> QED
    BY <1>1, <1>2

\* A sweep goes on to one of the rows S, or ends.
LEMMA TakeRowLocal ==
  ASSUME LocalInv, NEW s \in Procs, NEW S \in SUBSET Gens, TakeRow(s, S)
  PROVE  LocalInv'
  <1>1. CASE S = {}
    BY <1>1, QuitLocal DEF TakeRow
  <1>2. CASE S # {}
    <2> USE DEF LocalInv, Goto, Bind
    <2>1. PICK g \in S : gen' = [gen EXCEPT ![s] = g]
      BY <1>2 DEF TakeRow
    <2>2. g \in 0 .. MaxGen /\ "row" \in PCs
      BY BoundsAssumption DEF Gens, PCs, SweepSteps
    <2>3. LocalTypeOK'
      BY <1>2, <2>1, <2>2 DEF LocalTypeOK, TakeRow
    <2>4. Located'
      BY <1>2 DEF LocalTypeOK, Located, TakeRow, WithSnapshot, WithGeneration
    <2> QED
      BY <2>3, <2>4
  <1> QED
    BY <1>1, <1>2

LEMMA NextRowLocal ==
  ASSUME LocalInv, NEW s \in Procs, NextRow(s)
  PROVE  LocalInv'
  BY TakeRowLocal DEF NextRow, LocalInv, LocalTypeOK

\* A creation.
LEMMA CreateTypes ==
  ASSUME TInv, NEW c \in Creators,
         \/ CreateStart(c) \/ CreateDoc(c) \/ CreateExists(c)
         \/ CreateInsert(c) \/ CreateRefused(c) \/ RollbackHead(c)
         \/ RollbackObjects(c) \/ RollbackDoc(c) \/ RollbackError(c)
  PROVE  TInv'
  <1> c \in Procs
    BY DEF Procs, Writers, Quarantiners
  <1> USE DEF TInv
  <1>1. CASE CreateStart(c)
    <2>1. StoreTypeOK'
      BY <1>1, BoundsAssumption DEF CreateStart, StoreTypeOK, r2Vars, d1Vars
    <2>2. LocalInv'
      BY <1>1, BindLocal, Places, BoundsAssumption DEF CreateStart, StoreTypeOK,
         WithSnapshot, WithGeneration
    <2> QED
      BY <2>1, <2>2
  <1>2. CASE CreateDoc(c)
    <2>1. StoreTypeOK'
      BY <1>2, BoundsAssumption DEF CreateDoc, StoreTypeOK, NewDoc, Docs, d1Vars
    <2>2. LocalInv'
      BY <1>2, StepLocal, Places DEF CreateDoc, WithSnapshot, WithGeneration
    <2> QED
      BY <2>1, <2>2
  <1>3. CASE CreateExists(c)
    <2>1. StoreTypeOK'
      BY <1>3 DEF CreateExists, StoreTypeOK, r2Vars, d1Vars
    <2>2. LocalInv'
      BY <1>3, QuitLocal DEF CreateExists
    <2> QED
      BY <2>1, <2>2
  <1>4. CASE CreateInsert(c)
    <2>1. StoreTypeOK'
      BY <1>4 DEF CreateInsert, StoreTypeOK, RowStates, r2Vars
    <2>2. LocalInv'
      BY <1>4, QuitLocal DEF CreateInsert
    <2> QED
      BY <2>1, <2>2
  <1>5. CASE CreateRefused(c)
    <2>1. StoreTypeOK'
      BY <1>5, BoundsAssumption DEF CreateRefused, StoreTypeOK, OneFault,
         r2Vars, d1Vars
    <2>2. LocalInv'
      BY <1>5, StepLocal, Places DEF CreateRefused, WithSnapshot, WithGeneration
    <2> QED
      BY <2>1, <2>2
  <1>6. CASE RollbackHead(c)
    <2>1. StoreTypeOK'
      BY <1>6 DEF RollbackHead, StoreTypeOK, r2Vars, d1Vars
    <2>2. LocalInv'
      BY <1>6, QuitLocal, StepLocal, Places DEF RollbackHead, WithSnapshot,
         WithGeneration
    <2> QED
      BY <2>1, <2>2
  <1>7. CASE RollbackObjects(c)
    <2>1. StoreTypeOK'
      BY <1>7 DEF RollbackObjects, StoreTypeOK, d1Vars
    <2>2. LocalInv'
      BY <1>7, StepLocal, Places DEF RollbackObjects, WithSnapshot, WithGeneration
    <2> QED
      BY <2>1, <2>2
  <1>8. CASE RollbackDoc(c)
    <2>1. StoreTypeOK'
      BY <1>8 DEF RollbackDoc, StoreTypeOK, d1Vars
    <2>2. LocalInv'
      BY <1>8, QuitLocal DEF RollbackDoc
    <2> QED
      BY <2>1, <2>2
  <1>9. CASE RollbackError(c)
    <2>1. StoreTypeOK'
      BY <1>9, BoundsAssumption DEF RollbackError, StoreTypeOK, OneFault,
         r2Vars, d1Vars
    <2>2. LocalInv'
      BY <1>9, QuitLocal DEF RollbackError
    <2> QED
      BY <2>1, <2>2
  <1> QED
    BY <1>1, <1>2, <1>3, <1>4, <1>5, <1>6, <1>7, <1>8, <1>9

\* A push, up to the put.
LEMMA PushTypes ==
  ASSUME TInv, NEW p \in Pushers,
         \/ PushStart(p) \/ PushSnapshot(p) \/ PushNotFound(p)
         \/ PushAuthorize(p) \/ PushDenied(p) \/ PushStore(p)
         \/ PushValidate(p)
  PROVE  TInv'
  <1> p \in Procs
    BY DEF Procs, Writers, Quarantiners
  <1> USE DEF TInv
  <1>1. CASE PushStart(p)
    <2>1. StoreTypeOK'
      BY <1>1 DEF PushStart, StoreTypeOK, r2Vars, d1Vars
    <2>2. LocalInv'
      BY <1>1, StepLocal, Places DEF PushStart, WithSnapshot, WithGeneration
    <2> QED
      BY <2>1, <2>2
  <1>2. CASE PushSnapshot(p)
    <2>1. StoreTypeOK'
      BY <1>2 DEF PushSnapshot, StoreTypeOK, r2Vars, d1Vars
    <2>2. LocalInv'
      <3>1. PICK g \in 0 .. MaxGen : Bind(p, g)
        BY <1>2, BoundsAssumption DEF PushSnapshot, Reserved, Gens
      <3> QED
        BY <1>2, <3>1, SnapshotLocal, Places DEF PushSnapshot, Bind,
           WithGeneration
    <2> QED
      BY <2>1, <2>2
  <1>3. CASE PushNotFound(p)
    <2>1. StoreTypeOK'
      BY <1>3 DEF PushNotFound, StoreTypeOK, r2Vars, d1Vars
    <2>2. LocalInv'
      BY <1>3, QuitLocal DEF PushNotFound
    <2> QED
      BY <2>1, <2>2
  <1>4. CASE PushAuthorize(p)
    <2>1. StoreTypeOK'
      BY <1>4 DEF PushAuthorize, StoreTypeOK, r2Vars, d1Vars
    <2>2. LocalInv'
      <3>1. PICK g \in Active : Bind(p, g)
        BY <1>4 DEF PushAuthorize
      <3>2. g \in Gens /\ g \in 0 .. MaxGen
        BY BoundsAssumption DEF Active, Gens
      <3> QED
        BY <1>4, <3>1, <3>2, BindLocal, Places DEF PushAuthorize, LocalInv,
           Located, WithSnapshot, WithGeneration
    <2> QED
      BY <2>1, <2>2
  <1>5. CASE PushDenied(p)
    <2>1. StoreTypeOK'
      BY <1>5 DEF PushDenied, StoreTypeOK, r2Vars, d1Vars
    <2>2. LocalInv'
      BY <1>5, QuitLocal DEF PushDenied
    <2> QED
      BY <2>1, <2>2
  <1>6. CASE PushStore(p)
    <2>1. StoreTypeOK'
      BY <1>6 DEF PushStore, StoreTypeOK, LocalInv, Located, WithGeneration,
         Token, Tokens, Writers, d1Vars
    <2>2. LocalInv'
      BY <1>6, StepLocal, Places DEF PushStore, LocalInv, Located, WithSnapshot,
         WithGeneration
    <2> QED
      BY <2>1, <2>2
  <1>7. CASE PushValidate(p)
    <2>1. StoreTypeOK'
      BY <1>7 DEF PushValidate, StoreTypeOK, r2Vars, d1Vars
    <2>2. LocalInv'
      BY <1>7, QuitLocal, StepLocal, Places DEF PushValidate, LocalInv, Located,
         WithSnapshot, WithGeneration
    <2> QED
      BY <2>1, <2>2
  <1> QED
    BY <1>1, <1>2, <1>3, <1>4, <1>5, <1>6, <1>7

\* The put of a push or of a tag request.
LEMMA WriteTypes ==
  ASSUME TInv, NEW w \in Writers,
         \/ Write(w) \/ LoseRace(w)
  PROVE  TInv'
  <1> w \in Procs
    BY DEF Procs, Writers, Quarantiners
  <1> USE DEF TInv
  <1>1. CASE Write(w)
    <2>1. StoreTypeOK'
      BY <1>1, BoundsAssumption DEF Write, StoreTypeOK, LocalInv, Located,
         WithSnapshot, WithGeneration, Token, Tokens, Docs, d1Vars
    <2>2. LocalInv'
      BY <1>1, QuitLocal DEF Write
    <2> QED
      BY <2>1, <2>2
  <1>2. CASE LoseRace(w)
    <2>1. StoreTypeOK'
      BY <1>2 DEF LoseRace, StoreTypeOK, r2Vars, d1Vars
    <2>2. LocalInv'
      BY <1>2, QuitLocal DEF LoseRace
    <2> QED
      BY <2>1, <2>2
  <1> QED
    BY <1>1, <1>2

\* A tag request, up to the put.
LEMMA TagTypes ==
  ASSUME TInv, NEW t \in Taggers,
         \/ TagStart(t) \/ TagSnapshot(t) \/ TagNotFound(t)
  PROVE  TInv'
  <1> t \in Procs
    BY DEF Procs, Writers, Quarantiners
  <1> USE DEF TInv
  <1>1. CASE TagStart(t)
    <2>1. StoreTypeOK'
      BY <1>1 DEF TagStart, StoreTypeOK, r2Vars, d1Vars
    <2>2. LocalInv'
      <3>1. PICK g \in Active : Bind(t, g)
        BY <1>1 DEF TagStart
      <3>2. g \in Gens /\ g \in 0 .. MaxGen
        BY BoundsAssumption DEF Active, Gens
      <3> QED
        BY <1>1, <3>1, <3>2, BindLocal, Places DEF TagStart, WithSnapshot,
           WithGeneration
    <2> QED
      BY <2>1, <2>2
  <1>2. CASE TagSnapshot(t)
    <2>1. StoreTypeOK'
      BY <1>2 DEF TagSnapshot, StoreTypeOK, r2Vars, d1Vars
    <2>2. LocalInv'
      <3>1. gen' = [gen EXCEPT ![t] = gen[t]] /\ gen[t] \in Gens \cap 0 .. MaxGen
        BY <1>2 DEF TagSnapshot, LocalInv, LocalTypeOK, Located, WithGeneration
      <3> QED
        BY <1>2, <3>1, SnapshotLocal, Places DEF TagSnapshot
    <2> QED
      BY <2>1, <2>2
  <1>3. CASE TagNotFound(t)
    <2>1. StoreTypeOK'
      BY <1>3 DEF TagNotFound, StoreTypeOK, r2Vars, d1Vars
    <2>2. LocalInv'
      BY <1>3, QuitLocal DEF TagNotFound
    <2> QED
      BY <2>1, <2>2
  <1> QED
    BY <1>1, <1>2, <1>3

\* quarantineRepository.
LEMMA QuarantineTypes ==
  ASSUME TInv, NEW q \in Quarantiners,
         \/ ReadRefs(q) \/ FindMarker(q) \/ PutNull(q)
         \/ PutMarker(q) \/ PutTombstone(q) \/ DeleteDoc(q)
  PROVE  TInv'
  <1> q \in Procs
    BY DEF Procs, Writers, Quarantiners
  <1> USE DEF TInv
  <1>1. CASE ReadRefs(q)
    <2>1. StoreTypeOK'
      BY <1>1 DEF ReadRefs, StoreTypeOK, r2Vars, d1Vars
    <2>2. LocalInv'
      <3>1. gen' = [gen EXCEPT ![q] = gen[q]] /\ gen[q] \in 0 .. MaxGen
        BY <1>1 DEF ReadRefs, LocalInv, LocalTypeOK
      <3> QED
        BY <1>1, <3>1, SnapshotLocal, Places DEF ReadRefs, WithSnapshot,
           WithGeneration
    <2> QED
      BY <2>1, <2>2
  <1>2. CASE FindMarker(q)
    <2>1. StoreTypeOK'
      BY <1>2 DEF FindMarker, StoreTypeOK, r2Vars, d1Vars
    <2>2. LocalInv'
      <3>1. back[q] \in PCs /\ back[q] \notin WithSnapshot \cup WithGeneration \cup {"prepare"}
        BY Places DEF LocalInv, LocalTypeOK, WithSnapshot, WithGeneration
      <3> QED
        BY <1>2, <3>1, StepLocal, Places DEF FindMarker, WithSnapshot,
           WithGeneration
    <2> QED
      BY <2>1, <2>2
  <1>3. CASE PutNull(q)
    <2>1. StoreTypeOK'
      BY <1>3 DEF PutNull, StoreTypeOK, Markers, d1Vars
    <2>2. LocalInv'
      <3>1. back[q] \in PCs /\ back[q] \notin WithSnapshot \cup WithGeneration \cup {"prepare"}
        BY Places DEF LocalInv, LocalTypeOK, WithSnapshot, WithGeneration
      <3> QED
        BY <1>3, <3>1, StepLocal, Places DEF PutNull, WithSnapshot, WithGeneration
    <2> QED
      BY <2>1, <2>2
  <1>4. CASE PutMarker(q)
    <2>1. StoreTypeOK'
      BY <1>4 DEF PutMarker, StoreTypeOK, LocalInv, Located, WithSnapshot, Docs,
         Markers, d1Vars
    <2>2. LocalInv'
      BY <1>4, StepLocal, Places DEF PutMarker, LocalInv, Located, WithSnapshot,
         WithGeneration
    <2> QED
      BY <2>1, <2>2
  <1>5. CASE PutTombstone(q)
    <2>1. StoreTypeOK'
      BY <1>5 DEF PutTombstone, StoreTypeOK, LocalInv, LocalTypeOK, Tombstone,
         Docs, d1Vars
    <2>2. LocalInv'
      BY <1>5, StepLocal, Places DEF PutTombstone, WithSnapshot, WithGeneration
    <2> QED
      BY <2>1, <2>2
  <1>6. CASE DeleteDoc(q)
    <2>1. StoreTypeOK'
      BY <1>6 DEF DeleteDoc, StoreTypeOK, d1Vars
    <2>2. LocalInv'
      <3>1. back[q] \in PCs /\ back[q] \notin WithSnapshot \cup WithGeneration \cup {"prepare"}
        BY Places DEF LocalInv, LocalTypeOK, WithSnapshot, WithGeneration
      <3> QED
        BY <1>6, <3>1, StepLocal, Places DEF DeleteDoc, WithSnapshot,
           WithGeneration
    <2> QED
      BY <2>1, <2>2
  <1> QED
    BY <1>1, <1>2, <1>3, <1>4, <1>5, <1>6

\* A deletion, but for the quarantine.
LEMMA DeleteTypes ==
  ASSUME TInv, NEW d \in Deleters,
         \/ DeleteStart(d) \/ DeleteBatch(d) \/ DeleteDone(d)
         \/ DeleteError(d) \/ DeleteFailed(d)
  PROVE  TInv'
  <1> d \in Procs
    BY DEF Procs, Writers, Quarantiners
  <1> USE DEF TInv
  <1>1. CASE DeleteStart(d)
    <2>1. StoreTypeOK'
      BY <1>1 DEF DeleteStart, StoreTypeOK, r2Vars, d1Vars
    <2>2. LocalInv'
      <3>1. PICK g \in Active : Bind(d, g)
        BY <1>1 DEF DeleteStart
      <3>2. g \in Gens /\ g \in 0 .. MaxGen
        BY BoundsAssumption DEF Active, Gens
      <3> QED
        BY <1>1, <3>1, <3>2, BindLocal, Places DEF DeleteStart, WithSnapshot,
           WithGeneration
    <2> QED
      BY <2>1, <2>2
  <1>2. CASE DeleteBatch(d)
    <2>1. StoreTypeOK'
      BY <1>2 DEF DeleteBatch, StoreTypeOK, RowStates, Statuses, r2Vars
    <2>2. LocalInv'
      BY <1>2, StepLocal, Places DEF DeleteBatch, WithSnapshot, WithGeneration
    <2> QED
      BY <2>1, <2>2
  <1>3. CASE DeleteDone(d)
    <2>1. StoreTypeOK'
      BY <1>3 DEF DeleteDone, StoreTypeOK, Statuses, r2Vars
    <2>2. LocalInv'
      BY <1>3, QuitLocal DEF DeleteDone
    <2> QED
      BY <2>1, <2>2
  <1>4. CASE DeleteError(d)
    <2>1. StoreTypeOK'
      BY <1>4, BoundsAssumption DEF DeleteError, StoreTypeOK, OneFault, r2Vars,
         d1Vars
    <2>2. LocalInv'
      BY <1>4, StepLocal, Places DEF DeleteError, WithSnapshot, WithGeneration
    <2> QED
      BY <2>1, <2>2
  <1>5. CASE DeleteFailed(d)
    <2>1. StoreTypeOK'
      BY <1>5 DEF DeleteFailed, StoreTypeOK, Statuses, r2Vars
    <2>2. LocalInv'
      BY <1>5, QuitLocal DEF DeleteFailed
    <2> QED
      BY <2>1, <2>2
  <1> QED
    BY <1>1, <1>2, <1>3, <1>4, <1>5

\* A sweep, but for the quarantine.
LEMMA SweepTypes ==
  ASSUME TInv, NEW s \in Sweepers,
         \/ SweepStart(s) \/ SweepGone(s) \/ SweepRow(s)
         \/ SweepQuarantined(s) \/ SweepCleaning(s) \/ SweepMarker(s)
         \/ SweepObjects(s) \/ SweepCommit(s) \/ SweepVerify(s)
         \/ SweepUnmark(s) \/ SweepError(s) \/ SweepFailed(s)
  PROVE  TInv'
  <1> s \in Procs
    BY DEF Procs, Writers, Quarantiners
  <1> USE DEF TInv
  <1>1. CASE SweepStart(s)
    <2>1. StoreTypeOK'
      BY <1>1 DEF SweepStart, StoreTypeOK, r2Vars, d1Vars
    <2>2. LocalInv'
      <3>1. PICK g \in Eligible : Bind(s, g)
        BY <1>1 DEF SweepStart
      <3>2. g \in 0 .. MaxGen /\ Eligible \subseteq Gens
        BY BoundsAssumption DEF Eligible, Gens
      <3>3. "row" \in PCs
        BY DEF PCs, SweepSteps
      <3>4. LocalTypeOK'
        BY <1>1, <3>1, <3>2, <3>3 DEF SweepStart, Goto, Bind, LocalInv,
           LocalTypeOK, StoreTypeOK
      <3>5. Located'
        BY <1>1, <3>1 DEF SweepStart, Goto, Bind, LocalInv, LocalTypeOK,
           Located, WithSnapshot, WithGeneration
      <3> QED
        BY <3>4, <3>5 DEF LocalInv
    <2> QED
      BY <2>1, <2>2
  <1>2. CASE SweepGone(s)
    <2>1. StoreTypeOK'
      BY <1>2 DEF SweepGone, StoreTypeOK, Statuses, r2Vars
    <2>2. LocalInv'
      BY <1>2, NextRowLocal DEF SweepGone
    <2> QED
      BY <2>1, <2>2
  <1>3. CASE SweepRow(s)
    <2>1. StoreTypeOK'
      BY <1>3 DEF SweepRow, StoreTypeOK, r2Vars, d1Vars
    <2>2. LocalInv'
      BY <1>3, StepLocal, Places DEF SweepRow, WithSnapshot, WithGeneration
    <2> QED
      BY <2>1, <2>2
  <1>4. CASE SweepQuarantined(s)
    <2>1. StoreTypeOK'
      BY <1>4 DEF SweepQuarantined, StoreTypeOK, Statuses, r2Vars
    <2>2. LocalInv'
      BY <1>4, NextRowLocal, StepLocal, Places DEF SweepQuarantined, SweepSteps,
         WithSnapshot, WithGeneration
    <2> QED
      BY <2>1, <2>2
  <1>5. CASE SweepCleaning(s)
    <2>1. StoreTypeOK'
      BY <1>5 DEF SweepCleaning, StoreTypeOK, Statuses, r2Vars
    <2>2. LocalInv'
      BY <1>5, StepLocal, Places DEF SweepCleaning, SweepSteps, WithSnapshot,
         WithGeneration
    <2> QED
      BY <2>1, <2>2
  <1>6. CASE SweepMarker(s)
    <2>1. StoreTypeOK'
      BY <1>6 DEF SweepMarker, StoreTypeOK, r2Vars, d1Vars
    <2>2. LocalInv'
      <3>1. LocalTypeOK'
        BY <1>6, Places DEF SweepMarker, Goto, LocalInv, LocalTypeOK
      <3>2. Located'
        BY <1>6 DEF SweepMarker, Goto, LocalInv, LocalTypeOK, Located,
           WithSnapshot, WithGeneration
      <3> QED
        BY <3>1, <3>2 DEF LocalInv
    <2> QED
      BY <2>1, <2>2
  <1>7. CASE SweepObjects(s)
    <2>1. StoreTypeOK'
      BY <1>7 DEF SweepObjects, StoreTypeOK, d1Vars
    <2>2. LocalInv'
      BY <1>7, StepLocal, Places DEF SweepObjects, SweepSteps, WithSnapshot,
         WithGeneration
    <2> QED
      BY <2>1, <2>2
  <1>8. CASE SweepCommit(s)
    <2>1. StoreTypeOK'
      BY <1>8 DEF SweepCommit, StoreTypeOK, RowStates, Statuses, r2Vars
    <2>2. LocalInv'
      BY <1>8, StepLocal, Places DEF SweepCommit, SweepSteps, WithSnapshot,
         WithGeneration
    <2> QED
      BY <2>1, <2>2
  <1>9. CASE SweepVerify(s)
    <2>1. StoreTypeOK'
      BY <1>9 DEF SweepVerify, StoreTypeOK, r2Vars, d1Vars
    <2>2. LocalInv'
      BY <1>9, StepLocal, Places DEF SweepVerify, SweepSteps, WithSnapshot,
         WithGeneration
    <2> QED
      BY <2>1, <2>2
  <1>10. CASE SweepUnmark(s)
    <2>1. StoreTypeOK'
      BY <1>10 DEF SweepUnmark, StoreTypeOK, d1Vars
    <2>2. LocalInv'
      BY <1>10, NextRowLocal DEF SweepUnmark
    <2> QED
      BY <2>1, <2>2
  <1>11. CASE SweepError(s)
    <2>1. StoreTypeOK'
      BY <1>11, BoundsAssumption DEF SweepError, StoreTypeOK, OneFault, r2Vars,
         d1Vars
    <2>2. LocalInv'
      BY <1>11, StepLocal, Places DEF SweepError, WithSnapshot, WithGeneration
    <2> QED
      BY <2>1, <2>2
  <1>12. CASE SweepFailed(s)
    <2>1. StoreTypeOK'
      BY <1>12 DEF SweepFailed, StoreTypeOK, Statuses, r2Vars
    <2>2. LocalInv'
      BY <1>12, NextRowLocal DEF SweepFailed
    <2> QED
      BY <2>1, <2>2
  <1> QED
    BY <1>1, <1>2, <1>3, <1>4, <1>5, <1>6, <1>7, <1>8, <1>9, <1>10, <1>11, <1>12

LEMMA CrashTypes ==
  ASSUME TInv, NEW p \in Procs, Crash(p)
  PROVE  TInv'
  <1>1. StoreTypeOK'
    BY BoundsAssumption DEF TInv, Crash, StoreTypeOK, OneFault, r2Vars, d1Vars
  <1> QED
    BY <1>1, QuitLocal DEF TInv, Crash

LEMMA WindowTypes ==
  ASSUME TInv, NEW g \in Gens, WindowElapses(g)
  PROVE  TInv'
  BY DEF TInv, WindowElapses, StoreTypeOK, LocalInv, LocalTypeOK, Located,
         localVars, r2Vars, d1Vars

LEMMA InitTypes == Init => TInv
  <1> SUFFICES ASSUME Init PROVE TInv
    OBVIOUS
  <1>1. StoreTypeOK
    BY BoundsAssumption DEF Init, StoreTypeOK, RowStates, Statuses, Gens
  <1>2. LocalTypeOK
    BY BoundsAssumption, Places DEF Init, LocalTypeOK
  <1>3. Located
    BY DEF Init, Located, WithSnapshot, WithGeneration
  <1> QED
    BY <1>1, <1>2, <1>3 DEF TInv, LocalInv

LEMMA NextTypes == TInv /\ [Next]_vars => TInv'
  <1> SUFFICES ASSUME TInv, [Next]_vars PROVE TInv'
    OBVIOUS
  <1>1. ASSUME NEW c \in Creators, CreateStart(c) \/ Create(c) \/ RollbackError(c)
        PROVE  TInv'
    BY <1>1, CreateTypes DEF Create
  <1>2. ASSUME NEW p \in Pushers, PushStart(p) \/ Push(p)
        PROVE  TInv'
    BY <1>2, PushTypes, WriteTypes DEF Push, Writers
  <1>3. ASSUME NEW t \in Taggers, TagStart(t) \/ Tag(t)
        PROVE  TInv'
    BY <1>3, TagTypes, WriteTypes DEF Tag, Writers
  <1>4. ASSUME NEW d \in Deleters, DeleteStart(d) \/ Delete(d) \/ DeleteError(d)
        PROVE  TInv'
    BY <1>4, DeleteTypes, QuarantineTypes DEF Delete, Quarantine, Quarantiners
  <1>5. ASSUME NEW s \in Sweepers, Sweep(s) \/ SweepError(s)
        PROVE  TInv'
    BY <1>5, SweepTypes, QuarantineTypes DEF Sweep, Quarantine, Quarantiners
  <1>6. CASE UNCHANGED vars
    BY <1>6 DEF vars, TInv, StoreTypeOK, LocalInv, LocalTypeOK, Located
  <1> QED
    BY <1>1, <1>2, <1>3, <1>4, <1>5, <1>6, CrashTypes, WindowTypes DEF Next

\* Every variable keeps its type.
THEOREM TypeCorrect == Spec => []TypeOK
  <1>1. TInv => TypeOK
    BY DEF TInv, LocalInv, TypeOK
  <1> QED
    BY <1>1, InitTypes, NextTypes, PTL DEF Spec

-----------------------------------------------------------------------------
(* The ledger.  A row is deleting only with an entry on the ledger that is  *)
(* not closed.  The reason is that a generation is drawn once, by the one   *)
(* creation that may insert its row, and has an entry from the moment its   *)
(* deletion starts; each place in the code knows as much of the generation  *)
(* it works on, and goes on knowing it whatever the others do.              *)

Born(g) == row[g] # "absent" \/ ledger[g] # "none"

Pending(p) == p \in Creators /\ pc[p] \in {"createDoc", "insert"}

Knows(p) ==
  /\ Pending(p) => gen[p] \in Gens /\ gen[p] < nextGen /\ ~Born(gen[p])
  /\ p \in Deleters /\ pc[p] = "batch" => gen[p] \in Gens /\ Born(gen[p])
  /\ p \in Quarantiners /\ pc[p] \in SweepSteps \cup {"failing"}
       => gen[p] \in Gens /\ ledger[gen[p]] # "none"
  /\ \A g \in todo[p] : ledger[g] # "none"

EntriesFit ==
  \A g \in Gens :
    /\ row[g] = "active" => ledger[g] = "none"
    /\ row[g] = "deleting" => ledger[g] \notin {"none", "completed"}
    /\ g >= nextGen => ~Born(g)

DrawnOnce ==
  \A c, e \in Creators : Pending(c) /\ Pending(e) /\ c # e => gen[c] # gen[e]

LedgerInv == EntriesFit /\ DrawnOnce /\ \A p \in Procs : Knows(p)

\* The step leaves whatever a process may know as it is.
Stays ==
  /\ nextGen' = nextGen
  /\ EntriesFit'
  /\ \A g \in Gens : /\ Born(g)' <=> Born(g)
                     /\ ledger[g] # "none" => ledger'[g] # "none"

\* The step is p's: the others stand where they stood.
Stand(p) ==
  \A r \in Procs \ {p} : pc'[r] = pc[r] /\ gen'[r] = gen[r] /\ todo'[r] = todo[r]

LEMMA UnchangedStays ==
  ASSUME LedgerInv, UNCHANGED <<row, ledger, nextGen>>
  PROVE  Stays
  BY DEF LedgerInv, Stays, EntriesFit, Born

\* An update of the entry of a generation that has one.
LEMMA UpdateStays ==
  ASSUME TInv, LedgerInv, NEW q \in Quarantiners, NEW l \in Statuses,
         pc[q] \in SweepSteps \cup {"failing"},
         ledger' = [ledger EXCEPT ![gen[q]] = l],
         l # "none",
         row[gen[q]] = "deleting" => l # "completed",
         UNCHANGED <<row, nextGen>>
  PROVE  Stays
  <1>1. gen[q] \in Gens /\ ledger[gen[q]] # "none"
    BY DEF LedgerInv, Knows, Procs
  <1> QED
    BY <1>1 DEF LedgerInv, Stays, EntriesFit, Born, TInv, StoreTypeOK

LEMMA KeepsLedger ==
  ASSUME TInv, LedgerInv, Stays, NEW p \in Procs, Stand(p), Knows(p)',
         Pending(p)' => Pending(p) /\ gen'[p] = gen[p]
  PROVE  LedgerInv'
  <1>1. DrawnOnce'
    BY DEF LedgerInv, DrawnOnce, Pending, Stand, Procs
  <1>2. ASSUME NEW r \in Procs \ {p} PROVE Knows(r)'
    <2>1. todo[r] \subseteq Gens
      BY DEF TInv, LocalInv, LocalTypeOK
    <2>2. Knows(r)
      BY DEF LedgerInv
    <2>3. pc'[r] = pc[r] /\ gen'[r] = gen[r] /\ todo'[r] = todo[r]
      BY DEF Stand
    <2> QED
      BY <2>1, <2>2, <2>3 DEF Knows, Pending, Stays
  <1> QED
    BY <1>1, <1>2 DEF LedgerInv, Stays

LEMMA QuitKeeps ==
  ASSUME TInv, LedgerInv, Stays, NEW p \in Procs, Quit(p)
  PROVE  LedgerInv'
  <1>1. Stand(p) /\ pc'[p] = "idle" /\ todo'[p] = {}
    BY DEF Quit, Goto, Bind, Stand, TInv, LocalInv, LocalTypeOK
  <1>2. Knows(p)' /\ ~Pending(p)'
    BY <1>1 DEF Knows, Pending, SweepSteps, QuarantineSteps
  <1> QED
    BY <1>1, <1>2, KeepsLedger

LEMMA StepKeeps ==
  ASSUME TInv, LedgerInv, Stays, NEW p \in Procs, NEW l, Step(p, l),
         l \notin {"batch", "createDoc"},
         l = "insert" => pc[p] = "createDoc",
         p \in Quarantiners /\ l \in SweepSteps \cup {"failing"}
           => gen[p] \in Gens /\ ledger'[gen[p]] # "none"
  PROVE  LedgerInv'
  <1>1. Stand(p) /\ pc'[p] = l /\ gen'[p] = gen[p] /\ todo'[p] = todo[p]
    BY DEF Step, Goto, Stand, TInv, LocalInv, LocalTypeOK
  <1>2. Knows(p) /\ todo[p] \subseteq Gens
    BY DEF LedgerInv, TInv, LocalInv, LocalTypeOK
  <1>3. Pending(p)' => Pending(p)
    BY <1>1 DEF Pending
  <1>4. Knows(p)'
    BY <1>1, <1>2, <1>3 DEF Knows, Stays
  <1> QED
    BY <1>1, <1>3, <1>4, KeepsLedger

LEMMA NextRowKeeps ==
  ASSUME TInv, LedgerInv, Stays, NEW s \in Sweepers, NextRow(s)
  PROVE  LedgerInv'
  <1> DEFINE S == todo[s] \ {gen[s]}
  <1>0. s \in Procs
    BY DEF Procs, Quarantiners
  <1>1. CASE S = {}
    BY <1>0, <1>1, QuitKeeps DEF NextRow, TakeRow
  <1>2. CASE S # {}
    <2>1. PICK g \in S : Bind(s, g)
      BY <1>2 DEF NextRow, TakeRow
    <2>2. g \in Gens /\ ledger'[g] # "none" /\ \A h \in S : ledger'[h] # "none"
      BY <1>0 DEF Stays, LedgerInv, Knows, TInv, LocalInv, LocalTypeOK
    <2>3. Stand(s) /\ pc'[s] = "row" /\ gen'[s] = g /\ todo'[s] = S
      BY <1>0, <1>2, <2>1 DEF NextRow, TakeRow, Goto, Bind, Stand, TInv,
         LocalInv, LocalTypeOK
    <2>4. Knows(s)' /\ ~Pending(s)'
      BY <2>2, <2>3 DEF Knows, Pending
    <2> QED
      BY <1>0, <2>3, <2>4, KeepsLedger
  <1> QED
    BY <1>1, <1>2

\* Writers neither read nor write the ledger.
LEMMA WriterLedger ==
  ASSUME TInv, LedgerInv, NEW w \in Writers,
         UNCHANGED <<row, ledger, nextGen>>,
         NEW l, Goto(w, l), NEW g, Bind(w, g) \/ UNCHANGED gen,
         UNCHANGED todo \/ todo' = [todo EXCEPT ![w] = {}]
  PROVE  LedgerInv'
  <1>1. w \in Procs /\ w \notin Creators \cup Quarantiners
    BY ProcsAssumption DEF Procs
  <1>2. Stand(w) /\ ~Pending(w)'
    BY <1>1 DEF Stand, Goto, Bind, Pending, TInv, LocalInv, LocalTypeOK
  <1>3. Knows(w)'
    BY <1>1 DEF Knows, Pending, LedgerInv, TInv, LocalInv, LocalTypeOK,
       Quarantiners
  <1> QED
    BY <1>1, <1>2, <1>3, UnchangedStays, KeepsLedger

\* A creation.
LEMMA CreateLedger ==
  ASSUME TInv, LedgerInv, NEW c \in Creators,
         \/ CreateStart(c) \/ CreateDoc(c) \/ CreateExists(c)
         \/ CreateInsert(c) \/ CreateRefused(c) \/ RollbackHead(c)
         \/ RollbackObjects(c) \/ RollbackDoc(c) \/ RollbackError(c)
  PROVE  LedgerInv'
  <1> c \in Procs
    BY DEF Procs, Writers, Quarantiners
  <1> c \notin Quarantiners
    BY ProcsAssumption
  <1>1. CASE CreateStart(c)
    <2>1. EntriesFit' /\ DrawnOnce'
      BY <1>1, ProcsAssumption DEF CreateStart, Bind, Goto, d1Vars, LedgerInv,
         EntriesFit, DrawnOnce, Knows, Pending, Born, TInv, StoreTypeOK,
         LocalInv, LocalTypeOK, Procs, Gens
    <2>2. \A p \in Procs : Knows(p)'
      BY <1>1, ProcsAssumption DEF CreateStart, Bind, Goto, d1Vars, LedgerInv,
         EntriesFit, Knows, Pending, Born, TInv, StoreTypeOK, LocalInv,
         LocalTypeOK, Gens, Procs, Writers, Quarantiners
    <2> QED
      BY <2>1, <2>2 DEF LedgerInv
  <1>2. CASE CreateDoc(c)
    BY <1>2, StepKeeps, UnchangedStays DEF CreateDoc, r2Vars, d1Vars,
       SweepSteps, QuarantineSteps
  <1>3. CASE CreateExists(c)
    BY <1>3, QuitKeeps, UnchangedStays DEF CreateExists, r2Vars, d1Vars
  <1>4. CASE CreateInsert(c)
    <2>1. EntriesFit' /\ DrawnOnce'
      BY <1>4, ProcsAssumption DEF CreateInsert, Quit, Goto, Bind, LedgerInv,
         EntriesFit, DrawnOnce, Knows, Pending, Born, TInv, StoreTypeOK,
         LocalInv, LocalTypeOK, Procs, Gens
    <2>2. \A p \in Procs : Knows(p)'
      BY <1>4, ProcsAssumption DEF CreateInsert, Quit, Goto, Bind, LedgerInv,
         DrawnOnce, Knows, Pending, Born, TInv, StoreTypeOK, LocalInv,
         LocalTypeOK, Procs, Writers, Quarantiners
    <2> QED
      BY <2>1, <2>2 DEF LedgerInv
  <1>5. CASE CreateRefused(c)
    BY <1>5, StepKeeps, UnchangedStays DEF CreateRefused, r2Vars, d1Vars,
       SweepSteps, QuarantineSteps
  <1>6. CASE RollbackHead(c)
    BY <1>6, QuitKeeps, StepKeeps, UnchangedStays DEF RollbackHead, r2Vars,
       d1Vars, SweepSteps, QuarantineSteps
  <1>7. CASE RollbackObjects(c)
    BY <1>7, StepKeeps, UnchangedStays DEF RollbackObjects, r2Vars, d1Vars,
       SweepSteps, QuarantineSteps
  <1>8. CASE RollbackDoc(c)
    BY <1>8, QuitKeeps, UnchangedStays DEF RollbackDoc, r2Vars, d1Vars
  <1>9. CASE RollbackError(c)
    BY <1>9, QuitKeeps, UnchangedStays DEF RollbackError, r2Vars, d1Vars
  <1> QED
    BY <1>1, <1>2, <1>3, <1>4, <1>5, <1>6, <1>7, <1>8, <1>9

\* quarantineRepository.
LEMMA QuarantineLedger ==
  ASSUME TInv, LedgerInv, NEW q \in Quarantiners,
         \/ ReadRefs(q) \/ FindMarker(q) \/ PutNull(q)
         \/ PutMarker(q) \/ PutTombstone(q) \/ DeleteDoc(q)
  PROVE  LedgerInv'
  <1> q \in Procs
    BY DEF Procs, Writers, Quarantiners
  <1> q \in Quarantiners
    BY DEF Quarantiners
  <1>1. CASE ReadRefs(q)
    <2>1. Stays /\ Stand(q)
      BY <1>1, UnchangedStays DEF ReadRefs, Goto, Bind, Stand, r2Vars, d1Vars,
         TInv, LocalInv, LocalTypeOK
    <2>2. Knows(q)' /\ ~Pending(q)'
      BY <1>1, ProcsAssumption DEF ReadRefs, Goto, Bind, Knows, Pending, Born,
         LedgerInv, r2Vars, d1Vars, TInv, LocalInv, LocalTypeOK, Quarantiners,
         SweepSteps, QuarantineSteps
    <2> QED
      BY <2>1, <2>2, KeepsLedger
  <1>2. CASE FindMarker(q)
    BY <1>2, StepKeeps, UnchangedStays DEF FindMarker, LedgerInv, Knows, TInv,
       LocalInv, LocalTypeOK, r2Vars, d1Vars, SweepSteps, QuarantineSteps
  <1>3. CASE PutNull(q)
    BY <1>3, StepKeeps, UnchangedStays DEF PutNull, LedgerInv, Knows, TInv,
       LocalInv, LocalTypeOK, r2Vars, d1Vars, SweepSteps, QuarantineSteps
  <1>4. CASE PutMarker(q)
    BY <1>4, StepKeeps, UnchangedStays DEF PutMarker, LedgerInv, Knows, r2Vars,
       d1Vars, SweepSteps, QuarantineSteps
  <1>5. CASE PutTombstone(q)
    BY <1>5, StepKeeps, UnchangedStays DEF PutTombstone, LedgerInv, Knows,
       r2Vars, d1Vars, SweepSteps, QuarantineSteps
  <1>6. CASE DeleteDoc(q)
    BY <1>6, StepKeeps, UnchangedStays DEF DeleteDoc, LedgerInv, Knows, TInv,
       LocalInv, LocalTypeOK, r2Vars, d1Vars, SweepSteps, QuarantineSteps
  <1> QED
    BY <1>1, <1>2, <1>3, <1>4, <1>5, <1>6

\* A deletion, but for the quarantine.
LEMMA DeleteLedger ==
  ASSUME TInv, LedgerInv, NEW d \in Deleters,
         \/ DeleteStart(d) \/ DeleteBatch(d) \/ DeleteDone(d)
         \/ DeleteError(d) \/ DeleteFailed(d)
  PROVE  LedgerInv'
  <1> d \in Procs
    BY DEF Procs, Writers, Quarantiners
  <1> d \in Quarantiners
    BY DEF Quarantiners
  <1>1. CASE DeleteStart(d)
    <2>1. Stays /\ Stand(d)
      BY <1>1, UnchangedStays DEF DeleteStart, Goto, Bind, Stand, r2Vars,
         d1Vars, TInv, LocalInv, LocalTypeOK
    <2>2. Knows(d)' /\ ~Pending(d)'
      BY <1>1, ProcsAssumption DEF DeleteStart, Goto, Bind, Knows, Pending,
         Born, LedgerInv, r2Vars, d1Vars, TInv, LocalInv, LocalTypeOK,
         Quarantiners, SweepSteps, QuarantineSteps, Active
    <2> QED
      BY <2>1, <2>2, KeepsLedger
  <1>2. CASE DeleteBatch(d)
    <2>1. Stays
      BY <1>2 DEF DeleteBatch, Stays, EntriesFit, Born, LedgerInv, Knows, TInv,
         StoreTypeOK, RowStates, Statuses
    <2>2. gen[d] \in Gens /\ ledger'[gen[d]] # "none"
      BY <1>2 DEF DeleteBatch, LedgerInv, Knows, TInv, StoreTypeOK
    <2> QED
      BY <1>2, <2>1, <2>2, StepKeeps DEF DeleteBatch
  <1>3. CASE DeleteDone(d)
    BY <1>3, QuitKeeps, UpdateStays DEF DeleteDone, SweepSteps, QuarantineSteps,
       Statuses
  <1>4. CASE DeleteError(d)
    BY <1>4, StepKeeps, UnchangedStays DEF DeleteError, LedgerInv, Knows,
       r2Vars, d1Vars, SweepSteps, QuarantineSteps
  <1>5. CASE DeleteFailed(d)
    BY <1>5, QuitKeeps, UpdateStays DEF DeleteFailed, Statuses
  <1> QED
    BY <1>1, <1>2, <1>3, <1>4, <1>5

\* A sweep, but for the quarantine.
LEMMA SweepLedger ==
  ASSUME TInv, LedgerInv, NEW s \in Sweepers,
         \/ SweepStart(s) \/ SweepGone(s) \/ SweepRow(s)
         \/ SweepQuarantined(s) \/ SweepCleaning(s) \/ SweepMarker(s)
         \/ SweepObjects(s) \/ SweepCommit(s) \/ SweepVerify(s)
         \/ SweepUnmark(s) \/ SweepError(s) \/ SweepFailed(s)
  PROVE  LedgerInv'
  <1> s \in Procs
    BY DEF Procs, Writers, Quarantiners
  <1> s \in Quarantiners
    BY DEF Quarantiners
  <1>1. CASE SweepStart(s)
    <2>1. PICK g \in Eligible : Bind(s, g)
      BY <1>1 DEF SweepStart
    <2>2. Stays /\ Stand(s)
      BY <1>1, <2>1, UnchangedStays DEF SweepStart, Goto, Bind, Stand, d1Vars,
         TInv, LocalInv, LocalTypeOK
    <2>3. Knows(s)' /\ ~Pending(s)'
      BY <1>1, <2>1, ProcsAssumption DEF SweepStart, Goto, Bind, Knows, Pending,
         Eligible, d1Vars, TInv, LocalInv, LocalTypeOK, Quarantiners
    <2> QED
      BY <2>2, <2>3, KeepsLedger
  <1>2. CASE SweepGone(s)
    <2>1. Stays
      BY <1>2, UpdateStays DEF SweepGone, SweepSteps, Statuses
    <2> QED
      BY <1>2, <2>1, NextRowKeeps DEF SweepGone, SweepSteps
  <1>3. CASE SweepRow(s)
    BY <1>3, StepKeeps, UnchangedStays DEF SweepRow, LedgerInv, Knows, r2Vars,
       d1Vars, SweepSteps, QuarantineSteps
  <1>4. CASE SweepQuarantined(s)
    <2>1. Stays
      BY <1>4, UpdateStays DEF SweepQuarantined, SweepSteps, QuarantineSteps,
         Statuses
    <2>2. gen[s] \in Gens /\ ledger'[gen[s]] # "none"
      BY <1>4, <2>1 DEF SweepQuarantined, Stays, LedgerInv, Knows, SweepSteps,
         QuarantineSteps
    <2> QED
      BY <1>4, <2>1, <2>2, NextRowKeeps, StepKeeps DEF SweepQuarantined,
         SweepSteps, QuarantineSteps
  <1>5. CASE SweepCleaning(s)
    <2>1. Stays
      BY <1>5, UpdateStays DEF SweepCleaning, SweepSteps, Statuses
    <2>2. gen[s] \in Gens /\ ledger'[gen[s]] # "none"
      BY <1>5, <2>1 DEF SweepCleaning, Stays, LedgerInv, Knows, SweepSteps
    <2> QED
      BY <1>5, <2>1, <2>2, StepKeeps DEF SweepCleaning
  <1>6. CASE SweepMarker(s)
    <2>1. Stays /\ Stand(s)
      BY <1>6, UnchangedStays DEF SweepMarker, Goto, Bind, Stand, r2Vars,
         d1Vars, TInv, LocalInv, LocalTypeOK
    <2>2. Knows(s)' /\ ~Pending(s)'
      BY <1>6, ProcsAssumption DEF SweepMarker, Goto, Bind, Knows, Pending,
         Born, LedgerInv, r2Vars, d1Vars, TInv, LocalInv, LocalTypeOK,
         Quarantiners, SweepSteps, QuarantineSteps
    <2> QED
      BY <2>1, <2>2, KeepsLedger
  <1>7. CASE SweepObjects(s)
    BY <1>7, StepKeeps, UnchangedStays DEF SweepObjects, LedgerInv, Knows,
       r2Vars, d1Vars, SweepSteps, QuarantineSteps
  <1>8. CASE SweepCommit(s)
    <2>1. Stays
      BY <1>8 DEF SweepCommit, Stays, EntriesFit, Born, LedgerInv, Knows, TInv,
         StoreTypeOK, RowStates, SweepSteps
    <2>2. gen[s] \in Gens /\ ledger'[gen[s]] # "none"
      BY <1>8, <2>1 DEF SweepCommit, Stays, LedgerInv, Knows, SweepSteps
    <2> QED
      BY <1>8, <2>1, <2>2, StepKeeps DEF SweepCommit
  <1>9. CASE SweepVerify(s)
    BY <1>9, StepKeeps, UnchangedStays DEF SweepVerify, LedgerInv, Knows,
       r2Vars, d1Vars, SweepSteps, QuarantineSteps
  <1>10. CASE SweepUnmark(s)
    BY <1>10, NextRowKeeps, UnchangedStays DEF SweepUnmark, r2Vars, d1Vars
  <1>11. CASE SweepError(s)
    BY <1>11, StepKeeps, UnchangedStays DEF SweepError, LedgerInv, Knows,
       r2Vars, d1Vars, SweepSteps, QuarantineSteps
  <1>12. CASE SweepFailed(s)
    <2>1. Stays
      BY <1>12, UpdateStays DEF SweepFailed, Statuses
    <2> QED
      BY <1>12, <2>1, NextRowKeeps DEF SweepFailed
  <1> QED
    BY <1>1, <1>2, <1>3, <1>4, <1>5, <1>6, <1>7, <1>8, <1>9, <1>10, <1>11, <1>12

LEMMA PushTagLedger ==
  ASSUME TInv, LedgerInv, NEW w \in Writers,
         PushStart(w) \/ Push(w) \/ TagStart(w) \/ Tag(w)
  PROVE  LedgerInv'
  <1>1. UNCHANGED <<row, ledger, nextGen>>
    BY DEF Push, Tag, PushStart, PushSnapshot, PushNotFound, PushAuthorize,
           PushDenied, PushStore, PushValidate, Write, LoseRace, TagStart,
           TagSnapshot, TagNotFound, d1Vars
  <1>2. PICK l : Goto(w, l)
    BY DEF Push, Tag, PushStart, PushSnapshot, PushNotFound, PushAuthorize,
           PushDenied, PushStore, PushValidate, Write, LoseRace, TagStart,
           TagSnapshot, TagNotFound, Step, Quit
  <1>3. PICK g : Bind(w, g) \/ UNCHANGED gen
    BY DEF Push, Tag, PushStart, PushSnapshot, PushNotFound, PushAuthorize,
           PushDenied, PushStore, PushValidate, Write, LoseRace, TagStart,
           TagSnapshot, TagNotFound, Step, Quit
  <1>4. UNCHANGED todo \/ todo' = [todo EXCEPT ![w] = {}]
    BY DEF Push, Tag, PushStart, PushSnapshot, PushNotFound, PushAuthorize,
           PushDenied, PushStore, PushValidate, Write, LoseRace, TagStart,
           TagSnapshot, TagNotFound, Step, Quit
  <1> QED
    BY <1>1, <1>2, <1>3, <1>4, WriterLedger

LEMMA InitLedger == Init => LedgerInv
  <1> SUFFICES ASSUME Init PROVE LedgerInv
    OBVIOUS
  <1>1. EntriesFit
    BY DEF Init, EntriesFit, Born
  <1>2. \A p \in Procs : pc[p] = "idle" /\ todo[p] = {}
    BY DEF Init
  <1>3. DrawnOnce
    BY <1>2 DEF DrawnOnce, Pending, Procs
  <1>4. ASSUME NEW p \in Procs PROVE Knows(p)
    BY <1>2 DEF Knows, Pending, SweepSteps, QuarantineSteps
  <1> QED
    BY <1>1, <1>3, <1>4 DEF LedgerInv

LEMMA NextLedger == TInv /\ LedgerInv /\ [Next]_vars => LedgerInv'
  <1> SUFFICES ASSUME TInv, LedgerInv, [Next]_vars PROVE LedgerInv'
    OBVIOUS
  <1>1. ASSUME NEW c \in Creators, CreateStart(c) \/ Create(c) \/ RollbackError(c)
        PROVE  LedgerInv'
    BY <1>1, CreateLedger DEF Create
  <1>2. ASSUME NEW p \in Pushers, PushStart(p) \/ Push(p)
        PROVE  LedgerInv'
    BY <1>2, PushTagLedger DEF Writers
  <1>3. ASSUME NEW t \in Taggers, TagStart(t) \/ Tag(t)
        PROVE  LedgerInv'
    BY <1>3, PushTagLedger DEF Writers
  <1>4. ASSUME NEW d \in Deleters, DeleteStart(d) \/ Delete(d) \/ DeleteError(d)
        PROVE  LedgerInv'
    BY <1>4, DeleteLedger, QuarantineLedger DEF Delete, Quarantine, Quarantiners
  <1>5. ASSUME NEW s \in Sweepers, Sweep(s) \/ SweepError(s)
        PROVE  LedgerInv'
    BY <1>5, SweepLedger, QuarantineLedger DEF Sweep, Quarantine, Quarantiners
  <1>6. ASSUME NEW p \in Procs, Crash(p)
        PROVE  LedgerInv'
    BY <1>6, QuitKeeps, UnchangedStays DEF Crash, d1Vars
  <1>7. ASSUME NEW g \in Gens, WindowElapses(g)
        PROVE  LedgerInv'
    BY <1>7 DEF WindowElapses, localVars, d1Vars, LedgerInv, EntriesFit,
       DrawnOnce,
                Knows, Pending, Born
  <1>8. CASE UNCHANGED vars
    BY <1>8 DEF vars, LedgerInv, EntriesFit, DrawnOnce, Knows, Pending, Born
  <1> QED
    BY <1>1, <1>2, <1>3, <1>4, <1>5, <1>6, <1>7, <1>8 DEF Next

\* However many deletions and sweeps update one entry of the ledger, each
\* without looking at it, and wherever they fail: a row that is deleting is
\* still on the ledger and will be found by the next sweep.
THEOREM DeletingStaysQueued == Spec => []DeletingIsQueued
  <1>1. LedgerInv => DeletingIsQueued
    BY DEF LedgerInv, EntriesFit, DeletingIsQueued
  <1> QED
    BY <1>1, InitTypes, NextTypes, InitLedger, NextLedger, PTL DEF Spec

-----------------------------------------------------------------------------
(* What an active repository has, in a behaviour in which no two creations of *)
(* the name overlap and no two sweeps do.  Creators and sweepers, like the     *)
(* pushes, tag requests and deletions, are any number, and everything else may *)
(* overlap; nothing in the code keeps two creations or two sweeps apart.       *)

NoOverlap ==
  /\ \A c, e \in Creators : pc[c] # "idle" /\ pc[e] # "idle" => c = e
  /\ \A s, t \in Sweepers : pc[s] # "idle" /\ pc[t] # "idle" => s = t

Creating == {"createDoc", "insert", "rollback", "rollbackObjects", "rollbackDoc"}
Clearing == {"cleaning", "marker", "objects", "commit"}

\* One generation at most has the name, and what is stored is of that one.
Stored ==
  /\ \A g, h \in Reserved : g = h
  /\ \A g \in elapsed : ledger[g] # "none"
  /\ \A c \in acked : c.gen \in Reserved \cup elapsed
  /\ \A c \in objects : c.gen \in Reserved
  /\ doc # None => /\ \A c \in doc.refs : c.gen \in Reserved
                   /\ doc.deletion # 0 => row[doc.deletion] = "deleting"

\* A creation has the name to itself.
AtCreation(c) ==
  /\ pc[c] \in Creating => Reserved = {}
  /\ pc[c] = "insert" => doc = NewDoc

\* A writer that was authorized is of a repository whose window is open; a tombstone that a
\* push has read is one of a repository that is gone.
AtWrite(w) ==
  /\ pc[w] \in WithGeneration => gen[w] \in Reserved \ elapsed
  /\ w \in Pushers /\ pc[w] = "write" => Token(w) \in objects
  /\ w \in Pushers /\ pc[w] \in WithSnapshot /\ snap[w].deletion # 0 =>
       /\ row[snap[w].deletion] # "active" /\ ledger[snap[w].deletion] # "none"
       /\ pc[w] \in WithGeneration => row[snap[w].deletion] = "absent"

AtDeletion(d) ==
  /\ pc[d] = "batch" => gen[d] \in Reserved \ elapsed
  /\ pc[d] \in QuarantineSteps => row[gen[d]] = "deleting" /\ gen[d] \notin elapsed

\* A sweep clears what has been deleting since before its window elapsed, and only behind the
\* quarantine.
AtSweep(s) ==
  /\ due[s] \subseteq elapsed
  /\ pc[s] \in {"idle", "row"} => back[s] = "ledger"
  /\ pc[s] \in QuarantineSteps \cup Clearing => row[gen[s]] = "deleting"
  /\ pc[s] \in Clearing \/ (pc[s] \in QuarantineSteps /\ back[s] = "objects") => gen[s] \in elapsed
  /\ pc[s] \in {"objects", "commit"} \/ (pc[s] \in {"findMarker", "putNull"} /\ back[s] = "objects") => doc = None
  /\ pc[s] = "commit" => objects = {}

NameInv ==
  /\ Stored
  /\ \A c \in Creators : AtCreation(c)
  /\ \A w \in Writers : AtWrite(w)
  /\ \A d \in Deleters : AtDeletion(d)
  /\ \A s \in Sweepers : AtSweep(s)

Known == TInv /\ LedgerInv /\ NameInv

\* The step is p's.
Apart(p) ==
  \A q \in Procs \ {p} : /\ pc'[q] = pc[q] /\ gen'[q] = gen[q] /\ snap'[q] = snap[q]
                         /\ back'[q] = back[q] /\ due'[q] = due[q]

\* The step leaves the stores as they are, but for the status of an entry of the ledger.
Calm ==
  /\ UNCHANGED <<doc, objects, row, elapsed, acked>>
  /\ \A g \in Gens : ledger[g] # "none" => ledger'[g] # "none"

LEMMA Apartness ==
  ASSUME TInv, NEW p \in Procs, NEW l,
         \/ Step(p, l) \/ Quit(p)
         \/ \E g : Goto(p, l) /\ Bind(p, g) /\ UNCHANGED <<snap, back, todo, due>>
  PROVE  Apart(p)
  BY DEF Step, Quit, Goto, Bind, Apart, TInv, LocalInv, LocalTypeOK

LEMMA NextRowApart ==
  ASSUME TInv, NEW s \in Procs, NextRow(s)
  PROVE  /\ Apart(s) /\ pc'[s] \in {"idle", "row"} /\ back'[s] = "ledger"
         /\ due'[s] \in {due[s], {}}
  BY DEF NextRow, TakeRow, Quit, Goto, Bind, Apart, TInv, LocalInv, LocalTypeOK

LEMMA Kinds ==
  /\ Creators \subseteq Procs /\ Writers \subseteq Procs /\ Deleters \subseteq Procs /\ Sweepers \subseteq Procs
  /\ Pushers \subseteq Writers /\ Taggers \subseteq Writers /\ Pushers \cap Taggers = {}
  /\ Creators \cap Writers = {} /\ Creators \cap Deleters = {} /\ Creators \cap Sweepers = {}
  /\ Writers \cap Deleters = {} /\ Writers \cap Sweepers = {} /\ Deleters \cap Sweepers = {}
  BY ProcsAssumption DEF Procs, Writers, Quarantiners

\* What a process knows lasts while the stores are calm and it stands still.
LEMMA CalmKeeps ==
  ASSUME Known, NEW p \in Procs, Apart(p), Calm,
         p \in Creators => AtCreation(p)', p \in Writers => AtWrite(p)',
         p \in Deleters => AtDeletion(p)', p \in Sweepers => AtSweep(p)'
  PROVE  NameInv'
  <1>1. Stored' /\ Reserved' = Reserved
    BY DEF Known, NameInv, Calm, Stored, Reserved, Active, TInv, StoreTypeOK
  <1>2. \A c \in Creators : AtCreation(c)'
    BY <1>1, Kinds DEF Known, NameInv, Calm, Apart, AtCreation
  <1>3. \A w \in Writers : AtWrite(w)'
    <2> TAKE w \in Writers
    <2>1. CASE w = p
      BY <2>1
    <2>2. CASE w # p
      <3>1. pc[w] \in WithSnapshot => snap[w].deletion \in 0 .. MaxGen
        BY Kinds DEF Known, TInv, LocalInv, Located, Docs
      <3>2. pc'[w] = pc[w] /\ gen'[w] = gen[w] /\ snap'[w] = snap[w] /\ Token(w)' = Token(w)
        BY <2>2, Kinds DEF Apart, Token
      <3> QED
        BY <1>1, <3>1, <3>2 DEF Known, NameInv, Calm, AtWrite, Gens
    <2> QED
      BY <2>1, <2>2
  <1>4. \A d \in Deleters : AtDeletion(d)'
    BY <1>1, Kinds DEF Known, NameInv, Calm, Apart, AtDeletion
  <1>5. \A s \in Sweepers : AtSweep(s)'
    BY <1>1, Kinds DEF Known, NameInv, Calm, Apart, AtSweep
  <1> QED
    BY <1>1, <1>2, <1>3, <1>4, <1>5 DEF NameInv

\* A creation.  Nobody else is past a look at the row, since there is none.
LEMMA CreateName ==
  ASSUME NoOverlap, Known, NEW c \in Creators,
         \/ CreateStart(c) \/ CreateDoc(c) \/ CreateExists(c)
         \/ CreateInsert(c) \/ CreateRefused(c) \/ RollbackHead(c)
         \/ RollbackObjects(c) \/ RollbackDoc(c) \/ RollbackError(c)
  PROVE  NameInv'
  <1>1. c \in Procs /\ c \notin Writers \cup Deleters \cup Sweepers
    BY Kinds
  <1>2. TInv /\ LedgerInv /\ NameInv /\ Stored /\ AtCreation(c)
    BY DEF Known, NameInv
  <1>3. CASE CreateStart(c)
    <2>1. Apart(c)
      BY <1>1, <1>2, <1>3, Apartness DEF CreateStart
    <2>2. Calm /\ Reserved = {} /\ Reserved' = Reserved
      BY <1>3 DEF CreateStart, Calm, r2Vars, d1Vars, Reserved
    <2>3. AtCreation(c)'
      BY <1>1, <1>2, <1>3, <2>2 DEF CreateStart, Goto, AtCreation, TInv, LocalInv, LocalTypeOK
    <2> QED
      BY <1>1, <2>1, <2>2, <2>3, CalmKeeps
  <1>4. CASE CreateExists(c) \/ CreateRefused(c) \/ RollbackHead(c) \/ RollbackError(c)
    <2>1. Apart(c) /\ pc'[c] \in {"idle", "rollback", "rollbackObjects"} /\ pc[c] \in Creating
      BY <1>1, <1>2, <1>4, Apartness DEF CreateExists, CreateRefused, RollbackHead, RollbackError, Quit, Step, Goto,
         TInv, LocalInv, LocalTypeOK, Creating
    <2>2. Calm /\ Reserved' = Reserved
      BY <1>4 DEF CreateExists, CreateRefused, RollbackHead, RollbackError, Calm, r2Vars, d1Vars, Reserved
    <2>3. AtCreation(c)'
      BY <1>2, <2>1, <2>2 DEF AtCreation
    <2> QED
      BY <1>1, <2>1, <2>2, <2>3, CalmKeeps
  <1>5. CASE CreateDoc(c) \/ CreateInsert(c) \/ RollbackObjects(c) \/ RollbackDoc(c)
    <2>1. Apart(c) /\ pc[c] \in Creating
      BY <1>1, <1>2, <1>5, Apartness DEF CreateDoc, CreateInsert, RollbackObjects, RollbackDoc, Creating
    <2>0. \A e \in Creators : e # c => AtCreation(e)'
      <3> SUFFICES ASSUME NEW e \in Creators, e # c PROVE pc'[e] = "idle"
        BY DEF AtCreation, Creating
      <3> QED
        BY <2>1, Kinds DEF NoOverlap, Apart, Creating
    <2>2. Reserved = {} /\ \A g \in Gens : row[g] = "absent"
      BY <1>2, <2>1 DEF AtCreation, Reserved
    <2>3. objects = {} /\ \A q \in acked : q.gen \in elapsed
      BY <1>2, <2>2 DEF Stored
    <2>4. /\ \A w \in Writers : pc[w] \notin WithGeneration
          /\ \A d \in Deleters : pc[d] \notin QuarantineSteps \cup {"batch"}
      <3>1. \A d \in Deleters : pc[d] \in QuarantineSteps => gen[d] \in Gens
        BY <1>2, Kinds DEF LedgerInv, Knows, SweepSteps, Quarantiners
      <3> QED
        BY <1>2, <2>2, <3>1 DEF NameInv, AtWrite, AtDeletion
    <2>5. \A s \in Sweepers : pc[s] \notin QuarantineSteps \cup Clearing
      <3> TAKE s \in Sweepers
      <3>1. pc[s] \in QuarantineSteps \cup Clearing => gen[s] \in Gens
        BY <1>2, Kinds DEF LedgerInv, Knows, SweepSteps, Clearing, QuarantineSteps, Quarantiners
      <3> QED
        BY <1>2, <2>2, <3>1 DEF NameInv, AtSweep
    <2>6. /\ \A q \in Procs \ {c} : pc'[q] = pc[q] /\ gen'[q] = gen[q] /\ snap'[q] = snap[q]
                                    /\ back'[q] = back[q] /\ due'[q] = due[q]
          /\ elapsed' = elapsed /\ ledger' = ledger /\ acked' = acked /\ objects' = {}
      BY <1>5, <2>1, <2>3 DEF Apart, CreateDoc, CreateInsert, RollbackObjects, RollbackDoc, d1Vars, r2Vars
    <2>7. /\ \A d \in Deleters : AtDeletion(d)'
          /\ \A s \in Sweepers : AtSweep(s)'
      BY <1>1, <1>2, <2>4, <2>5, <2>6, Kinds DEF NameInv, AtDeletion, AtSweep, Clearing, QuarantineSteps
    <2>8. ASSUME \A w \in Pushers : pc[w] \in WithSnapshot /\ snap[w].deletion # 0 => row'[snap[w].deletion] # "active"
          PROVE  \A w \in Writers : AtWrite(w)'
      BY <1>1, <1>2, <2>4, <2>6, <2>8, Kinds DEF NameInv, AtWrite, WithGeneration
    <2>9. ASSUME row' = row PROVE \A w \in Writers : AtWrite(w)'
      BY <1>2, <2>8, <2>9, Kinds DEF NameInv, AtWrite
    <2>10. CASE CreateDoc(c)
      <3>1. pc'[c] = "insert" /\ doc' = NewDoc /\ row' = row /\ Reserved' = {}
        BY <1>1, <1>2, <2>2, <2>10 DEF CreateDoc, Step, Goto, d1Vars, Reserved, TInv, LocalInv, LocalTypeOK
      <3>2. Stored' /\ AtCreation(c)'
        BY <1>2, <2>3, <2>6, <3>1 DEF Stored, AtCreation, NewDoc
      <3> QED
        BY <2>0, <2>7, <2>9, <3>1, <3>2 DEF NameInv
    <2>11. CASE RollbackObjects(c) \/ RollbackDoc(c)
      <3>1. /\ pc'[c] \in {"idle", "rollbackDoc", "rollbackObjects"} /\ doc' \in {doc, None} /\ row' = row
            /\ Reserved' = {}
        BY <1>1, <1>2, <2>2, <2>11 DEF RollbackObjects, RollbackDoc, Quit, Step, Goto, d1Vars, Reserved, TInv, LocalInv,
           LocalTypeOK
      <3>2. Stored' /\ AtCreation(c)'
        BY <1>2, <2>2, <2>3, <2>6, <3>1 DEF Stored, AtCreation
      <3> QED
        BY <2>0, <2>7, <2>9, <3>1, <3>2 DEF NameInv
    <2>12. CASE CreateInsert(c)
      <3>1. pc[c] = "insert" /\ pc'[c] = "idle" /\ doc' = NewDoc /\ row' = [row EXCEPT ![gen[c]] = "active"]
        BY <1>1, <1>2, <2>12 DEF CreateInsert, Quit, Goto, r2Vars, TInv, LocalInv, LocalTypeOK, AtCreation
      <3>2. gen[c] \in Gens /\ ledger[gen[c]] = "none"
        BY <1>1, <1>2, <3>1 DEF LedgerInv, Knows, Pending, Born
      <3>3. Reserved' = {gen[c]} /\ \A g \in Gens \ {gen[c]} : row'[g] = row[g]
        BY <1>2, <2>2, <3>1, <3>2 DEF Reserved, TInv, StoreTypeOK
      <3>4. Stored'
        BY <1>2, <2>3, <2>6, <3>1, <3>3 DEF Stored, NewDoc
      <3>5. ASSUME NEW w \in Pushers, pc[w] \in WithSnapshot, snap[w].deletion # 0
            PROVE  row'[snap[w].deletion] # "active"
        <4>1. snap[w].deletion \in Gens
          BY <1>2, <3>5, Kinds, BoundsAssumption DEF TInv, LocalInv, Located, Docs, Gens
        <4>2. row[snap[w].deletion] # "active" /\ ledger[snap[w].deletion] # "none"
          BY <1>2, <3>5, Kinds DEF NameInv, AtWrite
        <4> QED
          BY <3>2, <3>3, <4>1, <4>2
      <3>6. AtCreation(c)'
        BY <3>1 DEF AtCreation, Creating
      <3> QED
        BY <2>0, <2>7, <2>8, <3>4, <3>5, <3>6 DEF NameInv
    <2> QED
      BY <1>5, <2>10, <2>11, <2>12
  <1> QED
    BY <1>3, <1>4, <1>5

\* A push up to the put, and a tag request up to it.
LEMMA WriterName ==
  ASSUME Known, NEW w \in Writers,
         \/ w \in Pushers /\ \/ PushStart(w) \/ PushSnapshot(w) \/ PushNotFound(w) \/ PushAuthorize(w)
                             \/ PushDenied(w) \/ PushStore(w) \/ PushValidate(w)
         \/ w \in Taggers /\ (TagStart(w) \/ TagSnapshot(w) \/ TagNotFound(w))
         \/ LoseRace(w)
  PROVE  NameInv'
  <1>1. w \in Procs /\ w \notin Creators \cup Deleters \cup Sweepers
    BY Kinds
  <1>2. TInv /\ LedgerInv /\ NameInv /\ Stored /\ AtWrite(w)
    BY DEF Known, NameInv
  <1>3. ASSUME Calm, Apart(w), pc'[w] \notin WithGeneration, pc'[w] \notin WithSnapshot PROVE NameInv'
    <2>1. AtWrite(w)'
      BY <1>3 DEF AtWrite, WithGeneration
    <2> QED
      BY <1>1, <1>3, <2>1, CalmKeeps
  <1>4. Active \subseteq Reserved /\ \A g \in Active : g \notin elapsed
    BY <1>2 DEF Active, Reserved, LedgerInv, EntriesFit, Stored
  <1>5. CASE PushStart(w) \/ PushNotFound(w) \/ PushDenied(w) \/ TagNotFound(w) \/ LoseRace(w)
    <2>1. Calm /\ Apart(w) /\ pc'[w] \in {"body", "idle"}
      BY <1>1, <1>2, <1>5, Apartness DEF PushStart, PushNotFound, PushDenied, TagNotFound, LoseRace, Calm, r2Vars, d1Vars,
         Step, Quit, Goto, TInv, LocalInv, LocalTypeOK
    <2> QED
      BY <1>3, <2>1 DEF WithGeneration, WithSnapshot
  <1>6. CASE w \in Pushers /\ PushSnapshot(w)
    <2>1. /\ Calm /\ Apart(w) /\ pc'[w] = "authorize" /\ snap'[w] = doc /\ doc # None /\ ledger' = ledger
      BY <1>1, <1>2, <1>6 DEF PushSnapshot, Calm, r2Vars, d1Vars, Apart, Goto, Bind, TInv, LocalInv, LocalTypeOK
    <2>2. doc.deletion # 0 => /\ row[doc.deletion] = "deleting" /\ doc.deletion \in Gens
                              /\ ledger[doc.deletion] # "none"
      BY <1>2, <2>1, BoundsAssumption DEF Stored, TInv, StoreTypeOK, Docs, Gens, LedgerInv, EntriesFit
    <2>3. AtWrite(w)'
      BY <2>1, <2>2 DEF AtWrite, WithGeneration, Calm
    <2> QED
      BY <1>1, <2>1, <2>3, CalmKeeps
  <1>7. CASE w \in Pushers /\ PushAuthorize(w)
    <2>1. PICK g \in Active : Bind(w, g)
      BY <1>7 DEF PushAuthorize
    <2>2. /\ Calm /\ Apart(w) /\ pc[w] = "authorize" /\ pc'[w] = "store" /\ snap' = snap /\ gen'[w] = g
          /\ ledger' = ledger
      BY <1>1, <1>2, <1>7, <2>1 DEF PushAuthorize, Calm, r2Vars, d1Vars, Apart, Goto, Bind, TInv, LocalInv, LocalTypeOK
    <2>3. snap[w].deletion # 0 => /\ snap[w].deletion \in Gens /\ row[snap[w].deletion] # "active"
                                  /\ ledger[snap[w].deletion] # "none"
      BY <1>1, <1>2, <1>7, <2>2, BoundsAssumption DEF AtWrite, WithSnapshot, TInv, LocalInv, Located, Docs, Gens
    <2>4. snap[w].deletion # 0 => row[snap[w].deletion] = "absent"
      BY <1>2, <2>3 DEF Stored, Active, Reserved
    <2>5. AtWrite(w)' /\ Reserved' = Reserved
      BY <1>4, <2>2, <2>3, <2>4 DEF AtWrite, Calm, Reserved
    <2> QED
      BY <1>1, <2>2, <2>5, CalmKeeps
  <1>8. CASE w \in Pushers /\ PushStore(w)
    <2>1. /\ Apart(w) /\ pc[w] = "store" /\ pc'[w] = "validate" /\ snap' = snap /\ gen' = gen
          /\ objects' = objects \cup {Token(w)} /\ UNCHANGED <<doc, row, ledger, elapsed, acked>>
      BY <1>1, <1>2, <1>8, Apartness DEF PushStore, d1Vars, Step, Goto, TInv, LocalInv, LocalTypeOK
    <2>2. gen[w] \in Reserved /\ Reserved' = Reserved /\ Active' = Active
      BY <1>2, <2>1 DEF AtWrite, WithGeneration, Reserved, Active
    <2>3. Stored'
      BY <1>2, <2>1, <2>2 DEF Stored, Token
    <2>4. \A c \in Creators : AtCreation(c)'
      BY <1>1, <1>2, <2>1, <2>2, Kinds DEF NameInv, AtCreation, Apart
    <2>5. ASSUME NEW v \in Writers PROVE AtWrite(v)'
      <3>1. CASE v = w
        BY <1>2, <2>1, <2>2, <3>1 DEF AtWrite, WithGeneration, WithSnapshot
      <3>2. CASE v # w
        <4>1. pc'[v] = pc[v] /\ gen'[v] = gen[v] /\ snap'[v] = snap[v] /\ Token(v)' = Token(v)
          BY <2>1, <3>2, Kinds DEF Apart, Token
        <4> QED
          BY <1>2, <2>1, <2>2, <4>1 DEF NameInv, AtWrite
      <3> QED
        BY <3>1, <3>2
    <2>6. \A d \in Deleters : AtDeletion(d)'
      BY <1>1, <1>2, <2>1, <2>2, Kinds DEF NameInv, AtDeletion, Apart
    <2>7. ASSUME NEW s \in Sweepers PROVE AtSweep(s)'
      <3>1. pc[s] # "commit"
        <4> SUFFICES ASSUME pc[s] = "commit" PROVE FALSE
          OBVIOUS
        <4>1. gen[s] \in Gens /\ row[gen[s]] = "deleting" /\ gen[s] \in elapsed
          BY <1>2, Kinds DEF NameInv, AtSweep, Clearing, LedgerInv, Knows, SweepSteps, Quarantiners
        <4>2. gen[w] = gen[s]
          BY <1>2, <2>2, <4>1 DEF Stored, Reserved
        <4> QED
          BY <1>2, <2>1, <4>1, <4>2 DEF AtWrite, WithGeneration
      <3> QED
        BY <1>1, <1>2, <2>1, <3>1, Kinds DEF NameInv, AtSweep, Apart
    <2> QED
      BY <2>3, <2>4, <2>5, <2>6, <2>7 DEF NameInv
  <1>9. CASE w \in Pushers /\ PushValidate(w)
    <2>1. /\ Calm /\ Apart(w) /\ pc[w] = "validate" /\ ledger' = ledger
          /\ \/ pc'[w] = "idle"
             \/ pc'[w] = "write" /\ Token(w) \in objects /\ snap' = snap /\ gen' = gen
      BY <1>1, <1>2, <1>9, Apartness DEF PushValidate, Calm, r2Vars, d1Vars, Step, Quit, Goto, TInv, LocalInv, LocalTypeOK
    <2>2. AtWrite(w)'
      BY <1>2, <2>1 DEF AtWrite, WithGeneration, WithSnapshot, Calm, Reserved, Token
    <2> QED
      BY <1>1, <2>1, <2>2, CalmKeeps
  <1>10. CASE w \in Taggers /\ TagStart(w)
    <2>1. PICK g \in Active : Bind(w, g)
      BY <1>10 DEF TagStart
    <2>2. Calm /\ Apart(w) /\ pc'[w] = "prepare" /\ gen'[w] = g /\ w \notin Pushers
      BY <1>1, <1>2, <1>10, <2>1, Kinds DEF TagStart, Calm, r2Vars, d1Vars, Apart, Goto, Bind, TInv, LocalInv, LocalTypeOK
    <2>3. AtWrite(w)'
      BY <1>4, <2>2 DEF AtWrite, Calm, Reserved
    <2> QED
      BY <1>1, <2>2, <2>3, CalmKeeps
  <1>11. CASE w \in Taggers /\ TagSnapshot(w)
    <2>1. Calm /\ Apart(w) /\ pc[w] = "prepare" /\ gen' = gen /\ w \notin Pushers
      BY <1>1, <1>2, <1>11, Kinds DEF TagSnapshot, Calm, r2Vars, d1Vars, Apart, Goto, TInv, LocalInv, LocalTypeOK
    <2>2. AtWrite(w)'
      BY <1>2, <2>1 DEF AtWrite, WithGeneration, Calm, Reserved
    <2> QED
      BY <1>1, <2>1, <2>2, CalmKeeps
  <1> QED
    BY <1>5, <1>6, <1>7, <1>8, <1>9, <1>10, <1>11

\* The put, which changes nothing but the document of a name that is taken.
LEMMA WriteName ==
  ASSUME Known, NEW w \in Writers, Write(w)
  PROVE  NameInv'
  <1>1. w \in Procs /\ w \notin Creators \cup Deleters \cup Sweepers
    BY Kinds
  <1>2. TInv /\ LedgerInv /\ NameInv /\ Stored /\ AtWrite(w) /\ snap[w] \in Docs
    BY <1>1 DEF Known, NameInv, Write, TInv, LocalInv, Located, WithSnapshot
  <1>3. /\ Apart(w) /\ pc[w] = "write" /\ pc'[w] = "idle" /\ doc = snap[w]
        /\ doc' = [refs |-> doc.refs \cup {Token(w)}, deletion |-> 0]
        /\ acked' = acked \cup {Token(w)} /\ UNCHANGED <<objects, row, ledger, elapsed>>
    BY <1>1, <1>2, Apartness DEF Write, d1Vars, Quit, Goto, TInv, LocalInv, LocalTypeOK
  <1>4. gen[w] \in Reserved /\ Reserved' = Reserved /\ Reserved # {} /\ doc # None
    BY <1>2, <1>3, NoneAssumption DEF AtWrite, WithGeneration, Reserved
  <1>5. Stored'
    BY <1>2, <1>3, <1>4 DEF Stored, Token, Docs
  <1>6. \A c \in Creators : AtCreation(c)'
    BY <1>1, <1>2, <1>3, <1>4, Kinds DEF NameInv, AtCreation, Apart, Creating
  <1>7. ASSUME NEW v \in Writers PROVE AtWrite(v)'
    <2>1. CASE v = w
      BY <1>3, <2>1 DEF AtWrite, WithGeneration, WithSnapshot
    <2>2. CASE v # w
      <3>1. pc'[v] = pc[v] /\ gen'[v] = gen[v] /\ snap'[v] = snap[v] /\ Token(v)' = Token(v)
        BY <1>3, <2>2, Kinds DEF Apart, Token
      <3> QED
        BY <1>2, <1>3, <1>4, <3>1 DEF NameInv, AtWrite
    <2> QED
      BY <2>1, <2>2
  <1>8. \A d \in Deleters : AtDeletion(d)'
    BY <1>1, <1>2, <1>3, <1>4, Kinds DEF NameInv, AtDeletion, Apart
  <1>9. \A s \in Sweepers : AtSweep(s)'
    BY <1>1, <1>2, <1>3, <1>4, Kinds DEF NameInv, AtSweep, Apart
  <1> QED
    BY <1>5, <1>6, <1>7, <1>8, <1>9 DEF NameInv

\* quarantineRepository.  It works on a row that is deleting, so nothing is active.
LEMMA QuarantineName ==
  ASSUME Known, NEW q \in Deleters \cup Sweepers,
         ReadRefs(q) \/ FindMarker(q) \/ PutNull(q) \/ PutMarker(q) \/ PutTombstone(q) \/ DeleteDoc(q)
  PROVE  NameInv'
  <1>1. q \in Procs /\ q \notin Creators \cup Writers
    BY Kinds
  <1>2. /\ TInv /\ LedgerInv /\ NameInv /\ Stored
        /\ q \in Deleters => AtDeletion(q) /\ q \notin Sweepers
        /\ q \in Sweepers => AtSweep(q) /\ q \notin Deleters
    BY Kinds DEF Known, NameInv
  <1>3. pc[q] \in QuarantineSteps /\ gen[q] \in Gens /\ row[gen[q]] = "deleting" /\ gen[q] \in Reserved
    <2>1. pc[q] \in QuarantineSteps
      BY DEF ReadRefs, FindMarker, PutNull, PutMarker, PutTombstone, DeleteDoc, QuarantineSteps
    <2>2. gen[q] \in Gens
      BY <1>1, <1>2, <2>1 DEF LedgerInv, Knows, SweepSteps, Quarantiners
    <2> QED
      BY <1>2, <2>1, <2>2 DEF AtDeletion, AtSweep, Reserved
  <1>4. back[q] \in {"ledger", "objects"}
    BY <1>1, <1>2 DEF TInv, LocalInv, LocalTypeOK
  <1>5. CASE Calm
    <2>1. Apart(q)
      BY <1>1, <1>2, Apartness DEF ReadRefs, FindMarker, PutNull, PutMarker, PutTombstone, DeleteDoc, Goto, Apart, TInv,
         LocalInv, LocalTypeOK
    <2>2. /\ gen'[q] = gen[q] /\ back'[q] = back[q] /\ due'[q] = due[q]
          /\ \/ pc'[q] \in {"putMarker", "tombstone", "deleteDoc", "snapshot"}
             \/ pc'[q] = "findMarker" /\ doc = None
             \/ pc'[q] = "putNull" /\ pc[q] = "findMarker"
             \/ pc'[q] = back[q] /\ pc[q] \in {"findMarker", "putNull"}
             \/ pc'[q] = back[q] /\ doc' = None
      BY <1>1, <1>2 DEF ReadRefs, FindMarker, PutNull, PutMarker, PutTombstone, DeleteDoc, Step, Goto, TInv, LocalInv,
         LocalTypeOK
    <2>3. q \in Deleters => AtDeletion(q)'
      BY <1>2, <1>3, <1>4, <1>5, <2>2 DEF AtDeletion, Calm, QuarantineSteps
    <2>4. q \in Sweepers => AtSweep(q)'
      BY <1>2, <1>3, <1>4, <1>5, <2>2 DEF AtSweep, Calm, QuarantineSteps, Clearing
    <2> QED
      BY <1>1, <1>5, <2>1, <2>3, <2>4, CalmKeeps
  <1>6. CASE ~Calm
    <2>1. /\ UNCHANGED <<objects, row, ledger, elapsed, acked>> /\ Apart(q)
          /\ gen'[q] = gen[q] /\ back'[q] = back[q] /\ due'[q] = due[q]
          /\ \/ doc' = None /\ pc'[q] = back[q]
             \/ doc' = Tombstone(gen[q]) /\ pc'[q] = "deleteDoc" /\ doc = snap[q] /\ pc[q] = "tombstone"
      BY <1>1, <1>2, <1>6, Apartness DEF ReadRefs, FindMarker, PutNull, PutMarker, PutTombstone, DeleteDoc, Calm, Step, Goto,
         d1Vars, r2Vars, TInv, LocalInv, LocalTypeOK
    <2>2. doc' = None \/ doc # None
      BY <1>1, <1>2, <2>1, NoneAssumption DEF TInv, LocalInv, Located, WithSnapshot
    <2>3. Reserved' = Reserved /\ Reserved # {}
      BY <1>3, <2>1 DEF Reserved
    <2>4. Stored'
      BY <1>2, <1>3, <2>1, <2>3 DEF Stored, Tombstone
    <2>5. \A c \in Creators : AtCreation(c)'
      BY <1>1, <1>2, <2>1, <2>3, Kinds DEF NameInv, AtCreation, Apart, Creating
    <2>6. ASSUME NEW w \in Writers PROVE AtWrite(w)'
      <3>1. pc'[w] = pc[w] /\ gen'[w] = gen[w] /\ snap'[w] = snap[w] /\ Token(w)' = Token(w)
        BY <1>1, <2>1, Kinds DEF Apart, Token
      <3> QED
        BY <1>2, <2>1, <2>3, <3>1 DEF NameInv, AtWrite
    <2>7. ASSUME NEW d \in Deleters PROVE AtDeletion(d)'
      <3>1. CASE d = q
        BY <1>2, <1>3, <1>4, <2>1, <3>1 DEF AtDeletion, QuarantineSteps
      <3>2. CASE d # q
        BY <1>2, <2>1, <2>3, <3>2, Kinds DEF NameInv, AtDeletion, Apart
      <3> QED
        BY <3>1, <3>2
    <2>8. ASSUME NEW s \in Sweepers PROVE AtSweep(s)'
      <3>1. CASE s = q
        BY <1>2, <1>3, <1>4, <2>1, <3>1 DEF AtSweep, QuarantineSteps, Clearing
      <3>2. CASE s # q
        BY <1>2, <2>1, <2>2, <3>2, Kinds DEF NameInv, AtSweep, Apart
      <3> QED
        BY <3>1, <3>2
    <2> QED
      BY <2>4, <2>5, <2>6, <2>7, <2>8 DEF NameInv
  <1> QED
    BY <1>5, <1>6

\* A deletion, but for the quarantine.
LEMMA DeleteName ==
  ASSUME Known, NEW d \in Deleters,
         DeleteStart(d) \/ DeleteBatch(d) \/ DeleteDone(d) \/ DeleteError(d) \/ DeleteFailed(d)
  PROVE  NameInv'
  <1>1. d \in Procs /\ d \notin Creators \cup Writers \cup Sweepers
    BY Kinds
  <1>2. TInv /\ LedgerInv /\ NameInv /\ Stored /\ AtDeletion(d)
    BY DEF Known, NameInv
  <1>3. CASE DeleteStart(d)
    <2>1. PICK g \in Active : Bind(d, g)
      BY <1>3 DEF DeleteStart
    <2>2. Calm /\ Apart(d) /\ pc'[d] = "batch" /\ gen'[d] = g
      BY <1>1, <1>2, <1>3, <2>1 DEF DeleteStart, Calm, r2Vars, d1Vars, Apart, Goto, Bind, TInv, LocalInv, LocalTypeOK
    <2>3. g \in Reserved \ elapsed
      BY <1>2 DEF Active, Reserved, LedgerInv, EntriesFit, Stored
    <2>4. AtDeletion(d)'
      BY <2>2, <2>3 DEF AtDeletion, Calm, Reserved, QuarantineSteps
    <2> QED
      BY <1>1, <2>2, <2>4, CalmKeeps
  <1>4. CASE DeleteDone(d) \/ DeleteError(d) \/ DeleteFailed(d)
    <2>1. Apart(d) /\ pc'[d] \in {"idle", "failing"}
      BY <1>1, <1>2, <1>4, Apartness DEF DeleteDone, DeleteError, DeleteFailed, Step, Quit, Goto, TInv, LocalInv, LocalTypeOK
    <2>2. Calm
      BY <1>2, <1>4 DEF DeleteDone, DeleteError, DeleteFailed, Calm, r2Vars, d1Vars, TInv, StoreTypeOK
    <2>3. AtDeletion(d)'
      BY <2>1 DEF AtDeletion, QuarantineSteps
    <2> QED
      BY <1>1, <2>1, <2>2, <2>3, CalmKeeps
  <1>5. CASE DeleteBatch(d)
    <2>1. gen[d] \in Reserved \ elapsed /\ gen[d] \in Gens
      BY <1>2, <1>5 DEF DeleteBatch, AtDeletion, Reserved
    <2>2. /\ Apart(d) /\ pc'[d] = "snapshot" /\ gen'[d] = gen[d] /\ UNCHANGED <<doc, objects, elapsed, acked>>
          /\ \A g \in Gens : ledger[g] # "none" => ledger'[g] # "none"
          /\ row'[gen[d]] = "deleting" /\ \A g \in Gens \ {gen[d]} : row'[g] = row[g]
      BY <1>1, <1>2, <1>5, <2>1, Apartness DEF DeleteBatch, r2Vars, Step, Goto, TInv, StoreTypeOK, LocalInv, LocalTypeOK,
         RowStates, Reserved
    <2>3. /\ Reserved' = Reserved /\ Reserved # {}
          /\ \A g \in Gens : row[g] \in {"deleting", "absent"} => row'[g] = row[g]
          /\ \A g \in Gens : row'[g] = "active" => row[g] = "active"
      BY <2>1, <2>2 DEF Reserved
    <2>4. Stored'
      <3>1. doc # None => doc.deletion \in 0 .. MaxGen
        BY <1>2 DEF TInv, StoreTypeOK, Docs
      <3>2. doc # None /\ doc.deletion # 0 => row'[doc.deletion] = "deleting"
        BY <1>2, <2>3, <3>1, BoundsAssumption DEF Stored, Gens
      <3>3. \A g \in elapsed : ledger'[g] # "none"
        BY <1>2, <2>2 DEF Stored, TInv, StoreTypeOK
      <3> QED
        BY <1>2, <2>2, <2>3, <3>2, <3>3 DEF Stored
    <2>5. \A c \in Creators : AtCreation(c)'
      BY <1>1, <1>2, <2>2, <2>3, Kinds DEF NameInv, AtCreation, Apart, Creating
    <2>6. ASSUME NEW w \in Writers PROVE AtWrite(w)'
      <3>1. pc'[w] = pc[w] /\ gen'[w] = gen[w] /\ snap'[w] = snap[w] /\ Token(w)' = Token(w)
        BY <1>1, <2>2, Kinds DEF Apart, Token
      <3>2. pc[w] \in WithSnapshot => snap[w].deletion \in 0 .. MaxGen
        BY <1>2, Kinds DEF TInv, LocalInv, Located, Docs
      <3>3. pc[w] \in WithSnapshot /\ snap[w].deletion # 0 => snap[w].deletion \in Gens
        BY <3>2, BoundsAssumption DEF Gens
      <3>4. AtWrite(w)
        BY <1>2 DEF NameInv
      <3>5. pc[w] \in WithGeneration /\ w \in Pushers => pc[w] \in WithSnapshot
        BY <1>2, Kinds DEF WithGeneration, WithSnapshot, TInv, LocalInv, Located
      <3> QED
        BY <2>2, <2>3, <3>1, <3>3, <3>4, <3>5 DEF AtWrite
    <2>7. ASSUME NEW e \in Deleters PROVE AtDeletion(e)'
      <3>1. CASE e = d
        BY <2>1, <2>2, <3>1 DEF AtDeletion
      <3>2. CASE e # d
        <4>1. pc[e] \in QuarantineSteps => gen[e] \in Gens
          BY <1>2, Kinds DEF LedgerInv, Knows, SweepSteps, Quarantiners
        <4> QED
          BY <1>2, <2>2, <2>3, <3>2, <4>1, Kinds DEF NameInv, AtDeletion, Apart
      <3> QED
        BY <3>1, <3>2
    <2>8. ASSUME NEW s \in Sweepers PROVE AtSweep(s)'
      <3>1. pc[s] \in QuarantineSteps \cup Clearing => gen[s] \in Gens
        BY <1>2, Kinds DEF LedgerInv, Knows, SweepSteps, Quarantiners, Clearing
      <3> QED
        BY <1>1, <1>2, <2>2, <2>3, <3>1, Kinds DEF NameInv, AtSweep, Apart
    <2> QED
      BY <2>4, <2>5, <2>6, <2>7, <2>8 DEF NameInv
  <1> QED
    BY <1>3, <1>4, <1>5

\* A sweep, but for the quarantine.
LEMMA SweepName ==
  ASSUME NoOverlap, Known, NEW s \in Sweepers,
         \/ SweepStart(s) \/ SweepGone(s) \/ SweepRow(s) \/ SweepQuarantined(s)
         \/ SweepCleaning(s) \/ SweepMarker(s) \/ SweepObjects(s) \/ SweepCommit(s)
         \/ SweepVerify(s) \/ SweepUnmark(s) \/ SweepError(s) \/ SweepFailed(s)
  PROVE  NameInv'
  <1>1. s \in Procs /\ s \notin Creators \cup Writers \cup Deleters
    BY Kinds
  <1>2. TInv /\ LedgerInv /\ NameInv /\ Stored /\ AtSweep(s)
    BY DEF Known, NameInv
  <1>3. ASSUME Calm, Apart(s), pc'[s] \in {"idle", "row"}, back'[s] = "ledger", due'[s] \subseteq elapsed
        PROVE  NameInv'
    <2>1. AtSweep(s)'
      BY <1>3 DEF AtSweep, Calm, QuarantineSteps, Clearing
    <2> QED
      BY <1>1, <1>3, <2>1, CalmKeeps
  <1>4. ASSUME Calm, Apart(s), gen'[s] = gen[s], back'[s] = back[s], due'[s] = due[s],
               pc'[s] \in {"failing", "snapshot", "cleaning", "marker", "verify", "unmark"},
               pc'[s] \in {"snapshot", "cleaning", "marker"} => row[gen[s]] = "deleting",
               pc'[s] \in {"cleaning", "marker"} => gen[s] \in elapsed,
               pc'[s] = "snapshot" /\ back[s] = "objects" => gen[s] \in elapsed
        PROVE  NameInv'
    <2>1. AtSweep(s)'
      BY <1>2, <1>4 DEF AtSweep, Calm, QuarantineSteps, Clearing
    <2> QED
      BY <1>1, <1>4, <2>1, CalmKeeps
  <1>5. CASE SweepStart(s)
    <2>1. PICK g \in Eligible : Bind(s, g)
      BY <1>5 DEF SweepStart
    <2>2. /\ Calm /\ Apart(s) /\ pc[s] = "idle" /\ pc'[s] = "row" /\ back'[s] = back[s] /\ due'[s] = elapsed
      BY <1>1, <1>2, <1>5, <2>1 DEF SweepStart, Calm, r2Vars, d1Vars, Apart, Goto, Bind, TInv, LocalInv, LocalTypeOK
    <2> QED
      BY <1>2, <1>3, <2>2 DEF AtSweep
  <1>6. CASE SweepGone(s) \/ SweepUnmark(s) \/ SweepFailed(s) \/ (SweepQuarantined(s) /\ gen[s] \notin due[s])
    <2>1. Calm /\ NextRow(s)
      BY <1>2, <1>6 DEF SweepGone, SweepUnmark, SweepFailed, SweepQuarantined, Calm, r2Vars, d1Vars, TInv, StoreTypeOK
    <2>2. Apart(s) /\ pc'[s] \in {"idle", "row"} /\ back'[s] = "ledger" /\ due'[s] \in {due[s], {}}
      BY <1>1, <1>2, <2>1, NextRowApart
    <2>3. due'[s] \subseteq elapsed
      BY <1>2, <2>2 DEF AtSweep
    <2> QED
      BY <1>3, <2>1, <2>2, <2>3
  <1>7. CASE SweepRow(s) \/ (SweepQuarantined(s) /\ gen[s] \in due[s]) \/ SweepCleaning(s) \/ SweepVerify(s) \/ SweepError(s)
    <2>1. Calm
      BY <1>2, <1>7 DEF SweepRow, SweepQuarantined, SweepCleaning, SweepVerify, SweepError, Calm, r2Vars, d1Vars, TInv,
         StoreTypeOK
    <2>2. Apart(s) /\ gen'[s] = gen[s] /\ back'[s] = back[s] /\ due'[s] = due[s]
      BY <1>1, <1>2, <1>7, Apartness DEF SweepRow, SweepQuarantined, SweepCleaning, SweepVerify, SweepError, Step
    <2>3. \/ pc'[s] \in {"failing", "unmark"}
          \/ pc[s] = "row" /\ pc'[s] = "snapshot" /\ row[gen[s]] = "deleting"
          \/ pc[s] = "ledger" /\ pc'[s] = "cleaning" /\ gen[s] \in due[s]
          \/ pc[s] = "cleaning" /\ pc'[s] = "marker"
      BY <1>1, <1>2, <1>7 DEF SweepRow, SweepQuarantined, SweepCleaning, SweepVerify, SweepError, Step, Goto, TInv, LocalInv,
         LocalTypeOK
    <2> QED
      BY <1>2, <1>4, <2>1, <2>2, <2>3 DEF AtSweep, QuarantineSteps, Clearing
  <1>8. CASE SweepMarker(s)
    <2>1. /\ Calm /\ Apart(s) /\ pc[s] = "marker" /\ pc'[s] \in {"failing", "snapshot"} /\ gen'[s] = gen[s]
          /\ due'[s] = due[s]
      BY <1>1, <1>2, <1>8 DEF SweepMarker, Calm, r2Vars, d1Vars, Apart, Goto, TInv, LocalInv, LocalTypeOK
    <2>2. AtSweep(s)'
      BY <1>2, <2>1 DEF AtSweep, Calm, QuarantineSteps, Clearing
    <2> QED
      BY <1>1, <2>1, <2>2, CalmKeeps
  <1>9. CASE SweepObjects(s) \/ SweepCommit(s)
    <2>1. pc[s] \in {"objects", "commit"} /\ doc = None
      BY <1>2, <1>9 DEF SweepObjects, SweepCommit, AtSweep
    <2>2. gen[s] \in Gens /\ row[gen[s]] = "deleting" /\ gen[s] \in elapsed
      BY <1>1, <1>2, <2>1, Kinds DEF AtSweep, Clearing, LedgerInv, Knows, SweepSteps, Quarantiners
    <2>3. Reserved = {gen[s]}
      BY <1>2, <2>2 DEF Stored, Reserved
    <2>4. /\ \A w \in Writers : pc[w] \notin WithGeneration
          /\ \A d \in Deleters : pc[d] \notin QuarantineSteps \cup {"batch"}
          /\ \A c \in Creators : pc[c] \notin Creating
      <3>1. \A d \in Deleters : pc[d] \in QuarantineSteps => gen[d] \in Gens
        BY <1>2, Kinds DEF LedgerInv, Knows, SweepSteps, Quarantiners
      <3>2. \A d \in Deleters : pc[d] \in QuarantineSteps => gen[d] \in Reserved \ elapsed
        BY <1>2, <3>1 DEF NameInv, AtDeletion, Reserved
      <3> QED
        BY <1>2, <2>2, <2>3, <3>2 DEF NameInv, AtWrite, AtDeletion, AtCreation
    <2>5. Apart(s) /\ gen'[s] = gen[s] /\ back'[s] = back[s] /\ due'[s] = due[s] /\ UNCHANGED <<doc, elapsed, acked>>
      BY <1>1, <1>2, <1>9, Apartness DEF SweepObjects, SweepCommit, Step, r2Vars
    <2>6. /\ \A d \in Deleters : AtDeletion(d)'
          /\ \A c \in Creators : AtCreation(c)'
      BY <1>1, <2>4, <2>5, Kinds DEF AtDeletion, AtCreation, Apart, Creating
    <2>0. \A r \in Sweepers : r # s => AtSweep(r)'
      <3> SUFFICES ASSUME NEW r \in Sweepers, r # s PROVE AtSweep(r)'
        OBVIOUS
      <3>1. pc[r] = "idle" /\ pc'[r] = "idle" /\ back'[r] = back[r] /\ due'[r] = due[r]
        BY <2>1, <2>5, Kinds DEF NoOverlap, Apart
      <3> QED
        BY <1>2, <2>5, <3>1 DEF NameInv, AtSweep, QuarantineSteps, Clearing
    <2>7. CASE SweepObjects(s)
      <3>1. /\ objects' = {} /\ UNCHANGED <<row, ledger>> /\ Reserved' = Reserved
            /\ pc'[s] \in {"objects", "commit"}
        BY <1>1, <1>2, <2>7 DEF SweepObjects, d1Vars, Step, Goto, Reserved, TInv, LocalInv, LocalTypeOK
      <3>2. Stored'
        BY <1>2, <2>5, <3>1 DEF Stored
      <3>3. \A w \in Writers : AtWrite(w)'
        BY <1>1, <1>2, <2>4, <2>5, <3>1, Kinds DEF NameInv, AtWrite, Apart, WithGeneration
      <3>4. AtSweep(s)'
        BY <1>2, <2>1, <2>2, <2>5, <3>1 DEF AtSweep
      <3> QED
        BY <2>0, <2>6, <3>2, <3>3, <3>4 DEF NameInv
    <2>8. CASE SweepCommit(s)
      <3>1. /\ objects' = objects /\ objects = {} /\ pc'[s] = "verify"
            /\ row' = [row EXCEPT ![gen[s]] = "absent"]
            /\ \A g \in Gens : ledger[g] # "none" => ledger'[g] # "none"
        BY <1>1, <1>2, <2>2, <2>8 DEF SweepCommit, r2Vars, Step, Goto, AtSweep, TInv, StoreTypeOK, LocalInv, LocalTypeOK
      <3>2. Reserved' = {} /\ \A g \in Gens : row'[g] = "absent"
        BY <1>2, <2>2, <2>3, <3>1 DEF Reserved, TInv, StoreTypeOK
      <3>3. Stored'
        BY <1>2, <2>1, <2>2, <2>3, <2>5, <3>1, <3>2 DEF Stored, TInv, StoreTypeOK
      <3>4. ASSUME NEW w \in Writers PROVE AtWrite(w)'
        <4>1. pc'[w] = pc[w] /\ gen'[w] = gen[w] /\ snap'[w] = snap[w]
          BY <1>1, <2>5, Kinds DEF Apart
        <4>2. w \in Pushers /\ pc[w] \in WithSnapshot /\ snap[w].deletion # 0 => snap[w].deletion \in Gens
          BY <1>2, Kinds, BoundsAssumption DEF TInv, LocalInv, Located, Docs, Gens
        <4> QED
          BY <1>2, <2>4, <3>1, <3>2, <4>1, <4>2 DEF NameInv, AtWrite, WithGeneration
      <3>5. AtSweep(s)'
        BY <1>2, <2>5, <3>1 DEF AtSweep, QuarantineSteps, Clearing
      <3> QED
        BY <2>0, <2>6, <3>3, <3>4, <3>5 DEF NameInv
    <2> QED
      BY <1>9, <2>7, <2>8
  <1> QED
    BY <1>5, <1>6, <1>7, <1>8, <1>9 DEF SweepQuarantined

LEMMA CrashName ==
  ASSUME Known, NEW p \in Procs, Crash(p)
  PROVE  NameInv'
  <1>1. Calm /\ Apart(p) /\ pc'[p] = "idle" /\ back'[p] = "ledger" /\ due'[p] = {}
    BY Apartness DEF Known, Crash, Calm, r2Vars, d1Vars, Quit, Goto, TInv, LocalInv, LocalTypeOK
  <1>2. AtCreation(p)' /\ AtWrite(p)' /\ AtDeletion(p)' /\ AtSweep(p)'
    BY <1>1 DEF AtCreation, AtWrite, AtDeletion, AtSweep, Creating, WithGeneration, WithSnapshot, QuarantineSteps, Clearing
  <1> QED
    BY <1>1, <1>2, CalmKeeps

\* The window elapses once no request of the generation is running.
LEMMA WindowName ==
  ASSUME Known, NEW g \in Gens, WindowElapses(g)
  PROVE  NameInv'
  BY DEF Known, NameInv, WindowElapses, localVars, r2Vars, d1Vars, Stored, AtCreation, AtWrite, AtDeletion, AtSweep,
     Reserved, Token

LEMMA InitName == Init => NameInv
  <1> SUFFICES ASSUME Init PROVE NameInv
    OBVIOUS
  <1>1. \A p \in Procs : pc[p] = "idle" /\ due[p] = {} /\ back[p] = "ledger"
    BY DEF Init
  <1>2. Stored
    BY DEF Init, Stored, Reserved
  <1> QED
    BY <1>1, <1>2, Kinds DEF NameInv, AtCreation, AtWrite, AtDeletion, AtSweep, Creating, WithGeneration, WithSnapshot,
       QuarantineSteps, Clearing

LEMMA NextName == NoOverlap /\ Known /\ [Next]_vars => NameInv'
  <1> SUFFICES ASSUME NoOverlap, Known, [Next]_vars PROVE NameInv'
    OBVIOUS
  <1>1. ASSUME NEW c \in Creators, CreateStart(c) \/ Create(c) \/ RollbackError(c) PROVE NameInv'
    BY <1>1, CreateName DEF Create
  <1>2. ASSUME NEW p \in Pushers, PushStart(p) \/ Push(p) PROVE NameInv'
    BY <1>2, Kinds, WriterName, WriteName DEF Push
  <1>3. ASSUME NEW t \in Taggers, TagStart(t) \/ Tag(t) PROVE NameInv'
    BY <1>3, Kinds, WriterName, WriteName DEF Tag
  <1>4. ASSUME NEW d \in Deleters, DeleteStart(d) \/ Delete(d) \/ DeleteError(d) PROVE NameInv'
    BY <1>4, DeleteName, QuarantineName DEF Delete, Quarantine
  <1>5. ASSUME NEW s \in Sweepers, Sweep(s) \/ SweepError(s) PROVE NameInv'
    BY <1>5, SweepName, QuarantineName DEF Sweep, Quarantine
  <1>6. CASE UNCHANGED vars
    BY <1>6 DEF vars, Known, NameInv, Stored, AtCreation, AtWrite, AtDeletion, AtSweep, Reserved, Token
  <1> QED
    BY <1>1, <1>2, <1>3, <1>4, <1>5, <1>6, CrashName, WindowName DEF Next

LEMMA KnownInvariance == Spec /\ []NoOverlap => []Known
  <1>1. Init => Known
    BY InitTypes, InitLedger, InitName DEF Known
  <1>2. NoOverlap /\ Known /\ [Next]_vars => Known'
    BY NextTypes, NextLedger, NextName DEF Known
  <1> QED
    BY <1>1, <1>2, PTL DEF Spec

\* What a step may do to what is stored.
Waits ==
  /\ doc' = doc /\ objects \subseteq objects' /\ acked' = acked /\ elapsed \subseteq elapsed'
  /\ \A g \in Gens : row'[g] = "active" => row[g] = "active"

Puts(w) ==
  /\ doc # None /\ doc = snap[w] /\ pc[w] = "write"
  /\ doc' = [refs |-> doc.refs \cup {Token(w)}, deletion |-> 0]
  /\ acked' = acked \cup {Token(w)} /\ UNCHANGED <<objects, row, elapsed>>

Begins(g) ==
  /\ Reserved = {} /\ objects = {} /\ doc = NewDoc /\ ledger[g] = "none"
  /\ row' = [row EXCEPT ![g] = "active"] /\ UNCHANGED <<doc, objects, acked, elapsed>>

Fences ==
  /\ Active = {} /\ Active' = {} /\ acked' = acked /\ elapsed' = elapsed
  /\ objects' = objects \/ \A c \in acked : c.gen \in elapsed
  /\ doc' \in {doc, None} \/ doc = None \/ doc' \in {Tombstone(g) : g \in Gens}

LEMMA StoreMoves ==
  ASSUME NoOverlap, Known, [Next]_vars
  PROVE  Waits \/ (\E w \in Writers : Puts(w)) \/ (\E g \in Gens : Begins(g)) \/ Fences
  <1>1. TInv /\ LedgerInv /\ NameInv /\ Stored
    BY DEF Known, NameInv
  <1>2. ASSUME NEW c \in Creators, CreateDoc(c) \/ RollbackObjects(c) \/ RollbackDoc(c) PROVE Fences
    <2>1. Reserved = {} /\ row' = row
      BY <1>1, <1>2 DEF NameInv, AtCreation, Creating, CreateDoc, RollbackObjects, RollbackDoc, d1Vars
    <2>2. Active = {} /\ Active' = {} /\ \A q \in acked : q.gen \in elapsed
      BY <1>1, <2>1 DEF Active, Reserved, Stored
    <2> QED
      BY <1>2, <2>2 DEF Fences, CreateDoc, RollbackObjects, RollbackDoc
  <1>3. ASSUME NEW c \in Creators, CreateInsert(c) PROVE \E g \in Gens : Begins(g)
    <2>1. gen[c] \in Gens /\ ledger[gen[c]] = "none" /\ doc = NewDoc /\ Reserved = {}
      BY <1>1, <1>3, Kinds DEF CreateInsert, LedgerInv, Knows, Pending, Born, NameInv, AtCreation
    <2>2. objects = {}
      BY <1>1, <2>1 DEF Stored
    <2>3. Begins(gen[c])
      BY <1>3, <2>1, <2>2 DEF Begins, CreateInsert, r2Vars
    <2> QED
      BY <2>1, <2>3
  <1>4. ASSUME NEW w \in Writers, Write(w) PROVE Puts(w)
    <2>1. snap[w] \in Docs
      BY <1>1, <1>4, Kinds DEF Write, TInv, LocalInv, Located, WithSnapshot
    <2> QED
      BY <1>4, <2>1, NoneAssumption DEF Write, Puts, d1Vars
  <1>5. ASSUME NEW q \in Deleters \cup Sweepers, PutTombstone(q) \/ DeleteDoc(q) PROVE Fences
    <2>1. gen[q] \in Gens /\ row[gen[q]] = "deleting"
      <3>1. pc[q] \in QuarantineSteps
        BY <1>5 DEF PutTombstone, DeleteDoc, QuarantineSteps
      <3> QED
        BY <1>1, <3>1, Kinds DEF LedgerInv, Knows, SweepSteps, Quarantiners, NameInv, AtDeletion, AtSweep
    <2>2. Active = {} /\ row' = row
      BY <1>1, <1>5, <2>1 DEF PutTombstone, DeleteDoc, d1Vars, Active, Reserved, Stored
    <2> QED
      BY <1>5, <2>1, <2>2 DEF Fences, PutTombstone, DeleteDoc, Active
  <1>6. ASSUME NEW s \in Sweepers, SweepObjects(s) PROVE Fences
    <2>1. gen[s] \in Gens /\ row[gen[s]] = "deleting" /\ gen[s] \in elapsed
      BY <1>1, <1>6, Kinds DEF SweepObjects, LedgerInv, Knows, SweepSteps, Quarantiners, NameInv, AtSweep, Clearing
    <2>2. Active = {} /\ row' = row /\ \A q \in acked : q.gen \in elapsed
      BY <1>1, <1>6, <2>1 DEF SweepObjects, d1Vars, Active, Reserved, Stored
    <2> QED
      BY <1>6, <2>1, <2>2 DEF Fences, SweepObjects, Active
  <1>7. ASSUME NEW d \in Deleters, DeleteBatch(d) PROVE Waits
    BY <1>1, <1>7 DEF DeleteBatch, Waits, r2Vars, TInv, StoreTypeOK
  <1>8. ASSUME NEW s \in Sweepers, SweepCommit(s) PROVE Waits
    BY <1>1, <1>8 DEF SweepCommit, Waits, r2Vars, TInv, StoreTypeOK
  <1>9. ASSUME NEW c \in Creators, CreateStart(c) \/ CreateExists(c) \/ CreateRefused(c) \/ RollbackHead(c) \/ RollbackError(c)
        PROVE  Waits
    BY <1>9 DEF CreateStart, CreateExists, CreateRefused, RollbackHead, RollbackError, Waits, r2Vars, d1Vars
  <1>10. ASSUME NEW w \in Writers, PushStart(w) \/ PushSnapshot(w) \/ PushNotFound(w) \/ PushAuthorize(w) \/ PushDenied(w)
                    \/ PushStore(w) \/ PushValidate(w) \/ TagStart(w) \/ TagSnapshot(w) \/ TagNotFound(w) \/ LoseRace(w)
         PROVE  Waits
    BY <1>10 DEF PushStart, PushSnapshot, PushNotFound, PushAuthorize, PushDenied, PushStore, PushValidate, TagStart,
       TagSnapshot, TagNotFound, LoseRace, Waits, r2Vars, d1Vars
  <1>11. ASSUME NEW q \in Deleters \cup Sweepers, ReadRefs(q) \/ FindMarker(q) \/ PutNull(q) \/ PutMarker(q) \/ DeleteStart(q)
                    \/ DeleteDone(q) \/ DeleteError(q) \/ DeleteFailed(q)
         PROVE  Waits
    BY <1>11 DEF ReadRefs, FindMarker, PutNull, PutMarker, DeleteStart, DeleteDone, DeleteError, DeleteFailed, Waits,
       r2Vars, d1Vars
  <1>12. ASSUME NEW s \in Sweepers, SweepStart(s) \/ SweepGone(s) \/ SweepRow(s) \/ SweepQuarantined(s) \/ SweepCleaning(s)
                    \/ SweepMarker(s) \/ SweepVerify(s) \/ SweepUnmark(s) \/ SweepError(s) \/ SweepFailed(s)
         PROVE  Waits
    BY <1>12 DEF SweepStart, SweepGone, SweepRow, SweepQuarantined, SweepCleaning, SweepMarker, SweepVerify, SweepUnmark,
       SweepError, SweepFailed, Waits, r2Vars, d1Vars
  <1>13. ASSUME (\E p \in Procs : Crash(p)) \/ (\E g \in Gens : WindowElapses(g)) \/ UNCHANGED vars PROVE Waits
    BY <1>13 DEF Crash, WindowElapses, Waits, r2Vars, d1Vars, vars
  <1> QED
    BY <1>2, <1>3, <1>4, <1>5, <1>6, <1>7, <1>8, <1>9, <1>10, <1>11, <1>12, <1>13, Kinds
    DEF Next, Create, Push, Tag, Delete, Sweep, Quarantine

LEMMA UsableKept ==
  ASSUME NoOverlap, Known, ActiveIsUsable, AppliedIsKept, KeptUntilElapsed, [Next]_vars
  PROVE  ActiveIsUsable' /\ AppliedIsKept' /\ KeptUntilElapsed'
  <1>1. TInv /\ LedgerInv /\ NameInv /\ Stored
    BY DEF Known, NameInv
  <1>2. CASE Waits
    <2>1. Active' \subseteq Active
      BY <1>2 DEF Waits, Active
    <2> QED
      BY <1>2, <2>1 DEF Waits, ActiveIsUsable, AppliedIsKept, KeptUntilElapsed
  <1>3. ASSUME NEW w \in Writers, Puts(w) PROVE ActiveIsUsable' /\ AppliedIsKept' /\ KeptUntilElapsed'
    <2>1. Active' = Active
      BY <1>3 DEF Puts, Active
    <2>2. Token(w) = [by |-> w, gen |-> gen[w]] /\ (w \in Pushers => Token(w) \in objects)
      BY <1>1, <1>3 DEF Puts, Token, NameInv, AtWrite
    <2>3. doc' # None
      BY <1>1, <1>3, <2>2, Kinds, NoneAssumption, BoundsAssumption DEF Puts, TInv, StoreTypeOK, LocalInv, Located,
         WithGeneration, Docs, Tokens
    <2> QED
      BY <1>3, <2>1, <2>2, <2>3 DEF Puts, ActiveIsUsable, AppliedIsKept, KeptUntilElapsed
  <1>4. ASSUME NEW g \in Gens, Begins(g) PROVE ActiveIsUsable' /\ AppliedIsKept' /\ KeptUntilElapsed'
    <2>1. Active' = {g} /\ g \notin elapsed
      BY <1>1, <1>4 DEF Begins, Active, Reserved, Stored, TInv, StoreTypeOK
    <2>2. doc' = NewDoc /\ doc' # None
      BY <1>4, NoneAssumption, BoundsAssumption DEF Begins, NewDoc, Docs
    <2>3. \A c \in acked : c.gen # g
      BY <1>1, <1>4, <2>1 DEF Begins, Stored
    <2> QED
      BY <1>4, <2>1, <2>2, <2>3 DEF Begins, NewDoc, ActiveIsUsable, AppliedIsKept, KeptUntilElapsed
  <1>5. CASE Fences
    BY <1>5 DEF Fences, ActiveIsUsable, AppliedIsKept, KeptUntilElapsed
  <1> QED
    BY <1>2, <1>3, <1>4, <1>5, StoreMoves

LEMMA UsableInvariance == Spec /\ []NoOverlap => [](ActiveIsUsable /\ AppliedIsKept /\ KeptUntilElapsed)
  <1>1. Init => ActiveIsUsable /\ AppliedIsKept /\ KeptUntilElapsed
    BY DEF Init, Active, ActiveIsUsable, AppliedIsKept, KeptUntilElapsed
  <1>2. NoOverlap /\ Known /\ ActiveIsUsable /\ AppliedIsKept /\ KeptUntilElapsed /\ [Next]_vars
        => (ActiveIsUsable /\ AppliedIsKept /\ KeptUntilElapsed)'
    BY UsableKept
  <1> QED
    BY <1>1, <1>2, KnownInvariance, PTL DEF Spec

\* Whatever requests race and wherever they fail, only two creations or two sweeps that overlap
\* can break this: what D1 calls active has a live refs document, and the commits it names are
\* stored (repositories.ts:188-258, 480-560).
THEOREM ActiveStaysUsable == Spec /\ []NoOverlap => []ActiveIsUsable
  BY UsableInvariance, PTL

\* What was acknowledged to a writer is in the document as long as the repository is active,
\* unless two creations or two sweeps overlap.
THEOREM AppliedStays == Spec /\ []NoOverlap => []AppliedIsKept
  BY UsableInvariance, PTL

\* No object of an acknowledged push is deleted before the window of its repository has elapsed,
\* unless two creations (the rollback of a lost one, repositories.ts:242) or two sweeps overlap.
THEOREM CommitsOutliveWindow == Spec /\ []NoOverlap => []KeptUntilElapsed
  BY UsableInvariance, PTL

\* A deletion that is reported completed left nothing, and nothing of it comes back.
THEOREM CompletedStaysGone == Spec /\ []NoOverlap => []CompletedMeansGone
  <1>1. Known => CompletedMeansGone
    <2> SUFFICES ASSUME Known, NEW g \in Gens, ledger[g] = "completed"
                 PROVE  /\ row[g] = "absent"
                        /\ \A c \in objects : c.gen # g
                        /\ doc # None => doc.deletion # g /\ \A c \in doc.refs : c.gen # g
      BY DEF CompletedMeansGone
    <2>1. row[g] = "absent" /\ g \notin Reserved /\ g # 0
      BY DEF Known, LedgerInv, EntriesFit, TInv, StoreTypeOK, RowStates, Reserved, Gens
    <2> QED
      BY <2>1 DEF Known, NameInv, Stored
  <1> QED
    BY <1>1, KnownInvariance, PTL

\* A repository begins empty under a name that had others: nothing of a predecessor is stored.
THEOREM BeginsEmpty == Spec /\ []NoOverlap => StartsEmpty
  <1>1. NoOverlap /\ Known /\ [Next]_vars =>
          [\A g \in Gens : row[g] = "absent" /\ row'[g] = "active" => objects = {} /\ doc # None /\ doc.refs = {}]_vars
    <2> SUFFICES ASSUME NoOverlap, Known, [Next]_vars, NEW g \in Gens, row[g] = "absent", row'[g] = "active"
                 PROVE  objects = {} /\ doc # None /\ doc.refs = {}
      OBVIOUS
    <2>1. \E h \in Gens : Begins(h)
      BY StoreMoves DEF Waits, Puts, Fences, Active
    <2>2. objects = {} /\ doc = NewDoc
      BY <2>1 DEF Begins
    <2> QED
      BY <2>2, NoneAssumption, BoundsAssumption DEF NewDoc, Docs
  <1> QED
    BY <1>1, KnownInvariance, PTL DEF Spec, StartsEmpty

\* No push puts its document over a tombstone, however many pushes, tag requests, creations and
\* deletions meet: one that has read a tombstone was refused, or is authorized by a later
\* repository whose document has replaced it (receive-pack authorizes after it has read the refs).
\* Tag requests do replace one (two-phase.ts:78).
PushesRespectTombstones == [][\A p \in Pushers : Write(p) => doc.deletion = 0]_vars

THEOREM TombstonesFence == Spec /\ []NoOverlap => PushesRespectTombstones
  <1>1. NoOverlap /\ Known /\ [Next]_vars => [\A p \in Pushers : Write(p) => doc.deletion = 0]_vars
    <2> SUFFICES ASSUME Known, NEW p \in Pushers, Write(p), doc.deletion # 0 PROVE FALSE
      OBVIOUS
    <2>1. doc # None /\ snap[p] = doc /\ pc[p] = "write"
      BY Kinds, NoneAssumption DEF Write, Known, TInv, LocalInv, Located, WithSnapshot
    <2>2. row[doc.deletion] = "absent" /\ row[doc.deletion] = "deleting"
      BY <2>1, Kinds DEF Known, NameInv, AtWrite, Stored, WithGeneration, WithSnapshot
    <2> QED
      BY <2>2
  <1> QED
    BY <1>1, KnownInvariance, PTL DEF Spec, PushesRespectTombstones
=============================================================================
