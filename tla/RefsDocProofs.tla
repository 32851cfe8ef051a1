--------------------------- MODULE RefsDocProofs ---------------------------
(***************************************************************************)
(* Proofs about RefsDoc, for every set of clients, refs, commits, protection*)
(* rules and requests, and for both kinds of ETag.                          *)
(***************************************************************************)
EXTENDS RefsDoc, TLAPS

-----------------------------------------------------------------------------
(* Type correctness.                                                        *)

LEMMA NoChangeType == NoChange \in Changes
  BY RefsAssumption DEF NoChange, Changes, Sha

LEMMA OneRefType ==
  ASSUME NEW r \in Refs, NEW old \in Sha, NEW new \in Sha
  PROVE  OneRef(r, old, new) \in Changes
  BY DEF OneRef, NoChange, Changes, Sha

\* A refs document with a change applied is a refs document.
LEMMA AppliedType ==
  ASSUME NEW f \in [Refs -> Sha], NEW q \in Changes
  PROVE  AppliedTo(f, q) \in [Refs -> Sha]
  BY DEF AppliedTo, Changes

LEMMA NextDocType ==
  ASSUME RequestTypeOK, NEW w \in Writers, snap[w] \in Snapshots
  PROVE  nextDoc(w) \in Docs
  <1> DEFINE d == snap[w].doc
             f == AppliedTo(d.refs, req[w])
  <1>1. d \in Docs /\ req[w] \in Changes
    BY DEF RequestTypeOK, Snapshots
  <1>2. f \in [Refs -> Sha]
    BY <1>1, AppliedType DEF Docs
  <1>3. LiveBranches(f) \in SUBSET Branches
    BY DEF LiveBranches
  <1>4. FirstOf[LiveBranches(f)] \in Branches \cup {None}
    BY <1>3, RefsAssumption
  <1>5. nextRefsDoc(d, req[w]) \in Docs
    BY <1>1, <1>2, <1>4, RefsAssumption DEF nextRefsDoc, Docs
  <1>6. mutateRefs(d, req[w]) \in Docs
    BY <1>1, <1>2 DEF mutateRefs, Docs
  <1> QED
    BY <1>5, <1>6 DEF nextDoc

\* The end of a request, whatever the answer.
LEMMA AnsweredType ==
  ASSUME RequestTypeOK, NEW w \in Writers, NEW a \in Answers, Answered(w, a)
  PROVE  RequestTypeOK'
  BY NoChangeType DEF RequestTypeOK, Answered, Goto

-----------------------------------------------------------------------------
(* The invariant behind everything else: a snapshot is consistent with the  *)
(* request that took it, and an ETag identifies the content.                *)

EtagNamesContent == stored.etag.of = stored.doc

SnapshotFits(w) ==
  /\ snap[w] \in Snapshots
  /\ snap[w].etag.of = snap[w].doc
  /\ Fresh(snap[w].doc.refs, req[w])

RequestsFit ==
  \A w \in Writers :
    /\ pc[w] = "authorize" => w \in Pushers
    /\ pc[w] = "prepare" => w \notin Pushers
    /\ pc[w] \in {"authorize", "cas"} => SnapshotFits(w)
    /\ w \in Mergers => req[w].touch \subseteq Branches
    /\ w \in Taggers => req[w].touch \subseteq Tags

IInv == TypeOK /\ EtagNamesContent /\ RequestsFit

LEMMA EtagType ==
  ASSUME NEW d \in Docs, NEW n \in Nat
  PROVE  EtagOf(d, n) \in Etags /\ EtagOf(d, n).of = d
  BY DEF EtagOf, Etags

LEMMA InitInv == Init => IInv
  <1> SUFFICES ASSUME Init PROVE IInv
    OBVIOUS
  <1>1. EMPTY \in Docs
    BY DEF EMPTY, Docs, Sha
  <1>2. BucketTypeOK
    BY <1>1, EtagType, RequestsAssumption DEF Init, BucketTypeOK, Snapshots, Sha
  <1>3. MetadataTypeOK
    BY DEF Init, MetadataTypeOK, NoRow, Sha
  <1>4. RequestTypeOK
    BY NoChangeType DEF Init, RequestTypeOK, Answers
  <1>5. EtagNamesContent /\ RequestsFit
    BY <1>1, EtagType DEF Init, EtagNamesContent, RequestsFit, NoChange
  <1> QED
    BY <1>2, <1>3, <1>4, <1>5 DEF IInv, TypeOK

\* A request that ends disturbs nobody else's.
LEMMA AnsweredFits ==
  ASSUME IInv, NEW w \in Writers, NEW a \in Answers, Answered(w, a),
         UNCHANGED <<bucketVars, rules>>,
         prRow' \in [Mergers -> [base : Branches \cup {None}, sha : Sha]]
  PROVE  IInv'
  <1>1. RequestTypeOK'
    BY AnsweredType DEF IInv, TypeOK
  <1>2. BucketTypeOK' /\ MetadataTypeOK' /\ EtagNamesContent'
    BY DEF IInv, TypeOK, BucketTypeOK, MetadataTypeOK, EtagNamesContent, bucketVars
  <1>3. \A v \in Writers \ {w} :
          pc'[v] = pc[v] /\ req'[v] = req[v] /\ snap'[v] = snap[v]
    BY DEF IInv, TypeOK, RequestTypeOK, Answered, Goto
  <1>4. pc'[w] = "idle" /\ req'[w].touch = {}
    BY DEF IInv, TypeOK, RequestTypeOK, Answered, Goto, NoChange
  <1>5. RequestsFit'
    BY <1>3, <1>4 DEF IInv, RequestsFit, SnapshotFits, Fresh
  <1> QED
    BY <1>1, <1>2, <1>5 DEF IInv, TypeOK

\* A write puts a document, and an ETag that names it.
LEMMA WriteFits ==
  ASSUME IInv, NEW w \in Writers, Write(w)
  PROVE  IInv'
  <1> DEFINE d == nextDoc(w)
  <1>1. snap[w] \in Snapshots
    BY DEF IInv, RequestsFit, SnapshotFits, Write
  <1>2. d \in Docs
    BY <1>1, NextDocType DEF IInv, TypeOK
  <1>3. writes + 1 \in 0 .. MaxWrites /\ writes + 1 \in Nat
    BY RequestsAssumption DEF IInv, TypeOK, BucketTypeOK, Write
  <1>4. stored'.doc = d /\ stored' \in Snapshots /\ stored'.etag.of = d
    BY <1>2, <1>3, EtagType DEF Write, Snapshots
  <1>5. past' \in [Branches -> SUBSET Sha]
    BY <1>2, <1>4 DEF IInv, TypeOK, BucketTypeOK, Write, Docs, Refs
  <1>6. BucketTypeOK'
    BY <1>3, <1>4, <1>5 DEF IInv, TypeOK, BucketTypeOK, Write
  <1>7. MetadataTypeOK' /\ RequestTypeOK'
    BY DEF IInv, TypeOK, MetadataTypeOK, RequestTypeOK, Write, Goto
  <1>8. RequestsFit'
    BY DEF IInv, TypeOK, RequestTypeOK, RequestsFit, SnapshotFits, Fresh, Write, Goto
  <1> QED
    BY <1>4, <1>6, <1>7, <1>8 DEF IInv, TypeOK, EtagNamesContent

\* The steps of a push.
LEMMA PushFits ==
  ASSUME IInv, NEW p \in Pushers, Push(p)
  PROVE  IInv'
  <1>1. p \in Writers
    BY DEF Writers
  <1>2. CASE PushStart(p)
    <2> PICK q \in PushRequests :
          /\ Fresh(stored.doc.refs, q.change)
          /\ req' = [req EXCEPT ![p] = q.change]
          /\ pack' = [pack EXCEPT ![p] = q.pack]
          /\ toClear' = [toClear EXCEPT ![p] = q.change.touch]
      BY <1>2 DEF PushStart
    <2>1. q.change \in Changes /\ q.pack \in SUBSET Commits
          /\ q.change.touch \in SUBSET Refs
      BY RequestsAssumption DEF Changes
    <2>2. stored \in Snapshots
      BY DEF IInv, TypeOK, BucketTypeOK
    <2>3. RequestTypeOK'
      BY <1>1, <1>2, <2>1, <2>2
      DEF IInv, TypeOK, RequestTypeOK, PushStart, TakeSnapshot, Goto
    <2>4. RequestsFit'
      BY <1>1, <1>2, <2>2, WritersAssumption
      DEF IInv, TypeOK, RequestTypeOK, RequestsFit, SnapshotFits,
          EtagNamesContent, Fresh, PushStart, TakeSnapshot, Goto
    <2> QED
      BY <1>2, <2>3, <2>4 DEF IInv, TypeOK, BucketTypeOK, MetadataTypeOK,
         EtagNamesContent, PushStart, bucketVars
  <1>3. ASSUME NEW r \in Refs, PushAuthorize(p, r)
        PROVE  IInv'
    <2>1. ForceAllowed(p, r) => r \in Branches
      BY DEF ForceAllowed, RuleOf, NoRule
    <2>2. RequestTypeOK'
      BY <1>1, <1>3, <2>1 DEF IInv, TypeOK, RequestTypeOK, PushAuthorize
    <2> QED
      BY <1>3, <2>2 DEF IInv, TypeOK, BucketTypeOK, MetadataTypeOK, EtagNamesContent,
         RequestsFit, SnapshotFits, Fresh, PushAuthorize, bucketVars
  <1>4. ASSUME NEW c \in Commits, PushStore(p, c)
        PROVE  IInv'
    BY <1>1, <1>4 DEF IInv, TypeOK, BucketTypeOK, MetadataTypeOK, RequestTypeOK,
       EtagNamesContent, RequestsFit, SnapshotFits, Fresh, PushStore
  <1>5. CASE PushValidate(p)
    <2>1. RequestTypeOK'
      BY <1>1, <1>5 DEF IInv, TypeOK, RequestTypeOK, PushValidate, Goto
    <2>2. RequestsFit'
      BY <1>1, <1>5 DEF IInv, TypeOK, RequestTypeOK, RequestsFit, SnapshotFits, Fresh,
         PushValidate, Goto
    <2> QED
      BY <1>5, <2>1, <2>2 DEF IInv, TypeOK, BucketTypeOK, MetadataTypeOK,
         EtagNamesContent, PushValidate, bucketVars
  <1>6. CASE \/ PushStale(p) \/ PushInvalid(p) \/ PushAnswer(p)
             \/ \E r \in Refs : PushDenied(p, r)
    <2>1. /\ Answered(p, "refused") \/ Answered(p, "ok")
          /\ UNCHANGED <<bucketVars, rules, prRow>>
      BY <1>6 DEF PushStale, PushInvalid, PushAnswer, PushDenied
    <2>2. prRow' \in [Mergers -> [base : Branches \cup {None}, sha : Sha]]
      BY <2>1 DEF IInv, TypeOK, MetadataTypeOK
    <2> QED
      BY <1>1, <2>1, <2>2, AnsweredFits DEF Answers
  <1> QED
    BY <1>2, <1>3, <1>4, <1>5, <1>6 DEF Push

\* The steps of a merge outside writeRefsWithMetadata.
LEMMA MergeFits ==
  ASSUME IInv, NEW m \in Mergers, Merge(m)
  PROVE  IInv'
  <1>1. m \in Writers /\ m \notin Pushers
    BY WritersAssumption DEF Writers
  <1>2. stored.doc.refs \in [Refs -> Sha] /\ LiveBranches(stored.doc.refs) \subseteq Refs
    BY DEF IInv, TypeOK, BucketTypeOK, Snapshots, Docs, LiveBranches, Refs
  <1>3. CASE MergeResolve(m)
    <2> PICK b \in LiveBranches(stored.doc.refs), h \in LiveBranches(stored.doc.refs),
             n \in Commits :
          /\ req' = [req EXCEPT ![m] = OneRef(b, stored.doc.refs[b], n)]
          /\ pack' = [pack EXCEPT ![m] = IF n = stored.doc.refs[h] THEN {} ELSE {n}]
      BY <1>3 DEF MergeResolve, MergeTargets
    <2>1. n \in Sha
      BY DEF Sha
    <2>2. OneRef(b, stored.doc.refs[b], n) \in Changes
      BY <1>2, <2>1, OneRefType
    <2>3. RequestTypeOK'
      BY <1>1, <1>3, <2>1, <2>2 DEF IInv, TypeOK, RequestTypeOK, MergeResolve, Goto
    <2>4. RequestsFit'
      BY <1>1, <1>3, WritersAssumption DEF IInv, TypeOK, RequestTypeOK, RequestsFit,
         SnapshotFits, Fresh, MergeResolve, Goto, OneRef, LiveBranches
    <2> QED
      BY <1>3, <2>3, <2>4 DEF IInv, TypeOK, BucketTypeOK, MetadataTypeOK,
         EtagNamesContent, MergeResolve, bucketVars
  <1>4. CASE MergeAlready(m)
    <2> PICK b \in LiveBranches(stored.doc.refs) :
          req' = [req EXCEPT ![m] = OneRef(b, stored.doc.refs[b], stored.doc.refs[b])]
      BY <1>4 DEF MergeAlready
    <2>1. OneRef(b, stored.doc.refs[b], stored.doc.refs[b]) \in Changes
      BY <1>2, OneRefType
    <2>2. RequestTypeOK'
      BY <1>1, <1>4, <2>1 DEF IInv, TypeOK, RequestTypeOK, MergeAlready, Goto
    <2>3. RequestsFit'
      BY <1>1, <1>4, WritersAssumption DEF IInv, TypeOK, RequestTypeOK, RequestsFit,
         SnapshotFits, Fresh, MergeAlready, Goto, OneRef, LiveBranches
    <2> QED
      BY <1>4, <2>2, <2>3 DEF IInv, TypeOK, BucketTypeOK, MetadataTypeOK,
         EtagNamesContent, MergeAlready, bucketVars
  <1>5. CASE MergePutCommit(m)
    BY <1>1, <1>5 DEF IInv, TypeOK, BucketTypeOK, MetadataTypeOK, RequestTypeOK,
       EtagNamesContent, RequestsFit, SnapshotFits, Fresh, MergePutCommit
  <1>6. CASE MergeProject(m)
    <2> PICK b \in req[m].touch :
          prRow' = [prRow EXCEPT ![m] = [base |-> b, sha |-> req[m].new[b]]]
      BY <1>6 DEF MergeProject
    <2>1. req[m].new[b] \in Sha
      BY <1>1 DEF IInv, TypeOK, RequestTypeOK, Changes
    <2>2. b \in Branches
      BY <1>1 DEF IInv, RequestsFit
    <2> QED
      BY <1>1, <1>6, <2>1, <2>2, AnsweredFits
      DEF IInv, TypeOK, MetadataTypeOK, MergeProject, Answers
  <1>7. CASE MergeDeferred(m)
    BY <1>1, <1>7, AnsweredFits DEF IInv, TypeOK, MetadataTypeOK, MergeDeferred, Answers
  <1> QED
    BY <1>3, <1>4, <1>5, <1>6, <1>7 DEF Merge

\* The steps of a tag operation outside writeRefsWithMetadata.
LEMMA TagFits ==
  ASSUME IInv, NEW t \in Taggers, Tag(t)
  PROVE  IInv'
  <1>1. t \in Writers /\ t \notin Pushers /\ t \notin Mergers
    BY WritersAssumption DEF Writers
  <1>2. stored \in Snapshots /\ stored.doc.refs \in [Refs -> Sha]
    BY DEF IInv, TypeOK, BucketTypeOK, Snapshots, Docs
  <1>3. CASE TagCreate(t)
    <2> PICK r \in Tags, c \in resolveCommitish(stored.doc.refs) :
          req' = [req EXCEPT ![t] = OneRef(r, None, c)]
      BY <1>3 DEF TagCreate
    <2>1. c \in Sha /\ None \in Sha /\ r \in Refs
      BY <1>2 DEF resolveCommitish, IInv, TypeOK, BucketTypeOK, Sha, Refs
    <2>2. OneRef(r, None, c) \in Changes
      BY <2>1, OneRefType
    <2>3. RequestTypeOK'
      BY <1>1, <1>3, <2>2 DEF IInv, TypeOK, RequestTypeOK, TagCreate, Goto
    <2>4. RequestsFit'
      BY <1>1, <1>3 DEF IInv, TypeOK, RequestTypeOK, RequestsFit, SnapshotFits, Fresh,
         TagCreate, Goto, OneRef
    <2> QED
      BY <1>3, <2>3, <2>4 DEF IInv, TypeOK, BucketTypeOK, MetadataTypeOK,
         EtagNamesContent, TagCreate, bucketVars
  <1>4. CASE TagDelete(t)
    <2> PICK r \in Tags : req' = [req EXCEPT ![t] = OneRef(r, stored.doc.refs[r], None)]
      BY <1>4 DEF TagDelete
    <2>1. stored.doc.refs[r] \in Sha /\ None \in Sha /\ r \in Refs
      BY <1>2 DEF Sha, Refs
    <2>2. OneRef(r, stored.doc.refs[r], None) \in Changes
      BY <2>1, OneRefType
    <2>3. RequestTypeOK'
      BY <1>1, <1>2, <1>4, <2>2
      DEF IInv, TypeOK, RequestTypeOK, TagDelete, TakeSnapshot, Goto
    <2>4. Fresh(stored.doc.refs, OneRef(r, stored.doc.refs[r], None))
      BY <2>1 DEF Fresh, OneRef, NoChange
    <2>5. RequestsFit'
      BY <1>1, <1>2, <1>4, <2>4
      DEF IInv, TypeOK, RequestTypeOK, RequestsFit, SnapshotFits, Fresh, EtagNamesContent,
          TagDelete, TakeSnapshot, Goto, OneRef
    <2> QED
      BY <1>4, <2>3, <2>5 DEF IInv, TypeOK, BucketTypeOK, MetadataTypeOK,
         EtagNamesContent, TagDelete, bucketVars
  <1>5. CASE TagAnswer(t)
    BY <1>1, <1>5, AnsweredFits DEF IInv, TypeOK, MetadataTypeOK, TagAnswer, Answers
  <1> QED
    BY <1>3, <1>4, <1>5 DEF Tag

\* The steps of writeRefsWithMetadata, and those of every writer.
LEMMA SharedFits ==
  ASSUME IInv, NEW w \in Writers,
         \/ TwoPhaseSnapshot(w) \/ TwoPhaseAbort(w)
         \/ Write(w) \/ LoseRace(w) \/ Crash(w)
  PROVE  IInv'
  <1>1. CASE TwoPhaseSnapshot(w)
    <2>1. stored \in Snapshots
      BY DEF IInv, TypeOK, BucketTypeOK
    <2>2. RequestTypeOK'
      BY <1>1, <2>1 DEF IInv, TypeOK, RequestTypeOK, TwoPhaseSnapshot, TakeSnapshot, Goto
    <2>3. RequestsFit'
      BY <1>1, <2>1 DEF IInv, TypeOK, RequestTypeOK, RequestsFit, SnapshotFits, Fresh,
         EtagNamesContent, TwoPhaseSnapshot, TakeSnapshot, Goto
    <2> QED
      BY <1>1, <2>2, <2>3 DEF IInv, TypeOK, BucketTypeOK, MetadataTypeOK,
         EtagNamesContent, TwoPhaseSnapshot, bucketVars
  <1>2. CASE TwoPhaseAbort(w) \/ LoseRace(w) \/ Crash(w)
    <2>1. /\ Answered(w, "refused") \/ Answered(w, "lost")
          /\ UNCHANGED <<bucketVars, rules, prRow>>
      BY <1>2 DEF TwoPhaseAbort, LoseRace, Crash
    <2>2. prRow' \in [Mergers -> [base : Branches \cup {None}, sha : Sha]]
      BY <2>1 DEF IInv, TypeOK, MetadataTypeOK
    <2> QED
      BY <2>1, <2>2, AnsweredFits DEF Answers
  <1> QED
    BY <1>1, <1>2, WriteFits

LEMMA StepInv == IInv /\ [Next]_vars => IInv'
  <1> SUFFICES ASSUME IInv, [Next]_vars PROVE IInv'
    OBVIOUS
  <1>1. ASSUME NEW b \in Branches, SetRule(b) PROVE IInv'
    BY <1>1 DEF IInv, TypeOK, BucketTypeOK, MetadataTypeOK, RequestTypeOK,
       EtagNamesContent, RequestsFit, SnapshotFits, Fresh, SetRule, bucketVars, requestVars
  <1>2. CASE UNCHANGED vars
    BY <1>2 DEF IInv, TypeOK, BucketTypeOK, MetadataTypeOK, RequestTypeOK,
       EtagNamesContent, RequestsFit, SnapshotFits, Fresh, vars
  <1> QED
    BY <1>1, <1>2, PushFits, MergeFits, TagFits, SharedFits DEF Next

\* Types, the requests' snapshots and the ETags fit together at all times.
THEOREM Invariance == Spec => []IInv
  BY InitInv, StepInv, PTL DEF Spec

\* Every variable keeps its type: force is only ever granted on branches, and
\* the default branch of the document is a branch.
THEOREM TypeCorrect == Spec => []TypeOK
  <1>1. IInv => TypeOK
    BY DEF IInv
  <1> QED
    BY <1>1, Invariance, PTL

-----------------------------------------------------------------------------
(* The refs are an atomic register.                                         *)

\* A conditional put that succeeds finds what its request relied on: the
\* document is the one the snapshot was taken of, whatever was written since.
LEMMA WriteIsFresh ==
  ASSUME IInv, NEW w \in Writers, Write(w)
  PROVE  /\ Fresh(stored.doc.refs, req[w])
         /\ stored'.doc.refs = AppliedTo(stored.doc.refs, req[w])
  <1>1. snap[w].doc = stored.doc /\ snap[w] \in Snapshots
    BY DEF IInv, EtagNamesContent, RequestsFit, SnapshotFits, Write, etagMatches
  <1>2. Fresh(stored.doc.refs, req[w])
    BY <1>1 DEF IInv, RequestsFit, SnapshotFits, Write
  <1>3. nextDoc(w).refs = AppliedTo(stored.doc.refs, req[w])
    BY <1>1 DEF nextDoc, nextRefsDoc, mutateRefs, Snapshots, Docs
  <1> QED
    BY <1>2, <1>3 DEF Write

\* A request that moves on is asked, or applied.
LEMMA StatusMoves ==
  ASSUME IInv, NEW w \in Writers, NEW l \in {"authorize", "prepare", "cas", "applied"},
         Goto(w, l), UNCHANGED answer
  PROVE  RegisterStatus' =
           [RegisterStatus EXCEPT ![w] = IF l = "applied" THEN "applied" ELSE "asked"]
  BY DEF IInv, TypeOK, RequestTypeOK, Goto, RegisterStatus

LEMMA StatusStays ==
  ASSUME IInv, NEW w \in Writers, pc[w] \notin {"idle", "applied"}, Goto(w, "cas"),
         UNCHANGED answer
  PROVE  RegisterStatus' = RegisterStatus
  BY DEF IInv, TypeOK, RequestTypeOK, Goto, RegisterStatus

LEMMA IdleStatus ==
  ASSUME IInv, NEW w \in Writers, pc[w] = "idle"
  PROVE  ~Register!InProgress(w) /\ RegisterStatus[w] # "applied"
  BY DEF IInv, TypeOK, RequestTypeOK, Answers, RegisterStatus, Register!InProgress

\* An answered request is finished, with the status its client hears.
LEMMA AnsweredFinishes ==
  ASSUME IInv, NEW w \in Writers, NEW a \in Answers, Answered(w, a), UNCHANGED stored
  PROVE  Register!Finish(w, a)
  BY DEF IInv, TypeOK, RequestTypeOK, Answered, Goto, RegisterStatus, Register!Finish,
     NoChange, Register!NoChange

LEMMA AskMaps ==
  ASSUME IInv, IInv', NEW w \in Writers, NEW l \in {"authorize", "prepare", "cas"},
         pc[w] = "idle", Goto(w, l), UNCHANGED answer, UNCHANGED stored,
         req' = [req EXCEPT ![w] = req'[w]]
  PROVE  Register!Ask(w)
  <1>1. req'[w] \in Changes
    BY DEF IInv, TypeOK, RequestTypeOK
  <1>2. req'[w] \in Register!Changes
    BY <1>1 DEF Changes, Register!Changes, Sha, Register!Sha
  <1> QED
    BY <1>2, IdleStatus, StatusMoves DEF Register!Ask

LEMMA InitMaps == Init => Register!Init
  <1> SUFFICES ASSUME Init PROVE Register!Init
    OBVIOUS
  <1>1. stored.doc.refs \in [Refs -> Register!Sha]
    BY DEF Init, EMPTY, Register!Sha
  <1>2. req = [w \in Writers |-> Register!NoChange]
    BY DEF Init, NoChange, Register!NoChange
  <1>3. RegisterStatus = [w \in Writers |-> "idle"]
    BY DEF Init, RegisterStatus
  <1> QED
    BY <1>1, <1>2, <1>3 DEF Register!Init

LEMMA PushMaps ==
  ASSUME IInv, IInv', NEW p \in Pushers, Push(p)
  PROVE  [Register!Next]_(Register!vars)
  <1>1. p \in Writers
    BY DEF Writers
  <1>2. CASE PushStart(p)
    <2>1. /\ pc[p] = "idle" /\ Goto(p, "authorize")
          /\ UNCHANGED answer /\ UNCHANGED stored
          /\ req' = [req EXCEPT ![p] = req'[p]]
      BY <1>1, <1>2 DEF PushStart, bucketVars, IInv, TypeOK, RequestTypeOK
    <2> QED
      BY <1>1, <2>1, AskMaps DEF Register!Next
  <1>3. CASE PushStale(p) \/ PushInvalid(p) \/ \E r \in Refs : PushDenied(p, r)
    <2>1. /\ pc[p] # "applied" /\ Answered(p, "refused") /\ UNCHANGED stored
      BY <1>3 DEF PushStale, PushInvalid, PushDenied, bucketVars
    <2>2. RegisterStatus[p] # "applied"
      BY <1>1, <2>1 DEF IInv, TypeOK, RequestTypeOK, RegisterStatus, Answers
    <2> QED
      BY <1>1, <2>1, <2>2, AnsweredFinishes DEF Register!Next, Register!Refuse, Answers
  <1>4. CASE PushAnswer(p)
    <2>1. RegisterStatus[p] = "applied" /\ Answered(p, "ok") /\ UNCHANGED stored
      BY <1>1, <1>4 DEF PushAnswer, RegisterStatus, bucketVars
    <2> QED
      BY <1>1, <2>1, AnsweredFinishes DEF Register!Next, Register!Acknowledge, Answers
  <1>5. CASE PushValidate(p)
    <2>1. RegisterStatus' = RegisterStatus
      BY <1>1, <1>5, StatusStays DEF PushValidate
    <2> QED
      BY <1>5, <2>1 DEF PushValidate, Register!vars, bucketVars
  <1>6. CASE (\E r \in Refs : PushAuthorize(p, r)) \/ \E c \in Commits : PushStore(p, c)
    BY <1>6 DEF PushAuthorize, PushStore, RegisterStatus, Register!vars, bucketVars
  <1> QED
    BY <1>2, <1>3, <1>4, <1>5, <1>6 DEF Push

LEMMA MergeMaps ==
  ASSUME IInv, IInv', NEW m \in Mergers, Merge(m)
  PROVE  [Register!Next]_(Register!vars)
  <1>1. m \in Writers
    BY DEF Writers
  <1>2. CASE MergeResolve(m)
    <2>1. /\ pc[m] = "idle" /\ Goto(m, "prepare")
          /\ UNCHANGED answer /\ UNCHANGED stored
          /\ req' = [req EXCEPT ![m] = req'[m]]
      BY <1>1, <1>2 DEF MergeResolve, bucketVars, IInv, TypeOK, RequestTypeOK
    <2> QED
      BY <1>1, <2>1, AskMaps DEF Register!Next
  <1>3. CASE MergeAlready(m)
    <2> PICK b \in LiveBranches(stored.doc.refs) :
          req' = [req EXCEPT ![m] = OneRef(b, stored.doc.refs[b], stored.doc.refs[b])]
      BY <1>3 DEF MergeAlready
    <2>1. req'[m] = OneRef(b, stored.doc.refs[b], stored.doc.refs[b])
          /\ req' = [req EXCEPT ![m] = req'[m]]
      BY <1>1 DEF IInv, TypeOK, RequestTypeOK
    <2>2. req'[m] \in Register!Changes
      BY <1>1 DEF IInv, TypeOK, RequestTypeOK, Changes, Register!Changes, Sha, Register!Sha
    <2>3. \A r \in req'[m].touch : stored.doc.refs[r] = req'[m].new[r]
      BY <2>1 DEF OneRef, NoChange, LiveBranches, Refs
    <2>4. Register!Find(m)
      BY <1>1, <1>3, <2>1, <2>2, <2>3, IdleStatus, StatusMoves
      DEF MergeAlready, bucketVars, Register!Find
    <2> QED
      BY <1>1, <2>4 DEF Register!Next
  <1>4. CASE MergePutCommit(m)
    BY <1>4 DEF MergePutCommit, RegisterStatus, Register!vars
  <1>5. CASE MergeProject(m) \/ MergeDeferred(m)
    <2>1. RegisterStatus[m] = "applied" /\ Answered(m, "ok") /\ UNCHANGED stored
      BY <1>1, <1>5 DEF MergeProject, MergeDeferred, RegisterStatus, bucketVars
    <2> QED
      BY <1>1, <2>1, AnsweredFinishes DEF Register!Next, Register!Acknowledge, Answers
  <1> QED
    BY <1>2, <1>3, <1>4, <1>5 DEF Merge

LEMMA TagMaps ==
  ASSUME IInv, IInv', NEW t \in Taggers, Tag(t)
  PROVE  [Register!Next]_(Register!vars)
  <1>1. t \in Writers
    BY DEF Writers
  <1>2. CASE TagCreate(t) \/ TagDelete(t)
    <2>1. /\ pc[t] = "idle" /\ (Goto(t, "prepare") \/ Goto(t, "cas"))
          /\ UNCHANGED answer /\ UNCHANGED stored
          /\ req' = [req EXCEPT ![t] = req'[t]]
      BY <1>1, <1>2 DEF TagCreate, TagDelete, bucketVars, IInv, TypeOK, RequestTypeOK
    <2> QED
      BY <1>1, <2>1, AskMaps DEF Register!Next
  <1>3. CASE TagAnswer(t)
    <2>1. RegisterStatus[t] = "applied" /\ Answered(t, "ok") /\ UNCHANGED stored
      BY <1>1, <1>3 DEF TagAnswer, RegisterStatus, bucketVars
    <2> QED
      BY <1>1, <2>1, AnsweredFinishes DEF Register!Next, Register!Acknowledge, Answers
  <1> QED
    BY <1>2, <1>3 DEF Tag

LEMMA SharedMaps ==
  ASSUME IInv, IInv', NEW w \in Writers,
         \/ TwoPhaseSnapshot(w) \/ TwoPhaseAbort(w)
         \/ Write(w) \/ LoseRace(w) \/ Crash(w)
  PROVE  [Register!Next]_(Register!vars)
  <1>1. CASE TwoPhaseSnapshot(w)
    <2>1. RegisterStatus' = RegisterStatus
      BY <1>1, StatusStays DEF TwoPhaseSnapshot
    <2> QED
      BY <1>1, <2>1 DEF TwoPhaseSnapshot, Register!vars, bucketVars
  <1>2. CASE TwoPhaseAbort(w) \/ LoseRace(w)
    <2>1. /\ pc[w] \in {"prepare", "cas"} /\ Answered(w, "refused") /\ UNCHANGED stored
      BY <1>2 DEF TwoPhaseAbort, LoseRace, bucketVars
    <2>2. RegisterStatus[w] # "applied"
      BY <2>1 DEF RegisterStatus
    <2> QED
      BY <2>1, <2>2, AnsweredFinishes DEF Register!Next, Register!Refuse, Answers
  <1>3. CASE Write(w)
    <2>1. RegisterStatus[w] = "asked"
      BY <1>3 DEF Write, RegisterStatus
    <2>2. RegisterStatus' = [RegisterStatus EXCEPT ![w] = "applied"]
      BY <1>3, StatusMoves DEF Write
    <2>3. /\ \A r \in req[w].touch : stored.doc.refs[r] = req[w].old[r]
          /\ stored'.doc.refs = Register!AppliedTo(stored.doc.refs, req[w])
      BY <1>3, WriteIsFresh DEF Fresh, AppliedTo, Register!AppliedTo
    <2>4. Register!Apply(w)
      BY <1>3, <2>1, <2>2, <2>3 DEF Write, Register!Apply
    <2> QED
      BY <2>4 DEF Register!Next
  <1>4. CASE Crash(w)
    <2>1. Register!InProgress(w) /\ Answered(w, "lost") /\ UNCHANGED stored
      BY <1>4 DEF Crash, bucketVars, RegisterStatus, Register!InProgress
    <2> QED
      BY <2>1, AnsweredFinishes DEF Register!Next, Register!Lose, Answers
  <1> QED
    BY <1>1, <1>2, <1>3, <1>4

LEMMA StepMaps == IInv /\ IInv' /\ [Next]_vars => [Register!Next]_(Register!vars)
  <1> SUFFICES ASSUME IInv, IInv', [Next]_vars PROVE [Register!Next]_(Register!vars)
    OBVIOUS
  <1>1. ASSUME NEW b \in Branches, SetRule(b) PROVE UNCHANGED Register!vars
    BY <1>1 DEF SetRule, bucketVars, requestVars, RegisterStatus, Register!vars
  <1>2. CASE UNCHANGED vars
    BY <1>2 DEF vars, RegisterStatus, Register!vars
  <1> QED
    BY <1>1, <1>2, PushMaps, MergeMaps, TagMaps, SharedMaps DEF Next

\* Pushes, merges and tag operations, with any of them racing, dying or losing
\* its answer, are together one atomic register of refs: RefsDoc implements
\* RefRegister.
THEOREM RefsAreAtomic == Spec => AtomicRefs
  <1>1. Spec => Register!Init /\ [][Register!Next]_(Register!vars)
    BY InitMaps, StepMaps, Invariance, PTL DEF Spec
  <1> QED
    BY <1>1 DEF AtomicRefs, Register!Spec

-----------------------------------------------------------------------------
(* Branches are complete, and move forward unless forced.                   *)

\* What a request has established about the commit it moves a branch to: the
\* history is stored, up to the objects the request itself is about to store,
\* and the move is a fast-forward or was granted.
MoveEstablished(w, b) ==
  LET old == req[w].old[b]
      new == req[w].new[b]
  IN new # None =>
       /\ Anc[new] \subseteq objects \cup pack[w]
       /\ old # None => isAncestor(old, new) \/ (w \in Pushers /\ b \in forced[w])

Established ==
  \A w \in Writers \ Taggers :
    /\ pc[w] \in {"prepare", "cas"} =>
         \A b \in req[w].touch \cap Branches : MoveEstablished(w, b)
    /\ pc[w] = "cas" => pack[w] = {}

HInv == IInv /\ BranchesComplete /\ Established

\* A step that stores objects at most, and changes one request into one whose
\* moves are established, keeps what is established.
LEMMA EstablishedFrame ==
  ASSUME HInv, IInv', NEW w \in Writers,
         stored' = stored, objects \subseteq objects',
         \A v \in Writers \ {w} : /\ pc'[v] = pc[v] /\ req'[v] = req[v]
                                  /\ pack'[v] = pack[v] /\ forced'[v] = forced[v],
         w \notin Taggers =>
           /\ pc'[w] \in {"prepare", "cas"} =>
                \A b \in req'[w].touch \cap Branches : MoveEstablished(w, b)'
           /\ pc'[w] = "cas" => pack'[w] = {}
  PROVE  HInv'
  <1>1. BranchesComplete'
    BY DEF HInv, BranchesComplete, Closed, LiveBranches
  <1>2. ASSUME NEW v \in Writers \ Taggers, v # w
        PROVE  /\ pc'[v] \in {"prepare", "cas"} =>
                    \A b \in req'[v].touch \cap Branches : MoveEstablished(v, b)'
               /\ pc'[v] = "cas" => pack'[v] = {}
    BY <1>2 DEF HInv, Established, MoveEstablished, isAncestor
  <1>3. Established'
    BY <1>2 DEF Established
  <1> QED
    BY <1>1, <1>3 DEF HInv

LEMMA AnsweredEstablished ==
  ASSUME HInv, IInv', NEW w \in Writers, NEW a \in Answers, Answered(w, a),
         UNCHANGED bucketVars
  PROVE  HInv'
  <1>1. pc'[w] = "idle"
    BY DEF HInv, IInv, TypeOK, RequestTypeOK, Answered, Goto
  <1>2. \A v \in Writers \ {w} : /\ pc'[v] = pc[v] /\ req'[v] = req[v]
                                /\ pack'[v] = pack[v] /\ forced'[v] = forced[v]
    BY DEF HInv, IInv, TypeOK, RequestTypeOK, Answered, Goto
  <1> QED
    BY <1>1, <1>2, EstablishedFrame DEF bucketVars

LEMMA PushEstablished ==
  ASSUME HInv, IInv', NEW p \in Pushers, Push(p)
  PROVE  HInv'
  <1>1. p \in Writers /\ p \notin Taggers
    BY WritersAssumption DEF Writers
  <1>2. CASE PushStart(p)
    <2>1. pc'[p] = "authorize" /\ stored' = stored /\ objects' = objects
      BY <1>1, <1>2 DEF HInv, IInv, TypeOK, RequestTypeOK, PushStart, Goto, bucketVars
    <2>2. \A v \in Writers \ {p} : /\ pc'[v] = pc[v] /\ req'[v] = req[v]
                                  /\ pack'[v] = pack[v] /\ forced'[v] = forced[v]
      BY <1>2 DEF HInv, IInv, TypeOK, RequestTypeOK, PushStart, Goto
    <2> QED
      BY <1>1, <2>1, <2>2, EstablishedFrame
  <1>3. CASE (\E r \in Refs : PushAuthorize(p, r)) \/ \E c \in Commits : PushStore(p, c)
    <2>1. pc[p] = "authorize" /\ pc' = pc /\ req' = req
          /\ stored' = stored /\ objects \subseteq objects'
      BY <1>3 DEF PushAuthorize, PushStore, bucketVars
    <2>2. \A v \in Writers \ {p} : pack'[v] = pack[v] /\ forced'[v] = forced[v]
      BY <1>3 DEF HInv, IInv, TypeOK, RequestTypeOK, PushAuthorize, PushStore
    <2> QED
      BY <1>1, <2>1, <2>2, EstablishedFrame
  <1>4. CASE PushValidate(p)
    <2>1. pack'[p] = {} /\ req' = req /\ forced' = forced /\ pack' = pack
          /\ stored' = stored /\ objects' = objects
      BY <1>4 DEF PushValidate, bucketVars
    <2>2. \A b \in req'[p].touch \cap Branches : MoveEstablished(p, b)'
      BY <1>4, <2>1 DEF PushValidate, ValidUpdate, MoveEstablished, Closed, isAncestor
    <2>3. \A v \in Writers \ {p} : pc'[v] = pc[v]
      BY <1>4 DEF HInv, IInv, TypeOK, RequestTypeOK, PushValidate, Goto
    <2> QED
      BY <1>1, <2>1, <2>2, <2>3, EstablishedFrame
  <1>5. CASE \/ PushStale(p) \/ PushInvalid(p) \/ PushAnswer(p)
             \/ \E r \in Refs : PushDenied(p, r)
    <2>1. (Answered(p, "refused") \/ Answered(p, "ok")) /\ UNCHANGED bucketVars
      BY <1>5 DEF PushStale, PushInvalid, PushAnswer, PushDenied
    <2> QED
      BY <1>1, <2>1, AnsweredEstablished DEF Answers
  <1> QED
    BY <1>2, <1>3, <1>4, <1>5 DEF Push

\* The commit a merge puts on a branch descends from what the branch was, and
\* all of its history but itself is stored already.
LEMMA MergeTargetEstablished ==
  ASSUME HInv, NEW b \in LiveBranches(stored.doc.refs), NEW h \in LiveBranches(stored.doc.refs),
         NEW n \in MergeTargets(stored.doc.refs[b], stored.doc.refs[h])
  PROVE  /\ isAncestor(stored.doc.refs[b], n)
         /\ n = stored.doc.refs[h] => Anc[n] \subseteq objects
         /\ Anc[n] \subseteq objects \cup {n}
  <1> DEFINE base == stored.doc.refs[b]
             head == stored.doc.refs[h]
  <1>1. base \in Commits /\ head \in Commits
    BY DEF HInv, IInv, TypeOK, BucketTypeOK, Snapshots, Docs, LiveBranches, Refs, Sha
  <1>2. Anc[base] \subseteq objects /\ Anc[head] \subseteq objects
    BY DEF HInv, BranchesComplete, Closed
  <1>3. base \in Anc[base]
    BY <1>1, CommitsAssumption
  <1> QED
    BY <1>2, <1>3 DEF MergeTargets, isAncestor

LEMMA MergeEstablished ==
  ASSUME HInv, IInv', NEW m \in Mergers, Merge(m)
  PROVE  HInv'
  <1>1. m \in Writers /\ m \notin Taggers
    BY WritersAssumption DEF Writers
  <1>2. CASE MergeResolve(m)
    <2> PICK b \in LiveBranches(stored.doc.refs), h \in LiveBranches(stored.doc.refs),
             n \in Commits :
          /\ n \in MergeTargets(stored.doc.refs[b], stored.doc.refs[h])
          /\ req' = [req EXCEPT ![m] = OneRef(b, stored.doc.refs[b], n)]
          /\ pack' = [pack EXCEPT ![m] = IF n = stored.doc.refs[h] THEN {} ELSE {n}]
      BY <1>2 DEF MergeResolve, MergeTargets
    <2>1. /\ req'[m] = OneRef(b, stored.doc.refs[b], n)
          /\ pack'[m] = IF n = stored.doc.refs[h] THEN {} ELSE {n}
          /\ pc'[m] = "prepare" /\ stored' = stored /\ objects' = objects
      BY <1>1, <1>2 DEF HInv, IInv, TypeOK, RequestTypeOK, MergeResolve, Goto, bucketVars
    <2>2. b \in Refs
      BY DEF LiveBranches, Refs
    <2>3. \A r \in req'[m].touch : /\ req'[m].old[r] = stored.doc.refs[b]
                                 /\ req'[m].new[r] = n
      BY <2>1, <2>2 DEF OneRef, NoChange
    <2>4. Anc[n] \subseteq objects \cup pack'[m] /\ isAncestor(stored.doc.refs[b], n)
      BY <2>1, MergeTargetEstablished
    <2>5. \A r \in req'[m].touch \cap Branches : MoveEstablished(m, r)'
      BY <2>1, <2>3, <2>4 DEF MoveEstablished, isAncestor
    <2>6. \A v \in Writers \ {m} : /\ pc'[v] = pc[v] /\ req'[v] = req[v]
                                  /\ pack'[v] = pack[v] /\ forced'[v] = forced[v]
      BY <1>2 DEF HInv, IInv, TypeOK, RequestTypeOK, MergeResolve, Goto
    <2> QED
      BY <1>1, <2>1, <2>5, <2>6, EstablishedFrame
  <1>3. CASE MergeAlready(m)
    <2>1. pc'[m] = "applied" /\ stored' = stored /\ objects' = objects
      BY <1>1, <1>3 DEF HInv, IInv, TypeOK, RequestTypeOK, MergeAlready, Goto, bucketVars
    <2>2. \A v \in Writers \ {m} : /\ pc'[v] = pc[v] /\ req'[v] = req[v]
                                  /\ pack'[v] = pack[v] /\ forced'[v] = forced[v]
      BY <1>3 DEF HInv, IInv, TypeOK, RequestTypeOK, MergeAlready, Goto
    <2> QED
      BY <1>1, <2>1, <2>2, EstablishedFrame
  <1>4. CASE MergePutCommit(m)
    <2>1. /\ pc' = pc /\ req' = req /\ forced' = forced /\ stored' = stored
          /\ objects' = objects \cup pack[m] /\ pack'[m] = {} /\ pc[m] = "prepare"
      BY <1>1, <1>4 DEF HInv, IInv, TypeOK, RequestTypeOK, MergePutCommit
    <2>2. \A b \in req'[m].touch \cap Branches : MoveEstablished(m, b)'
      BY <1>1, <2>1 DEF HInv, Established, MoveEstablished, isAncestor
    <2>3. \A v \in Writers \ {m} : pack'[v] = pack[v]
      BY <1>4 DEF HInv, IInv, TypeOK, RequestTypeOK, MergePutCommit
    <2> QED
      BY <1>1, <2>1, <2>2, <2>3, EstablishedFrame
  <1>5. CASE MergeProject(m) \/ MergeDeferred(m)
    <2>1. Answered(m, "ok") /\ UNCHANGED bucketVars
      BY <1>5 DEF MergeProject, MergeDeferred
    <2> QED
      BY <1>1, <2>1, AnsweredEstablished DEF Answers
  <1> QED
    BY <1>2, <1>3, <1>4, <1>5 DEF Merge

LEMMA TagEstablished ==
  ASSUME HInv, IInv', NEW t \in Taggers, Tag(t)
  PROVE  HInv'
  <1>1. t \in Writers
    BY DEF Writers
  <1>2. stored' = stored /\ objects' = objects
    BY DEF Tag, TagCreate, TagDelete, TagAnswer, bucketVars
  <1>3. \A v \in Writers \ {t} : /\ pc'[v] = pc[v] /\ req'[v] = req[v]
                                /\ pack'[v] = pack[v] /\ forced'[v] = forced[v]
    BY DEF HInv, IInv, TypeOK, RequestTypeOK, Tag, TagCreate, TagDelete, TagAnswer,
           Answered, Goto
  <1> QED
    BY <1>1, <1>2, <1>3, EstablishedFrame

LEMMA WriteEstablished ==
  ASSUME HInv, IInv', NEW w \in Writers, Write(w)
  PROVE  HInv'
  <1>1. stored'.doc.refs = AppliedTo(stored.doc.refs, req[w])
    BY WriteIsFresh DEF HInv
  <1>2. /\ UNCHANGED <<objects, req, pack, forced>>
        /\ \A v \in Writers \ {w} : pc'[v] = pc[v]
        /\ pc[w] = "cas" /\ pc'[w] = "applied"
    BY DEF HInv, IInv, TypeOK, RequestTypeOK, Write, Goto
  <1>3. ASSUME NEW b \in LiveBranches(stored'.doc.refs)
        PROVE  Anc[stored'.doc.refs[b]] \subseteq objects
    <2>1. b \in Branches /\ b \in Refs /\ stored'.doc.refs[b] # None
      BY DEF LiveBranches, Refs
    <2>2. CASE b \notin req[w].touch
      BY <1>1, <2>1, <2>2 DEF AppliedTo, HInv, BranchesComplete, Closed, LiveBranches
    <2>3. CASE b \in req[w].touch
      <3>1. w \notin Taggers
        BY <2>1, <2>3, RefsAssumption DEF HInv, IInv, RequestsFit
      <3>2. MoveEstablished(w, b) /\ pack[w] = {}
        BY <1>2, <2>1, <2>3, <3>1 DEF HInv, Established
      <3> QED
        BY <1>1, <2>1, <2>3, <3>2 DEF AppliedTo, MoveEstablished
    <2> QED
      BY <2>2, <2>3
  <1>4. BranchesComplete'
    BY <1>2, <1>3 DEF BranchesComplete, Closed
  <1>5. Established'
    BY <1>2 DEF HInv, Established, MoveEstablished, isAncestor
  <1> QED
    BY <1>4, <1>5 DEF HInv

LEMMA SharedEstablished ==
  ASSUME HInv, IInv', NEW w \in Writers,
         \/ TwoPhaseSnapshot(w) \/ TwoPhaseAbort(w)
         \/ Write(w) \/ LoseRace(w) \/ Crash(w)
  PROVE  HInv'
  <1>1. CASE TwoPhaseSnapshot(w)
    <2>1. /\ UNCHANGED <<stored, objects, req, pack, forced>>
          /\ pc[w] = "prepare" /\ pc'[w] = "cas" /\ pack[w] = {}
          /\ \A v \in Writers \ {w} : pc'[v] = pc[v]
      BY <1>1 DEF HInv, IInv, TypeOK, RequestTypeOK, TwoPhaseSnapshot, Goto, bucketVars
    <2>2. w \notin Taggers =>
            \A b \in req'[w].touch \cap Branches : MoveEstablished(w, b)'
      BY <2>1 DEF HInv, Established, MoveEstablished, isAncestor
    <2> QED
      BY <2>1, <2>2, EstablishedFrame
  <1>2. CASE TwoPhaseAbort(w) \/ LoseRace(w) \/ Crash(w)
    <2>1. (Answered(w, "refused") \/ Answered(w, "lost")) /\ UNCHANGED bucketVars
      BY <1>2 DEF TwoPhaseAbort, LoseRace, Crash
    <2> QED
      BY <2>1, AnsweredEstablished DEF Answers
  <1> QED
    BY <1>1, <1>2, WriteEstablished

LEMMA StepEstablished == HInv /\ IInv' /\ [Next]_vars => HInv'
  <1> SUFFICES ASSUME HInv, IInv', [Next]_vars PROVE HInv'
    OBVIOUS
  <1>1. CASE UNCHANGED vars \/ \E b \in Branches : SetRule(b)
    BY <1>1 DEF HInv, BranchesComplete, Closed, LiveBranches, Established,
       MoveEstablished, isAncestor, SetRule, bucketVars, requestVars, vars
  <1> QED
    BY <1>1, PushEstablished, MergeEstablished, TagEstablished, SharedEstablished DEF Next

LEMMA EstablishedInvariance == Spec => []HInv
  <1>1. Init => BranchesComplete /\ Established
    BY DEF Init, BranchesComplete, LiveBranches, EMPTY, Established, Refs
  <1> QED
    BY <1>1, InitInv, StepEstablished, Invariance, PTL DEF Spec, HInv

\* Every branch can be fetched: all of the history of its tip is stored, with
\* pushes that were refused or died half-way, and merges in progress.
THEOREM BranchesStayComplete == Spec => []BranchesComplete
  <1>1. HInv => BranchesComplete
    BY DEF HInv
  <1> QED
    BY <1>1, EstablishedInvariance, PTL

\* Only a write changes the document.
LEMMA OnlyWritesWrite ==
  ASSUME [Next]_vars, stored' # stored
  PROVE  \E w \in Writers : Write(w)
  <1>1. \A w \in Writers : ~Crash(w) /\ ~LoseRace(w) /\ ~TwoPhaseSnapshot(w) /\ ~TwoPhaseAbort(w)
    BY DEF Crash, LoseRace, TwoPhaseSnapshot, TwoPhaseAbort, bucketVars
  <1>2. \A p \in Pushers : ~Push(p)
    BY DEF Push, PushStart, PushStale, PushAuthorize, PushDenied, PushStore, PushValidate,
       PushInvalid, PushAnswer, bucketVars
  <1>3. \A m \in Mergers : ~Merge(m)
    BY DEF Merge, MergeResolve, MergeAlready, MergePutCommit, MergeProject, MergeDeferred,
       bucketVars
  <1>4. \A t \in Taggers : ~Tag(t)
    BY DEF Tag, TagCreate, TagDelete, TagAnswer, bucketVars
  <1> QED
    BY <1>1, <1>2, <1>3, <1>4 DEF Next, SetRule, bucketVars, vars

\* A branch moves by fast-forward, except by a push that was granted force on
\* that branch, whatever changed between the check and the write.
THEOREM OnlyForcedRewritesHold == Spec => OnlyForcedRewrites
  <1> DEFINE Rule ==
        \A b \in Branches :
          LET old == stored.doc.refs[b]
              new == stored'.doc.refs[b]
          IN old # None /\ new # None /\ ~isAncestor(old, new)
               => \E p \in Pushers : pc[p] = "cas" /\ pc'[p] = "applied" /\ b \in forced[p]
  <1>1. ASSUME HInv, [Next]_vars, NEW b \in Branches,
               stored.doc.refs[b] # None, stored'.doc.refs[b] # None,
               ~isAncestor(stored.doc.refs[b], stored'.doc.refs[b])
        PROVE  \E p \in Pushers : pc[p] = "cas" /\ pc'[p] = "applied" /\ b \in forced[p]
    <2>1. b \in Refs /\ stored.doc.refs[b] \in Commits
      BY <1>1 DEF HInv, IInv, TypeOK, BucketTypeOK, Snapshots, Docs, Refs, Sha
    <2>2. isAncestor(stored.doc.refs[b], stored.doc.refs[b])
      BY <2>1, CommitsAssumption DEF isAncestor
    <2> PICK w \in Writers : Write(w)
      BY <1>1, <2>2, OnlyWritesWrite
    <2>3. /\ Fresh(stored.doc.refs, req[w])
          /\ stored'.doc.refs = AppliedTo(stored.doc.refs, req[w])
      BY <1>1, WriteIsFresh DEF HInv
    <2>4. b \in req[w].touch
      BY <1>1, <2>1, <2>2, <2>3 DEF AppliedTo
    <2>5. w \notin Taggers
      BY <1>1, <2>4, RefsAssumption DEF HInv, IInv, RequestsFit
    <2>6. MoveEstablished(w, b)
      BY <1>1, <2>4, <2>5 DEF HInv, Established, Write
    <2>7. req[w].old[b] = stored.doc.refs[b] /\ req[w].new[b] = stored'.doc.refs[b]
      BY <2>1, <2>3, <2>4 DEF Fresh, AppliedTo
    <2>8. w \in Pushers /\ b \in forced[w]
      BY <1>1, <2>6, <2>7 DEF MoveEstablished
    <2>9. pc[w] = "cas" /\ pc'[w] = "applied"
      BY <1>1 DEF HInv, IInv, TypeOK, RequestTypeOK, Write, Goto
    <2> QED
      BY <2>8, <2>9
  <1>2. HInv /\ [Next]_vars => [Rule]_vars
    BY <1>1
  <1>3. Spec => [][Rule]_vars
    BY <1>2, EstablishedInvariance, PTL DEF Spec
  <1> QED
    BY <1>3 DEF OnlyForcedRewrites

-----------------------------------------------------------------------------
(* The default branch, and the tags.                                        *)

\* How a request comes to be about to write, and that it stays the request it was.
Prepares(w) ==
  \/ pc[w] \in {"prepare", "cas"} /\ req'[w] = req[w]
  \/ w \in Pushers /\ PushValidate(w)
  \/ w \in Mergers /\ MergeResolve(w)
  \/ w \in Taggers /\ (TagCreate(w) \/ TagDelete(w))

\* What an action of v leaves of the request of another client.
LEMMA OthersRest ==
  ASSUME IInv, NEW v \in Writers, NEW w \in Writers \ {v},
         \/ v \in Pushers /\ Push(v)
         \/ v \in Mergers /\ Merge(v)
         \/ v \in Taggers /\ Tag(v)
         \/ TwoPhaseSnapshot(v) \/ TwoPhaseAbort(v) \/ Write(v) \/ LoseRace(v) \/ Crash(v)
  PROVE  pc'[w] = pc[w] /\ req'[w] = req[w]
  <1>1. pc \in [Writers -> {"idle", "authorize", "prepare", "cas", "applied"}] /\ req \in [Writers -> Changes]
    BY DEF IInv, TypeOK, RequestTypeOK
  <1>2. ASSUME NEW a, Answered(v, a) PROVE pc'[w] = pc[w] /\ req'[w] = req[w]
    BY <1>1, <1>2 DEF Answered, Goto
  <1>3. CASE v \in Pushers /\ Push(v)
    BY <1>1, <1>2, <1>3 DEF Push, PushStart, PushStale, PushAuthorize, PushDenied, PushStore,
       PushValidate, PushInvalid, PushAnswer, Goto
  <1>4. CASE v \in Mergers /\ Merge(v)
    BY <1>1, <1>2, <1>4 DEF Merge, MergeResolve, MergeAlready, MergePutCommit, MergeProject, MergeDeferred, Goto
  <1>5. CASE v \in Taggers /\ Tag(v)
    BY <1>1, <1>2, <1>5 DEF Tag, TagCreate, TagDelete, TagAnswer, Goto
  <1>6. CASE TwoPhaseSnapshot(v) \/ TwoPhaseAbort(v) \/ Write(v) \/ LoseRace(v) \/ Crash(v)
    BY <1>1, <1>2, <1>6 DEF TwoPhaseSnapshot, TwoPhaseAbort, Write, LoseRace, Crash, Goto
  <1> QED
    BY <1>3, <1>4, <1>5, <1>6

LEMMA Preparing ==
  ASSUME IInv, [Next]_vars, NEW w \in Writers, pc'[w] \in {"prepare", "cas"}
  PROVE  Prepares(w)
  <1>1. pc \in [Writers -> {"idle", "authorize", "prepare", "cas", "applied"}] /\ req \in [Writers -> Changes]
    BY DEF IInv, TypeOK, RequestTypeOK
  <1>2. CASE pc'[w] = pc[w] /\ req'[w] = req[w]
    BY <1>2 DEF Prepares
  <1>3. ASSUME NEW a, Answered(w, a) PROVE FALSE
    BY <1>1, <1>3 DEF Answered, Goto
  <1>4. CASE w \in Pushers /\ Push(w)
    BY <1>1, <1>3, <1>4 DEF Push, PushStart, PushStale, PushAuthorize, PushDenied, PushStore,
       PushInvalid, PushAnswer, Goto, Prepares
  <1>5. CASE w \in Mergers /\ Merge(w)
    BY <1>1, <1>3, <1>5 DEF Merge, MergeAlready, MergePutCommit, MergeProject, MergeDeferred, Goto, Prepares
  <1>6. CASE w \in Taggers /\ Tag(w)
    BY <1>1, <1>3, <1>6 DEF Tag, TagAnswer, Prepares
  <1>7. CASE TwoPhaseSnapshot(w) \/ TwoPhaseAbort(w) \/ Write(w) \/ LoseRace(w) \/ Crash(w)
    BY <1>1, <1>3, <1>7 DEF TwoPhaseSnapshot, TwoPhaseAbort, Write, LoseRace, Crash, Goto, Prepares
  <1>8. CASE UNCHANGED vars \/ \E b \in Branches : SetRule(b)
    BY <1>2, <1>8 DEF SetRule, requestVars, vars
  <1> QED
    BY <1>2, <1>4, <1>5, <1>6, <1>7, <1>8, OthersRest DEF Next, Writers

\* A merge replaces a tip by a commit: it neither creates nor deletes a branch.
MergesReplace ==
  \A m \in Mergers : pc[m] \in {"prepare", "cas"} =>
    \A b \in req[m].touch : req[m].old[b] # None /\ req[m].new[b] # None

LEMMA ReplacingKept ==
  ASSUME IInv, MergesReplace, [Next]_vars
  PROVE  MergesReplace'
  <1> SUFFICES ASSUME NEW m \in Mergers, pc'[m] \in {"prepare", "cas"}, NEW r \in req'[m].touch
               PROVE  req'[m].old[r] # None /\ req'[m].new[r] # None
    BY DEF MergesReplace
  <1>1. m \in Writers /\ m \notin Pushers /\ m \notin Taggers
    BY WritersAssumption DEF Writers
  <1>2. CASE pc[m] \in {"prepare", "cas"} /\ req'[m] = req[m]
    BY <1>2 DEF MergesReplace
  <1>3. CASE MergeResolve(m)
    <2> PICK b \in LiveBranches(stored.doc.refs), n \in Commits :
          req' = [req EXCEPT ![m] = OneRef(b, stored.doc.refs[b], n)]
      BY <1>3 DEF MergeResolve, MergeTargets
    <2>1. b \in Refs /\ stored.doc.refs[b] # None /\ n # None
      BY RefsAssumption DEF LiveBranches, Refs
    <2>2. req'[m] = OneRef(b, stored.doc.refs[b], n)
      BY <1>1 DEF IInv, TypeOK, RequestTypeOK
    <2> QED
      BY <2>1, <2>2 DEF OneRef, NoChange
  <1> QED
    BY <1>1, <1>2, <1>3, Preparing DEF Prepares

\* What a writer puts names a default branch that is there, if the document it replaces did.
LEMMA WriteKeepsDefault ==
  ASSUME IInv, MergesReplace, DefaultBranchExists, NEW w \in Writers, Write(w)
  PROVE  DefaultBranchExists'
  <1> DEFINE f == stored.doc.refs
             g == AppliedTo(f, req[w])
  <1>1. /\ stored'.doc = nextDoc(w) /\ stored'.doc.refs = g
        /\ Fresh(f, req[w]) /\ snap[w].doc = stored.doc
    BY WriteIsFresh DEF IInv, EtagNamesContent, RequestsFit, SnapshotFits, Write, etagMatches
  <1>2. CASE w \in Pushers
    <2>1. nextDoc(w) = nextRefsDoc(stored.doc, req[w])
      BY <1>1, <1>2 DEF nextDoc
    <2>2. LiveBranches(g) \in SUBSET Branches /\ None \notin LiveBranches(g)
      BY RefsAssumption DEF LiveBranches
    <2> HIDE DEF g
    <2>3. nextRefsDoc(stored.doc, req[w]).defaultBranch =
            IF stored.doc.defaultBranch \in LiveBranches(g) THEN stored.doc.defaultBranch
            ELSE IF Main \in LiveBranches(g) THEN Main ELSE FirstOf[LiveBranches(g)]
      BY DEF nextRefsDoc, g
    <2> QED
      BY <1>1, <2>1, <2>2, <2>3, RefsAssumption DEF DefaultBranchExists
  <1>3. CASE w \notin Pushers
    <2>1. stored'.doc.defaultBranch = stored.doc.defaultBranch
      BY <1>1, <1>3 DEF nextDoc, mutateRefs, IInv, TypeOK, BucketTypeOK, Snapshots, Docs
    <2>2. \A b \in Branches : g[b] # None <=> f[b] # None
      <3> TAKE b \in Branches
      <3>1. b \in Refs
        BY DEF Refs
      <3>2. CASE b \notin req[w].touch
        BY <3>1, <3>2 DEF AppliedTo
      <3>3. CASE b \in req[w].touch
        <4>1. w \in Mergers /\ pc[w] = "cas"
          BY <1>3, <3>3, RefsAssumption DEF Writers, IInv, RequestsFit, Write
        <4> QED
          BY <1>1, <3>1, <3>3, <4>1 DEF MergesReplace, AppliedTo, Fresh
      <3> QED
        BY <3>2, <3>3
    <2>3. LiveBranches(g) = LiveBranches(f)
      BY <2>2 DEF LiveBranches
    <2> QED
      BY <1>1, <2>1, <2>3 DEF DefaultBranchExists
  <1> QED
    BY <1>2, <1>3

\* The default branch is a branch that exists, and there is one as soon as there is a branch:
\* pushes choose anew when it goes, merges and tag operations can rely on the one they keep.
THEOREM DefaultBranchStays == Spec => []DefaultBranchExists
  <1>1. Init => DefaultBranchExists /\ MergesReplace
    BY DEF Init, DefaultBranchExists, MergesReplace, LiveBranches, EMPTY, Refs, Writers
  <1>2. IInv /\ MergesReplace /\ DefaultBranchExists /\ [Next]_vars => DefaultBranchExists' /\ MergesReplace'
    <2> SUFFICES ASSUME IInv, MergesReplace, DefaultBranchExists, [Next]_vars
                 PROVE  DefaultBranchExists' /\ MergesReplace'
      OBVIOUS
    <2>1. CASE stored' = stored
      BY <2>1, ReplacingKept DEF DefaultBranchExists, LiveBranches
    <2>2. CASE stored' # stored
      BY <2>2, ReplacingKept, OnlyWritesWrite, WriteKeepsDefault
    <2> QED
      BY <2>1, <2>2
  <1> QED
    BY <1>1, <1>2, Invariance, PTL DEF Spec

\* What a request that is about to write puts on a tag has its history stored.
TagsEstablished ==
  \A w \in Writers : pc[w] \in {"prepare", "cas"} =>
    \A t \in req[w].touch \cap Tags : req[w].new[t] # None => Closed(req[w].new[t])

\* Objects are never taken away.
LEMMA ObjectsGrow ==
  ASSUME [Next]_vars
  PROVE  objects \subseteq objects'
  <1>1. ASSUME NEW p \in Pushers, Push(p) PROVE objects \subseteq objects'
    BY <1>1 DEF Push, PushStart, PushStale, PushAuthorize, PushDenied, PushStore, PushValidate,
       PushInvalid, PushAnswer, bucketVars
  <1>2. ASSUME NEW m \in Mergers, Merge(m) PROVE objects \subseteq objects'
    BY <1>2 DEF Merge, MergeResolve, MergeAlready, MergePutCommit, MergeProject, MergeDeferred, bucketVars
  <1>3. ASSUME NEW t \in Taggers, Tag(t) PROVE objects \subseteq objects'
    BY <1>3 DEF Tag, TagCreate, TagDelete, TagAnswer, bucketVars
  <1>4. ASSUME NEW w \in Writers, TwoPhaseSnapshot(w) \/ TwoPhaseAbort(w) \/ Write(w) \/ LoseRace(w) \/ Crash(w)
        PROVE  objects \subseteq objects'
    BY <1>4 DEF TwoPhaseSnapshot, TwoPhaseAbort, Write, LoseRace, Crash, bucketVars
  <1> QED
    BY <1>1, <1>2, <1>3, <1>4 DEF Next, SetRule, bucketVars, vars

LEMMA TagsEstablishedKept ==
  ASSUME ~TagsById, IInv, BranchesComplete, TagsComplete, TagsEstablished, [Next]_vars
  PROVE  TagsEstablished'
  <1> SUFFICES ASSUME NEW w \in Writers, pc'[w] \in {"prepare", "cas"}, NEW t \in req'[w].touch \cap Tags,
                      req'[w].new[t] # None
               PROVE  Anc[req'[w].new[t]] \subseteq objects'
    BY DEF TagsEstablished, Closed
  <1>1. objects \subseteq objects'
    BY ObjectsGrow
  <1>2. req \in [Writers -> Changes] /\ t \in Refs
    BY DEF IInv, TypeOK, RequestTypeOK, Refs
  <1>3. CASE pc[w] \in {"prepare", "cas"} /\ req'[w] = req[w]
    BY <1>1, <1>3 DEF TagsEstablished, Closed
  <1>4. CASE w \in Pushers /\ PushValidate(w)
    BY <1>1, <1>4 DEF PushValidate, ValidUpdate, Closed
  <1>5. CASE w \in Mergers /\ MergeResolve(w)
    <2> PICK b \in Branches, n \in Commits : req' = [req EXCEPT ![w] = OneRef(b, stored.doc.refs[b], n)]
      BY <1>5 DEF MergeResolve, MergeTargets, LiveBranches
    <2> QED
      BY <1>2, RefsAssumption DEF OneRef
  <1>6. CASE w \in Taggers /\ TagCreate(w)
    <2> PICK r \in Tags, c \in resolveCommitish(stored.doc.refs) : req' = [req EXCEPT ![w] = OneRef(r, None, c)]
      BY <1>6 DEF TagCreate
    <2>1. req'[w].new[t] = c
      BY <1>2 DEF OneRef, NoChange
    <2>2. PICK q \in Refs : stored.doc.refs[q] = c /\ c # None
      BY DEF resolveCommitish
    <2>3. Closed(c)
      BY <2>2 DEF BranchesComplete, LiveBranches, TagsComplete, Refs
    <2> QED
      BY <1>1, <2>1, <2>3 DEF Closed
  <1>7. CASE w \in Taggers /\ TagDelete(w)
    <2> PICK r \in Tags : req' = [req EXCEPT ![w] = OneRef(r, stored.doc.refs[r], None)]
      BY <1>7 DEF TagDelete
    <2> QED
      BY <1>2 DEF OneRef, NoChange
  <1> QED
    BY <1>3, <1>4, <1>5, <1>6, <1>7, Preparing DEF Prepares

\* A fetch of any tag finds every object it needs, where clients name a tag's target by the name
\* of a branch or of a tag.
THEOREM TagsStayComplete == ~TagsById => (Spec => []TagsComplete)
  <1> SUFFICES ASSUME ~TagsById PROVE Spec => []TagsComplete
    OBVIOUS
  <1>1. Init => TagsComplete /\ TagsEstablished
    BY DEF Init, TagsComplete, TagsEstablished, EMPTY, Refs
  <1>2. HInv /\ TagsComplete /\ TagsEstablished /\ [Next]_vars => TagsComplete' /\ TagsEstablished'
    <2> SUFFICES ASSUME HInv, TagsComplete, TagsEstablished, [Next]_vars PROVE TagsComplete' /\ TagsEstablished'
      OBVIOUS
    <2>1. objects \subseteq objects' /\ TagsEstablished'
      BY ObjectsGrow, TagsEstablishedKept DEF HInv
    <2>2. CASE stored' = stored
      BY <2>1, <2>2 DEF TagsComplete, Closed
    <2>3. CASE stored' # stored
      <3> PICK w \in Writers : Write(w)
        BY <2>3, OnlyWritesWrite
      <3>1. stored'.doc.refs = AppliedTo(stored.doc.refs, req[w]) /\ pc[w] = "cas"
        BY WriteIsFresh DEF HInv, Write
      <3>2. \A t \in Tags : t \in Refs
        BY DEF Refs
      <3> QED
        BY <2>1, <3>1, <3>2 DEF TagsComplete, TagsEstablished, AppliedTo, Closed
    <2> QED
      BY <2>2, <2>3, <2>1
  <1> QED
    BY <1>1, <1>2, EstablishedInvariance, PTL DEF Spec

-----------------------------------------------------------------------------
(* The rows of the pull requests.                                           *)

\* Every tip is on record, and so is what a merge that was applied put.
TipsArePast == \A b \in Branches : stored.doc.refs[b] \in past[b]
AppliedIsPast == \A m \in Mergers : pc[m] = "applied" => \A b \in req[m].touch : req[m].new[b] \in past[b]

\* How a merge comes to be applied.
LEMMA Applying ==
  ASSUME IInv, [Next]_vars, NEW m \in Mergers, pc'[m] = "applied"
  PROVE  \/ pc[m] = "applied" /\ req'[m] = req[m]
         \/ Write(m) \/ MergeAlready(m)
  <1>1. pc \in [Writers -> {"idle", "authorize", "prepare", "cas", "applied"}] /\ req \in [Writers -> Changes]
        /\ m \in Writers /\ m \notin Pushers /\ m \notin Taggers
    BY WritersAssumption DEF IInv, TypeOK, RequestTypeOK, Writers
  <1>2. ASSUME NEW a, Answered(m, a) PROVE FALSE
    BY <1>1, <1>2 DEF Answered, Goto
  <1>3. CASE Merge(m)
    BY <1>1, <1>2, <1>3 DEF Merge, MergeResolve, MergePutCommit, MergeProject, MergeDeferred, Goto
  <1>4. CASE TwoPhaseSnapshot(m) \/ TwoPhaseAbort(m) \/ LoseRace(m) \/ Crash(m)
    BY <1>1, <1>2, <1>4 DEF TwoPhaseSnapshot, TwoPhaseAbort, LoseRace, Crash, Goto
  <1>5. CASE UNCHANGED vars \/ \E b \in Branches : SetRule(b)
    BY <1>5 DEF SetRule, requestVars, vars
  <1> QED
    BY <1>1, <1>3, <1>4, <1>5, OthersRest DEF Next, Writers

\* What was put is never forgotten, and only writes put.
LEMMA PastGrows ==
  ASSUME IInv, [Next]_vars, NEW b \in Branches
  PROVE  /\ past[b] \subseteq past'[b]
         /\ stored'.doc.refs[b] = stored.doc.refs[b] \/ stored'.doc.refs[b] \in past'[b]
  <1>1. past \in [Branches -> SUBSET Sha]
    BY DEF IInv, TypeOK, BucketTypeOK
  <1>2. CASE stored' = stored /\ past' = past
    BY <1>2
  <1>3. ASSUME NEW w \in Writers, Write(w) PROVE past[b] \subseteq past'[b] /\ stored'.doc.refs[b] \in past'[b]
    BY <1>1, <1>3 DEF Write
  <1>4. ASSUME NEW p \in Pushers, Push(p) PROVE stored' = stored /\ past' = past
    BY <1>4 DEF Push, PushStart, PushStale, PushAuthorize, PushDenied, PushStore, PushValidate,
       PushInvalid, PushAnswer, bucketVars
  <1>5. ASSUME NEW m \in Mergers, Merge(m) PROVE stored' = stored /\ past' = past
    BY <1>5 DEF Merge, MergeResolve, MergeAlready, MergePutCommit, MergeProject, MergeDeferred, bucketVars
  <1>6. ASSUME NEW t \in Taggers, Tag(t) PROVE stored' = stored /\ past' = past
    BY <1>6 DEF Tag, TagCreate, TagDelete, TagAnswer, bucketVars
  <1>7. ASSUME NEW w \in Writers, TwoPhaseSnapshot(w) \/ TwoPhaseAbort(w) \/ LoseRace(w) \/ Crash(w)
        PROVE  stored' = stored /\ past' = past
    BY <1>7 DEF TwoPhaseSnapshot, TwoPhaseAbort, LoseRace, Crash, bucketVars
  <1> QED
    BY <1>2, <1>3, <1>4, <1>5, <1>6, <1>7 DEF Next, SetRule, bucketVars, vars

\* Only a merge that was applied writes its row.
LEMMA RowsFollow ==
  ASSUME IInv, [Next]_vars, NEW m \in Mergers, prRow'[m] # prRow[m]
  PROVE  pc[m] = "applied" /\ \E b \in req[m].touch : prRow'[m] = [base |-> b, sha |-> req[m].new[b]]
  <1>1. prRow \in [Mergers -> [base : Branches \cup {None}, sha : Sha]]
    BY DEF IInv, TypeOK, MetadataTypeOK
  <1>2. ASSUME NEW n \in Mergers, MergeProject(n)
        PROVE  pc[m] = "applied" /\ \E b \in req[m].touch : prRow'[m] = [base |-> b, sha |-> req[m].new[b]]
    BY <1>1, <1>2 DEF MergeProject
  <1>3. ASSUME NEW n \in Mergers, Merge(n), ~MergeProject(n) PROVE prRow' = prRow
    BY <1>3 DEF Merge, MergeResolve, MergeAlready, MergePutCommit, MergeDeferred
  <1>4. ASSUME NEW p \in Pushers, Push(p) PROVE prRow' = prRow
    BY <1>4 DEF Push, PushStart, PushStale, PushAuthorize, PushDenied, PushStore, PushValidate,
       PushInvalid, PushAnswer
  <1>5. ASSUME NEW t \in Taggers, Tag(t) PROVE prRow' = prRow
    BY <1>5 DEF Tag, TagCreate, TagDelete, TagAnswer
  <1>6. ASSUME NEW w \in Writers, TwoPhaseSnapshot(w) \/ TwoPhaseAbort(w) \/ Write(w) \/ LoseRace(w) \/ Crash(w)
        PROVE  prRow' = prRow
    BY <1>6 DEF TwoPhaseSnapshot, TwoPhaseAbort, Write, LoseRace, Crash
  <1> QED
    BY <1>2, <1>3, <1>4, <1>5, <1>6 DEF Next, SetRule, vars

\* D1 never runs ahead of R2: a pull request that is recorded as merged records a commit its base
\* branch pointed at, whoever dies between the put and the row.
THEOREM RowsFollowRefs == Spec => []MergedRowWasInstalled
  <1>1. Init => MergedRowWasInstalled /\ TipsArePast /\ AppliedIsPast
    BY DEF Init, MergedRowWasInstalled, TipsArePast, AppliedIsPast, NoRow, EMPTY, Refs, Writers
  <1>2. IInv /\ MergedRowWasInstalled /\ TipsArePast /\ AppliedIsPast /\ [Next]_vars
          => MergedRowWasInstalled' /\ TipsArePast' /\ AppliedIsPast'
    <2> SUFFICES ASSUME IInv, MergedRowWasInstalled, TipsArePast, AppliedIsPast, [Next]_vars
                 PROVE  MergedRowWasInstalled' /\ TipsArePast' /\ AppliedIsPast'
      OBVIOUS
    <2>1. TipsArePast'
      BY PastGrows DEF TipsArePast
    <2>2. ASSUME NEW m \in Mergers, pc'[m] = "applied", NEW b \in req'[m].touch PROVE req'[m].new[b] \in past'[b]
      <3>1. m \in Writers /\ req[m].touch \subseteq Branches /\ req \in [Writers -> Changes]
        BY DEF Writers, IInv, RequestsFit, TypeOK, RequestTypeOK
      <3>2. CASE pc[m] = "applied" /\ req'[m] = req[m]
        BY <2>2, <3>1, <3>2, PastGrows DEF AppliedIsPast
      <3>3. CASE Write(m)
        <4>1. req' = req /\ b \in Branches /\ b \in Refs
          BY <2>2, <3>1, <3>3 DEF Write, Refs
        <4>2. stored'.doc.refs[b] = req[m].new[b]
          BY <2>2, <3>1, <3>3, <4>1, WriteIsFresh DEF AppliedTo
        <4> QED
          BY <2>1, <4>1, <4>2 DEF TipsArePast
      <3>4. CASE MergeAlready(m)
        <4> PICK c \in LiveBranches(stored.doc.refs) :
              req' = [req EXCEPT ![m] = OneRef(c, stored.doc.refs[c], stored.doc.refs[c])]
          BY <3>4 DEF MergeAlready
        <4>1. b = c /\ c \in Branches /\ c \in Refs /\ req'[m].new[b] = stored.doc.refs[b]
          BY <2>2, <3>1 DEF OneRef, NoChange, LiveBranches, Refs
        <4> QED
          BY <4>1, PastGrows DEF TipsArePast
      <3> QED
        BY <2>2, <3>2, <3>3, <3>4, Applying
    <2>3. ASSUME NEW m \in Mergers, prRow'[m].base # None PROVE prRow'[m].sha \in past'[prRow'[m].base]
      <3>1. CASE prRow'[m] = prRow[m]
        <4>1. prRow[m].base \in Branches
          BY <2>3, <3>1 DEF IInv, TypeOK, MetadataTypeOK
        <4> QED
          BY <2>3, <3>1, <4>1, PastGrows DEF MergedRowWasInstalled
      <3>2. CASE prRow'[m] # prRow[m]
        <4> PICK b \in req[m].touch : prRow'[m] = [base |-> b, sha |-> req[m].new[b]]
          BY <3>2, RowsFollow
        <4>1. pc[m] = "applied" /\ b \in Branches
          BY <3>2, RowsFollow DEF IInv, RequestsFit, Writers
        <4> QED
          BY <4>1, PastGrows DEF AppliedIsPast
      <3> QED
        BY <3>1, <3>2
    <2> QED
      BY <2>1, <2>2, <2>3 DEF MergedRowWasInstalled, AppliedIsPast
  <1> QED
    BY <1>1, <1>2, Invariance, PTL DEF Spec
=============================================================================
