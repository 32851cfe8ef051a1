--------------------------- MODULE ServicesProofs ---------------------------
(***************************************************************************)
(* What the smaller services promise, for any number of actors, names and     *)
(* failures: a purge leaves nothing of what it found (Apart, LeftIsClean,       *)
(* CleanersAreUsed); an organization keeps an admin and an identity its row       *)
(* (Calls, OwnRow); a release is the build of its tag (Placed, GateBuilt,           *)
(* PublishedSoFar, ReleasesAreTagged); one button makes one comment (ScreenInv);     *)
(* an issue has a number of its own, and a walk through the pages misses none        *)
(* (IssuesInv); the attempts of a run are counted without a gap (RunsInv); a row        *)
(* that points at a text has one, and the newest status of a context counts             *)
(* (ChecksInv, Counted).                                                                *)
(***************************************************************************)
EXTENDS Membership, Purge, Publication, IssueTracker, Checks, IssueScreen, RunRequests, CopiesProofs

-----------------------------------------------------------------------------
(* The emptying of the buckets.                                              *)

Slots == 1..Len(Buckets)
CleanerType == [by : Scripts, open : BOOLEAN]
ScriptType == [at : Places, i : Slots, tries : 0..MAX_READY_ATTEMPTS, deleted : Nat, error : BOOLEAN]

\* What is yet to be written is not stored, and no run was started to delete it.
Apart ==
    /\ stored \cap unwritten = {}
    /\ \A s \in Scripts : found[s] \cap unwritten = {}

\* The buckets that a run has left behind it hold nothing of what it found.
LeftIsClean ==
    \A s \in Scripts :
        /\ At(s, "new") => script[s].i = 1
        /\ At(s, "succeeded") => script[s].i = Len(Buckets)
        /\ ~At(s, "failed") =>
             \A k \in Slots, o \in found[s] \cap stored : o[1] = Buckets[k] =>
                ~(k < script[s].i \/ (k = script[s].i /\ ((At(s, "remove") /\ ~script[s].error) \/ At(s, "succeeded"))))

\* A run that gave up an upload, or that was killed, does not succeed.
GaveUp(s) == At(s, "failed") \/ (At(s, "remove") /\ script[s].error)

\* A cleaner is that of a run that is at its bucket, or of one that does not succeed.
CleanersAreUsed ==
    /\ \A u \in upload : GaveUp(u[2])
    /\ \A k \in Slots : cleaner[k] # NoCleaner =>
          \/ GaveUp(cleaner[k].by)
          \/ script[cleaner[k].by].at \in {"open", "page", "remove"} /\ script[cleaner[k].by].i = k

PurgeInv == UTypeOK /\ Apart /\ LeftIsClean /\ CleanersAreUsed

LEMMA PurgeInitially == PurgeAssumption /\ UInit => PurgeInv
<1> SUFFICES ASSUME PurgeAssumption, UInit PROVE PurgeInv
  OBVIOUS
<1>1. 1 \in Slots /\ NewScript \in ScriptType
  BY DEF PurgeAssumption, Slots, NewScript, ScriptType, Places
<1>2. UTypeOK
  BY <1>1 DEF PurgeAssumption, UInit, UTypeOK, Slots, ScriptType
<1>3. Apart
  BY DEF UInit, Apart
<1>4. LeftIsClean
  BY DEF UInit, LeftIsClean, NewScript, At
<1>5. CleanersAreUsed
  BY DEF UInit, CleanersAreUsed, Slots
<1> QED
  BY <1>2, <1>3, <1>4, <1>5 DEF PurgeInv

\* Where a run is has its type, and so has what is changed of it.
LEMMA ScriptFacts ==
    ASSUME UTypeOK, NEW s \in Scripts
    PROVE  /\ script \in [Scripts -> ScriptType] /\ script[s] \in ScriptType
           /\ script[s].i \in Slots /\ script[s].tries \in 0..MAX_READY_ATTEMPTS /\ script[s].deleted \in Nat
           /\ script[s].error \in BOOLEAN /\ script[s].at \in Places
<1>1. script \in [Scripts -> ScriptType] /\ script[s] \in ScriptType
  BY DEF UTypeOK, ScriptType, Slots
<1> QED
  BY <1>1 DEF ScriptType

LEMMA ScriptMoves ==
    ASSUME UTypeOK, NEW s \in Scripts, NEW a \in Places
    PROVE  /\ [script EXCEPT ![s].at = a] \in [Scripts -> ScriptType]
           /\ \A x \in BOOLEAN : [script EXCEPT ![s].at = a, ![s].error = x] \in [Scripts -> ScriptType]
           /\ \A i \in Slots : [script EXCEPT ![s].at = a, ![s].i = i] \in [Scripts -> ScriptType]
           /\ \A t \in 0..MAX_READY_ATTEMPTS :
                /\ [script EXCEPT ![s].tries = t] \in [Scripts -> ScriptType]
                /\ \A d \in Nat : [script EXCEPT ![s].at = a, ![s].tries = t, ![s].deleted = d] \in [Scripts -> ScriptType]
                /\ \A x \in BOOLEAN : [script EXCEPT ![s].at = a, ![s].tries = t, ![s].error = x] \in [Scripts -> ScriptType]
<1>1. script \in [Scripts -> ScriptType] /\ script[s] \in ScriptType
  BY DEF UTypeOK, ScriptType, Slots
<1> QED
  BY <1>1 DEF ScriptType

\* A page is of what is in its bucket, and an empty one says that nothing is.
LEMMA PageFacts ==
    ASSUME PurgeAssumption, UTypeOK, NEW b, NEW p \in Page(b)
    PROVE  /\ p \subseteq In(b) /\ In(b) \subseteq stored /\ Cardinality(p) \in Nat
           /\ p = {} => In(b) = {}
<1>1. p \subseteq In(b) /\ In(b) \subseteq stored /\ stored \subseteq Objects
  BY DEF Page, In, UTypeOK
<1>2. IsFiniteSet(In(b)) /\ IsFiniteSet(p)
  BY <1>1, FS_Subset DEF PurgeAssumption
<1>3. Cardinality(In(b)) \in Nat /\ Cardinality(p) \in Nat /\ (In(b) # {} => Cardinality(In(b)) # 0)
  BY <1>2, FS_CardinalityType, FS_EmptySet
<1>4. p = {} => Cardinality(p) = 0
  BY FS_EmptySet
<1> QED
  BY <1>1, <1>3, <1>4 DEF Page, PurgeAssumption

\* To go on, or to hold an error, keeps the type.
LEMMA GoesOn ==
    ASSUME UTypeOK, NEW s \in Scripts, Hold(s) \/ \E a \in Places : GoTo(s, a)
    PROVE  script' \in [Scripts -> ScriptType]
<1>1. CASE Hold(s)
  <2>1. "remove" \in Places /\ TRUE \in BOOLEAN
    BY DEF Places
  <2> QED
    BY <1>1, <2>1, ScriptMoves DEF Hold
<1>2. ASSUME NEW a \in Places, GoTo(s, a) PROVE script' \in [Scripts -> ScriptType]
  BY <1>2, ScriptMoves DEF GoTo
<1> QED
  BY <1>1, <1>2

LEMMA PurgeTyped ==
    ASSUME PurgeAssumption, UTypeOK, [UNext]_uvars
    PROVE  UTypeOK'
<1>1. CASE UNCHANGED uvars
  BY <1>1 DEF uvars, UTypeOK
<1>2. ASSUME NEW o \in Objects, Write(o) PROVE UTypeOK'
  BY <1>2 DEF Write, UTypeOK
<1>3. ASSUME NEW u \in upload, ArriveLate(u) PROVE UTypeOK'
  <2>1. u[1] \in Slots /\ u[2] \in Scripts /\ Uploaded(u[2]) \in CleanerType
    BY DEF Slots, Uploaded, CleanerType, UTypeOK
  <2> QED
    BY <1>3, <2>1 DEF ArriveLate, Slots, CleanerType, UTypeOK
<1>4. ASSUME NEW s \in Scripts, Configure(s) PROVE UTypeOK'
  <2>1. script' \in [Scripts -> ScriptType]
    <3>1. CASE GoTo(s, "put")
      BY <3>1, ScriptMoves, "put" \in Places DEF GoTo, Places
    <3>2. CASE GoTo(s, "failed")
      BY <3>2, ScriptMoves, "failed" \in Places DEF GoTo, Places
    <3> QED
      BY <1>4, <3>1, <3>2 DEF Configure
  <2>2. faults' \in 0..MaxFaults
    BY <1>4 DEF Configure, Fault, PurgeAssumption, UTypeOK
  <2>3. found' \in [Scripts -> SUBSET Objects]
    BY <1>4 DEF Configure, UTypeOK
  <2> QED
    BY <1>4, <2>1, <2>2, <2>3 DEF Configure, ScriptType, Slots, UTypeOK
<1>5. ASSUME NEW s \in Scripts, PutCleaner(s) PROVE UTypeOK'
  <2>1. script' \in [Scripts -> ScriptType]
    BY <1>5, GoesOn DEF PutCleaner, Places
  <2>2. faults' \in 0..MaxFaults
    BY <1>5 DEF PutCleaner, Fault, PurgeAssumption, UTypeOK
  <2>3. script[s].i \in Slots /\ Uploaded(s) \in CleanerType
    BY ScriptFacts DEF Uploaded, CleanerType
  <2>4. cleaner' \in [Slots -> {NoCleaner} \cup CleanerType]
    BY <1>5, <2>3 DEF PutCleaner, Slots, CleanerType, UTypeOK
  <2>5. upload' \in SUBSET (Slots \X Scripts)
    BY <1>5, <2>3 DEF PutCleaner, Slots, UTypeOK
  <2> QED
    BY <1>5, <2>1, <2>2, <2>4, <2>5 DEF PutCleaner, ScriptType, Slots, CleanerType, UTypeOK
<1>6. ASSUME NEW s \in Scripts, OpenCleaner(s) PROVE UTypeOK'
  <2>1. script' \in [Scripts -> ScriptType]
    BY <1>6, GoesOn DEF OpenCleaner, Places
  <2>2. faults' \in 0..MaxFaults
    BY <1>6 DEF OpenCleaner, Fault, PurgeAssumption, UTypeOK
  <2>3. script[s].i \in Slots /\ cleaner \in [Slots -> {NoCleaner} \cup CleanerType]
    BY ScriptFacts DEF Slots, CleanerType, UTypeOK
  <2>4. cleaner' \in [Slots -> {NoCleaner} \cup CleanerType]
    BY <1>6, <2>3 DEF OpenCleaner, CleanerType
  <2> QED
    BY <1>6, <2>1, <2>2, <2>4 DEF OpenCleaner, ScriptType, Slots, CleanerType, UTypeOK
<1>7. ASSUME NEW s \in Scripts, CleanPage(s) PROVE UTypeOK'
  <2>1. PICK p \in Page(BucketOf(s)) :
           /\ stored' = stored \ p
           /\ script' = [script EXCEPT ![s].at = IF p = {} THEN "remove" ELSE "page",
                                       ![s].tries = 0, ![s].deleted = @ + Cardinality(p)]
    BY <1>7 DEF CleanPage
  <2>2. script[s].deleted + Cardinality(p) \in Nat /\ 0 \in 0..MAX_READY_ATTEMPTS
    BY PageFacts, ScriptFacts DEF PurgeAssumption
  <2>3. script' = [script EXCEPT ![s].at = IF p = {} THEN "remove" ELSE "page",
                                 ![s].tries = 0, ![s].deleted = script[s].deleted + Cardinality(p)]
    BY <2>1, ScriptFacts DEF ScriptType
  <2>4. (IF p = {} THEN "remove" ELSE "page") \in Places
    BY DEF Places
  <2>5. script' \in [Scripts -> ScriptType]
    BY <2>2, <2>3, <2>4, ScriptMoves
  <2> QED
    BY <1>7, <2>1, <2>5 DEF CleanPage, ScriptType, Slots, UTypeOK
<1>8. ASSUME NEW s \in Scripts, MissPage(s) PROVE UTypeOK'
  <2>1. script[s].tries \in 0..MAX_READY_ATTEMPTS /\ 0 \in 0..MAX_READY_ATTEMPTS
    BY ScriptFacts DEF PurgeAssumption
  <2>2. script' \in [Scripts -> ScriptType]
    <3>1. CASE script[s].tries + 1 < MAX_READY_ATTEMPTS
      <4>1. script' = [script EXCEPT ![s].tries = script[s].tries + 1]
        BY <1>8, <3>1, ScriptFacts DEF MissPage, Retried, ScriptType
      <4>2. script[s].tries + 1 \in 0..MAX_READY_ATTEMPTS
        BY <2>1, <3>1 DEF PurgeAssumption
      <4> QED
        BY <4>1, <4>2, ScriptMoves DEF Places
    <3>2. CASE ~(script[s].tries + 1 < MAX_READY_ATTEMPTS)
      <4>1. script' = [script EXCEPT ![s].at = "remove", ![s].tries = 0, ![s].error = TRUE]
        BY <1>8, <3>2 DEF MissPage, Retried
      <4>2. "remove" \in Places
        BY DEF Places
      <4> QED
        BY <2>1, <4>1, <4>2, ScriptMoves
    <3> QED
      BY <3>1, <3>2
  <2>3. faults' \in 0..MaxFaults /\ stored' \subseteq stored
    BY <1>8 DEF MissPage, Fault, PurgeAssumption, UTypeOK
  <2> QED
    BY <1>8, <2>2, <2>3 DEF MissPage, ScriptType, Slots, UTypeOK
<1>9. ASSUME NEW s \in Scripts, RemoveCleaner(s) PROVE UTypeOK'
  <2>1. script[s].i \in Slots /\ (script[s].i # Len(Buckets) => script[s].i + 1 \in Slots)
    BY ScriptFacts DEF Slots, PurgeAssumption
  <2>2. "failed" \in Places /\ "put" \in Places /\ "succeeded" \in Places
    BY DEF Places
  <2>3. script' \in [Scripts -> ScriptType]
    <3>1. CASE \E a \in Places : GoTo(s, a)
      BY <3>1, GoesOn
    <3>2. CASE script[s].i # Len(Buckets) /\ script' = [script EXCEPT ![s].at = "put", ![s].i = script[s].i + 1]
      BY <2>1, <2>2, <3>2, ScriptMoves
    <3> QED
      BY <1>9, <2>2, <3>1, <3>2 DEF RemoveCleaner
  <2>4. faults' \in 0..MaxFaults
    BY <1>9 DEF RemoveCleaner, Fault, PurgeAssumption, UTypeOK
  <2>5. cleaner \in [Slots -> {NoCleaner} \cup CleanerType]
    BY DEF Slots, CleanerType, UTypeOK
  <2>6. cleaner' \in [Slots -> {NoCleaner} \cup CleanerType]
    BY <1>9, <2>1, <2>5 DEF RemoveCleaner
  <2> QED
    BY <1>9, <2>3, <2>4, <2>6 DEF RemoveCleaner, ScriptType, Slots, CleanerType, UTypeOK
<1>10. ASSUME NEW s \in Scripts, Kill(s) PROVE UTypeOK'
  <2>1. script' \in [Scripts -> ScriptType]
    BY <1>10, GoesOn DEF Kill, Places
  <2>2. faults' \in 0..MaxFaults
    BY <1>10 DEF Kill, Fault, PurgeAssumption, UTypeOK
  <2> QED
    BY <1>10, <2>1, <2>2 DEF Kill, ScriptType, Slots, UTypeOK
<1> QED
  BY <1>1, <1>2, <1>3, <1>4, <1>5, <1>6, <1>7, <1>8, <1>9, <1>10 DEF UNext

\* What is yet to be written stays apart: a run finds what is stored, and what is stored was written.
LEMMA ApartStep ==
    ASSUME UTypeOK, Apart, [UNext]_uvars
    PROVE  Apart'
<1>1. CASE UNCHANGED uvars
  BY <1>1 DEF uvars, Apart
<1>2. ASSUME NEW o \in Objects, Write(o) PROVE Apart'
  BY <1>2 DEF Write, Apart
<1>3. ASSUME NEW u \in upload, ArriveLate(u) PROVE Apart'
  BY <1>3 DEF ArriveLate, Apart
<1>4. ASSUME NEW s \in Scripts, Configure(s) PROVE Apart'
  BY <1>4 DEF Configure, Apart, UTypeOK
<1>5. ASSUME NEW s \in Scripts, PutCleaner(s) \/ OpenCleaner(s) \/ RemoveCleaner(s) \/ Kill(s) PROVE Apart'
  BY <1>5 DEF PutCleaner, OpenCleaner, RemoveCleaner, Kill, Apart
<1>6. ASSUME NEW s \in Scripts, CleanPage(s) \/ MissPage(s) PROVE Apart'
  BY <1>6 DEF CleanPage, MissPage, Apart
<1> QED
  BY <1>1, <1>2, <1>3, <1>4, <1>5, <1>6 DEF UNext

\* What a run does is done to its own place alone, and every action of a run is one of these.
LEMMA OwnPlace ==
    ASSUME UTypeOK, NEW s \in Scripts,
           Configure(s) \/ PutCleaner(s) \/ OpenCleaner(s) \/ CleanPage(s) \/ MissPage(s) \/ RemoveCleaner(s) \/ Kill(s)
    PROVE  \A r \in Scripts : r # s => script'[r] = script[r]
<1>1. script \in [Scripts -> ScriptType]
  BY ScriptFacts
<1>2. CASE Configure(s) \/ PutCleaner(s) \/ OpenCleaner(s) \/ Kill(s)
  BY <1>1, <1>2 DEF Configure, PutCleaner, OpenCleaner, Kill, GoTo, Hold
<1>3. CASE CleanPage(s)
  BY <1>1, <1>3 DEF CleanPage
<1>4. CASE MissPage(s)
  BY <1>1, <1>4 DEF MissPage, Retried
<1>5. CASE RemoveCleaner(s)
  BY <1>1, <1>5 DEF RemoveCleaner, GoTo
<1> QED
  BY <1>2, <1>3, <1>4, <1>5

\* What LeftIsClean says of one run.
LeftBy(s) ==
    /\ At(s, "new") => script[s].i = 1
    /\ At(s, "succeeded") => script[s].i = Len(Buckets)
    /\ ~At(s, "failed") =>
         \A k \in Slots, o \in found[s] \cap stored : o[1] = Buckets[k] =>
            ~(k < script[s].i \/ (k = script[s].i /\ ((At(s, "remove") /\ ~script[s].error) \/ At(s, "succeeded"))))

\* A run that does nothing, and finds no more of what it found, has left as much behind.
LEMMA LeftStays ==
    ASSUME LeftIsClean, NEW s \in Scripts, script'[s] = script[s], found'[s] \cap stored' \subseteq found[s] \cap stored
    PROVE  LeftBy(s)'
BY DEF LeftIsClean, LeftBy, At

LEMMA LeftStep ==
    ASSUME PurgeAssumption, PurgeInv, [UNext]_uvars
    PROVE  LeftIsClean'
<1> USE DEF PurgeInv
<1>1. SUFFICES ASSUME NEW r \in Scripts PROVE LeftBy(r)'
  BY DEF LeftIsClean, LeftBy
<1>2. CASE UNCHANGED uvars
  BY <1>2, LeftStays DEF uvars
<1>3. ASSUME NEW o \in Objects, Write(o) PROVE LeftBy(r)'
  BY <1>3, LeftStays DEF Write, Apart
<1>4. ASSUME NEW u \in upload, ArriveLate(u) PROVE LeftBy(r)'
  BY <1>4, LeftStays DEF ArriveLate
<1>5. ASSUME NEW s \in Scripts, s # r,
             Configure(s) \/ PutCleaner(s) \/ OpenCleaner(s) \/ CleanPage(s) \/ MissPage(s) \/ RemoveCleaner(s) \/ Kill(s)
      PROVE  LeftBy(r)'
  <2>1. script'[r] = script[r]
    BY <1>5, OwnPlace
  <2>2. found'[r] \cap stored' \subseteq found[r] \cap stored
    BY <1>5 DEF Configure, PutCleaner, OpenCleaner, CleanPage, MissPage, RemoveCleaner, Kill, UTypeOK
  <2> QED
    BY <2>1, <2>2, LeftStays
<1>6. script \in [Scripts -> ScriptType] /\ script[r] \in ScriptType /\ script[r].i \in Slots
  BY ScriptFacts
<1>7. CASE Configure(r)
  BY <1>6, <1>7 DEF Configure, GoTo, At, LeftIsClean, LeftBy, ScriptType, Slots
<1>8. CASE PutCleaner(r)
  <2>1. /\ script'[r].i = script[r].i /\ found' = found /\ stored' = stored /\ script[r].at = "put"
        /\ script'[r].at = "open" \/ (script'[r].at = "remove" /\ script'[r].error)
    BY <1>6, <1>8 DEF PutCleaner, GoTo, Hold, ScriptType, At
  <2> QED
    BY <1>6, <2>1 DEF At, LeftIsClean, LeftBy
<1>9. CASE OpenCleaner(r)
  BY <1>6, <1>9 DEF OpenCleaner, GoTo, Hold, At, LeftIsClean, LeftBy, ScriptType, Slots
<1>10. CASE CleanPage(r)
  <2>1. PICK p \in Page(BucketOf(r)) :
           /\ stored' = stored \ p
           /\ script' = [script EXCEPT ![r].at = IF p = {} THEN "remove" ELSE "page",
                                       ![r].tries = 0, ![r].deleted = @ + Cardinality(p)]
    BY <1>10 DEF CleanPage
  <2>2. p = {} => \A o \in stored : o[1] # Buckets[script[r].i]
    BY PageFacts DEF In, BucketOf
  <2>3. /\ script'[r].at = IF p = {} THEN "remove" ELSE "page"
        /\ script'[r].i = script[r].i /\ found' = found /\ stored' \subseteq stored /\ script[r].at = "page"
    BY <1>6, <1>10, <2>1 DEF CleanPage, ScriptType, At
  <2> QED
    BY <1>6, <2>2, <2>3 DEF At, LeftIsClean, LeftBy
<1>11. CASE MissPage(r)
  <2>1. /\ script'[r].i = script[r].i /\ found' = found /\ stored' \subseteq stored /\ script[r].at = "page"
        /\ script'[r].at = "page" \/ (script'[r].at = "remove" /\ script'[r].error)
    BY <1>6, <1>11 DEF MissPage, Retried, ScriptType, At
  <2> QED
    BY <1>6, <2>1 DEF At, LeftIsClean, LeftBy
<1>12. CASE RemoveCleaner(r)
  <2>1. found' = found /\ stored' = stored /\ script[r].at = "remove" /\ Len(Buckets) \in Nat
    BY <1>12 DEF RemoveCleaner, At, PurgeAssumption
  <2>2. \/ script'[r].at = "failed"
        \/ script'[r].at = "succeeded" /\ script'[r].i = script[r].i /\ script[r].i = Len(Buckets) /\ ~script[r].error
        \/ script'[r].at = "put" /\ script'[r].i = script[r].i + 1 /\ ~script[r].error
    BY <1>6, <1>12 DEF RemoveCleaner, GoTo, ScriptType
  <2> QED
    BY <1>6, <2>1, <2>2 DEF At, LeftIsClean, LeftBy, Slots
<1>13. CASE Kill(r)
  BY <1>6, <1>13 DEF Kill, GoTo, At, LeftIsClean, LeftBy, ScriptType, Slots
<1> QED
  BY <1>2, <1>3, <1>4, <1>5, <1>7, <1>8, <1>9, <1>10, <1>11, <1>12, <1>13 DEF UNext

\* A run that gave up does not come back.
LEMMA GaveUpStays ==
    ASSUME UTypeOK, [UNext]_uvars, NEW r \in Scripts, GaveUp(r)
    PROVE  GaveUp(r)'
<1>1. script \in [Scripts -> ScriptType] /\ script[r] \in ScriptType
  BY ScriptFacts
<1>2. CASE script' = script
  BY <1>2 DEF GaveUp, At
<1>3. ASSUME NEW s \in Scripts, s # r,
             Configure(s) \/ PutCleaner(s) \/ OpenCleaner(s) \/ CleanPage(s) \/ MissPage(s) \/ RemoveCleaner(s) \/ Kill(s)
      PROVE  GaveUp(r)'
  BY <1>3, OwnPlace DEF GaveUp, At
<1>4. CASE Configure(r) \/ PutCleaner(r) \/ OpenCleaner(r) \/ CleanPage(r) \/ MissPage(r)
  BY <1>4 DEF Configure, PutCleaner, OpenCleaner, CleanPage, MissPage, GaveUp, At
<1>5. CASE RemoveCleaner(r) \/ Kill(r)
  BY <1>1, <1>5 DEF RemoveCleaner, Kill, GaveUp, At, GoTo, ScriptType
<1>6. (\E o \in Objects : Write(o)) \/ (\E u \in upload : ArriveLate(u)) \/ UNCHANGED uvars => script' = script
  BY DEF Write, ArriveLate, uvars
<1> QED
  BY <1>2, <1>3, <1>4, <1>5, <1>6 DEF UNext

\* The cleaner of one bucket, as CleanersAreUsed has it.
UsedAt(k) ==
    cleaner[k] # NoCleaner =>
        \/ GaveUp(cleaner[k].by)
        \/ script[cleaner[k].by].at \in {"open", "page", "remove"} /\ script[cleaner[k].by].i = k

\* A cleaner stays one of a run that uses it where neither is touched.
LEMMA UsedStays ==
    ASSUME UTypeOK, [UNext]_uvars, NEW k \in Slots, UsedAt(k), cleaner'[k] = cleaner[k],
           cleaner[k] # NoCleaner => \/ script'[cleaner[k].by] = script[cleaner[k].by]
                                     \/ GaveUp(cleaner[k].by)
    PROVE  UsedAt(k)'
<1>1. cleaner[k] # NoCleaner => cleaner[k].by \in Scripts
  BY DEF UTypeOK, Slots
<1>2. cleaner[k] # NoCleaner /\ GaveUp(cleaner[k].by) => GaveUp(cleaner[k].by)'
  BY <1>1, GaveUpStays
<1> QED
  BY <1>1, <1>2 DEF UsedAt, GaveUp, At

LEMMA UploadsStep ==
    ASSUME UTypeOK, CleanersAreUsed, [UNext]_uvars
    PROVE  \A u \in upload' : GaveUp(u[2])'
<1>1. ASSUME NEW u \in upload PROVE GaveUp(u[2])'
  <2>1. u[2] \in Scripts /\ GaveUp(u[2])
    BY DEF UTypeOK, CleanersAreUsed
  <2> QED
    BY <2>1, GaveUpStays
<1>2. CASE upload' \subseteq upload
  BY <1>1, <1>2
<1>3. ASSUME NEW s \in Scripts, PutCleaner(s), ~(upload' \subseteq upload)
      PROVE  \A u \in upload' : GaveUp(u[2])'
  <2>1. script \in [Scripts -> ScriptType]
    BY ScriptFacts
  <2>2. upload' = upload \cup {<<script[s].i, s>>} /\ Hold(s)
    BY <1>3 DEF PutCleaner
  <2>3. GaveUp(s)'
    BY <2>1, <2>2 DEF Hold, GaveUp, At, ScriptType
  <2> QED
    BY <1>1, <2>2, <2>3
<1>4. ASSUME NEW s \in Scripts, Configure(s) \/ OpenCleaner(s) \/ CleanPage(s) \/ MissPage(s) \/ RemoveCleaner(s) \/ Kill(s)
      PROVE  upload' \subseteq upload
  BY <1>4 DEF Configure, OpenCleaner, CleanPage, MissPage, RemoveCleaner, Kill
<1>5. (\E o \in Objects : Write(o)) \/ (\E u \in upload : ArriveLate(u)) \/ UNCHANGED uvars => upload' \subseteq upload
  BY DEF Write, ArriveLate, uvars
<1> QED
  BY <1>2, <1>3, <1>4, <1>5 DEF UNext

LEMMA CleanersStep ==
    ASSUME PurgeAssumption, PurgeInv, [UNext]_uvars
    PROVE  CleanersAreUsed'
<1> USE DEF PurgeInv
<1>1. \A u \in upload' : GaveUp(u[2])'
  BY UploadsStep
<1>2. SUFFICES ASSUME NEW k \in Slots PROVE UsedAt(k)'
  BY <1>1 DEF CleanersAreUsed, UsedAt
<1>3. UsedAt(k) /\ cleaner \in [Slots -> {NoCleaner} \cup CleanerType]
  BY DEF CleanersAreUsed, UsedAt, UTypeOK, Slots, CleanerType
<1>4. cleaner[k] # NoCleaner => cleaner[k].by \in Scripts
  BY <1>3 DEF CleanerType
<1>5. CASE UNCHANGED uvars
  BY <1>3, <1>5, UsedStays DEF uvars
<1>6. ASSUME NEW o \in Objects, Write(o) PROVE UsedAt(k)'
  BY <1>3, <1>6, UsedStays DEF Write
<1>7. ASSUME NEW u \in upload, ArriveLate(u) PROVE UsedAt(k)'
  <2>1. u[2] \in Scripts /\ GaveUp(u[2]) /\ script' = script /\ u[1] \in Slots
    BY <1>7 DEF CleanersAreUsed, UTypeOK, ArriveLate, Slots
  <2>2. CASE cleaner'[k] = cleaner[k]
    BY <1>3, <2>1, <2>2, UsedStays
  <2>3. CASE cleaner'[k] = Uploaded(u[2])
    BY <2>1, <2>3 DEF UsedAt, Uploaded, GaveUp, At
  <2> QED
    BY <1>3, <1>7, <2>1, <2>2, <2>3 DEF ArriveLate
<1>8. ASSUME NEW s \in Scripts,
             Configure(s) \/ PutCleaner(s) \/ OpenCleaner(s) \/ CleanPage(s) \/ MissPage(s) \/ RemoveCleaner(s) \/ Kill(s)
      PROVE  UsedAt(k)'
  <2>1. script \in [Scripts -> ScriptType] /\ script[s] \in ScriptType /\ script[s].i \in Slots
    BY ScriptFacts
  <2>2. \A r \in Scripts : r # s => script'[r] = script[r]
    BY <1>8, OwnPlace
  <2>3. CASE cleaner'[k] = cleaner[k] /\ (cleaner[k] = NoCleaner \/ cleaner[k].by # s \/ GaveUp(s))
    <3>1. cleaner[k] # NoCleaner => script'[cleaner[k].by] = script[cleaner[k].by] \/ GaveUp(cleaner[k].by)
      BY <1>4, <2>2, <2>3
    <3> QED
      BY <1>3, <2>3, <3>1, UsedStays
  <2>4. ASSUME cleaner[k] # NoCleaner, cleaner[k].by = s, ~GaveUp(s)
        PROVE  script[s].at \in {"open", "page", "remove"} /\ script[s].i = k
    BY <1>3, <2>4 DEF UsedAt
  <2>5. CASE Configure(s)
    BY <1>3, <2>3, <2>4, <2>5 DEF Configure, At
  <2>6. CASE PutCleaner(s)
    <3>1. script[s].at = "put" /\ script'[s].i = script[s].i
      BY <2>1, <2>6 DEF PutCleaner, At, GoTo, Hold, ScriptType
    <3>2. CASE cleaner'[k] = cleaner[k]
      BY <2>3, <2>4, <3>1, <3>2
    <3>3. CASE cleaner'[k] # cleaner[k]
      <4>1. k = script[s].i /\ cleaner'[k] = Uploaded(s) /\ GoTo(s, "open")
        BY <1>3, <2>1, <2>6, <3>3 DEF PutCleaner
      <4>2. script'[s].at = "open"
        BY <2>1, <4>1 DEF GoTo, ScriptType
      <4> QED
        BY <3>1, <4>1, <4>2 DEF UsedAt, Uploaded
    <3> QED
      BY <3>2, <3>3
  <2>7. CASE OpenCleaner(s)
    <3>1. /\ script[s].at = "open" /\ script'[s].i = script[s].i
          /\ script'[s].at = "page" \/ script'[s].at = "remove"
      BY <2>1, <2>7 DEF OpenCleaner, At, GoTo, Hold, ScriptType
    <3>2. cleaner'[k] = cleaner[k] \/ (k = script[s].i /\ cleaner[k] # NoCleaner /\ cleaner'[k] = [cleaner[k] EXCEPT !.open = TRUE])
      BY <1>3, <2>1, <2>7 DEF OpenCleaner
    <3>3. cleaner[k] # NoCleaner => cleaner'[k].by = cleaner[k].by
      BY <1>3, <3>2 DEF CleanerType
    <3>4. cleaner[k] = NoCleaner => cleaner'[k] = NoCleaner
      BY <3>2
    <3>5. CASE cleaner[k] # NoCleaner /\ cleaner[k].by = s /\ ~GaveUp(s)
      BY <2>4, <3>1, <3>3, <3>5 DEF UsedAt
    <3>6. CASE cleaner[k] # NoCleaner /\ cleaner[k].by = s /\ GaveUp(s)
      BY <3>1, <3>6 DEF GaveUp, At
    <3>7. CASE cleaner[k] # NoCleaner /\ cleaner[k].by # s
      <4>1. CASE GaveUp(cleaner[k].by)
        BY <1>4, <3>3, <3>7, <4>1, GaveUpStays DEF UsedAt
      <4>2. CASE ~GaveUp(cleaner[k].by)
        BY <1>3, <1>4, <2>2, <3>3, <3>7, <4>2 DEF UsedAt
      <4> QED
        BY <4>1, <4>2
    <3> QED
      BY <3>4, <3>5, <3>6, <3>7 DEF UsedAt
  <2>8. CASE CleanPage(s)
    <3>1. /\ script[s].at = "page" /\ script'[s].i = script[s].i /\ cleaner' = cleaner
          /\ script'[s].at = "page" \/ script'[s].at = "remove"
      <4>1. PICK p : script' = [script EXCEPT ![s].at = IF p = {} THEN "remove" ELSE "page",
                                              ![s].tries = 0, ![s].deleted = @ + Cardinality(p)]
        BY <2>8 DEF CleanPage
      <4> QED
        BY <2>1, <2>8, <4>1 DEF CleanPage, At, ScriptType
    <3> QED
      BY <2>3, <2>4, <3>1 DEF UsedAt
  <2>9. CASE MissPage(s)
    <3>1. /\ script[s].at = "page" /\ script'[s].i = script[s].i /\ cleaner' = cleaner
          /\ script'[s].at = "page" \/ script'[s].at = "remove"
      BY <2>1, <2>9 DEF MissPage, Retried, At, ScriptType
    <3> QED
      BY <2>3, <2>4, <3>1 DEF UsedAt
  <2>10. CASE RemoveCleaner(s)
    <3>1. /\ script[s].at = "remove"
          /\ cleaner' = [cleaner EXCEPT ![script[s].i] = NoCleaner] \/ (cleaner' = cleaner /\ GoTo(s, "failed"))
      BY <2>10 DEF RemoveCleaner, At
    <3>2. CASE cleaner' = cleaner /\ GoTo(s, "failed")
      <4>1. GaveUp(s)'
        BY <2>1, <3>2 DEF GoTo, GaveUp, At, ScriptType
      <4> QED
        BY <2>3, <3>2, <4>1 DEF UsedAt
    <3>3. CASE cleaner' = [cleaner EXCEPT ![script[s].i] = NoCleaner]
      BY <1>3, <2>1, <2>3, <2>4, <3>3 DEF UsedAt
    <3> QED
      BY <3>1, <3>2, <3>3
  <2>11. CASE Kill(s)
    <3>1. GaveUp(s)' /\ cleaner' = cleaner
      BY <2>1, <2>11 DEF Kill, GoTo, GaveUp, At, ScriptType
    <3> QED
      BY <2>3, <3>1 DEF UsedAt
  <2> QED
    BY <1>8, <2>5, <2>6, <2>7, <2>8, <2>9, <2>10, <2>11
<1> QED
  BY <1>5, <1>6, <1>7, <1>8 DEF UNext

\* Nothing of what a run has emptied comes back, and a cleaner is one that some run uses.
THEOREM PurgeHolds == PurgeAssumption => (USpec => []PurgeInv)
<1> SUFFICES ASSUME PurgeAssumption PROVE USpec => []PurgeInv
  OBVIOUS
<1>1. UInit => PurgeInv
  BY PurgeInitially
<1>2. PurgeInv /\ [UNext]_uvars => PurgeInv'
  BY PurgeTyped, ApartStep, LeftStep, CleanersStep DEF PurgeInv
<1> QED
  BY <1>1, <1>2, PTL DEF USpec

\* Whatever was stored when a run that succeeded began is gone, and so is its cleaner.
THEOREM PurgesAreClean == PurgeAssumption => (USpec => []SucceededIsClean)
<1> SUFFICES ASSUME PurgeAssumption PROVE USpec => []SucceededIsClean
  OBVIOUS
<1>1. PurgeInv => SucceededIsClean
  <2> SUFFICES ASSUME PurgeInv, NEW s \in Scripts, At(s, "succeeded")
               PROVE  found[s] \cap stored = {} /\ \A k \in Slots : cleaner[k] # NoCleaner => cleaner[k].by # s
    BY DEF SucceededIsClean, Slots
  <2>1. script[s].i = Len(Buckets) /\ Len(Buckets) \in Nat
    BY DEF PurgeInv, LeftIsClean, PurgeAssumption
  <2>2. ASSUME NEW o \in found[s] \cap stored PROVE FALSE
    <3>1. PICK k \in Slots : o[1] = Buckets[k]
      BY DEF PurgeAssumption, PurgeInv, UTypeOK, Slots
    <3>2. k < script[s].i \/ k = script[s].i
      BY <2>1, <3>1 DEF Slots
    <3> QED
      BY <3>1, <3>2 DEF PurgeInv, LeftIsClean, At
  <2>3. ASSUME NEW k \in Slots, cleaner[k] # NoCleaner, cleaner[k].by = s PROVE FALSE
    BY <2>3 DEF PurgeInv, CleanersAreUsed, GaveUp, At
  <2> QED
    BY <2>2, <2>3
<1> QED
  BY <1>1, PurgeHolds, PTL

-----------------------------------------------------------------------------
(* Who may administer.                                                       *)

MemberOps == OrgOps \cup RepoOps \cup OwnerOps
CallPcs == {"idle", "adopt", "upsert", "authorize", "adoptTarget", "upsertTarget", "resolveOwner", "write"}
PrincipalRow ==
    [state : {"free", "legacy", "bound"}, subject : {""} \cup {p[1] : p \in Identities},
     binding : {""} \cup {p[2] : p \in Identities}, kind : {"user", "service_account"}]
CallType ==
    [pc : CallPcs, op : MemberOps \cup {""}, caller : Identities \cup {<<"", "">>}, target : Identities \cup {<<"", "">>},
     to : {"", "none", "admin", "member"} \cup Visibilities \cup Roles, id : Ids \cup {Nobody}, targetId : Ids \cup {Nobody}]

\* What a request asks for is one of the things its handler accepts.
Sound(r) ==
    /\ r.op \in MemberOps /\ r.caller \in Identities /\ r.target \in Identities
    /\ r.op = "putMember" => r.to \in {"admin", "member"}
    /\ r.op \in {"putCollaborator", "putTeamAccess"} => r.to \in Roles
    /\ r.op = "patchRepo" => r.to \in Visibilities

\* A request that has come to a place knows the rows that the places before it read.
Knows(r) ==
    /\ r.pc \in {"authorize", "adoptTarget", "upsertTarget", "resolveOwner", "write"} => r.id \in Ids
    /\ r.pc \in {"adoptTarget", "upsertTarget"} => r.op \in NamesTarget
    /\ r.pc = "resolveOwner" => r.op \in OwnerOps
    /\ r.pc = "write" /\ r.op \in NamesTarget => r.targetId \in Ids

Calls ==
    /\ req \in [Callers -> CallType]
    /\ \A c \in Callers : req[c].pc # "idle" => Sound(req[c]) /\ Knows(req[c])

\* An identity has one row at most.
OwnRow == \A p \in Identities : \A i, j \in RowOf(p) : i = j

MemberInv == MTypeOK /\ Calls /\ OwnRow /\ OrgKeepsAdmin

LEMMA IdleIsTyped == Idle \in CallType
BY DEF Idle, CallType, CallPcs

LEMMA MemberInitially == MembershipAssumption /\ MInit => MemberInv
<1> SUFFICES ASSUME MembershipAssumption, MInit PROVE MemberInv
  OBVIOUS
<1>1. prow \in [Ids -> PrincipalRow] /\ \A i \in Ids : prow[i].state # "bound"
  <2>1. FreeRow \in PrincipalRow /\ FreeRow.state # "bound"
    BY DEF FreeRow, PrincipalRow
  <2>2. ASSUME NEW i \in DOMAIN LegacyRows
        PROVE  [state |-> "legacy", subject |-> LegacyRows[i][1], binding |-> "", kind |-> LegacyRows[i][2]] \in PrincipalRow
    BY DEF PrincipalRow, MembershipAssumption
  <2> QED
    BY <2>1, <2>2 DEF MInit
<1>2. MTypeOK
  <2>1. owner \in [type : {"none", "user", "org"}, principal : Ids \cup {Nobody}] /\ member \in [Ids -> {"none", "member", "admin"}]
    BY DEF MInit
  <2>2. team \in [made : BOOLEAN, members : SUBSET Ids] /\ grant \in [Ids -> Roles \cup {"none"}]
    BY DEF MInit
  <2>3. teamGrant \in Roles \cup {"none"} /\ visible \in Visibilities
    BY DEF MInit, Visibilities
  <2>4. asked \in 0..MaxRequests
    <3>1. MaxRequests \in Nat
      BY DEF MembershipAssumption
    <3>2. asked = 0
      BY DEF MInit
    <3> QED
      BY <3>1, <3>2
  <2> QED
    BY <1>1, <2>1, <2>2, <2>3, <2>4 DEF MTypeOK, PrincipalRow
<1>3. Calls
  BY IdleIsTyped DEF MInit, Calls, Idle
<1>4. OwnRow
  BY <1>1 DEF OwnRow, RowOf, Bound
<1>5. OrgKeepsAdmin
  BY DEF MInit, OrgKeepsAdmin
<1> QED
  BY <1>2, <1>3, <1>4, <1>5 DEF MemberInv

\* A caller's next place keeps the others where they are.
LEMMA CallMoves ==
    ASSUME Calls, NEW c \in Callers, NEW e \in CallType, e.pc # "idle" => Sound(e) /\ Knows(e), req' = [req EXCEPT ![c] = e]
    PROVE  Calls'
BY DEF Calls, Sound, Knows

LEMMA CallEnds ==
    ASSUME Calls, NEW c \in Callers, Answer(c)
    PROVE  Calls'
<1>1. Idle.pc = "idle"
  BY DEF Idle
<1> QED
  BY <1>1, IdleIsTyped, CallMoves DEF Answer

LEMMA CallGoes ==
    ASSUME Calls, NEW c \in Callers, NEW l \in CallPcs, Goes(c, l), Sound(req[c]), Knows([req[c] EXCEPT !.pc = l])
    PROVE  Calls'
<1> DEFINE e == [req[c] EXCEPT !.pc = l]
<1>1. req[c] \in CallType /\ e \in CallType
  BY DEF Calls, CallType
<1>2. req' = [req EXCEPT ![c] = e]
  BY DEF Goes
<1>3. Sound(e)
  BY <1>1 DEF Sound, CallType
<1> HIDE DEF e
<1>4. Knows(e)
  BY DEF e
<1> QED
  BY <1>1, <1>2, <1>3, <1>4, CallMoves

\* What is asked is one of the requests there are.
LEMMA RequestFits ==
    ASSUME NEW op \in MemberOps, NEW p \in Identities, NEW t \in Identities,
           NEW to \in {"none", "admin", "member"} \cup Visibilities \cup Roles,
           op = "putMember" => to \in {"admin", "member"},
           op \in {"putCollaborator", "putTeamAccess"} => to \in Roles,
           op = "patchRepo" => to \in Visibilities
    PROVE  Request(op, p, t, to) \in CallType /\ Sound(Request(op, p, t, to)) /\ Knows(Request(op, p, t, to))
<1> DEFINE r == [pc |-> "adopt", op |-> op, caller |-> p, target |-> t, to |-> to, id |-> Nobody, targetId |-> Nobody]
<1>1. r \in CallType
  BY DEF CallType, CallPcs
<1>2. Sound(r) /\ Knows(r)
  BY DEF Sound, Knows
<1>3. Request(op, p, t, to) = r
  BY DEF Request
<1> QED
  BY <1>1, <1>2, <1>3

LEMMA RequestsAreSound ==
    ASSUME MembershipAssumption, NEW q \in MemberRequests
    PROVE  q \in CallType /\ Sound(q) /\ Knows(q)
<1> DEFINE Fine(x) == x \in CallType /\ Sound(x) /\ Knows(x)
<1>1. ASSUME NEW p \in Identities, NEW t \in Identities, NEW to \in {"admin", "member"} PROVE Fine(Request("putMember", p, t, to))
  BY RequestFits DEF MemberOps, OrgOps
<1>2. ASSUME NEW op \in {"removeMember", "putTeamMember", "removeTeamMember"}, NEW p \in Identities, NEW t \in Identities
      PROVE  Fine(Request(op, p, t, "member"))
  <2>1. op \in MemberOps /\ op \notin {"putMember", "putCollaborator", "putTeamAccess", "patchRepo"}
    BY DEF MemberOps, OrgOps
  <2> QED
    BY <2>1, RequestFits
<1>3. ASSUME NEW p \in Identities, NEW t \in Identities, NEW to \in GivenRoles PROVE Fine(Request("putCollaborator", p, t, to))
  BY RequestFits DEF MemberOps, RepoOps, MembershipAssumption
<1>4. ASSUME NEW p \in Identities, NEW t \in Identities PROVE Fine(Request("removeCollaborator", p, t, "none"))
  BY RequestFits DEF MemberOps, RepoOps
<1>5. ASSUME NEW p \in Identities PROVE Fine(Request("putTeamAccess", p, p, "owner"))
  BY RequestFits DEF MemberOps, RepoOps, Roles
<1>6. ASSUME NEW op \in {"createTeam", "removeTeamAccess", "claim", "createOrg", "namespace"}, NEW p \in Identities
      PROVE  Fine(Request(op, p, p, "none"))
  <2>1. op \in MemberOps /\ op \notin {"putMember", "putCollaborator", "putTeamAccess", "patchRepo"}
    BY DEF MemberOps, OrgOps, RepoOps, OwnerOps
  <2> QED
    BY <2>1, RequestFits
<1>7. ASSUME NEW p \in Identities, NEW v \in GivenVisibilities PROVE Fine(Request("patchRepo", p, p, v))
  BY RequestFits DEF MemberOps, RepoOps, MembershipAssumption
<1> HIDE DEF Fine
<1>8. ASSUME q \in {Request("putMember", p, t, r) : p \in Identities, t \in Identities, r \in {"admin", "member"}}
      PROVE  Fine(q)
  BY <1>1, <1>8
<1>9. ASSUME q \in {Request(op, p, t, "member") :
                    op \in {"removeMember", "putTeamMember", "removeTeamMember"}, p \in Identities, t \in Identities}
      PROVE  Fine(q)
  BY <1>2, <1>9
<1>10. ASSUME q \in {Request("putCollaborator", p, t, r) : p \in Identities, t \in Identities, r \in GivenRoles}
      PROVE  Fine(q)
  BY <1>3, <1>10
<1>11. ASSUME q \in {Request("removeCollaborator", p, t, "none") : p \in Identities, t \in Identities}
      PROVE  Fine(q)
  <2>1. PICK p \in Identities, t \in Identities : q = Request("removeCollaborator", p, t, "none")
    BY <1>11
  <2> QED
    BY <1>4, <2>1
<1>12. ASSUME q \in {Request(op, p, p, r) : op \in {"putTeamAccess"}, p \in Identities, r \in {"owner"}}
      PROVE  Fine(q)
  BY <1>5, <1>12
<1>13. ASSUME q \in {Request(op, p, p, "none") :
                    op \in {"createTeam", "removeTeamAccess", "claim", "createOrg", "namespace"}, p \in Identities}
      PROVE  Fine(q)
  <2>1. PICK op \in {"createTeam", "removeTeamAccess", "claim", "createOrg", "namespace"}, p \in Identities : q = Request(op, p, p, "none")
    BY <1>13
  <2> QED
    BY <1>6, <2>1
<1>14. ASSUME q \in {Request("patchRepo", p, p, v) : p \in Identities, v \in GivenVisibilities}
      PROVE  Fine(q)
  BY <1>7, <1>14
<1>15. Fine(q)
  BY <1>8, <1>9, <1>10, <1>11, <1>12, <1>13, <1>14 DEF MemberRequests
<1> QED
  BY <1>15 DEF Fine

\* A caller's place and the identity it has at it.
LEMMA CallFacts ==
    ASSUME Calls, NEW c \in Callers
    PROVE  /\ req[c] \in CallType
           /\ req[c].pc # "idle" => Sound(req[c]) /\ Knows(req[c])
BY DEF Calls

LEMMA BoundFacts ==
    ASSUME MembershipAssumption, NEW p \in Identities
    PROVE  /\ Bound(p) \in PrincipalRow /\ Bound(p).state = "bound"
           /\ \A q \in Identities : Bound(p) = Bound(q) => p = q
<1>1. Kind(p) \in {"user", "service_account"}
  BY DEF Kind
<1>2. Bound(p) \in PrincipalRow /\ Bound(p).state = "bound"
  BY <1>1 DEF Bound, PrincipalRow
<1>3. ASSUME NEW q \in Identities, Bound(p) = Bound(q) PROVE p = q
  <2>1. p[1] = q[1] /\ p[2] = q[2]
    BY <1>3 DEF Bound
  <2>2. p = <<p[1], p[2]>> /\ q = <<q[1], q[2]>>
    BY DEF MembershipAssumption
  <2> QED
    BY <2>1, <2>2, Zenon
<1> QED
  BY <1>2, <1>3

\* A row is given to an identity that has none, where it was nobody's, or was its own.
LEMMA RowGiven ==
    ASSUME MembershipAssumption, prow \in [Ids -> PrincipalRow], OwnRow, NEW i \in Ids, NEW p \in Identities,
           \/ RowOf(p) = {} /\ prow[i].state # "bound"
           \/ i \in RowOf(p),
           prow' = [prow EXCEPT ![i] = Bound(p)]
    PROVE  prow' \in [Ids -> PrincipalRow] /\ KeepsId /\ OwnRow'
<1>1. prow' \in [Ids -> PrincipalRow] /\ \A j \in Ids : prow'[j] = IF j = i THEN Bound(p) ELSE prow[j]
  BY BoundFacts
<1>2. \A q \in Identities : Bound(q).state = "bound"
  BY BoundFacts
<1>3. i \in RowOf(p) => prow[i] = Bound(p)
  BY DEF RowOf
<1>4. ASSUME NEW q \in Identities, NEW j \in RowOf(q) PROVE j \in RowOf(q)'
  <2>1. j \in Ids /\ prow[j] = Bound(q)
    BY <1>4 DEF RowOf
  <2>2. prow'[j] = Bound(q)
    BY <1>1, <1>2, <1>3, <2>1 DEF RowOf
  <2> QED
    BY <2>1, <2>2 DEF RowOf, Bound, Kind
<1>5. KeepsId
  BY <1>4 DEF KeepsId
<1>6. ASSUME NEW q \in Identities, NEW j \in RowOf(q)', NEW k \in RowOf(q)' PROVE j = k
  <2>1. j \in Ids /\ k \in Ids /\ prow'[j] = Bound(q) /\ prow'[k] = Bound(q)
    BY <1>6 DEF RowOf, Bound, Kind
  <2>2. CASE q = p
    <3>1. ASSUME NEW n \in Ids, n # i, prow'[n] = Bound(p) PROVE n \in RowOf(p)
      BY <1>1, <3>1 DEF RowOf
    <3> QED
      BY <2>1, <2>2, <3>1 DEF OwnRow
  <2>3. CASE q # p
    <3>1. j # i /\ k # i
      BY <1>1, <2>1, <2>3, BoundFacts
    <3>2. j \in RowOf(q) /\ k \in RowOf(q)
      BY <1>1, <2>1, <3>1 DEF RowOf
    <3> QED
      BY <3>2 DEF OwnRow
  <2> QED
    BY <2>2, <2>3
<1>7. OwnRow'
  BY <1>6 DEF OwnRow
<1> QED
  BY <1>1, <1>5, <1>7

LEMMA RowsStep ==
    ASSUME MembershipAssumption, MemberInv, [MNext]_mvars
    PROVE  prow' \in [Ids -> PrincipalRow] /\ KeepsId /\ OwnRow'
<1>1. prow \in [Ids -> PrincipalRow] /\ OwnRow
  BY DEF MemberInv, MTypeOK, PrincipalRow
<1>2. CASE prow' = prow
  <2>1. \A q \in Identities : RowOf(q)' = RowOf(q)
    BY <1>2 DEF RowOf, Bound, Kind
  <2> QED
    BY <1>1, <1>2, <2>1 DEF KeepsId, OwnRow
<1>3. ASSUME NEW c \in Callers, Adopt(c) PROVE prow' \in [Ids -> PrincipalRow] /\ KeepsId /\ OwnRow'
  <2>1. PICK p \in Identities : AdoptRow(p)
    BY <1>3, CallFacts DEF Adopt, Sound, MemberInv
  <2>2. CASE prow' = prow
    BY <1>2, <2>2
  <2>3. ASSUME prow' # prow PROVE prow' \in [Ids -> PrincipalRow] /\ KeepsId /\ OwnRow'
    <3>1. PICK i \in Adoptable(p) : prow' = [prow EXCEPT ![i] = Bound(p)]
      BY <2>1, <2>3 DEF AdoptRow
    <3>2. RowOf(p) = {} /\ i \in Ids /\ prow[i].state # "bound"
      BY <3>1 DEF Adoptable
    <3> QED
      BY <1>1, <3>1, <3>2, RowGiven
  <2> QED
    BY <2>2, <2>3
<1>4. ASSUME NEW c \in Callers, Upsert(c) PROVE prow' \in [Ids -> PrincipalRow] /\ KeepsId /\ OwnRow'
  <2> DEFINE p == IF req[c].pc = "upsert" THEN req[c].caller ELSE req[c].target
             free == {i \in Ids : prow[i].state = "free"}
  <2>1. p \in Identities
    BY <1>4, CallFacts DEF Upsert, Sound, MemberInv
  <2>2. PICK i \in IF RowOf(p) # {} THEN RowOf(p) ELSE {i \in free : \A j \in free : i <= j} :
              prow' = [prow EXCEPT ![i] = Bound(p)]
    BY <1>4 DEF Upsert
  <2>3. i \in Ids /\ (i \in RowOf(p) \/ (RowOf(p) = {} /\ prow[i].state # "bound"))
    BY <2>2 DEF RowOf
  <2> HIDE DEF p
  <2> QED
    BY <1>1, <2>1, <2>2, <2>3, RowGiven
<1>5. ASSUME NEW c \in Callers, Begin(c) \/ Authorize(c) \/ Refuse(c) \/ ResolveOwner(c) \/ InsertOwner(c)
      PROVE  prow' = prow
  BY <1>5 DEF Begin, Authorize, Refuse, ResolveOwner, InsertOwner
<1>6. ASSUME NEW c \in Callers, PutMember(c) \/ RemoveMember(c) \/ WriteTeam(c) \/ WriteGrant(c) \/ WriteRepo(c)
      PROVE  prow' = prow
  BY <1>6 DEF PutMember, RemoveMember, WriteTeam, WriteGrant, WriteRepo
<1>7. UNCHANGED mvars => prow' = prow
  BY DEF mvars
<1> QED
  BY <1>2, <1>3, <1>4, <1>5, <1>6, <1>7 DEF MNext

\* Where a request goes next, it knows what it needs there.
LEMMA CallsStep ==
    ASSUME MembershipAssumption, MemberInv, [MNext]_mvars
    PROVE  Calls'
<1> USE DEF MemberInv
<1>1. CASE UNCHANGED mvars
  BY <1>1 DEF mvars, Calls, Sound, Knows
<1>2. ASSUME NEW c \in Callers, Begin(c) PROVE Calls'
  <2>1. PICK r \in MemberRequests : req' = [req EXCEPT ![c] = r]
    BY <1>2 DEF Begin
  <2> QED
    BY <2>1, RequestsAreSound, CallMoves
<1>3. ASSUME NEW c \in Callers, Adopt(c) PROVE Calls'
  <2>1. req[c] \in CallType /\ Sound(req[c]) /\ Knows(req[c])
    BY <1>3, CallFacts DEF Adopt
  <2>2. CASE req[c].pc = "adopt"
    <3>1. Goes(c, "upsert") /\ "upsert" \in CallPcs
      BY <1>3, <2>2 DEF Adopt, CallPcs
    <3>2. Knows([req[c] EXCEPT !.pc = "upsert"])
      BY <2>1 DEF Knows, CallType
    <3> QED
      BY <2>1, <3>1, <3>2, CallGoes
  <2>3. CASE req[c].pc = "adoptTarget"
    <3>1. Goes(c, "upsertTarget") /\ "upsertTarget" \in CallPcs
      BY <1>3, <2>3 DEF Adopt, CallPcs
    <3>2. Knows([req[c] EXCEPT !.pc = "upsertTarget"])
      BY <2>1, <2>3 DEF Knows, CallType
    <3> QED
      BY <2>1, <3>1, <3>2, CallGoes
  <2> QED
    BY <1>3, <2>2, <2>3 DEF Adopt
<1>4. ASSUME NEW c \in Callers, Upsert(c) PROVE Calls'
  <2>1. req[c] \in CallType /\ Sound(req[c]) /\ Knows(req[c])
    BY <1>4, CallFacts DEF Upsert
  <2>2. CASE req[c].pc = "upsert"
    <3>1. PICK i \in Ids : req' = [req EXCEPT ![c] = [req[c] EXCEPT !.id = i, !.pc = "authorize"]]
      BY <1>4, <2>2 DEF Upsert, Calls, RowOf
    <3> DEFINE e == [req[c] EXCEPT !.id = i, !.pc = "authorize"]
    <3>2. e \in CallType
      BY <2>1 DEF CallType, CallPcs
    <3>3. Sound(e) /\ Knows(e)
      BY <2>1 DEF Sound, Knows, CallType
    <3> HIDE DEF e
    <3> QED
      BY <3>1, <3>2, <3>3, CallMoves DEF e
  <2>3. CASE req[c].pc = "upsertTarget"
    <3>1. PICK i \in Ids : req' = [req EXCEPT ![c] = [req[c] EXCEPT !.targetId = i, !.pc = "write"]]
      BY <1>4, <2>3 DEF Upsert, Calls, RowOf
    <3> DEFINE e == [req[c] EXCEPT !.targetId = i, !.pc = "write"]
    <3>2. e \in CallType
      BY <2>1 DEF CallType, CallPcs
    <3>3. Sound(e) /\ Knows(e)
      BY <2>1, <2>3 DEF Sound, Knows, CallType
    <3> HIDE DEF e
    <3> QED
      BY <3>1, <3>2, <3>3, CallMoves DEF e
  <2> QED
    BY <1>4, <2>2, <2>3 DEF Upsert
<1>5. ASSUME NEW c \in Callers, Authorize(c) PROVE Calls'
  <2>1. req[c] \in CallType /\ Sound(req[c]) /\ Knows(req[c]) /\ req[c].pc = "authorize"
    BY <1>5, CallFacts DEF Authorize
  <2>2. CASE req[c].op \in NamesTarget
    <3>1. Goes(c, "adoptTarget") /\ "adoptTarget" \in CallPcs
      BY <1>5, <2>2 DEF Authorize, CallPcs
    <3>2. Knows([req[c] EXCEPT !.pc = "adoptTarget"])
      BY <2>1, <2>2 DEF Knows, CallType
    <3> QED
      BY <2>1, <3>1, <3>2, CallGoes
  <2>3. CASE req[c].op \notin NamesTarget /\ req[c].op \in OwnerOps
    <3>1. Goes(c, "resolveOwner") /\ "resolveOwner" \in CallPcs
      BY <1>5, <2>3 DEF Authorize, CallPcs
    <3>2. Knows([req[c] EXCEPT !.pc = "resolveOwner"])
      BY <2>1, <2>3 DEF Knows, CallType
    <3> QED
      BY <2>1, <3>1, <3>2, CallGoes
  <2>4. CASE req[c].op \notin NamesTarget /\ req[c].op \notin OwnerOps
    <3>1. Goes(c, "write") /\ "write" \in CallPcs
      BY <1>5, <2>4 DEF Authorize, CallPcs
    <3>2. Knows([req[c] EXCEPT !.pc = "write"])
      BY <2>1, <2>4 DEF Knows, CallType
    <3> QED
      BY <2>1, <3>1, <3>2, CallGoes
  <2> QED
    BY <2>2, <2>3, <2>4
<1>6. ASSUME NEW c \in Callers, ResolveOwner(c) PROVE Calls'
  <2>1. req[c] \in CallType /\ Sound(req[c]) /\ Knows(req[c]) /\ req[c].pc = "resolveOwner"
    BY <1>6, CallFacts DEF ResolveOwner
  <2>2. "write" \in CallPcs /\ Knows([req[c] EXCEPT !.pc = "write"])
    BY <2>1 DEF Knows, CallType, CallPcs, OwnerOps, NamesTarget
  <2> QED
    BY <1>6, <2>1, <2>2, CallGoes, CallEnds DEF ResolveOwner
<1>7. ASSUME NEW c \in Callers, Refuse(c) \/ InsertOwner(c) \/ PutMember(c) \/ RemoveMember(c) \/ WriteTeam(c) \/ WriteGrant(c) \/ WriteRepo(c)
      PROVE  Calls'
  <2>1. Answer(c)
    BY <1>7 DEF Refuse, InsertOwner, PutMember, RemoveMember, WriteTeam, WriteGrant, WriteRepo
  <2> QED
    BY <2>1, CallEnds
<1> QED
  BY <1>1, <1>2, <1>3, <1>4, <1>5, <1>6, <1>7 DEF MNext

\* The members of the organization, of which one stays an admin.
MembersTyped == member \in [Ids -> {"none", "member", "admin"}]

LEMMA AdminsStep ==
    ASSUME MembershipAssumption, MemberInv, [MNext]_mvars
    PROVE  MembersTyped' /\ OrgKeepsAdmin' /\ owner' \in [type : {"none", "user", "org"}, principal : Ids \cup {Nobody}]
<1> USE DEF MemberInv
<1> DEFINE OwnerType == [type : {"none", "user", "org"}, principal : Ids \cup {Nobody}]
           Kept == MembersTyped' /\ OrgKeepsAdmin' /\ owner' \in OwnerType
<1>1. MembersTyped /\ owner \in OwnerType
  BY DEF MTypeOK, MembersTyped
<1>2. CASE UNCHANGED <<owner, member>>
  BY <1>1, <1>2 DEF MembersTyped, OrgKeepsAdmin
<1>3. ASSUME NEW c \in Callers, InsertOwner(c) PROVE Kept
  <2>1. req[c].id \in Ids
    BY <1>3, CallFacts DEF InsertOwner, Knows
  <2>2. \/ UNCHANGED <<owner, member>>
        \/ owner' = [type |-> "org", principal |-> Nobody] /\ member' = [member EXCEPT ![req[c].id] = "admin"]
        \/ owner' = [type |-> "user", principal |-> req[c].id] /\ UNCHANGED member
    BY <1>1, <1>3 DEF InsertOwner
  <2> QED
    BY <1>1, <1>2, <2>1, <2>2 DEF MembersTyped, OrgKeepsAdmin
<1>4. ASSUME NEW c \in Callers, PutMember(c) PROVE Kept
  <2> DEFINE id == req[c].targetId
             to == req[c].to
  <2>1. req[c].id \in Ids /\ id \in Ids /\ to \in {"admin", "member"}
    BY <1>4, CallFacts DEF PutMember, Sound, Knows, NamesTarget
  <2>2. owner' = owner
    BY <1>4 DEF PutMember
  <2>3. CASE member' = member
    BY <1>2, <2>2, <2>3
  <2>4. CASE /\ member[req[c].id] = "admin" /\ (to = "admin" \/ member[id] # "admin" \/ AnotherAdmin(id))
             /\ member' = [member EXCEPT ![id] = to]
    <3>1. MembersTyped' /\ \A i \in Ids : member'[i] = IF i = id THEN to ELSE member[i]
      BY <1>1, <2>1, <2>4 DEF MembersTyped
    <3>2. \E i \in Ids : member'[i] = "admin"
      BY <2>1, <2>4, <3>1 DEF AnotherAdmin
    <3> QED
      BY <1>1, <2>2, <3>1, <3>2 DEF OrgKeepsAdmin
  <2> QED
    BY <1>4, <2>3, <2>4 DEF PutMember
<1>5. ASSUME NEW c \in Callers, RemoveMember(c) PROVE Kept
  <2>1. req[c].id \in Ids /\ owner' = owner
    BY <1>5, CallFacts DEF RemoveMember, Knows
  <2>2. CASE member' = member
    BY <1>2, <2>1, <2>2
  <2>3. ASSUME member' # member PROVE Kept
    <3>1. PICK id \in Ids : /\ member[req[c].id] = "admin" /\ (member[id] # "admin" \/ AnotherAdmin(id))
                            /\ member' = [member EXCEPT ![id] = "none"]
      BY <1>5, <2>3 DEF RemoveMember
    <3>2. MembersTyped' /\ \A i \in Ids : member'[i] = IF i = id THEN "none" ELSE member[i]
      BY <1>1, <3>1 DEF MembersTyped
    <3>3. \E i \in Ids : member'[i] = "admin"
      BY <2>1, <3>1, <3>2 DEF AnotherAdmin
    <3> QED
      BY <1>1, <2>1, <3>2, <3>3 DEF OrgKeepsAdmin
  <2> QED
    BY <2>2, <2>3
<1>6. ASSUME NEW c \in Callers, Begin(c) \/ Adopt(c) \/ Upsert(c) \/ Authorize(c) \/ Refuse(c) \/ ResolveOwner(c)
      PROVE  UNCHANGED <<owner, member>>
  BY <1>6 DEF Begin, Adopt, Upsert, Authorize, Refuse, ResolveOwner, Rows
<1>7. ASSUME NEW c \in Callers, WriteTeam(c) \/ WriteGrant(c) \/ WriteRepo(c)
      PROVE  UNCHANGED <<owner, member>>
  BY <1>7 DEF WriteTeam, WriteGrant, WriteRepo
<1>8. UNCHANGED mvars => UNCHANGED <<owner, member>>
  BY DEF mvars
<1> QED
  BY <1>2, <1>3, <1>4, <1>5, <1>6, <1>7, <1>8 DEF MNext

LEMMA GrantsStep ==
    ASSUME MembershipAssumption, MemberInv, [MNext]_mvars
    PROVE  /\ team' \in [made : BOOLEAN, members : SUBSET Ids] /\ grant' \in [Ids -> Roles \cup {"none"}]
           /\ teamGrant' \in Roles \cup {"none"} /\ visible' \in Visibilities /\ asked' \in 0..MaxRequests
<1> USE DEF MemberInv
<1> DEFINE TeamType == [made : BOOLEAN, members : SUBSET Ids]
           Kept == /\ team' \in TeamType /\ grant' \in [Ids -> Roles \cup {"none"}]
                   /\ teamGrant' \in Roles \cup {"none"} /\ visible' \in Visibilities /\ asked' \in 0..MaxRequests
<1>1. /\ team \in TeamType /\ grant \in [Ids -> Roles \cup {"none"}]
      /\ teamGrant \in Roles \cup {"none"} /\ visible \in Visibilities /\ asked \in 0..MaxRequests
  BY DEF MTypeOK
<1>2. CASE UNCHANGED <<team, grant, teamGrant, visible, asked>>
  BY <1>1, <1>2
<1>3. ASSUME NEW c \in Callers, Begin(c) PROVE Kept
  <2>1. UNCHANGED <<team, grant, teamGrant, visible>>
    BY <1>3 DEF Begin, Rows
  <2>2. MaxRequests \in Nat
    BY DEF MembershipAssumption
  <2>3. asked' \in 0..MaxRequests
    BY <1>1, <1>3, <2>2 DEF Begin
  <2> QED
    BY <1>1, <2>1, <2>3
<1>4. ASSUME NEW c \in Callers, WriteTeam(c) PROVE Kept
  <2>1. UNCHANGED <<grant, teamGrant, visible, asked>>
    BY <1>4 DEF WriteTeam
  <2>2. req[c].op = "putTeamMember" => req[c].targetId \in Ids
    BY <1>4, CallFacts DEF WriteTeam, Knows, NamesTarget
  <2>3. team' \in TeamType
    BY <1>1, <1>4, <2>2 DEF WriteTeam
  <2> QED
    BY <1>1, <2>1, <2>3
<1>5. ASSUME NEW c \in Callers, WriteGrant(c) PROVE Kept
  <2>1. UNCHANGED <<team, teamGrant, visible, asked>>
    BY <1>5 DEF WriteGrant
  <2>2. req[c].op = "putCollaborator" => req[c].targetId \in Ids /\ req[c].to \in Roles
    BY <1>5, CallFacts DEF WriteGrant, Sound, Knows, NamesTarget
  <2>3. grant' \in [Ids -> Roles \cup {"none"}]
    BY <1>1, <1>5, <2>2 DEF WriteGrant
  <2> QED
    BY <1>1, <2>1, <2>3
<1>6. ASSUME NEW c \in Callers, WriteRepo(c) PROVE Kept
  <2>1. UNCHANGED <<team, grant, asked>>
    BY <1>6 DEF WriteRepo
  <2>2. /\ req[c].op = "putTeamAccess" => req[c].to \in Roles
        /\ req[c].op = "patchRepo" => req[c].to \in Visibilities
    BY <1>6, CallFacts DEF WriteRepo, Sound
  <2>3. teamGrant' \in Roles \cup {"none"} /\ visible' \in Visibilities
    BY <1>1, <1>6, <2>2 DEF WriteRepo
  <2> QED
    BY <1>1, <2>1, <2>3
<1>7. ASSUME NEW c \in Callers, Adopt(c) \/ Upsert(c) \/ Authorize(c) \/ Refuse(c) \/ ResolveOwner(c)
      PROVE  UNCHANGED <<team, grant, teamGrant, visible, asked>>
  BY <1>7 DEF Adopt, Upsert, Authorize, Refuse, ResolveOwner, Rows
<1>8. ASSUME NEW c \in Callers, InsertOwner(c) \/ PutMember(c) \/ RemoveMember(c)
      PROVE  UNCHANGED <<team, grant, teamGrant, visible, asked>>
  BY <1>8 DEF InsertOwner, PutMember, RemoveMember
<1>9. UNCHANGED mvars => UNCHANGED <<team, grant, teamGrant, visible, asked>>
  BY DEF mvars
<1> QED
  BY <1>2, <1>3, <1>4, <1>5, <1>6, <1>7, <1>8, <1>9 DEF MNext

LEMMA MemberStep ==
    ASSUME MembershipAssumption, MemberInv, [MNext]_mvars
    PROVE  MemberInv'
<1>1. MTypeOK'
  BY RowsStep, AdminsStep, GrantsStep DEF MTypeOK, MembersTyped, PrincipalRow
<1> QED
  BY <1>1, RowsStep, CallsStep, AdminsStep DEF MemberInv

\* Whatever demotions and removals run at a time, an organization keeps an admin.
THEOREM AdminsRemain == MembershipAssumption => (MSpec => []OrgKeepsAdmin)
<1> SUFFICES ASSUME MembershipAssumption PROVE MSpec => []OrgKeepsAdmin
  OBVIOUS
<1>1. MInit => MemberInv
  BY MemberInitially
<1>2. MemberInv /\ [MNext]_mvars => MemberInv'
  BY MemberStep
<1>3. MemberInv => OrgKeepsAdmin
  BY DEF MemberInv
<1> QED
  BY <1>1, <1>2, <1>3, PTL DEF MSpec

\* An identity keeps its row whatever adoptions and upserts run at a time.
THEOREM IdentitiesStay == MembershipAssumption => (MSpec => IdentityKeepsId)
<1> SUFFICES ASSUME MembershipAssumption PROVE MSpec => IdentityKeepsId
  OBVIOUS
<1>1. MInit => MemberInv
  BY MemberInitially
<1>2. MemberInv /\ [MNext]_mvars => MemberInv' /\ KeepsId
  BY MemberStep, RowsStep
<1> QED
  BY <1>1, <1>2, PTL DEF MSpec, IdentityKeepsId

Distinct == \A p, q \in Identities : p # q => RowOf(p) \cap RowOf(q) = {}

\* It never has two, and no two identities have the same: what is granted to a row is granted to one.
THEOREM RowsAreOwn == MembershipAssumption => (MSpec => [](OwnRow /\ Distinct))
<1> SUFFICES ASSUME MembershipAssumption PROVE MSpec => [](OwnRow /\ Distinct)
  OBVIOUS
<1>1. MInit => MemberInv
  BY MemberInitially
<1>2. MemberInv /\ [MNext]_mvars => MemberInv'
  BY MemberStep
<1>3. MemberInv => OwnRow /\ Distinct
  BY BoundFacts DEF MemberInv, RowOf, Distinct
<1> QED
  BY <1>1, <1>2, <1>3, PTL DEF MSpec

-----------------------------------------------------------------------------
(* The publication of a release.                                             *)

RunType ==
    [at : Stages, version : Versions \cup {0}, first : Revisions \cup {0}, commit : Revisions \cup {0},
     bytes : Bytes \cup {NoOne}, execute : BOOLEAN, second : BOOLEAN]
ReleaseType == [tag : TagObjects, bytes : Bytes, assets : SUBSET Assets, draft : BOOLEAN]

\* Past the second look, and past the copy of the bytes.
Copied == {"tag", "push", "readTag", "publish", "readRelease", "published"}
Tagged == {"publish", "readRelease", "published"}

\* How far a run has come, and what its clone then is: the commit it first looked at is no later
\* than the one it is built from, and that no later than the one it looks at again.
Placed(r) ==
    LET q == run[r] IN
    /\ q.at # "idle" => q.version \in Versions
    /\ q.at \in {"source", "absent", "gate", "prepare"} => q.first <= head[r] /\ q.commit <= head[r]
    /\ q.at = "source" /\ q.second => q.first \in Revisions
    /\ q.at \in {"absent", "gate", "prepare"} \cup Copied => q.first \in Revisions /\ q.commit \in Revisions
    /\ q.at = "absent" => q.first <= q.commit
    /\ q.at \in {"gate", "prepare"} \cup Copied => q.first = q.commit
    /\ q.at = "prepare" => q.second

\* The build of the gate is what lies in the clone until it is copied.
GateBuilt(r) ==
    LET q == run[r] IN
    q.second /\ q.at \in {"source", "absent", "prepare"} =>
        \E h \in Revisions : /\ dist[r] = Built(h, h) /\ q.first <= h /\ h <= head[r]
                             /\ q.at \in {"absent", "prepare"} => h <= q.commit

\* What a run has published, step by step.
PublishedSoFar(r) ==
    LET q == run[r] IN
    /\ q.at \in Copied => q.bytes = Built(q.commit, q.commit)
    /\ q.at \in Tagged => originTag[q.version] = TagOf(r, q.commit)
    /\ q.at = "published" =>
          /\ ghRelease[q.version] # NoOne /\ ~ghRelease[q.version].draft
          /\ ghRelease[q.version].assets = Assets /\ ghRelease[q.version].bytes = q.bytes

ReleasesAreTagged == \A v \in Versions : ghRelease[v] # NoOne => ghRelease[v].tag = originTag[v]

PublicationInv ==
    /\ PTypeOK /\ ReleasesAreTagged
    /\ \A r \in Releasers : Placed(r) /\ GateBuilt(r) /\ PublishedSoFar(r)

Fine(r) == Placed(r) /\ GateBuilt(r) /\ PublishedSoFar(r)

LEMMA RevisionFacts ==
    ASSUME PublicationAssumption
    PROVE  /\ Revisions \subseteq Nat /\ 0 \notin Revisions /\ 1 \in Revisions
           /\ \A h \in Revisions : h < Cardinality(Revisions) => h + 1 \in Revisions
<1> DEFINE n == Cardinality(Revisions)
<1>1. n \in Nat /\ Revisions = 1..n /\ Revisions # {}
  BY FS_CardinalityType DEF PublicationAssumption
<1> HIDE DEF n
<1>2. \A h \in Revisions : h < n => h + 1 \in Revisions
  BY <1>1
<1> QED
  BY <1>1, <1>2 DEF n

LEMMA RunFacts ==
    ASSUME PublicationAssumption, PTypeOK, NEW r \in Releasers
    PROVE  /\ run \in [Releasers -> RunType] /\ run[r] \in RunType
           /\ head[r] \in Revisions /\ head[r] \in Nat
           /\ run[r].first \in Nat /\ run[r].commit \in Nat
           /\ VersionOf[head[r]] \in Versions
           /\ \A c \in Revisions : TagOf(r, c) \in TagObjects /\ TagOf(r, c) # NoOne /\ Built(c, c) \in Bytes
<1>1. run \in [Releasers -> RunType] /\ run[r] \in RunType /\ head[r] \in Revisions
  BY DEF PTypeOK, RunType
<1>2. run[r].first \in Revisions \cup {0} /\ run[r].commit \in Revisions \cup {0}
  BY <1>1 DEF RunType
<1>3. VersionOf[head[r]] \in Versions
  BY <1>1 DEF Versions
<1>4. ASSUME NEW c \in Revisions PROVE TagOf(r, c) \in TagObjects /\ TagOf(r, c) # NoOne /\ Built(c, c) \in Bytes
  BY DEF TagOf, TagObjects, Built, Bytes, PublicationAssumption
<1> QED
  BY <1>1, <1>2, <1>3, <1>4, RevisionFacts

LEMMA PublicationInitially == PublicationAssumption /\ PInit => PublicationInv
<1> SUFFICES ASSUME PublicationAssumption, PInit PROVE PublicationInv
  OBVIOUS
<1>1. NoRun \in RunType
  BY DEF NoRun, RunType, Stages
<1>2. PTypeOK
  <2>1. run \in [Releasers -> RunType] /\ head \in [Releasers -> Revisions] /\ originMain \in Revisions
    BY <1>1, RevisionFacts DEF PInit
  <2>2. runs \in 0..MaxRuns /\ failures \in 0..MaxFailures
    BY DEF PInit, PublicationAssumption
  <2> QED
    BY <2>1, <2>2 DEF PInit, PTypeOK, RunType
<1>3. ReleasesAreTagged
  BY DEF PInit, ReleasesAreTagged
<1>4. ASSUME NEW r \in Releasers PROVE Fine(r)
  <2>1. run[r] = NoRun
    BY DEF PInit
  <2> QED
    BY <2>1 DEF NoRun, Fine, Placed, GateBuilt, PublishedSoFar, Copied, Tagged
<1> QED
  BY <1>2, <1>3, <1>4 DEF PublicationInv, Fine

\* Where a run goes on, and nothing else of it changes.
LEMMA RunMoves ==
    ASSUME PublicationAssumption, PTypeOK, NEW r \in Releasers, NEW a \in Stages, RunTo(r, a)
    PROVE  /\ run' \in [Releasers -> RunType]
           /\ run'[r].at = a /\ run'[r].version = run[r].version /\ run'[r].first = run[r].first
           /\ run'[r].commit = run[r].commit /\ run'[r].bytes = run[r].bytes /\ run'[r].second = run[r].second
BY RunFacts DEF RunTo, RunType

\* What an action of a run leaves to the other runs.
Script(r) ==
    \/ \E execute \in BOOLEAN : StartRun(r, execute)
    \/ RequireSource(r) \/ RequireAbsent(r) \/ Gate(r) \/ Prepare(r)
    \/ CreateTag(r) \/ PushTag(r) \/ ReadTag(r) \/ CreateRelease(r) \/ ReadRelease(r) \/ Fail(r)
Clone(r) == Advance(r) \/ PushMain(r) \/ FetchTags(r) \/ BuildWorker(r)

\* The tag and the release of a version stay what they are once they are.
Stable ==
    \A v \in Versions : /\ originTag[v] # NoOne => originTag'[v] = originTag[v]
                        /\ ghRelease[v] # NoOne => ghRelease'[v] = ghRelease[v]

LEMMA OriginStays ==
    ASSUME PTypeOK, NEW r \in Releasers, Script(r) \/ Clone(r)
    PROVE  Stable
<1>1. originTag \in [Versions -> TagObjects \cup {NoOne}] /\ ghRelease \in [Versions -> {NoOne} \cup ReleaseType]
  BY DEF PTypeOK, ReleaseType
<1>2. CASE UNCHANGED <<originTag, ghRelease>>
  BY <1>2 DEF Stable
<1>3. CASE PushTag(r)
  BY <1>1, <1>3 DEF PushTag, PushTaken, Stable
<1>4. CASE CreateRelease(r)
  BY <1>1, <1>4 DEF CreateRelease, Stable
<1>5. CASE Fail(r)
  BY <1>1, <1>5 DEF Fail, PushTaken, Stable
<1>6. Clone(r) => UNCHANGED <<originTag, ghRelease>>
  BY DEF Clone, Advance, PushMain, FetchTags, BuildWorker
<1>7. (\E execute \in BOOLEAN : StartRun(r, execute)) \/ RequireSource(r) \/ RequireAbsent(r) \/ Gate(r) \/ Prepare(r)
         \/ CreateTag(r) \/ ReadTag(r) \/ ReadRelease(r)
      => UNCHANGED <<originTag, ghRelease>>
  BY DEF StartRun, RequireSource, RequireAbsent, Gate, Prepare, CreateTag, ReadTag, ReadRelease, OutsideRun
<1> QED
  BY <1>2, <1>3, <1>4, <1>5, <1>6, <1>7 DEF Script

\* What an action of a clone changes of it: the clone goes on, and is built where no run looks.
LEMMA ClonesMove ==
    ASSUME PublicationAssumption, PTypeOK, NEW r \in Releasers, Clone(r)
    PROVE  /\ PTypeOK' /\ run' = run /\ UNCHANGED <<originTag, ghRelease>>
           /\ \A s \in Releasers : head[s] <= head'[s] /\ (dist'[s] = dist[s] \/ run[s].at \in BuildsAt)
<1>1. head \in [Releasers -> Revisions] /\ dist \in [Releasers -> Bytes \cup {NoOne}] /\ Revisions \subseteq Nat
  BY RevisionFacts DEF PTypeOK
<1>2. \A s \in Releasers : head[s] \in Nat /\ head[s] <= head[s]
  <2>1. ASSUME NEW s \in Releasers PROVE head[s] \in Nat
    BY <1>1
  <2>2. \A n \in Nat : n <= n
    OBVIOUS
  <2> QED
    BY <2>1, <2>2
<1>3. CASE Advance(r)
  <2>1. head[r] + 1 \in Revisions /\ head' = [head EXCEPT ![r] = head[r] + 1]
    BY <1>1, <1>3, RevisionFacts DEF Advance
  <2>2. ASSUME NEW s \in Releasers PROVE head[s] <= head'[s]
    BY <1>1, <1>2, <2>1
  <2>3. head' \in [Releasers -> Revisions]
    BY <1>1, <2>1
  <2> QED
    BY <1>3, <2>2, <2>3 DEF Advance, PTypeOK
<1>4. CASE PushMain(r)
  BY <1>1, <1>2, <1>4 DEF PushMain, PTypeOK
<1>5. CASE FetchTags(r)
  <2>1. localTag' \in [Releasers -> [Versions -> TagObjects \cup {NoOne}]]
    BY <1>5 DEF FetchTags, PTypeOK
  <2> QED
    BY <1>2, <1>5, <2>1 DEF FetchTags, PTypeOK
<1>6. CASE BuildWorker(r)
  <2>1. web[r] \in Revisions /\ Built(head[r], web[r]) \in Bytes
    BY <1>1, <1>6 DEF BuildWorker, Built, Bytes, PTypeOK
  <2>2. dist' = [dist EXCEPT ![r] = Built(head[r], web[r])] /\ run[r].at \in BuildsAt /\ head' = head
    BY <1>6 DEF BuildWorker
  <2>3. dist' \in [Releasers -> Bytes \cup {NoOne}]
    BY <1>1, <2>1, <2>2
  <2>4. \A s \in Releasers : dist'[s] = dist[s] \/ run[s].at \in BuildsAt
    BY <1>1, <2>2
  <2> QED
    BY <1>2, <1>6, <2>2, <2>3, <2>4 DEF BuildWorker, PTypeOK
<1> QED
  BY <1>3, <1>4, <1>5, <1>6 DEF Clone

\* What an action of a run changes of the clones and of the other runs.
LEMMA ReleasersRest ==
    ASSUME PTypeOK, NEW r \in Releasers, Script(r)
    PROVE  head' = head /\ \A s \in Releasers : s # r => run'[s] = run[s] /\ dist'[s] = dist[s]
<1>1. run \in [Releasers -> RunType] /\ dist \in [Releasers -> Bytes \cup {NoOne}]
  BY DEF PTypeOK, RunType
<1>2. CASE \E execute \in BOOLEAN : StartRun(r, execute)
  BY <1>1, <1>2 DEF StartRun, OutsideRun
<1>3. CASE RequireSource(r)
  BY <1>1, <1>3 DEF RequireSource, OutsideRun, Stop, RunTo
<1>4. CASE RequireAbsent(r)
  BY <1>1, <1>4 DEF RequireAbsent, OutsideRun, Stop, RunTo
<1>5. CASE Gate(r)
  BY <1>1, <1>5 DEF Gate
<1>6. CASE Prepare(r)
  BY <1>1, <1>6 DEF Prepare, OutsideRun
<1>7. CASE CreateTag(r) \/ PushTag(r) \/ CreateRelease(r)
  BY <1>1, <1>7 DEF CreateTag, PushTag, CreateRelease, Stop, RunTo
<1>8. CASE ReadTag(r) \/ ReadRelease(r)
  BY <1>1, <1>8 DEF ReadTag, ReadRelease, OutsideRun, RunTo
<1>9. CASE Fail(r)
  BY <1>1, <1>9 DEF Fail, Stop, RunTo
<1> QED
  BY <1>2, <1>3, <1>4, <1>5, <1>6, <1>7, <1>8, <1>9 DEF Script

\* A run that rests stays what it was, as long as nobody builds into what it looked at.
LEMMA RunRests ==
    ASSUME PublicationAssumption, PublicationInv, Stable, NEW r \in Releasers, run'[r] = run[r],
           head'[r] \in Nat, head[r] <= head'[r],
           dist'[r] = dist[r] \/ run[r].at \notin {"source", "absent", "prepare"}
    PROVE  Fine(r)'
<1>1. PTypeOK /\ Placed(r) /\ GateBuilt(r) /\ PublishedSoFar(r)
  BY DEF PublicationInv
<1>2. run[r] \in RunType /\ head[r] \in Nat /\ run[r].first \in Nat /\ run[r].commit \in Nat
      /\ \A c \in Revisions : TagOf(r, c) # NoOne
  BY <1>1, RunFacts
<1>3. Placed(r)'
  BY <1>1, <1>2 DEF Placed
<1>4. GateBuilt(r)'
  BY <1>1, <1>2, RevisionFacts DEF GateBuilt, Built
<1>5. PublishedSoFar(r)'
  <2>1. run[r].at \in Copied => run[r].version \in Versions /\ run[r].commit \in Revisions
    BY <1>1 DEF Placed, Copied
  <2>2. run[r].at \in Copied => run'[r].bytes = Built(run[r].commit, run[r].commit)
    BY <1>1 DEF PublishedSoFar
  <2>3. run[r].at \in Tagged => originTag'[run[r].version] = TagOf(r, run[r].commit)
    BY <1>1, <1>2, <2>1 DEF PublishedSoFar, Stable, Tagged, Copied
  <2>4. run[r].at = "published" => ghRelease'[run[r].version] = ghRelease[run[r].version]
    BY <1>1, <2>1 DEF PublishedSoFar, Stable, Copied
  <2> QED
    BY <1>1, <2>2, <2>3, <2>4 DEF PublishedSoFar, Built, TagOf
<1> QED
  BY <1>3, <1>4, <1>5 DEF Fine

\* The types, the tag of every release, and a run of its own, one action of the script after the other.
Kept(r) == PTypeOK' /\ ReleasesAreTagged' /\ Fine(r)'

LEMMA TaggedStays ==
    ASSUME ReleasesAreTagged, UNCHANGED <<originTag, ghRelease>>
    PROVE  ReleasesAreTagged'
BY DEF ReleasesAreTagged

\* A run that stops has published nothing.
LEMMA RunStops ==
    ASSUME PublicationAssumption, PublicationInv, NEW r \in Releasers, run[r].at # "idle",
           RunTo(r, "untouched") \/ RunTo(r, "indeterminate")
    PROVE  Fine(r)'
<1>1. "untouched" \in Stages /\ "indeterminate" \in Stages /\ PTypeOK /\ Placed(r)
  BY DEF Stages, PublicationInv
<1>2. run'[r].version \in Versions /\ (run'[r].at = "untouched" \/ run'[r].at = "indeterminate")
  BY <1>1, RunMoves DEF Placed
<1>3. Placed(r)'
  BY <1>2 DEF Placed, Copied, Versions, Revisions
<1> QED
  BY <1>2, <1>3 DEF Fine, GateBuilt, PublishedSoFar, Copied, Tagged

LEMMA StartStep ==
    ASSUME PublicationAssumption, PublicationInv, NEW r \in Releasers, NEW execute \in BOOLEAN, StartRun(r, execute)
    PROVE  Kept(r)
<1> DEFINE q == [NoRun EXCEPT !.at = "source", !.version = VersionOf[head[r]], !.execute = execute]
<1>1. PTypeOK /\ ReleasesAreTagged /\ run \in [Releasers -> RunType] /\ head[r] \in Nat /\ VersionOf[head[r]] \in Versions
  BY RunFacts DEF PublicationInv
<1>2. NoRun \in RunType /\ NoRun.first = 0 /\ NoRun.commit = 0 /\ NoRun.second = FALSE
  BY DEF NoRun, RunType, Stages
<1> HIDE DEF NoRun
<1>3. /\ q \in RunType /\ q.at = "source" /\ q.version = VersionOf[head[r]]
      /\ q.first = 0 /\ q.commit = 0 /\ q.second = FALSE
  BY <1>1, <1>2 DEF RunType, Stages
<1>4. run' = [run EXCEPT ![r] = q] /\ UNCHANGED OutsideRun /\ UNCHANGED failures /\ runs' = runs + 1 /\ runs < MaxRuns
  BY DEF StartRun
<1> HIDE DEF q
<1>5. run' \in [Releasers -> RunType] /\ run'[r] = q
  BY <1>1, <1>3, <1>4
<1>6. runs' \in 0..MaxRuns
  BY <1>1, <1>4 DEF PTypeOK, PublicationAssumption
<1>7. PTypeOK'
  BY <1>1, <1>4, <1>5, <1>6 DEF PTypeOK, OutsideRun, RunType
<1>8. Fine(r)'
  BY <1>1, <1>3, <1>4, <1>5 DEF OutsideRun, Fine, Placed, GateBuilt, PublishedSoFar, Copied, Tagged, Versions, Revisions
<1> QED
  BY <1>1, <1>4, <1>7, <1>8, TaggedStays DEF Kept, OutsideRun

LEMMA SourceStep ==
    ASSUME PublicationAssumption, PublicationInv, NEW r \in Releasers, RequireSource(r)
    PROVE  Kept(r)
<1>1. PTypeOK /\ ReleasesAreTagged /\ Placed(r) /\ GateBuilt(r)
  BY DEF PublicationInv
<1>2. /\ run \in [Releasers -> RunType] /\ run[r] \in RunType /\ head[r] \in Revisions /\ head[r] \in Nat
      /\ run[r].first \in Nat /\ run[r].commit \in Nat
  BY <1>1, RunFacts
<1>3. UNCHANGED OutsideRun /\ UNCHANGED <<runs, failures>> /\ run[r].at = "source" /\ "absent" \in Stages /\ "untouched" \in Stages
  BY DEF RequireSource, RunAt, Stages
<1>4. CASE head[r] # originMain
  <2>1. RunTo(r, "untouched")
    BY <1>4 DEF RequireSource, Stop
  <2>2. run' \in [Releasers -> RunType]
    BY <1>1, <1>3, <2>1, RunMoves
  <2>3. PTypeOK'
    BY <1>1, <1>3, <2>2 DEF PTypeOK, OutsideRun, RunType
  <2> QED
    BY <1>1, <1>3, <2>1, <2>3, RunStops, TaggedStays DEF Kept, OutsideRun
<1>5. CASE head[r] = originMain
  <2> DEFINE f == IF run[r].first = 0 THEN head[r] ELSE run[r].first
  <2>1. run' = [run EXCEPT ![r].at = "absent", ![r].commit = head[r], ![r].first = f]
    BY <1>2, <1>5 DEF RequireSource
  <2>2. f \in Revisions \cup {0} /\ f \in Revisions /\ f \in Nat
    BY <1>2 DEF RunType
  <2>3. run[r].first <= head[r] /\ f <= head[r]
    BY <1>1, <1>2, <1>3 DEF Placed
  <2>4. run[r].second => f = run[r].first
    BY <1>1, <1>2, <1>3, RevisionFacts DEF Placed
  <2> HIDE DEF f
  <2>5. /\ run' \in [Releasers -> RunType]
        /\ run'[r].at = "absent" /\ run'[r].commit = head[r] /\ run'[r].first = f
        /\ run'[r].version = run[r].version /\ run'[r].second = run[r].second
    BY <1>2, <1>3, <2>1, <2>2 DEF RunType
  <2>6. PTypeOK'
    BY <1>1, <1>3, <2>5 DEF PTypeOK, OutsideRun, RunType
  <2>7. head' = head /\ dist' = dist
    BY <1>3 DEF OutsideRun
  <2>8. Placed(r)'
    BY <1>1, <1>2, <1>3, <2>2, <2>3, <2>5, <2>7 DEF Placed, Copied, Versions, Revisions
  <2>9. GateBuilt(r)'
    BY <1>1, <1>2, <1>3, <2>4, <2>5, <2>7 DEF GateBuilt, Built, Revisions
  <2>10. PublishedSoFar(r)'
    BY <2>5 DEF PublishedSoFar, Copied, Tagged
  <2> QED
    BY <1>1, <1>3, <2>6, <2>8, <2>9, <2>10, TaggedStays DEF Kept, Fine, OutsideRun
<1> QED
  BY <1>4, <1>5

LEMMA AbsentStep ==
    ASSUME PublicationAssumption, PublicationInv, NEW r \in Releasers, RequireAbsent(r)
    PROVE  Kept(r)
<1>1. PTypeOK /\ ReleasesAreTagged /\ Placed(r) /\ GateBuilt(r)
  BY DEF PublicationInv
<1>2. run[r] \in RunType /\ head[r] \in Nat /\ run[r].first \in Nat /\ run[r].commit \in Nat
  BY <1>1, RunFacts
<1>3. UNCHANGED OutsideRun /\ UNCHANGED <<runs, failures>> /\ run[r].at = "absent"
  BY DEF RequireAbsent, RunAt
<1>4. RunTo(r, "untouched") \/ (SameCommit(r) /\ RunTo(r, IF run[r].second THEN "prepare" ELSE "gate"))
  BY DEF RequireAbsent, Stop
<1>5. "untouched" \in Stages /\ (IF run[r].second THEN "prepare" ELSE "gate") \in Stages
  BY DEF Stages
<1>6. run' \in [Releasers -> RunType]
  BY <1>1, <1>4, <1>5, RunMoves
<1>7. PTypeOK'
  BY <1>1, <1>3, <1>6 DEF PTypeOK, OutsideRun, RunType
<1>8. CASE RunTo(r, "untouched")
  BY <1>1, <1>3, <1>7, <1>8, RunStops, TaggedStays DEF Kept, OutsideRun
<1>9. CASE SameCommit(r) /\ RunTo(r, IF run[r].second THEN "prepare" ELSE "gate")
  <2>1. /\ run'[r].at = IF run[r].second THEN "prepare" ELSE "gate"
        /\ run'[r].version = run[r].version /\ run'[r].first = run[r].first
        /\ run'[r].commit = run[r].commit /\ run'[r].second = run[r].second
    BY <1>1, <1>5, <1>9, RunMoves
  <2>2. head' = head /\ dist' = dist /\ run[r].first = run[r].commit
    BY <1>3, <1>9 DEF OutsideRun, SameCommit
  <2>3. Placed(r)'
    BY <1>1, <1>2, <1>3, <2>1, <2>2 DEF Placed, Copied, Versions, Revisions
  <2>4. GateBuilt(r)'
    BY <1>1, <1>2, <1>3, <2>1, <2>2 DEF GateBuilt, Built, Revisions
  <2>5. PublishedSoFar(r)'
    BY <2>1 DEF PublishedSoFar, Copied, Tagged
  <2> QED
    BY <1>1, <1>3, <1>7, <2>3, <2>4, <2>5, TaggedStays DEF Kept, Fine, OutsideRun
<1> QED
  BY <1>4, <1>8, <1>9

LEMMA GateStep ==
    ASSUME PublicationAssumption, PublicationInv, NEW r \in Releasers, Gate(r)
    PROVE  Kept(r)
<1>1. PTypeOK /\ ReleasesAreTagged /\ Placed(r)
  BY DEF PublicationInv
<1>2. /\ run \in [Releasers -> RunType] /\ run[r] \in RunType /\ head[r] \in Revisions /\ head[r] \in Nat
      /\ run[r].first \in Nat /\ run[r].commit \in Nat /\ Built(head[r], head[r]) \in Bytes
  BY <1>1, RunFacts
<1>3. /\ run[r].at = "gate" /\ UNCHANGED <<head, localTag, originMain, originTag, ghRelease, runs, failures>>
      /\ web' = [web EXCEPT ![r] = head[r]] /\ dist' = [dist EXCEPT ![r] = Built(head[r], head[r])]
      /\ run' = [run EXCEPT ![r].at = "source", ![r].second = TRUE]
  BY DEF Gate, RunAt
<1>4. /\ run' \in [Releasers -> RunType]
      /\ run'[r].at = "source" /\ run'[r].commit = run[r].commit /\ run'[r].first = run[r].first
      /\ run'[r].version = run[r].version /\ run'[r].second
  BY <1>2, <1>3 DEF RunType, Stages
<1>5. web' \in [Releasers -> Revisions \cup {NoOne}] /\ dist' \in [Releasers -> Bytes \cup {NoOne}]
      /\ dist'[r] = Built(head[r], head[r])
  BY <1>1, <1>2, <1>3 DEF PTypeOK
<1>6. PTypeOK'
  BY <1>1, <1>3, <1>4, <1>5 DEF PTypeOK, RunType
<1>7. Placed(r)'
  BY <1>1, <1>2, <1>3, <1>4 DEF Placed, Copied, Versions, Revisions
<1>8. GateBuilt(r)'
  <2>1. run[r].first <= head[r] /\ head[r] <= head[r]
    BY <1>1, <1>2, <1>3 DEF Placed
  <2> QED
    BY <1>2, <1>3, <1>4, <1>5, <2>1 DEF GateBuilt, Built, Revisions
<1>9. PublishedSoFar(r)'
  BY <1>4 DEF PublishedSoFar, Copied, Tagged
<1> QED
  BY <1>1, <1>3, <1>6, <1>7, <1>8, <1>9, TaggedStays DEF Kept, Fine

LEMMA PrepareStep ==
    ASSUME PublicationAssumption, PublicationInv, NEW r \in Releasers, Prepare(r)
    PROVE  Kept(r)
<1> DEFINE a == IF run[r].execute THEN "tag" ELSE "dry"
<1>1. PTypeOK /\ ReleasesAreTagged /\ Placed(r) /\ GateBuilt(r)
  BY DEF PublicationInv
<1>2. /\ run \in [Releasers -> RunType] /\ run[r] \in RunType /\ head[r] \in Nat
      /\ run[r].first \in Nat /\ run[r].commit \in Nat /\ Revisions \subseteq Nat
  BY <1>1, RunFacts, RevisionFacts
<1>3. UNCHANGED OutsideRun /\ UNCHANGED <<runs, failures>> /\ run[r].at = "prepare" /\ a \in Stages
      /\ run' = [run EXCEPT ![r].at = a, ![r].bytes = dist[r]]
  BY DEF Prepare, RunAt, Stages
<1>4. /\ run[r].first = run[r].commit /\ run[r].second /\ run[r].version \in Versions /\ run[r].commit \in Revisions
  BY <1>1, <1>3 DEF Placed
<1>5. dist[r] = Built(run[r].commit, run[r].commit) /\ dist[r] \in Bytes
  <2>1. PICK h \in Revisions : dist[r] = Built(h, h) /\ run[r].first <= h /\ h <= run[r].commit
    BY <1>1, <1>3, <1>4 DEF GateBuilt
  <2>2. h = run[r].commit
    BY <1>2, <1>4, <2>1
  <2> QED
    BY <1>1, <1>4, <2>1, <2>2, RunFacts
<1> HIDE DEF a
<1>6. /\ run' \in [Releasers -> RunType]
      /\ run'[r].at = a /\ run'[r].commit = run[r].commit /\ run'[r].first = run[r].first
      /\ run'[r].version = run[r].version /\ run'[r].bytes = dist[r]
  BY <1>2, <1>3, <1>5 DEF RunType
<1>7. PTypeOK'
  BY <1>1, <1>3, <1>6 DEF PTypeOK, OutsideRun, RunType
<1>8. a \in {"tag", "dry"}
  BY DEF a
<1>9. Placed(r)'
  BY <1>4, <1>6, <1>8 DEF Placed, Copied, Versions, Revisions
<1>10. GateBuilt(r)' /\ PublishedSoFar(r)'
  BY <1>5, <1>6, <1>8 DEF GateBuilt, PublishedSoFar, Copied, Tagged, Built
<1> QED
  BY <1>1, <1>3, <1>7, <1>9, <1>10, TaggedStays DEF Kept, Fine, OutsideRun

\* A run that goes on with the bytes it copied.
LEMMA CopiedMoves ==
    ASSUME PublicationAssumption, PublicationInv, NEW r \in Releasers, run[r].at \in Copied,
           NEW a \in Copied \cup {"indeterminate"}, RunTo(r, a)
    PROVE  /\ run' \in [Releasers -> RunType] /\ Placed(r)' /\ GateBuilt(r)'
           /\ a \in Copied => run'[r].bytes = Built(run[r].commit, run[r].commit)
           /\ run'[r].at = a /\ run'[r].version = run[r].version /\ run'[r].commit = run[r].commit
           /\ run[r].version \in Versions /\ run[r].commit \in Revisions
<1>1. PTypeOK /\ Placed(r) /\ PublishedSoFar(r) /\ a \in Stages
  BY DEF PublicationInv, Copied, Stages
<1>2. /\ run' \in [Releasers -> RunType] /\ run'[r].at = a /\ run'[r].version = run[r].version
      /\ run'[r].first = run[r].first /\ run'[r].commit = run[r].commit /\ run'[r].bytes = run[r].bytes
  BY <1>1, RunMoves
<1>3. /\ run[r].version \in Versions /\ run[r].commit \in Revisions /\ run[r].first = run[r].commit
      /\ run[r].bytes = Built(run[r].commit, run[r].commit)
  BY <1>1 DEF Placed, PublishedSoFar, Copied
<1>4. Placed(r)' /\ GateBuilt(r)'
  BY <1>2, <1>3 DEF Placed, GateBuilt, Copied, Versions, Revisions
<1> QED
  BY <1>2, <1>3, <1>4

LEMMA TagStep ==
    ASSUME PublicationAssumption, PublicationInv, NEW r \in Releasers, CreateTag(r)
    PROVE  Kept(r)
<1>1. PTypeOK /\ ReleasesAreTagged /\ run[r].at = "tag" /\ run[r].at \in Copied
  BY DEF PublicationInv, CreateTag, RunAt, Copied
<1>2. PICK a \in {"push", "indeterminate"} : RunTo(r, a)
  BY DEF CreateTag, Stop
<1>3. a \in Copied \cup {"indeterminate"} /\ a \notin Tagged
  BY DEF Copied, Tagged
<1>4. run' \in [Releasers -> RunType] /\ Placed(r)' /\ GateBuilt(r)' /\ run'[r].at = a
      /\ (a \in Copied => run'[r].bytes = Built(run[r].commit, run[r].commit)) /\ run'[r].commit = run[r].commit
      /\ run[r].version \in Versions /\ run[r].commit \in Revisions
  BY <1>1, <1>2, <1>3, CopiedMoves
<1>5. PublishedSoFar(r)'
  BY <1>3, <1>4 DEF PublishedSoFar, Tagged, Built
<1>6. localTag' \in [Releasers -> [Versions -> TagObjects \cup {NoOne}]]
  <2>1. TagOf(r, run[r].commit) \in TagObjects
    BY <1>1, <1>4, RunFacts
  <2>2. localTag \in [Releasers -> [Versions -> TagObjects \cup {NoOne}]]
    BY <1>1 DEF PTypeOK
  <2>3. localTag' = localTag \/ localTag' = [localTag EXCEPT ![r][run[r].version] = TagOf(r, run[r].commit)]
    BY DEF CreateTag
  <2> QED
    BY <1>4, <2>1, <2>2, <2>3
<1>7. PTypeOK'
  BY <1>1, <1>4, <1>6 DEF CreateTag, PTypeOK, RunType
<1> QED
  BY <1>1, <1>4, <1>5, <1>7, TaggedStays DEF Kept, Fine, CreateTag

LEMMA PushStep ==
    ASSUME PublicationAssumption, PublicationInv, NEW r \in Releasers, PushTag(r)
    PROVE  Kept(r)
<1>1. PTypeOK /\ ReleasesAreTagged /\ run[r].at = "push" /\ run[r].at \in Copied
  BY DEF PublicationInv, PushTag, RunAt, Copied
<1>2. PICK a \in {"readTag", "indeterminate"} : RunTo(r, a)
  BY DEF PushTag, Stop
<1>3. a \in Copied \cup {"indeterminate"} /\ a \notin Tagged
  BY DEF Copied, Tagged
<1>4. run' \in [Releasers -> RunType] /\ Placed(r)' /\ GateBuilt(r)' /\ run'[r].at = a
      /\ (a \in Copied => run'[r].bytes = Built(run[r].commit, run[r].commit)) /\ run'[r].commit = run[r].commit
      /\ run[r].version \in Versions /\ run[r].commit \in Revisions
  BY <1>1, <1>2, <1>3, CopiedMoves
<1>5. PublishedSoFar(r)'
  BY <1>3, <1>4 DEF PublishedSoFar, Tagged, Built
<1>6. originTag' \in [Versions -> TagObjects \cup {NoOne}]
  BY <1>1, <1>4 DEF PushTag, PTypeOK
<1>7. PTypeOK'
  BY <1>1, <1>4, <1>6 DEF PushTag, PTypeOK, RunType
<1>8. ReleasesAreTagged'
  <2>1. Stable /\ ghRelease' = ghRelease
    BY <1>1, OriginStays DEF Script, PushTag
  <2>2. \A v \in Versions : ghRelease[v] # NoOne => ghRelease[v].tag # NoOne
    BY <1>1 DEF PTypeOK, TagObjects, PublicationAssumption
  <2> QED
    BY <1>1, <2>1, <2>2 DEF ReleasesAreTagged, Stable
<1> QED
  BY <1>4, <1>5, <1>7, <1>8 DEF Kept, Fine

LEMMA ReadTagStep ==
    ASSUME PublicationAssumption, PublicationInv, NEW r \in Releasers, ReadTag(r)
    PROVE  Kept(r)
<1> DEFINE a == IF originTag[run[r].version] = TagOf(r, run[r].commit) THEN "publish" ELSE "indeterminate"
<1>1. PTypeOK /\ ReleasesAreTagged /\ run[r].at = "readTag" /\ run[r].at \in Copied
  BY DEF PublicationInv, ReadTag, RunAt, Copied
<1>2. RunTo(r, a) /\ UNCHANGED OutsideRun /\ UNCHANGED <<runs, failures>>
  BY DEF ReadTag
<1>3. a \in Copied \cup {"indeterminate"} /\ (a \in Tagged => originTag[run[r].version] = TagOf(r, run[r].commit)) /\ a # "published"
  BY DEF Copied, Tagged
<1> HIDE DEF a
<1>4. run' \in [Releasers -> RunType] /\ Placed(r)' /\ GateBuilt(r)' /\ run'[r].at = a
      /\ (a \in Copied => run'[r].bytes = Built(run[r].commit, run[r].commit))
      /\ run'[r].commit = run[r].commit /\ run'[r].version = run[r].version
  BY <1>1, <1>2, <1>3, CopiedMoves
<1>5. PublishedSoFar(r)'
  BY <1>2, <1>3, <1>4 DEF PublishedSoFar, Built, TagOf, OutsideRun
<1>6. PTypeOK'
  BY <1>1, <1>2, <1>4 DEF PTypeOK, OutsideRun, RunType
<1> QED
  BY <1>1, <1>2, <1>4, <1>5, <1>6, TaggedStays DEF Kept, Fine, OutsideRun

LEMMA ReadReleaseStep ==
    ASSUME PublicationAssumption, PublicationInv, NEW r \in Releasers, ReadRelease(r)
    PROVE  Kept(r)
<1> DEFINE got == ghRelease[run[r].version]
           a == IF got # NoOne /\ ~got.draft /\ got.assets = Assets /\ got.bytes = run[r].bytes THEN "published" ELSE "indeterminate"
<1>1. PTypeOK /\ ReleasesAreTagged /\ run[r].at = "readRelease" /\ run[r].at \in Copied /\ run[r].at \in Tagged /\ PublishedSoFar(r)
  BY DEF PublicationInv, ReadRelease, RunAt, Copied, Tagged
<1>2. RunTo(r, a) /\ UNCHANGED OutsideRun /\ UNCHANGED <<runs, failures>>
  BY DEF ReadRelease
<1>3. /\ a \in Copied \cup {"indeterminate"} /\ (a = "indeterminate" => a \notin Tagged)
      /\ a = "published" => got # NoOne /\ ~got.draft /\ got.assets = Assets /\ got.bytes = run[r].bytes
  BY DEF Copied, Tagged
<1>4. originTag[run[r].version] = TagOf(r, run[r].commit) /\ run[r].bytes = Built(run[r].commit, run[r].commit)
  BY <1>1 DEF PublishedSoFar
<1> HIDE DEF a
<1>5. run' \in [Releasers -> RunType] /\ Placed(r)' /\ GateBuilt(r)' /\ run'[r].at = a
      /\ (a \in Copied => run'[r].bytes = Built(run[r].commit, run[r].commit))
      /\ run'[r].commit = run[r].commit /\ run'[r].version = run[r].version
  BY <1>1, <1>2, <1>3, CopiedMoves
<1>6. PublishedSoFar(r)'
  BY <1>2, <1>3, <1>4, <1>5 DEF PublishedSoFar, Built, TagOf, OutsideRun
<1>7. PTypeOK'
  BY <1>1, <1>2, <1>5 DEF PTypeOK, OutsideRun, RunType
<1> QED
  BY <1>1, <1>2, <1>5, <1>6, <1>7, TaggedStays DEF Kept, Fine, OutsideRun

\* A release that is created, whole or as a draft, has the tag that is at origin.
LEMMA ReleaseMade ==
    ASSUME PublicationAssumption, PublicationInv, NEW r \in Releasers, NEW parts \in SUBSET Assets, NEW asDraft \in BOOLEAN,
           run[r].at = "publish", originTag[run[r].version] # NoOne, UNCHANGED originTag,
           ghRelease' = [ghRelease EXCEPT ![run[r].version] =
                         [tag |-> originTag[run[r].version], bytes |-> run[r].bytes, assets |-> parts, draft |-> asDraft]]
    PROVE  ghRelease' \in [Versions -> {NoOne} \cup ReleaseType] /\ ReleasesAreTagged'
<1> DEFINE v == run[r].version
           release == [tag |-> originTag[v], bytes |-> run[r].bytes, assets |-> parts, draft |-> asDraft]
<1>1. PTypeOK /\ ReleasesAreTagged /\ Placed(r) /\ PublishedSoFar(r) /\ run[r].at \in Copied
  BY DEF PublicationInv, Copied
<1>2. v \in Versions /\ run[r].commit \in Revisions /\ run[r].bytes \in Bytes
  BY <1>1, RunFacts DEF Placed, PublishedSoFar, Copied
<1>3. originTag[v] \in TagObjects
  BY <1>1, <1>2 DEF PTypeOK
<1>4. release \in ReleaseType /\ release.tag = originTag[v]
  BY <1>2, <1>3 DEF ReleaseType
<1>5. ghRelease \in [Versions -> {NoOne} \cup ReleaseType]
  BY <1>1 DEF PTypeOK, ReleaseType
<1>6. ghRelease' = [ghRelease EXCEPT ![v] = release]
  OBVIOUS
<1> HIDE DEF release, v
<1>7. ghRelease' \in [Versions -> {NoOne} \cup ReleaseType] /\ \A w \in Versions : ghRelease'[w] = IF w = v THEN release ELSE ghRelease[w]
  BY <1>2, <1>4, <1>5, <1>6
<1> QED
  BY <1>1, <1>4, <1>7 DEF ReleasesAreTagged

LEMMA PublishStep ==
    ASSUME PublicationAssumption, PublicationInv, NEW r \in Releasers, CreateRelease(r)
    PROVE  Kept(r)
<1>1. PTypeOK /\ ReleasesAreTagged /\ run[r].at = "publish" /\ run[r].at \in Copied /\ run[r].at \in Tagged /\ PublishedSoFar(r)
  BY DEF PublicationInv, CreateRelease, RunAt, Copied, Tagged
<1>2. UNCHANGED <<head, web, dist, localTag, originMain, originTag, runs, failures>>
  BY DEF CreateRelease
<1>3. PICK a \in {"readRelease", "indeterminate"} : RunTo(r, a)
  BY DEF CreateRelease, Stop
<1>4. a \in Copied \cup {"indeterminate"} /\ a # "published"
  BY DEF Copied
<1>5. run' \in [Releasers -> RunType] /\ Placed(r)' /\ GateBuilt(r)' /\ run'[r].at = a
      /\ (a \in Copied => run'[r].bytes = Built(run[r].commit, run[r].commit))
      /\ run'[r].commit = run[r].commit /\ run'[r].version = run[r].version
  BY <1>1, <1>3, <1>4, CopiedMoves
<1>6. originTag[run[r].version] = TagOf(r, run[r].commit)
  BY <1>1 DEF PublishedSoFar
<1>7. PublishedSoFar(r)'
  BY <1>2, <1>4, <1>5, <1>6 DEF PublishedSoFar, Built, TagOf
<1>8. ghRelease' \in [Versions -> {NoOne} \cup ReleaseType] /\ ReleasesAreTagged'
  <2>1. CASE ghRelease' = ghRelease
    BY <1>1, <1>2, <2>1, TaggedStays DEF PTypeOK, ReleaseType
  <2>2. CASE ghRelease' # ghRelease
    <3>1. /\ originTag[run[r].version] # NoOne
          /\ ghRelease' = [ghRelease EXCEPT ![run[r].version] =
                           [tag |-> originTag[run[r].version], bytes |-> run[r].bytes, assets |-> Assets, draft |-> FALSE]]
      BY <2>2 DEF CreateRelease
    <3>2. Assets \in SUBSET Assets /\ FALSE \in BOOLEAN
      OBVIOUS
    <3> QED
      BY <1>1, <1>2, <3>1, <3>2, ReleaseMade
  <2> QED
    BY <2>1, <2>2
<1>9. PTypeOK'
  BY <1>1, <1>2, <1>5, <1>8 DEF PTypeOK, RunType, ReleaseType
<1> QED
  BY <1>5, <1>7, <1>8, <1>9 DEF Kept, Fine

LEMMA FailStep ==
    ASSUME PublicationAssumption, PublicationInv, NEW r \in Releasers, Fail(r)
    PROVE  Kept(r)
<1>1. PTypeOK /\ ReleasesAreTagged
  BY DEF PublicationInv
<1>2. /\ run[r].at # "idle" /\ failures' = failures + 1 /\ failures < MaxFailures
      /\ UNCHANGED <<head, web, dist, localTag, originMain, runs>>
  BY DEF Fail, Finished
<1>3. PICK a \in {"untouched", "indeterminate"} : RunTo(r, a)
  BY DEF Fail, Stop
<1>4. Fine(r)' /\ run' \in [Releasers -> RunType]
  <2>1. a \in Stages
    BY DEF Stages
  <2> QED
    BY <1>1, <1>2, <1>3, <2>1, RunStops, RunMoves
<1>5. failures' \in 0..MaxFailures
  BY <1>1, <1>2 DEF PTypeOK, PublicationAssumption
<1>6. originTag' \in [Versions -> TagObjects \cup {NoOne}] /\ ghRelease' \in [Versions -> {NoOne} \cup ReleaseType] /\ ReleasesAreTagged'
  <2>1. CASE UNCHANGED <<originTag, ghRelease>>
    BY <1>1, <2>1, TaggedStays DEF PTypeOK, ReleaseType
  <2>2. CASE RunAt(r, "push") /\ originTag' = [originTag EXCEPT ![run[r].version] = localTag[r][run[r].version]] /\ UNCHANGED ghRelease
    <3>1. Stable
      BY <1>1, OriginStays DEF Script
    <3>2. \A v \in Versions : ghRelease[v] # NoOne => ghRelease[v].tag # NoOne
      BY <1>1 DEF PTypeOK, TagObjects, PublicationAssumption
    <3>3. ReleasesAreTagged'
      BY <1>1, <2>2, <3>1, <3>2 DEF ReleasesAreTagged, Stable
    <3>4. run[r].version \in Versions
      BY <1>2 DEF PublicationInv, Placed
    <3>5. originTag' \in [Versions -> TagObjects \cup {NoOne}]
      BY <1>1, <2>2, <3>4 DEF PTypeOK
    <3> QED
      BY <1>1, <2>2, <3>3, <3>5 DEF PTypeOK, ReleaseType
  <2>3. CASE /\ run[r].at = "publish" /\ originTag[run[r].version] # NoOne /\ UNCHANGED originTag
             /\ \E parts \in {{}, {"worker.js"}} :
                  ghRelease' = [ghRelease EXCEPT ![run[r].version] =
                                [tag |-> originTag[run[r].version], bytes |-> run[r].bytes, assets |-> parts, draft |-> TRUE]]
    <3>1. PICK parts \in SUBSET Assets :
             ghRelease' = [ghRelease EXCEPT ![run[r].version] =
                           [tag |-> originTag[run[r].version], bytes |-> run[r].bytes, assets |-> parts, draft |-> TRUE]]
      BY <2>3 DEF Assets
    <3>2. ghRelease' \in [Versions -> {NoOne} \cup ReleaseType] /\ ReleasesAreTagged'
      BY <2>3, <3>1, ReleaseMade
    <3> QED
      BY <1>1, <2>3, <3>2 DEF PTypeOK
  <2> QED
    BY <2>1, <2>2, <2>3 DEF Fail, RunAt
<1>7. PTypeOK'
  BY <1>1, <1>2, <1>4, <1>5, <1>6 DEF PTypeOK, RunType, ReleaseType
<1> QED
  BY <1>4, <1>6, <1>7 DEF Kept

\* Nobody builds by hand between the last look at the source and the copy of the bytes.
BuildsApart == BuildsAt \cap {"source", "absent", "prepare"} = {}

LEMMA PublicationStep ==
    ASSUME PublicationAssumption, BuildsApart, PublicationInv, [PNext]_pvars
    PROVE  PublicationInv'
<1>1. PTypeOK /\ ReleasesAreTagged
  BY DEF PublicationInv
<1>2. \A r \in Releasers : head[r] \in Nat /\ head[r] <= head[r]
  <2>1. \A n \in Nat : n <= n
    OBVIOUS
  <2> QED
    BY <1>1, <2>1, RunFacts
<1>3. CASE UNCHANGED pvars
  <2>1. Stable
    BY <1>3 DEF pvars, Stable
  <2>2. \A r \in Releasers : Fine(r)'
    BY <1>2, <1>3, <2>1, RunRests DEF pvars
  <2> QED
    BY <1>1, <1>3, <2>2, TaggedStays DEF PublicationInv, Fine, pvars, PTypeOK
<1>4. ASSUME NEW r \in Releasers, Clone(r) PROVE PublicationInv'
  <2>1. /\ PTypeOK' /\ run' = run /\ UNCHANGED <<originTag, ghRelease>> /\ Stable
        /\ \A s \in Releasers : head[s] <= head'[s] /\ (dist'[s] = dist[s] \/ run[s].at \in BuildsAt)
    BY <1>1, <1>4, ClonesMove, OriginStays
  <2>2. ASSUME NEW s \in Releasers PROVE Fine(s)'
    <3>1. head'[s] \in Nat
      BY <2>1, RevisionFacts DEF PTypeOK
    <3>2. dist'[s] = dist[s] \/ run[s].at \notin {"source", "absent", "prepare"}
      BY <2>1 DEF BuildsApart
    <3> QED
      BY <2>1, <3>1, <3>2, RunRests
  <2> QED
    BY <1>1, <2>1, <2>2, TaggedStays DEF PublicationInv, Fine
<1>5. ASSUME NEW r \in Releasers, Script(r) PROVE PublicationInv'
  <2>1. Kept(r)
    BY <1>5, StartStep, SourceStep, AbsentStep, GateStep, PrepareStep, TagStep, PushStep, ReadTagStep, PublishStep,
       ReadReleaseStep, FailStep DEF Script
  <2>2. ASSUME NEW s \in Releasers, s # r PROVE Fine(s)'
    <3>1. head' = head /\ run'[s] = run[s] /\ dist'[s] = dist[s] /\ Stable
      BY <1>1, <1>5, <2>2, ReleasersRest, OriginStays
    <3> QED
      BY <1>2, <3>1, RunRests
  <2> QED
    BY <2>1, <2>2 DEF PublicationInv, Kept, Fine
<1> QED
  BY <1>3, <1>4, <1>5 DEF PNext, Script, Clone

\* What is reported as published is at origin, whole, and was built from the commit of its tag.
THEOREM PublishedStaysExact == PublicationAssumption /\ BuildsApart => (PSpec => []PublishedIsExact)
<1> SUFFICES ASSUME PublicationAssumption, BuildsApart PROVE PSpec => []PublishedIsExact
  OBVIOUS
<1>1. PInit => PublicationInv
  BY PublicationInitially
<1>2. PublicationInv /\ [PNext]_pvars => PublicationInv'
  BY PublicationStep
<1>3. PublicationInv => PublishedIsExact
  <2> SUFFICES ASSUME PublicationInv, NEW r \in Releasers, RunAt(r, "published")
               PROVE  /\ originTag[run[r].version] = TagOf(r, run[r].commit)
                      /\ ghRelease[run[r].version] =
                           [tag |-> originTag[run[r].version], bytes |-> Built(run[r].commit, run[r].commit),
                            assets |-> Assets, draft |-> FALSE]
    BY DEF PublishedIsExact
  <2> DEFINE v == run[r].version
  <2>1. v \in Versions /\ PublishedSoFar(r) /\ run[r].at = "published" /\ run[r].at \in Copied /\ run[r].at \in Tagged
    BY DEF PublicationInv, Placed, RunAt, Copied, Tagged
  <2>2. originTag[v] = TagOf(r, run[r].commit) /\ run[r].bytes = Built(run[r].commit, run[r].commit)
    BY <2>1 DEF PublishedSoFar
  <2>3. ghRelease[v] # NoOne /\ ~ghRelease[v].draft /\ ghRelease[v].assets = Assets /\ ghRelease[v].bytes = run[r].bytes
    BY <2>1 DEF PublishedSoFar
  <2>4. ghRelease[v].tag = originTag[v] /\ ghRelease[v] \in ReleaseType
    BY <2>1, <2>3 DEF PublicationInv, ReleasesAreTagged, PTypeOK, ReleaseType
  <2> HIDE DEF v
  <2>5. ghRelease[v] = [tag |-> originTag[v], bytes |-> run[r].bytes, assets |-> Assets, draft |-> FALSE]
    BY <2>3, <2>4 DEF ReleaseType
  <2> QED
    BY <2>2, <2>5 DEF v
<1> QED
  BY <1>1, <1>2, <1>3, PTL DEF PSpec

-----------------------------------------------------------------------------
(* The page of an issue: one button, one comment.                            *)

\* The posts of a draft that are under way.
Posts(d) == {q \in requests : q.kind = "post" /\ q.text = d}

\* A draft is posted once at a time, and again only when it is still in the composer and the page was told
\* that posting it failed, unless another write of the page enabled the buttons.
DraftIsSound(d) ==
    /\ d > typed => Posts(d) = {} /\ posted[d] <= missed[d]
    /\ d \notin crossed =>
          /\ \A q, r \in Posts(d) : q = r
          /\ Posts(d) # {} => busy \/ draft # d
          /\ posted[d] <= missed[d] + 1
          /\ draft = d /\ Posts(d) = {} => posted[d] <= missed[d]
          /\ \A q \in Posts(d) : q.stage # "done" => posted[d] <= missed[d]

\* A request that is no post.
NoPost(q) == q.kind # "post" /\ {"kind", "text", "stage"} \subseteq DOMAIN q

ScreenInv ==
    /\ typed \in Nat /\ draft \in 0..typed
    /\ posted \in [Drafts -> Nat] /\ missed \in [Drafts -> Nat]
    /\ \A q \in requests : {"kind", "text", "stage"} \subseteq DOMAIN q
    /\ \A d \in Drafts : DraftIsSound(d)

\* IssueDetail.tsx: what is asked besides posting is no post.
LEMMA AskedIsNoPost ==
    \A i, k, state :
        NoPost(Patch(i, state)) /\ NoPost(Get(i)) /\ NoPost(NumberedAs(Get(i), k)) /\ NoPost(NumberedAs(FirstPage(i), k))
BY DEF NoPost, Patch, Get, FirstPage, NumberedAs, PageRequest

\* A step after which no more is posted than before, and no more requests are under way, but for
\* some that are no posts.
LEMMA NothingPosted ==
    ASSUME ScreenInv, NEW removed, NEW more,
           requests' = (requests \ removed) \cup more,
           \A q \in more : NoPost(q),
           UNCHANGED <<typed, posted, missed>>, crossed \subseteq crossed', draft' \in {draft, 0},
           \A q \in removed : q.kind = "post" => q.stage # "done" \/ draft' = 0,
           \A d \in Drafts \ crossed' : Posts(d) \subseteq removed \/ busy' \/ draft' = 0 \/ ~busy
    PROVE  ScreenInv'
<1>1. \A d \in Drafts : Posts(d)' \subseteq Posts(d)
  BY DEF Posts, NoPost
<1>2. ASSUME NEW d \in Drafts PROVE DraftIsSound(d)'
  <2>1. DraftIsSound(d) /\ d # 0
    BY DEF ScreenInv, Drafts
  <2>2. Posts(d)' \subseteq Posts(d) /\ Posts(d)' \cap removed = {}
    BY <1>1 DEF Posts, NoPost
  <2>3. Posts(d) \subseteq removed => Posts(d)' = {}
    BY <1>1, <2>2
  <2>4. ASSUME d \notin crossed', draft' = d, Posts(d)' = {} PROVE posted[d] <= missed[d]
    <3>1. draft = d /\ d \notin crossed
      BY <2>1, <2>4
    <3>2. CASE Posts(d) = {}
      BY <2>1, <3>1, <3>2 DEF DraftIsSound
    <3>3. CASE Posts(d) # {}
      <4>1. PICK q \in Posts(d) : TRUE
        BY <3>3
      <4>2. q \in removed /\ q.kind = "post"
        BY <2>4, <4>1 DEF Posts
      <4>3. q.stage # "done"
        BY <2>1, <2>4, <4>2
      <4> QED BY <2>1, <3>1, <4>1, <4>3 DEF DraftIsSound
    <3> QED BY <3>2, <3>3
  <2>5. ASSUME d \notin crossed', Posts(d)' # {} PROVE busy' \/ draft' # d
    BY <2>1, <2>2, <2>3, <2>5 DEF DraftIsSound
  <2> QED BY <2>1, <2>2, <2>4, <2>5 DEF DraftIsSound
<1>3. \A q \in requests' : {"kind", "text", "stage"} \subseteq DOMAIN q
  BY DEF ScreenInv, NoPost
<1> QED BY <1>2, <1>3 DEF ScreenInv

\* One request more that is no post, and the buttons are disabled or as they were.
OneMore(more) ==
    /\ requests' = requests \cup more /\ \A q \in more : NoPost(q)
    /\ busy' \/ busy' = busy
    /\ UNCHANGED <<typed, posted, missed, crossed, draft>>

LEMMA MoreAsked ==
    ASSUME ScreenInv, NEW more, OneMore(more)
    PROVE  ScreenInv'
<1> DEFINE none == {}
<1>1. requests' = (requests \ none) \cup more /\ \A q \in more : NoPost(q)
  BY DEF OneMore
<1>2. /\ UNCHANGED <<typed, posted, missed>> /\ crossed \subseteq crossed' /\ draft' \in {draft, 0}
      /\ \A d \in Drafts \ crossed' : Posts(d) \subseteq none \/ busy' \/ draft' = 0 \/ ~busy
  BY DEF OneMore
<1>3. \A q \in none : q.kind = "post" => q.stage # "done" \/ draft' = 0
  OBVIOUS
<1> HIDE DEF none
<1> QED BY <1>1, <1>2, <1>3, NothingPosted

UserSteps ==
    \/ Type \/ OpenPicker \/ Flush \/ LoadMore
    \/ \E then \in {"", "open", "closed"} : Submit(then)
    \/ \E l \in LabelNames : Toggle(l)
    \/ \E i \in Issues : Navigate(i) \/ \E l \in LabelNames : Other(i, l)
    \/ \E c \in ToSet(timeline) : RemoveComment(c)

\* IssueDetail.tsx: a step of the user.
LEMMA UserKeeps ==
    ASSUME ScreenInv, UserSteps
    PROVE  ScreenInv'
<1>2. CASE Type
  <2>1. /\ typed' = typed + 1 /\ draft' = typed + 1 /\ typed \in Nat
        /\ UNCHANGED <<requests, posted, missed, crossed, busy>>
    BY <1>2 DEF Type, ScreenInv
  <2>2. \A d \in Drafts : Posts(d)' = Posts(d) /\ DraftIsSound(d) /\ d \in Nat
    BY <2>1, ScreenAssumption DEF Posts, ScreenInv, Drafts
  <2>3. ASSUME NEW d \in Drafts PROVE DraftIsSound(d)'
    <3>1. d > typed' => d > typed
      BY <2>1, <2>2
    <3>2. draft' = d => d > typed
      BY <2>1, <2>2
    <3> QED BY <2>1, <2>2, <3>1, <3>2 DEF DraftIsSound
  <2>4. typed' \in Nat /\ draft' \in 0..typed'
    BY <2>1
  <2> QED BY <2>1, <2>3, <2>4 DEF ScreenInv
<1>3. CASE OpenPicker \/ \E l \in LabelNames : Toggle(l)
  <2>1. OneMore({})
    BY <1>3 DEF OpenPicker, Toggle, historyVars, OneMore
  <2> QED BY MoreAsked, <2>1
<1>4. CASE Flush
  <2> DEFINE q == [PageRequest("patch", at) EXCEPT !.labels = picked, !.relabels = TRUE]
  <2>1. NoPost(q)
    BY DEF PageRequest, NoPost
  <2>2. OneMore({}) \/ OneMore({q})
    BY <1>4, <2>1 DEF Flush, SendRequest, historyVars, OneMore
  <2> QED BY MoreAsked, <2>2
<1>5. CASE LoadMore \/ \E c \in ToSet(timeline) : RemoveComment(c)
  <2>1. \A c : NoPost([PageRequest("page", at) EXCEPT !.from = cursor]) /\ NoPost([PageRequest("delete", at) EXCEPT !.comment = c])
    BY DEF PageRequest, NoPost
  <2>2. \E q : OneMore({q})
    <3>1. CASE LoadMore
      <4>1. OneMore({[PageRequest("page", at) EXCEPT !.from = cursor]})
        BY <2>1, <3>1 DEF LoadMore, SendRequest, historyVars, OneMore
      <4> QED BY <4>1
    <3>2. ASSUME NEW c \in ToSet(timeline), RemoveComment(c) PROVE \E q : OneMore({q})
      <4>1. OneMore({[PageRequest("delete", at) EXCEPT !.comment = c]})
        BY <2>1, <3>2 DEF RemoveComment, SendRequest, historyVars, pageVars, OneMore
      <4> QED BY <4>1
    <3> QED BY <1>5, <3>1, <3>2
  <2> QED BY MoreAsked, <2>2
<1>6. ASSUME NEW i \in Issues, Navigate(i) PROVE ScreenInv'
  <2>1. NoPost(Get(i)) /\ NoPost(NumberedAs(FirstPage(i), 2))
    BY AskedIsNoPost
  <2>2. OneMore({Get(i), NumberedAs(FirstPage(i), 2)})
    BY <1>6, <2>1 DEF Navigate, historyVars, OneMore
  <2> QED BY MoreAsked, <2>2
<1>7. ASSUME NEW i, NEW l, Other(i, l) PROVE ScreenInv'
  <2>1. OneMore({})
    BY <1>7 DEF Other, pageVars, OneMore
  <2> QED BY MoreAsked, <2>1
<1>8. ASSUME NEW then, Submit(then) PROVE ScreenInv'
  <2>1. /\ ~busy /\ busy' = TRUE /\ UNCHANGED <<typed, posted, missed, crossed, draft>>
    BY <1>8 DEF Submit, Enabled, historyVars
  <2>2. CASE draft = 0
    <3>1. requests' = requests \cup {Patch(at, then)}
      BY <1>8, <2>2 DEF Submit, SendRequest
    <3>2. NoPost(Patch(at, then))
      BY AskedIsNoPost
    <3>3. OneMore({Patch(at, then)})
      BY <2>1, <3>1, <3>2 DEF OneMore
    <3> QED BY MoreAsked, <3>3
  <2>3. CASE draft # 0
    <3> DEFINE q == [PageRequest("post", at) EXCEPT !.text = draft, !.then = then]
    <3>1. requests' = requests \cup {q}
      BY <1>8, <2>3 DEF Submit, SendRequest
    <3>2. q.kind = "post" /\ q.text = draft /\ q.stage = "sent" /\ {"kind", "text", "stage"} \subseteq DOMAIN q
      BY DEF PageRequest, NoPost
    <3> HIDE DEF q
    <3>3. ASSUME NEW d \in Drafts PROVE DraftIsSound(d)'
      <4>1. DraftIsSound(d) /\ draft \in 0..typed /\ typed \in Nat /\ d \in Nat
        BY ScreenAssumption DEF ScreenInv, Drafts
      <4>2. CASE d # draft
        <5>1. Posts(d)' = Posts(d)
          BY <3>1, <3>2, <4>2 DEF Posts
        <5> QED BY <2>1, <4>1, <4>2, <5>1 DEF DraftIsSound
      <4>3. CASE d = draft
        <5>1. ~(d > typed)
          BY <4>1, <4>3
        <5>2. d \notin crossed => Posts(d) = {} /\ posted[d] <= missed[d]
          BY <2>1, <4>1, <4>3 DEF DraftIsSound
        <5>3. Posts(d)' = Posts(d) \cup {q}
          BY <3>1, <3>2, <4>3 DEF Posts
        <5>4. posted[d] \in Nat /\ missed[d] \in Nat
          BY DEF ScreenInv
        <5> QED BY <2>1, <5>1, <5>2, <5>3, <5>4 DEF DraftIsSound
      <4> QED BY <4>2, <4>3
    <3>4. \A p \in requests' : {"kind", "text", "stage"} \subseteq DOMAIN p
      BY <3>1, <3>2 DEF ScreenInv
    <3> QED BY <2>1, <3>3, <3>4 DEF ScreenInv
  <2> QED BY <2>2, <2>3
<1> QED BY <1>2, <1>3, <1>4, <1>5, <1>6, <1>7, <1>8 DEF UserSteps

\* The server does what is asked, or what is asked fails and may be done all the same.
LEMMA ServerKeeps ==
    ASSUME ScreenInv, NEW q \in requests, Serve(q) \/ RequestFails(q)
    PROVE  ScreenInv'
<1> DEFINE Served(p) == p.kind = q.kind /\ p.text = q.text /\ {"kind", "text", "stage"} \subseteq DOMAIN p
<1>1. /\ {"kind", "text", "stage"} \subseteq DOMAIN q /\ q.stage = "sent"
      /\ UNCHANGED <<typed, draft, busy, crossed>>
  BY DEF ScreenInv, Serve, RequestFails, pageVars
<1>2. \E p : /\ requests' = (requests \ {q}) \cup {p} /\ Served(p)
             /\ p.stage = IF Serve(q) THEN "done" ELSE "failed"
  <2>1. CASE Serve(q)
    <3> DEFINE p == AnsweredWith(q, Effect(q))
    <3>1. Served(p) /\ p.stage = "done"
      BY <1>1 DEF AnsweredWith
    <3>2. requests' = (requests \ {q}) \cup {p}
      BY <2>1 DEF Serve, Becomes
    <3> QED BY <2>1, <3>1, <3>2
  <2>2. CASE ~Serve(q)
    <3> DEFINE p == [q EXCEPT !.stage = "failed"]
    <3>1. Served(p) /\ p.stage = "failed"
      BY <1>1
    <3>2. requests' = (requests \ {q}) \cup {p}
      BY <2>2 DEF RequestFails, Becomes
    <3> QED BY <2>2, <3>1, <3>2
  <2> QED BY <2>1, <2>2
<1>3. PICK p : /\ requests' = (requests \ {q}) \cup {p} /\ Served(p)
               /\ p.stage = IF Serve(q) THEN "done" ELSE "failed"
  BY <1>2
<1> DEFINE one == IF q.kind = "post" THEN 1 ELSE 0
<1>4. /\ posted \in [Drafts -> Nat] /\ missed \in [Drafts -> Nat]
      /\ q.kind = "post" => q.text \in Drafts \/ (posted' = posted /\ missed' = missed)
  BY DEF ScreenInv, Serve, RequestFails, Take
<1>5. \A d \in Drafts :
         LET more == IF q.kind = "post" /\ q.text = d THEN 1 ELSE 0
         IN \/ Serve(q) /\ posted'[d] = posted[d] + more /\ missed'[d] = missed[d]
            \/ posted'[d] \in {posted[d], posted[d] + more} /\ missed'[d] = missed[d] + more
  <2>1. CASE Serve(q)
    BY <1>4, <2>1 DEF Serve, Take
  <2>2. CASE ~Serve(q)
    BY <1>4, <2>2 DEF RequestFails, Take
  <2> QED BY <2>1, <2>2
<1>6. posted' \in [Drafts -> Nat] /\ missed' \in [Drafts -> Nat]
  BY <1>4 DEF Serve, RequestFails, Take
<1>7. ASSUME NEW d \in Drafts PROVE DraftIsSound(d)'
  <2>1. DraftIsSound(d) /\ posted[d] \in Nat /\ missed[d] \in Nat
    BY DEF ScreenInv
  <2>2. CASE q \notin Posts(d)
    <3>1. Posts(d)' = Posts(d)
      BY <1>3, <2>2 DEF Posts
    <3>2. posted'[d] = posted[d] /\ missed'[d] = missed[d]
      BY <1>5, <2>1, <2>2 DEF Posts
    <3> QED BY <1>1, <2>1, <3>1, <3>2 DEF DraftIsSound
  <2>3. CASE q \in Posts(d)
    <3>1. Posts(d)' = (Posts(d) \ {q}) \cup {p} /\ q.kind = "post" /\ q.text = d
      BY <1>3, <2>3 DEF Posts
    <3>2. d \notin crossed => Posts(d)' = {p} /\ posted[d] <= missed[d]
      BY <1>1, <2>1, <2>3, <3>1 DEF DraftIsSound
    <3>3. \/ p.stage = "done" /\ posted'[d] = posted[d] + 1 /\ missed'[d] = missed[d]
          \/ posted'[d] \in {posted[d], posted[d] + 1} /\ missed'[d] = missed[d] + 1
      BY <1>3, <1>5, <3>1
    <3>4. ~(d > typed)
      BY <2>1, <2>3 DEF DraftIsSound
    <3>5. Posts(d) # {}
      BY <2>3
    <3>6. d \notin crossed => /\ posted'[d] <= missed'[d] + 1
                              /\ p.stage # "done" => posted'[d] <= missed'[d]
      BY <2>1, <3>2, <3>3
    <3> QED BY <1>1, <2>1, <3>2, <3>4, <3>5, <3>6 DEF DraftIsSound
  <2> QED BY <2>2, <2>3
<1>8. \A r \in requests' : {"kind", "text", "stage"} \subseteq DOMAIN r
  BY <1>3 DEF ScreenInv
<1> QED BY <1>1, <1>6, <1>7, <1>8 DEF ScreenInv

\* The page takes an answer.
LEMMA AnswerKeeps ==
    ASSUME ScreenInv, NEW q \in requests,
           TakeIssue(q) \/ TakePage(q) \/ TakePatch(q) \/ TakePost(q) \/ TakeRemoval(q)
    PROVE  ScreenInv'
<1>1. \A i, state : NoPost(Get(i)) /\ NoPost(Patch(i, state))
  BY AskedIsNoPost
<1>2. UNCHANGED <<typed, posted, missed>>
  BY DEF TakeIssue, TakePage, TakePatch, TakePost, TakeRemoval, historyVars
<1> DEFINE Left(more) == requests' = (requests \ {q}) \cup more /\ \A p \in more : NoPost(p)
<1>3. \E more : Left(more)
  <2>1. CASE TakeIssue(q) \/ TakePage(q)
    <3>1. Left({})
      BY <2>1 DEF TakeIssue, TakePage, Gone
    <3> HIDE DEF Left
    <3> QED BY <3>1
  <2>2. CASE TakePatch(q)
    BY <1>1, <2>2 DEF TakePatch, Gone, Refetch
  <2>3. CASE TakePost(q)
    <3>1. Left({}) \/ Left({Get(at)}) \/ Left({Patch(at, q.then)})
      BY <1>1, <2>3 DEF TakePost, Gone, Refetch
    <3> HIDE DEF Left
    <3> QED BY <3>1
  <2>4. CASE TakeRemoval(q)
    BY <1>1, <2>4 DEF TakeRemoval, Gone, Refetch
  <2> QED BY <2>1, <2>2, <2>3, <2>4
<1>4. PICK more : requests' = (requests \ {q}) \cup more /\ \A p \in more : NoPost(p)
  BY <1>3
<1>5. /\ crossed \subseteq crossed' /\ draft' \in {draft, 0} /\ (q.kind = "post" => q.stage # "done" \/ draft' = 0)
      /\ \A d \in Drafts \ crossed' : Posts(d) \subseteq {q} \/ busy' \/ draft' = 0 \/ ~busy
  <2>1. CASE TakeIssue(q) \/ TakePage(q) \/ TakeRemoval(q)
    BY <2>1 DEF TakeIssue, TakePage, TakeRemoval, historyVars
  <2>2. CASE TakePatch(q)
    BY <2>2 DEF TakePatch, Crossing, Posts
  <2>3. CASE TakePost(q)
    BY <2>3 DEF TakePost, Crossing, Posts
  <2> QED BY <2>1, <2>2, <2>3
<1>6. \A p \in {q} : p.kind = "post" => p.stage # "done" \/ draft' = 0
  BY <1>5
<1> QED BY <1>2, <1>4, <1>5, <1>6, NothingPosted

\* IssueDetail.tsx submitComment: however often its button is pressed, a text becomes one comment, unless the
\* page was told that it had failed, or another write of the page ended meanwhile and enabled the buttons.
THEOREM TextsStaySingle == ScreenSpec => []CommentedOnce
<1>1. ScreenInit => ScreenInv
  <2> SUFFICES ASSUME ScreenInit PROVE ScreenInv
    OBVIOUS
  <2>1. /\ typed = 0 /\ draft = 0 /\ crossed = {}
        /\ posted = [d \in Drafts |-> 0] /\ missed = [d \in Drafts |-> 0]
        /\ requests = {[Get(1) EXCEPT !.n = 1], [FirstPage(1) EXCEPT !.n = 2]}
    BY DEF ScreenInit
  <2>2. \A q \in requests : q.kind # "post" /\ {"kind", "text", "stage"} \subseteq DOMAIN q
    BY <2>1 DEF Get, FirstPage, PageRequest
  <2>3. \A d \in Drafts : Posts(d) = {} /\ posted[d] = 0 /\ missed[d] = 0
    BY <2>1, <2>2 DEF Posts
  <2>4. \A d \in Drafts : DraftIsSound(d)
    BY <2>3 DEF DraftIsSound
  <2> QED BY <2>1, <2>2, <2>4 DEF ScreenInv
<1>2. ScreenInv /\ [ScreenNext]_screenVars => ScreenInv'
  <2> SUFFICES ASSUME ScreenInv, [ScreenNext]_screenVars PROVE ScreenInv'
    OBVIOUS
  <2>1. CASE UNCHANGED screenVars
    BY <2>1 DEF screenVars, ScreenInv, DraftIsSound, Posts
  <2>2. CASE ScreenNext
    BY <2>2, UserKeeps, ServerKeeps, AnswerKeeps DEF ScreenNext, UserSteps
  <2> QED BY <2>1, <2>2
<1>3. ScreenInv => CommentedOnce
  <2> SUFFICES ASSUME ScreenInv, NEW d \in Drafts \ crossed PROVE posted[d] <= 1 + missed[d]
    BY DEF CommentedOnce
  <2>1. DraftIsSound(d) /\ posted[d] \in Nat /\ missed[d] \in Nat
    BY DEF ScreenInv
  <2>2. posted[d] <= missed[d] + 1
    BY <2>1 DEF DraftIsSound
  <2> QED BY <2>1, <2>2
<1> QED BY <1>1, <1>2, <1>3, PTL DEF ScreenSpec

-----------------------------------------------------------------------------
(* Issues: one number for each, and a walk through the pages that misses none. *)

Making == {"insertIssue", "insertPullIssue"}
List(s) == \E S : s \in Seq(S)

\* A request allocates first, if at all, and makes its row first or right after that.
InOrder(s) ==
    /\ List(s)
    /\ \A i \in 1..Len(s) : s[i].op = "allocate" => i = 1
    /\ \A i \in 1..Len(s) : s[i].op \in Making => i = 1 \/ (i = 2 /\ s[1].op = "allocate")
Plain(s) == List(s) /\ \A i \in 1..Len(s) : s[i].op \notin Making \cup {"allocate"}

\* A request that is about to make its row has drawn a number, and no row has it.
Drawn(c) == todo[c] # <<>> /\ Head(todo[c]).op \in Making
CallerIsSound(c) ==
    /\ InOrder(todo[c])
    /\ Drawn(c) => number[c] \in Numbers /\ number[c] < nextValue /\ issues[number[c]] = {}

\* A number has one row at most, and none before it is handed out.
RowIsSound(n) ==
    /\ \A r \in issues[n] : "pr" \in DOMAIN r /\ \A s \in issues[n] : r = s
    /\ n >= nextValue => issues[n] = {}

\* What the walk began with is still listed, and what it has not seen lies ahead.
WalkIsSound ==
    /\ walk.offset \in Nat /\ walk.from \subseteq Shown
    /\ \A n \in walk.from \ walk.seen : walk.on /\ Position(n) >= walk.offset

IssuesInv ==
    /\ nextValue \in Nat \ {0} /\ IsFiniteSet(labels)
    /\ DOMAIN issues = Numbers /\ issues = [n \in Numbers |-> issues[n]]
    /\ DOMAIN todo = IssueCallers /\ number \in [IssueCallers -> Nat]
    /\ \A n \in Numbers : RowIsSound(n)
    /\ \A c \in IssueCallers : CallerIsSound(c)
    /\ \A c, d \in IssueCallers : c # d /\ Drawn(c) /\ Drawn(d) => number[c] # number[d]
    /\ WalkIsSound

\* Statements that make no row, and what is left when the first statement is done.
LEMMA PlainIsInOrder == \A s : Plain(s) => InOrder(s)
BY DEF Plain, InOrder

LEMMA OneIsPlain == \A op, n, arg : op \notin Making \cup {"allocate"} => Plain(<<Stmt(op, n, arg)>>)
<1> SUFFICES ASSUME NEW op, NEW n, NEW arg, op \notin Making \cup {"allocate"} PROVE Plain(<<Stmt(op, n, arg)>>)
  OBVIOUS
<1> DEFINE a == Stmt(op, n, arg)
           s == <<a>>
<1>1. s \in Seq({a}) /\ Len(s) = 1 /\ s[1] = a /\ a.op = op
  BY DEF Stmt
<1> HIDE DEF a, s
<1>2. \A i \in 1..Len(s) : s[i].op \notin Making \cup {"allocate"}
  BY <1>1
<1>3. Plain(s)
  BY <1>1, <1>2 DEF Plain, List
<1> QED BY <1>3 DEF a, s

LEMMA TwoArePlain ==
    \A a, b, n, k, m, l : {a, b} \cap (Making \cup {"allocate"}) = {} => Plain(<<Stmt(a, n, k), Stmt(b, m, l)>>)
<1> SUFFICES ASSUME NEW a, NEW b, NEW n, NEW k, NEW m, NEW l, {a, b} \cap (Making \cup {"allocate"}) = {}
             PROVE  Plain(<<Stmt(a, n, k), Stmt(b, m, l)>>)
  OBVIOUS
<1> DEFINE x == Stmt(a, n, k)
           y == Stmt(b, m, l)
           s == <<x, y>>
<1>1. s \in Seq({x, y}) /\ Len(s) = 2 /\ s[1] = x /\ s[2] = y /\ x.op = a /\ y.op = b
  BY DEF Stmt
<1> HIDE DEF x, y, s
<1>2. \A i \in 1..Len(s) : s[i].op \notin Making \cup {"allocate"}
  BY <1>1
<1>3. Plain(s)
  BY <1>1, <1>2 DEF Plain, List
<1> QED BY <1>3 DEF x, y, s

LEMMA NoneIsPlain == Plain(<<>>)
<1>1. <<>> \in Seq({}) /\ Len(<<>>) = 0
  OBVIOUS
<1> QED BY <1>1 DEF Plain, List

LEMMA JoinedArePlain ==
    ASSUME NEW s, NEW t, Plain(s), Plain(t)
    PROVE  Plain(s \o t)
<1>1. PICK S : s \in Seq(S)
  BY DEF Plain, List
<1>2. PICK T : t \in Seq(T)
  BY DEF Plain, List
<1>3. s \in Seq(S \cup T) /\ t \in Seq(S \cup T)
  BY <1>1, <1>2, SeqMonotonic
<1>4. /\ s \o t \in Seq(S \cup T) /\ Len(s \o t) = Len(s) + Len(t) /\ Len(s) \in Nat /\ Len(t) \in Nat
      /\ \A i \in 1..Len(s) + Len(t) : (s \o t)[i] = IF i <= Len(s) THEN s[i] ELSE t[i - Len(s)]
  BY <1>3, ConcatProperties, LenProperties
<1>5. ASSUME NEW i \in 1..Len(s \o t) PROVE (s \o t)[i].op \notin Making \cup {"allocate"}
  <2>1. CASE i <= Len(s)
    BY <1>4, <2>1 DEF Plain
  <2>2. CASE ~(i <= Len(s))
    <3>1. i - Len(s) \in 1..Len(t) /\ (s \o t)[i] = t[i - Len(s)]
      BY <1>4, <2>2
    <3> QED BY <3>1 DEF Plain
  <2> QED BY <2>1, <2>2
<1> QED BY <1>4, <1>5 DEF Plain, List

\* The allocation, the row, and what makes no row.
LEMMA MakingIsInOrder ==
    ASSUME NEW op, NEW arg, NEW t, Plain(t), op # "allocate"
    PROVE  InOrder(<<Stmt("allocate", ThisOne, ""), Stmt(op, ThisOne, arg)>> \o t)
<1> DEFINE a == Stmt("allocate", ThisOne, "")
           b == Stmt(op, ThisOne, arg)
           s == <<a, b>>
<1>1. PICK T : t \in Seq(T)
  BY DEF Plain, List
<1>2. s \in Seq({a, b}) /\ Len(s) = 2 /\ s[1] = a /\ s[2] = b /\ a.op = "allocate" /\ b.op = op
  BY DEF Stmt
<1> HIDE DEF a, b, s
<1>3. s \in Seq({a, b} \cup T) /\ t \in Seq({a, b} \cup T)
  BY <1>1, <1>2, SeqMonotonic
<1>4. /\ s \o t \in Seq({a, b} \cup T) /\ Len(t) \in Nat /\ Len(s \o t) = Len(s) + Len(t)
      /\ \A i \in 1..Len(s) + Len(t) : (s \o t)[i] = IF i <= Len(s) THEN s[i] ELSE t[i - Len(s)]
  BY <1>3, ConcatProperties, LenProperties
<1>5. (s \o t)[1] = a /\ (s \o t)[2] = b
  BY <1>2, <1>4
<1>6. ASSUME NEW i \in 1..Len(s \o t), i # 1, i # 2 PROVE (s \o t)[i].op \notin Making \cup {"allocate"}
  <2>1. i - 2 \in 1..Len(t) /\ (s \o t)[i] = t[i - 2]
    BY <1>2, <1>4, <1>6
  <2> QED BY <2>1 DEF Plain
<1>7. InOrder(s \o t)
  BY <1>2, <1>4, <1>5, <1>6 DEF InOrder, List
<1> QED BY <1>7 DEF a, b, s

LEMMA LeftInOrder ==
    ASSUME NEW s, InOrder(s), s # <<>>
    PROVE  InOrder(Tail(s)) /\ (Head(s).op # "allocate" => Plain(Tail(s)))
<1>1. PICK S : s \in Seq(S)
  BY DEF InOrder, List
<1>2. /\ Tail(s) \in Seq(S) /\ Len(Tail(s)) = Len(s) - 1 /\ Len(s) \in Nat /\ Head(s) = s[1]
      /\ \A i \in 1..Len(Tail(s)) : Tail(s)[i] = s[i + 1]
  BY <1>1, HeadTailProperties, LenProperties
<1>3. \A i \in 1..Len(Tail(s)) : i + 1 \in 1..Len(s) /\ i + 1 # 1 /\ (i + 1 = 2 => i = 1)
  BY <1>2
<1>4. \A i \in 1..Len(Tail(s)) : Tail(s)[i].op # "allocate"
  BY <1>2, <1>3 DEF InOrder
<1>5. \A i \in 1..Len(Tail(s)) : Tail(s)[i].op \in Making => i = 1 /\ s[1].op = "allocate"
  BY <1>2, <1>3 DEF InOrder
<1> QED BY <1>2, <1>4, <1>5 DEF InOrder, Plain, List

LEMMA AddingIsPlain ==
    ASSUME NEW n, NEW ids, IsFiniteSet(ids)
    PROVE  Plain(AddAll(n, ids))
<1> DEFINE S == {Stmt("addLabel", n, l) : l \in ids}
           f == [l \in ids |-> Stmt("addLabel", n, l)]
<1>1. f \in Surjection(ids, S)
  BY DEF Surjection
<1>2. IsFiniteSet(S)
  BY <1>1, FS_Surjection
<1>3. \A x \in S : x.op = "addLabel"
  BY DEF Stmt
<1> HIDE DEF S, f
<1> DEFINE k == Cardinality(S)
<1>4. k \in Nat /\ ExistsBijection(1..k, S)
  BY <1>2, FS_CardinalityType
<1>5. PICK g \in Bijection(1..k, S) : TRUE
  BY <1>4 DEF ExistsBijection
<1>6. g \in [1..k -> S] /\ IsInjective(g)
  BY <1>5 DEF Bijection, Injection
<1>7. SetToSeq(S) \in [1..k -> S]
  BY <1>6 DEF SetToSeq
<1>8. SetToSeq(S) \in Seq(S)
  BY <1>4, <1>7, SeqDef
<1>9. \A i \in 1..Len(SetToSeq(S)) : SetToSeq(S)[i] \in S
  BY <1>8, ElementOfSeq
<1>10. Plain(SetToSeq(S))
  BY <1>3, <1>8, <1>9 DEF Plain, List, Making
<1> QED BY <1>10 DEF AddAll, S

\* Of what a page has, the rows before a number are a finite set, and no fewer when rows are added.
LEMMA PlacesOnlyGrow ==
    ASSUME IssueAssumption, Shown \subseteq Shown', NEW n
    PROVE  Position(n) \in Nat /\ Position(n)' \in Nat /\ Position(n) <= Position(n)'
<1>1. IsFiniteSet(Numbers)
  BY FS_Interval DEF IssueAssumption, Numbers
<1>2. {m \in Shown' : m > n} \subseteq Numbers
  BY DEF Shown, There
<1>3. {m \in Shown : m > n} \subseteq {m \in Shown' : m > n}
  OBVIOUS
<1>4. IsFiniteSet({m \in Shown' : m > n})
  BY <1>1, <1>2, FS_Subset
<1>5. /\ IsFiniteSet({m \in Shown : m > n})
      /\ Cardinality({m \in Shown : m > n}) <= Cardinality({m \in Shown' : m > n})
  BY <1>3, <1>4, FS_Subset
<1> QED BY <1>4, <1>5, FS_CardinalityType DEF Position

\* The rows that were there are there, and are of the same kind.
RowsEndure ==
    /\ DOMAIN issues' = Numbers /\ issues' = [n \in Numbers |-> issues'[n]]
    /\ \A n \in Numbers :
          /\ \A r \in issues'[n] : "pr" \in DOMAIN r /\ \A s \in issues'[n] : r = s
          /\ issues[n] # {} => issues'[n] # {} /\ \A r \in issues[n], s \in issues'[n] : r.pr = s.pr
NoneAdded == \A n \in Numbers : issues[n] = {} => issues'[n] = {}

LEMMA ShownOnlyGrows ==
    ASSUME RowsEndure
    PROVE  Shown \subseteq Shown'
<1> SUFFICES ASSUME NEW n \in Shown PROVE n \in Shown'
  OBVIOUS
<1>1. n \in Numbers /\ issues[n] # {} /\ ~The(n).pr /\ The(n) \in issues[n]
  BY DEF Shown, There, The
<1>2. issues'[n] # {} /\ \A r \in issues[n], s \in issues'[n] : r.pr = s.pr
  BY <1>1 DEF RowsEndure
<1>3. The(n)' \in issues'[n]
  BY <1>2 DEF The
<1>4. ~The(n)'.pr
  BY <1>1, <1>2, <1>3
<1> QED BY <1>1, <1>2, <1>4 DEF Shown, There

LEMMA WalkEndures ==
    ASSUME IssueAssumption, WalkIsSound, UNCHANGED walk, RowsEndure
    PROVE  WalkIsSound'
<1>1. Shown \subseteq Shown'
  BY ShownOnlyGrows
<1>2. \A n : Position(n) \in Nat /\ Position(n)' \in Nat /\ Position(n) <= Position(n)'
  BY <1>1, PlacesOnlyGrow
<1>3. ASSUME NEW n \in walk.from \ walk.seen PROVE walk.on /\ Position(n)' >= walk.offset
  <2>1. walk.on /\ Position(n) >= walk.offset /\ walk.offset \in Nat
    BY DEF WalkIsSound
  <2> QED BY <1>2, <2>1
<1> QED BY <1>1, <1>3 DEF WalkIsSound

\* A statement that makes no row, or the end of the request.
Ran(c) ==
    /\ \/ todo' = [todo EXCEPT ![c] = <<>>]
       \/ todo[c] # <<>> /\ Head(todo[c]).op # "allocate" /\ todo' = [todo EXCEPT ![c] = Tail(@)]
    /\ UNCHANGED <<nextValue, number, walk>>
    /\ IsFiniteSet(labels') /\ RowsEndure /\ NoneAdded

LEMMA RunsKeep ==
    ASSUME IssueAssumption, IssuesInv, NEW c \in IssueCallers, Ran(c)
    PROVE  IssuesInv'
<1>1. WalkIsSound'
  BY WalkEndures DEF IssuesInv, Ran
<1>2. \A n \in Numbers : RowIsSound(n)'
  BY DEF IssuesInv, RowIsSound, Ran, RowsEndure, NoneAdded
<1>3. \A d \in IssueCallers : InOrder(todo[d])
  BY DEF IssuesInv, CallerIsSound
<1>4. Plain(todo'[c])
  <2>1. CASE todo' = [todo EXCEPT ![c] = <<>>]
    BY <2>1, NoneIsPlain DEF IssuesInv
  <2>2. CASE todo[c] # <<>> /\ Head(todo[c]).op # "allocate" /\ todo' = [todo EXCEPT ![c] = Tail(@)]
    BY <1>3, <2>2, LeftInOrder DEF IssuesInv
  <2> QED BY <2>1, <2>2 DEF Ran
<1>5. ~Drawn(c)'
  <2>1. todo'[c] # <<>> => Head(todo'[c]) = todo'[c][1] /\ 1 \in 1..Len(todo'[c])
    BY <1>4, HeadTailProperties, LenProperties, EmptySeq DEF Plain, List
  <2> QED BY <1>4, <2>1 DEF Drawn, Plain
<1>6. DOMAIN todo' = IssueCallers /\ \A d \in IssueCallers \ {c} : todo'[d] = todo[d]
  BY DEF IssuesInv, Ran
<1>7. \A d \in IssueCallers : CallerIsSound(d)' /\ (Drawn(d)' => Drawn(d))
  <2> SUFFICES ASSUME NEW d \in IssueCallers PROVE CallerIsSound(d)' /\ (Drawn(d)' => Drawn(d))
    OBVIOUS
  <2>1. CASE d = c
    BY <1>4, <1>5, <2>1, PlainIsInOrder DEF CallerIsSound
  <2>2. CASE d # c
    <3>1. (Drawn(d)' <=> Drawn(d)) /\ number'[d] = number[d] /\ nextValue' = nextValue
      BY <1>6, <2>2 DEF Drawn, Ran
    <3>2. CallerIsSound(d)
      BY DEF IssuesInv
    <3>3. InOrder(todo'[d])
      BY <1>3, <1>6, <2>2
    <3>4. Drawn(d)' => issues'[number'[d]] = {} /\ number'[d] \in Numbers /\ number'[d] < nextValue'
      BY <3>1, <3>2 DEF CallerIsSound, Ran, NoneAdded
    <3> QED BY <3>1, <3>3, <3>4 DEF CallerIsSound
  <2> QED BY <2>1, <2>2
<1>8. \A d, e \in IssueCallers : d # e /\ Drawn(d)' /\ Drawn(e)' => number'[d] # number'[e]
  BY <1>7 DEF IssuesInv, Ran
<1> QED BY <1>1, <1>2, <1>6, <1>7, <1>8 DEF IssuesInv, Ran, RowsEndure

\* What a request goes on to run: in order, and no row before a number.
Begun(s) == InOrder(s) /\ (s # <<>> => Head(s).op \notin Making)

LEMMA PlainIsBegun == \A s : Plain(s) => Begun(s)
<1> SUFFICES ASSUME NEW s, Plain(s) PROVE Begun(s)
  OBVIOUS
<1>1. s # <<>> => Head(s) = s[1] /\ 1 \in 1..Len(s)
  BY HeadTailProperties, LenProperties, EmptySeq DEF Plain, List
<1> QED BY <1>1, PlainIsInOrder DEF Begun, Plain

LEMMA MakingIsBegun ==
    ASSUME NEW op, NEW arg, NEW t, Plain(t), op # "allocate"
    PROVE  Begun(<<Stmt("allocate", ThisOne, ""), Stmt(op, ThisOne, arg)>> \o t)
<1> DEFINE a == Stmt("allocate", ThisOne, "")
           s == <<a, Stmt(op, ThisOne, arg)>>
<1>1. InOrder(s \o t)
  BY MakingIsInOrder
<1>2. PICK T : t \in Seq(T)
  BY DEF Plain, List
<1>3. s \in Seq({a, Stmt(op, ThisOne, arg)}) /\ Len(s) = 2 /\ s[1] = a /\ a.op = "allocate"
  BY DEF Stmt
<1> HIDE DEF a, s
<1>4. s \in Seq({a, Stmt(op, ThisOne, arg)} \cup T) /\ t \in Seq({a, Stmt(op, ThisOne, arg)} \cup T)
  BY <1>2, <1>3, SeqMonotonic
<1>5. /\ Len(t) \in Nat /\ Len(s \o t) = Len(s) + Len(t)
      /\ s \o t \in Seq({a, Stmt(op, ThisOne, arg)} \cup T)
      /\ \A i \in 1..Len(s) + Len(t) : (s \o t)[i] = IF i <= Len(s) THEN s[i] ELSE t[i - Len(s)]
  BY <1>4, ConcatProperties, LenProperties
<1>6. (s \o t)[1] = a
  BY <1>3, <1>5
<1>7. s \o t # <<>> => Head(s \o t) = (s \o t)[1]
  BY <1>5, HeadTailProperties
<1>8. Begun(s \o t)
  BY <1>1, <1>3, <1>6, <1>7 DEF Begun, Making, a, s
<1> QED BY <1>8 DEF a, s

LEMMA IntentKeeps ==
    ASSUME IssueAssumption, IssuesInv, NEW c \in IssueCallers, NEW s, Begun(s), Intend(c, s)
    PROVE  IssuesInv'
<1>1. /\ todo' = [todo EXCEPT ![c] = s] /\ number' = [number EXCEPT ![c] = 0]
      /\ UNCHANGED <<issues, nextValue, labels, walk>>
  BY DEF Intend, Stored
<1>2. RowsEndure
  BY <1>1 DEF IssuesInv, RowIsSound, RowsEndure
<1>3. WalkIsSound'
  BY <1>1, <1>2, WalkEndures DEF IssuesInv
<1>4. todo'[c] = s /\ ~Drawn(c)' /\ DOMAIN todo' = IssueCallers /\ number' \in [IssueCallers -> Nat]
  BY <1>1 DEF IssuesInv, Drawn, Begun
<1>5. \A d \in IssueCallers : d # c => todo'[d] = todo[d] /\ number'[d] = number[d] /\ (Drawn(d)' <=> Drawn(d))
  BY <1>1 DEF IssuesInv, Drawn
<1>6. ASSUME NEW d \in IssueCallers PROVE CallerIsSound(d)'
  <2>1. CASE d = c
    BY <1>4, <2>1 DEF CallerIsSound, Begun
  <2>2. CASE d # c
    BY <1>1, <1>5, <2>2 DEF IssuesInv, CallerIsSound
  <2> QED BY <2>1, <2>2
<1>7. \A n \in Numbers : RowIsSound(n)'
  BY <1>1 DEF IssuesInv, RowIsSound
<1>8. \A d, e \in IssueCallers : d # e /\ Drawn(d)' /\ Drawn(e)' => number'[d] # number'[e]
  BY <1>4, <1>5 DEF IssuesInv
<1> QED BY <1>1, <1>3, <1>4, <1>6, <1>7, <1>8 DEF IssuesInv

\* Every handler of the tracker.
LEMMA HandlersKeep ==
    ASSUME IssueAssumption, IssuesInv, NEW c \in IssueCallers, IssueHandler(c)
    PROVE  IssuesInv'
<1> DEFINE Plainly == \E s : Plain(s) /\ Intend(c, s)
<1>1. ASSUME Plainly PROVE IssuesInv'
  BY <1>1, IntentKeeps, PlainIsBegun
<1>2. \A op, n, arg : op \notin Making \cup {"allocate"} => Plain(<<Stmt(op, n, arg)>>)
  BY OneIsPlain
<1>3. \A ls \in SUBSET labels : \A n : Plain(AddAll(n, ls))
  BY AddingIsPlain, FS_Subset DEF IssuesInv
<1>4. CASE OpenIssue(c)
  <2>1. PICK ms \in milestones \cup {NoMilestone}, ls \in SUBSET labels :
          Intend(c, <<Stmt("allocate", ThisOne, ""), Stmt("insertIssue", ThisOne, ms)>> \o AddAll(ThisOne, ls))
    BY <1>4, Zenon DEF OpenIssue
  <2>2. Begun(<<Stmt("allocate", ThisOne, ""), Stmt("insertIssue", ThisOne, ms)>> \o AddAll(ThisOne, ls))
    BY <1>3, MakingIsBegun
  <2> QED BY <2>1, <2>2, IntentKeeps
<1>5. CASE OpenPull(c)
  <2> DEFINE a == Stmt("allocate", ThisOne, "")
             b == Stmt("insertPullIssue", ThisOne, "")
             d == Stmt("insertPull", ThisOne, "")
             s == <<a, b, d>>
  <2>1. /\ s \in Seq({a, b, d}) /\ Len(s) = 3 /\ Head(s) = a /\ s[1] = a /\ s[2] = b /\ s[3] = d
        /\ a.op = "allocate" /\ b.op # "allocate" /\ d.op \notin Making \cup {"allocate"}
    BY DEF Stmt, Making
  <2>2. Intend(c, s)
    BY <1>5 DEF OpenPull
  <2> HIDE DEF a, b, d, s
  <2>3. \A i \in 1..Len(s) : i = 1 \/ i = 2 \/ i = 3
    BY <2>1
  <2>4. Begun(s)
    BY <2>1, <2>3 DEF Begun, InOrder, List, Making
  <2> QED BY <2>2, <2>4, IntentKeeps
<1>6. CASE PatchIssue(c)
  <2>1. PICK n \in {k \in There : ~The(k).pr}, ms \in milestones, state \in {"open", "closed"}, known \in BOOLEAN :
          Intend(c, <<Stmt("setMilestone", n, ms)>> \o IF known THEN <<Stmt("setState", n, state)>> ELSE <<>>)
    BY <1>6, Zenon DEF PatchIssue
  <2>2. Plain(<<Stmt("setMilestone", n, ms)>>) /\ Plain(<<Stmt("setState", n, state)>>) /\ Plain(<<>>)
    BY <1>2, NoneIsPlain DEF Making
  <2>3. Plain(<<Stmt("setMilestone", n, ms)>> \o IF known THEN <<Stmt("setState", n, state)>> ELSE <<>>)
    BY <2>2, JoinedArePlain
  <2> QED BY <1>1, <2>1, <2>3
<1>7. CASE PutLabels(c)
  <2>1. PICK n \in There, ls \in SUBSET labels : Intend(c, <<Stmt("clearLabels", n, "")>> \o AddAll(n, ls))
    BY <1>7, Zenon DEF PutLabels
  <2>2. Plain(<<Stmt("clearLabels", n, "")>>) /\ Plain(AddAll(n, ls))
    BY <1>2, <1>3 DEF Making
  <2>3. Plain(<<Stmt("clearLabels", n, "")>> \o AddAll(n, ls))
    BY <2>2, JoinedArePlain
  <2> QED BY <1>1, <2>1, <2>3
<1>8. CASE AddLabels(c)
  BY <1>1, <1>3, <1>8 DEF AddLabels
<1>9. CASE SetState(c) \/ RemoveLabel(c) \/ CreateLabel(c) \/ DeleteLabel(c) \/ DeleteMilestone(c)
  <2>1. PICK op, n, arg : op \notin Making \cup {"allocate"} /\ Intend(c, <<Stmt(op, n, arg)>>)
    BY <1>9 DEF SetState, RemoveLabel, CreateLabel, DeleteLabel, DeleteMilestone, Making
  <2> QED BY <1>1, <1>2, <2>1
<1>10. CASE CreateComment(c) \/ DeleteComment(c)
  <2>1. \A a, b, n, k, m, l : {a, b} \cap (Making \cup {"allocate"}) = {} => Plain(<<Stmt(a, n, k), Stmt(b, m, l)>>)
    BY TwoArePlain
  <2>2. CASE CreateComment(c)
    <3>1. PICK n \in There, k \in Comments : Intend(c, <<Stmt("insertComment", n, k), Stmt("countUp", n, "")>>)
      BY <2>2, Zenon DEF CreateComment
    <3>2. Plain(<<Stmt("insertComment", n, k), Stmt("countUp", n, "")>>)
      BY <2>1 DEF Making
    <3> QED BY <1>1, <3>1, <3>2
  <2>3. CASE DeleteComment(c)
    <3>1. PICK k \in {j \in Comments : comments[j] # 0} :
            Intend(c, <<Stmt("deleteComment", comments[k], k), Stmt("countDown", comments[k], "")>>)
      BY <2>3, Zenon DEF DeleteComment
    <3>2. Plain(<<Stmt("deleteComment", comments[k], k), Stmt("countDown", comments[k], "")>>)
      BY <2>1 DEF Making
    <3> QED BY <1>1, <3>1, <3>2
  <2> QED BY <1>10, <2>2, <2>3
<1> QED BY <1>4, <1>5, <1>6, <1>7, <1>8, <1>9, <1>10 DEF IssueHandler

LEMMA NothingWritten ==
    ASSUME IssuesInv, issues' = issues
    PROVE  RowsEndure /\ NoneAdded
BY DEF IssuesInv, RowIsSound, RowsEndure, NoneAdded

\* A column other than "pr" of some rows.
Rewritten(old, new) ==
    \E f : new = {f[r] : r \in old} /\ \A r \in old : DOMAIN f[r] = DOMAIN r /\ f[r].pr = r.pr

EachRewritten(old, x) ==
    /\ Rewritten(old, {[r EXCEPT !.state = x] : r \in old})
    /\ Rewritten(old, {[r EXCEPT !.milestone = x] : r \in old})
    /\ Rewritten(old, {[r EXCEPT !.milestone = IF @ = x THEN NoMilestone ELSE @] : r \in old})
    /\ Rewritten(old, {[r EXCEPT !.labels = {}] : r \in old})
    /\ Rewritten(old, {[r EXCEPT !.labels = @ \cup {x}] : r \in old})
    /\ Rewritten(old, {[r EXCEPT !.labels = @ \ {x}] : r \in old})
    /\ Rewritten(old, {[r EXCEPT !.count = @ + 1] : r \in old})
    /\ Rewritten(old, {[r EXCEPT !.count = Max({0, @ - 1})] : r \in old})
    /\ Rewritten(old, {[r EXCEPT !.pull = TRUE] : r \in old})

LEMMA ColumnsAreRewritten ==
    ASSUME NEW old, NEW x, \A r \in old : "pr" \in DOMAIN r
    PROVE  EachRewritten(old, x)
<1>1. Rewritten(old, {[r EXCEPT !.state = x] : r \in old})
  <2> DEFINE f == [r \in old |-> [r EXCEPT !.state = x]]
  <2>1. {[r EXCEPT !.state = x] : r \in old} = {f[r] : r \in old}
    OBVIOUS
  <2>2. \A r \in old : DOMAIN f[r] = DOMAIN r /\ f[r].pr = r.pr
    OBVIOUS
  <2> HIDE DEF f
  <2> QED BY <2>1, <2>2 DEF Rewritten
<1>2. Rewritten(old, {[r EXCEPT !.milestone = x] : r \in old})
  <2> DEFINE f == [r \in old |-> [r EXCEPT !.milestone = x]]
  <2>1. {[r EXCEPT !.milestone = x] : r \in old} = {f[r] : r \in old}
    OBVIOUS
  <2>2. \A r \in old : DOMAIN f[r] = DOMAIN r /\ f[r].pr = r.pr
    OBVIOUS
  <2> HIDE DEF f
  <2> QED BY <2>1, <2>2 DEF Rewritten
<1>3. Rewritten(old, {[r EXCEPT !.milestone = IF @ = x THEN NoMilestone ELSE @] : r \in old})
  <2> DEFINE f == [r \in old |-> [r EXCEPT !.milestone = IF @ = x THEN NoMilestone ELSE @]]
  <2>1. {[r EXCEPT !.milestone = IF @ = x THEN NoMilestone ELSE @] : r \in old} = {f[r] : r \in old}
    OBVIOUS
  <2>2. \A r \in old : DOMAIN f[r] = DOMAIN r /\ f[r].pr = r.pr
    OBVIOUS
  <2> HIDE DEF f
  <2> QED BY <2>1, <2>2 DEF Rewritten
<1>4. Rewritten(old, {[r EXCEPT !.labels = {}] : r \in old})
  <2> DEFINE f == [r \in old |-> [r EXCEPT !.labels = {}]]
  <2>1. {[r EXCEPT !.labels = {}] : r \in old} = {f[r] : r \in old}
    OBVIOUS
  <2>2. \A r \in old : DOMAIN f[r] = DOMAIN r /\ f[r].pr = r.pr
    OBVIOUS
  <2> HIDE DEF f
  <2> QED BY <2>1, <2>2 DEF Rewritten
<1>5. Rewritten(old, {[r EXCEPT !.labels = @ \cup {x}] : r \in old})
  <2> DEFINE f == [r \in old |-> [r EXCEPT !.labels = @ \cup {x}]]
  <2>1. {[r EXCEPT !.labels = @ \cup {x}] : r \in old} = {f[r] : r \in old}
    OBVIOUS
  <2>2. \A r \in old : DOMAIN f[r] = DOMAIN r /\ f[r].pr = r.pr
    OBVIOUS
  <2> HIDE DEF f
  <2> QED BY <2>1, <2>2 DEF Rewritten
<1>6. Rewritten(old, {[r EXCEPT !.labels = @ \ {x}] : r \in old})
  <2> DEFINE f == [r \in old |-> [r EXCEPT !.labels = @ \ {x}]]
  <2>1. {[r EXCEPT !.labels = @ \ {x}] : r \in old} = {f[r] : r \in old}
    OBVIOUS
  <2>2. \A r \in old : DOMAIN f[r] = DOMAIN r /\ f[r].pr = r.pr
    OBVIOUS
  <2> HIDE DEF f
  <2> QED BY <2>1, <2>2 DEF Rewritten
<1>7. Rewritten(old, {[r EXCEPT !.count = @ + 1] : r \in old})
  <2> DEFINE f == [r \in old |-> [r EXCEPT !.count = @ + 1]]
  <2>1. {[r EXCEPT !.count = @ + 1] : r \in old} = {f[r] : r \in old}
    OBVIOUS
  <2>2. \A r \in old : DOMAIN f[r] = DOMAIN r /\ f[r].pr = r.pr
    OBVIOUS
  <2> HIDE DEF f
  <2> QED BY <2>1, <2>2 DEF Rewritten
<1>8. Rewritten(old, {[r EXCEPT !.count = Max({0, @ - 1})] : r \in old})
  <2> DEFINE f == [r \in old |-> [r EXCEPT !.count = Max({0, @ - 1})]]
  <2>1. {[r EXCEPT !.count = Max({0, @ - 1})] : r \in old} = {f[r] : r \in old}
    OBVIOUS
  <2>2. \A r \in old : DOMAIN f[r] = DOMAIN r /\ f[r].pr = r.pr
    OBVIOUS
  <2> HIDE DEF f
  <2> QED BY <2>1, <2>2 DEF Rewritten
<1>9. Rewritten(old, {[r EXCEPT !.pull = TRUE] : r \in old})
  <2> DEFINE f == [r \in old |-> [r EXCEPT !.pull = TRUE]]
  <2>1. {[r EXCEPT !.pull = TRUE] : r \in old} = {f[r] : r \in old}
    OBVIOUS
  <2>2. \A r \in old : DOMAIN f[r] = DOMAIN r /\ f[r].pr = r.pr
    OBVIOUS
  <2> HIDE DEF f
  <2> QED BY <2>1, <2>2 DEF Rewritten
<1> QED BY <1>1, <1>2, <1>3, <1>4, <1>5, <1>6, <1>7, <1>8, <1>9 DEF EachRewritten

RowsRewritten ==
    /\ DOMAIN issues' = Numbers /\ issues' = [n \in Numbers |-> issues'[n]]
    /\ \A n \in Numbers : issues'[n] = issues[n] \/ Rewritten(issues[n], issues'[n])

LEMMA RewritingKeeps ==
    ASSUME IssuesInv, RowsRewritten
    PROVE  RowsEndure /\ NoneAdded
<1>1. ASSUME NEW n \in Numbers
      PROVE  /\ \A r \in issues'[n] : "pr" \in DOMAIN r /\ \A s \in issues'[n] : r = s
             /\ issues[n] # {} => issues'[n] # {} /\ \A r \in issues[n], s \in issues'[n] : r.pr = s.pr
             /\ issues[n] = {} => issues'[n] = {}
  <2>1. \A r \in issues[n] : "pr" \in DOMAIN r /\ \A s \in issues[n] : r = s
    BY DEF IssuesInv, RowIsSound
  <2>2. CASE issues'[n] = issues[n]
    BY <2>1, <2>2
  <2>3. CASE Rewritten(issues[n], issues'[n])
    <3>1. PICK f : issues'[n] = {f[r] : r \in issues[n]} /\ \A r \in issues[n] : DOMAIN f[r] = DOMAIN r /\ f[r].pr = r.pr
      BY <2>3 DEF Rewritten
    <3> QED BY <2>1, <3>1
  <2> QED BY <2>2, <2>3 DEF RowsRewritten
<1> QED BY <1>1 DEF RowsEndure, NoneAdded, RowsRewritten

LEMMA StatementsKeep ==
    ASSUME IssueAssumption, IssuesInv, NEW c \in IssueCallers,
           InsertPull(c) \/ WriteIssue(c) \/ WriteLabel(c) \/ WriteMilestone(c) \/ WriteComment(c) \/ Dies(c)
    PROVE  IssuesInv'
<1>1. IsFiniteSet(labels) /\ \A l : IsFiniteSet(labels \cup {l}) /\ IsFiniteSet(labels \ {l})
  BY FS_AddElement, FS_RemoveElement DEF IssuesInv
<1>2. /\ \A n \in Numbers : \A r \in issues[n] : "pr" \in DOMAIN r /\ \A s \in issues[n] : r = s
      /\ DOMAIN issues = Numbers
  BY DEF IssuesInv, RowIsSound
<1>3. ASSUME NEW k, NEW rows, issues' = [issues EXCEPT ![k] = rows], k \in Numbers => Rewritten(issues[k], rows)
      PROVE  RowsEndure /\ NoneAdded
  BY <1>2, <1>3, RewritingKeeps DEF IssuesInv, RowsRewritten
<1>4. CASE InsertPull(c)
  <2> DEFINE rows == {[r EXCEPT !.pull = TRUE] : r \in issues[number[c]]}
  <2>1. issues' = [issues EXCEPT ![number[c]] = rows]
    BY <1>4 DEF InsertPull, Update
  <2>2. number[c] \in Numbers => Rewritten(issues[number[c]], rows)
    BY <1>2, ColumnsAreRewritten DEF EachRewritten
  <2> HIDE DEF rows
  <2>3. RowsEndure /\ NoneAdded
    BY <1>3, <2>1, <2>2
  <2> QED BY <1>1, <1>4, <2>3, RunsKeep DEF InsertPull, Has, Went, Same, Ran
<1>5. CASE WriteIssue(c)
  <2> DEFINE k == Numbered(c)
             x == Head(todo[c]).arg
             To(rows) == issues' = [issues EXCEPT ![k] = rows]
  <2>1. \/ UNCHANGED issues
        \/ To({[r EXCEPT !.state = x] : r \in issues[k]})
        \/ To({[r EXCEPT !.milestone = x] : r \in issues[k]})
        \/ To({[r EXCEPT !.labels = {}] : r \in issues[k]})
        \/ To({[r EXCEPT !.labels = @ \cup {x}] : r \in issues[k]})
        \/ To({[r EXCEPT !.labels = @ \ {x}] : r \in issues[k]})
        \/ To({[r EXCEPT !.count = @ + 1] : r \in issues[k]})
        \/ To({[r EXCEPT !.count = Max({0, @ - 1})] : r \in issues[k]})
    BY <1>5 DEF WriteIssue, Update
  <2>2. k \in Numbers => EachRewritten(issues[k], x)
    BY <1>2, ColumnsAreRewritten
  <2> HIDE DEF k, x, To
  <2>3. (\E rows : To(rows) /\ (k \in Numbers => Rewritten(issues[k], rows))) \/ UNCHANGED issues
    BY <2>1, <2>2, Zenon DEF EachRewritten
  <2>4. RowsEndure /\ NoneAdded
    BY <1>3, <2>3, NothingWritten DEF To
  <2> QED BY <1>1, <1>5, <2>4, RunsKeep DEF WriteIssue, Has, Went, Failed, Same, Ran
<1>6. CASE WriteLabel(c) \/ WriteMilestone(c)
  <2> DEFINE x == Head(todo[c]).arg
  <2>1. \/ UNCHANGED issues
        \/ issues' = [n \in Numbers |-> {[r EXCEPT !.labels = @ \ {x}] : r \in issues[n]}]
        \/ issues' = [n \in Numbers |-> {[r EXCEPT !.milestone = IF @ = x THEN NoMilestone ELSE @] : r \in issues[n]}]
    BY <1>6 DEF WriteLabel, WriteMilestone
  <2> HIDE DEF x
  <2>2. \A n \in Numbers : EachRewritten(issues[n], x)
    BY <1>2, ColumnsAreRewritten
  <2>4. RowsRewritten
    BY <1>2, <2>1, <2>2 DEF IssuesInv, RowsRewritten, EachRewritten
  <2>3. RowsEndure /\ NoneAdded
    BY <2>4, RewritingKeeps
  <2>5. IsFiniteSet(labels')
    BY <1>1, <1>6 DEF WriteLabel, WriteMilestone
  <2>6. todo[c] # <<>> /\ Head(todo[c]).op # "allocate"
    BY <1>6 DEF WriteLabel, WriteMilestone, Has
  <2>7. todo' = [todo EXCEPT ![c] = Tail(@)] /\ UNCHANGED <<nextValue, number, walk>>
    BY <1>6 DEF WriteLabel, WriteMilestone, Went, Same
  <2> QED BY <2>3, <2>5, <2>6, <2>7, RunsKeep DEF Ran
<1>7. CASE WriteComment(c)
  <2>1. RowsEndure /\ NoneAdded
    BY <1>7, NothingWritten DEF WriteComment
  <2> QED BY <1>1, <1>7, <2>1, RunsKeep DEF WriteComment, Has, Went, Same, Ran
<1>8. CASE Dies(c)
  <2>1. RowsEndure /\ NoneAdded
    BY <1>8, NothingWritten DEF Dies, Stored
  <2> QED BY <1>1, <1>8, <2>1, RunsKeep DEF Dies, Failed, Stored, Ran
<1> QED BY <1>4, <1>5, <1>6, <1>7, <1>8

\* issues/store.ts: the next number, which no row has and no other request has drawn.
LEMMA AllocationKeeps ==
    ASSUME IssueAssumption, IssuesInv, NEW c \in IssueCallers, Allocate(c)
    PROVE  IssuesInv'
<1>1. /\ todo[c] # <<>> /\ nextValue <= MaxNumber /\ MaxNumber \in Nat /\ nextValue \in Nat \ {0}
      /\ number' = [number EXCEPT ![c] = nextValue] /\ nextValue' = nextValue + 1
      /\ todo' = [todo EXCEPT ![c] = Tail(@)] /\ UNCHANGED <<issues, labels, walk>>
  BY DEF Allocate, Allocated, Has, Went, Same, IssuesInv, IssueAssumption
<1>2. nextValue \in Numbers /\ issues[nextValue] = {}
  BY <1>1 DEF Numbers, IssuesInv, RowIsSound
<1>3. /\ number' \in [IssueCallers -> Nat] /\ DOMAIN todo' = IssueCallers /\ number'[c] = nextValue
      /\ todo'[c] = Tail(todo[c])
      /\ \A d \in IssueCallers : d # c => todo'[d] = todo[d] /\ number'[d] = number[d]
  BY <1>1 DEF IssuesInv
<1>4. \A d \in IssueCallers : d # c => (Drawn(d)' <=> Drawn(d))
  BY <1>3 DEF Drawn
<1>5. \A d \in IssueCallers : Drawn(d) => number[d] < nextValue /\ number[d] \in Nat
  BY DEF IssuesInv, CallerIsSound
<1>6. ASSUME NEW d \in IssueCallers PROVE CallerIsSound(d)'
  <2>1. CASE d = c
    <3>1. InOrder(Tail(todo[c]))
      BY <1>1, LeftInOrder DEF IssuesInv, CallerIsSound
    <3> QED BY <1>1, <1>2, <1>3, <2>1, <3>1 DEF CallerIsSound
  <2>2. CASE d # c
    <3>1. CallerIsSound(d)
      BY DEF IssuesInv
    <3>2. Drawn(d) => number[d] < nextValue + 1
      BY <1>1, <1>5
    <3> QED BY <1>1, <1>3, <1>4, <2>2, <3>1, <3>2 DEF CallerIsSound
  <2> QED BY <2>1, <2>2
<1>7. \A d, e \in IssueCallers : d # e /\ Drawn(d)' /\ Drawn(e)' => number'[d] # number'[e]
  BY <1>1, <1>3, <1>4, <1>5 DEF IssuesInv
<1>8. \A n \in Numbers : RowIsSound(n)'
  <2>1. \A n \in Numbers : n >= nextValue + 1 => n >= nextValue
    BY <1>1 DEF Numbers
  <2> QED BY <1>1, <2>1 DEF IssuesInv, RowIsSound
<1>9. WalkIsSound'
  BY <1>1, NothingWritten, WalkEndures DEF IssuesInv
<1> QED BY <1>1, <1>3, <1>6, <1>7, <1>8, <1>9 DEF IssuesInv

\* issues/store.ts, pull-crud.ts: the row of the number that was drawn.
LEMMA InsertionKeeps ==
    ASSUME IssueAssumption, IssuesInv, NEW c \in IssueCallers, InsertIssue(c)
    PROVE  IssuesInv'
<1> DEFINE k == number[c]
<1>1. /\ Drawn(c) /\ CallerIsSound(c) /\ UNCHANGED <<nextValue, labels, number, walk>>
      /\ todo[c] # <<>> /\ Head(todo[c]).op \in Making
  BY DEF InsertIssue, Has, Drawn, Making, Same, IssuesInv
<1>2. k \in Numbers /\ k < nextValue /\ issues[k] = {} /\ k \in Nat /\ nextValue \in Nat
  BY <1>1 DEF CallerIsSound, IssuesInv
<1>3. \/ issues' = issues /\ todo' = [todo EXCEPT ![c] = <<>>]
      \/ \E row : "pr" \in DOMAIN row /\ issues' = [issues EXCEPT ![k] = {row}] /\ todo' = [todo EXCEPT ![c] = Tail(@)]
  <2> DEFINE Made(row) == /\ issues' = [issues EXCEPT ![k] = {row}]
                          /\ todo' = [todo EXCEPT ![c] = Tail(@)]
  <2>1. \A pr, ms : "pr" \in DOMAIN Row(pr, ms)
    BY DEF Row
  <2>2. \/ issues' = issues /\ todo' = [todo EXCEPT ![c] = <<>>]
        \/ Made(Row(FALSE, Head(todo[c]).arg)) \/ Made(Row(TRUE, NoMilestone))
    BY DEF InsertIssue, Went, Failed
  <2> HIDE DEF Made
  <2>3. \/ issues' = issues /\ todo' = [todo EXCEPT ![c] = <<>>]
        \/ \E row : "pr" \in DOMAIN row /\ Made(row)
    BY <2>1, <2>2
  <2> QED BY <2>3 DEF Made
<1>4. CASE issues' = issues /\ todo' = [todo EXCEPT ![c] = <<>>]
  BY <1>1, <1>4, NothingWritten, RunsKeep DEF Ran, IssuesInv
<1>5. ASSUME NEW row, "pr" \in DOMAIN row, issues' = [issues EXCEPT ![k] = {row}], todo' = [todo EXCEPT ![c] = Tail(@)]
      PROVE  IssuesInv'
  <2>1. /\ DOMAIN issues' = Numbers /\ issues' = [n \in Numbers |-> issues'[n]] /\ issues'[k] = {row}
        /\ \A n \in Numbers : n # k => issues'[n] = issues[n]
    BY <1>2, <1>5 DEF IssuesInv
  <2>2. \A n \in Numbers : \A r \in issues[n] : "pr" \in DOMAIN r /\ \A s \in issues[n] : r = s
    BY DEF IssuesInv, RowIsSound
  <2>3. RowsEndure
    BY <1>2, <1>5, <2>1, <2>2 DEF RowsEndure
  <2>4. WalkIsSound'
    BY <1>1, <2>3, WalkEndures DEF IssuesInv
  <2>5. /\ Plain(Tail(todo[c])) /\ DOMAIN todo' = IssueCallers /\ todo'[c] = Tail(todo[c])
        /\ \A d \in IssueCallers : d # c => todo'[d] = todo[d]
    BY <1>1, <1>5, LeftInOrder DEF IssuesInv, CallerIsSound, Making
  <2>6. ~Drawn(c)' /\ InOrder(todo'[c])
    BY <2>5, PlainIsBegun DEF Drawn, Begun
  <2>7. \A d \in IssueCallers : d # c => (Drawn(d)' <=> Drawn(d))
    BY <2>5 DEF Drawn
  <2>8. ASSUME NEW d \in IssueCallers PROVE CallerIsSound(d)'
    <3>1. CASE d = c
      BY <2>6, <3>1 DEF CallerIsSound
    <3>2. CASE d # c
      <4>1. CallerIsSound(d) /\ (Drawn(d) => number[d] # k)
        BY <1>1, <3>2 DEF IssuesInv
      <4> QED BY <1>1, <2>1, <2>5, <2>7, <3>2, <4>1 DEF CallerIsSound
    <3> QED BY <3>1, <3>2
  <2>9. \A n \in Numbers : RowIsSound(n)'
    <3>1. \A n \in Numbers : n >= nextValue => n # k
      BY <1>2 DEF Numbers
    <3> QED BY <1>1, <1>5, <2>1, <2>2, <3>1 DEF IssuesInv, RowIsSound
  <2>10. \A d, e \in IssueCallers : d # e /\ Drawn(d)' /\ Drawn(e)' => number'[d] # number'[e]
    BY <1>1, <2>6, <2>7 DEF IssuesInv
  <2> QED BY <1>1, <2>1, <2>4, <2>5, <2>8, <2>9, <2>10 DEF IssuesInv
<1> QED BY <1>3, <1>4, <1>5

\* issues.ts listIssuesHandler: the next page, and its cursor.
LEMMA ReadersKeep ==
    ASSUME IssueAssumption, IssuesInv, StartWalk \/ ReadPage
    PROVE  IssuesInv'
<1>1. /\ UNCHANGED <<issues, nextValue, labels, todo, number>> /\ WalkIsSound /\ Limit \in Nat
  BY DEF StartWalk, ReadPage, Stored, IssuesInv, IssueAssumption
<1>2. Shown' = Shown
  BY <1>1 DEF Shown, There, The
<1>3. \A n : Position(n)' = Position(n) /\ Position(n) \in Nat
  BY <1>2, PlacesOnlyGrow DEF Position
<1>4. WalkIsSound'
  <2>1. CASE StartWalk
    <3>1. walk' = [on |-> TRUE, offset |-> 0, seen |-> {}, from |-> Shown]
      BY <2>1 DEF StartWalk
    <3> QED BY <1>2, <1>3, <3>1 DEF WalkIsSound
  <2>2. CASE ReadPage
    <3>1. /\ walk' = [on |-> HasMore(walk.offset), offset |-> walk.offset + Limit,
                      seen |-> walk.seen \cup PageAt(walk.offset), from |-> walk.from]
          /\ walk.offset \in Nat /\ walk.from \subseteq Shown
      BY <1>1, <2>2 DEF ReadPage, NextOffset, WalkIsSound
    <3>2. ASSUME NEW n \in walk'.from \ walk'.seen PROVE walk'.on /\ Position(n)' >= walk'.offset
      <4>1. n \in walk.from \ walk.seen /\ n \in Shown /\ n \notin PageAt(walk.offset)
        BY <3>1, <3>2
      <4>2. Position(n) >= walk.offset /\ Position(n) \notin walk.offset..walk.offset + Limit - 1
        BY <1>1, <4>1 DEF WalkIsSound, PageAt
      <4>3. Position(n) >= walk.offset + Limit
        BY <1>1, <1>3, <3>1, <4>2
      <4> QED BY <1>3, <3>1, <4>1, <4>3 DEF HasMore
    <3>3. walk'.offset \in Nat /\ walk'.from \subseteq Shown
      BY <1>1, <3>1
    <3> QED BY <1>2, <3>2, <3>3 DEF WalkIsSound
  <2> QED BY <2>1, <2>2
<1>5. \A d \in IssueCallers : (CallerIsSound(d)' <=> CallerIsSound(d)) /\ (Drawn(d)' <=> Drawn(d))
  BY <1>1 DEF CallerIsSound, Drawn
<1>6. \A n \in Numbers : RowIsSound(n)' <=> RowIsSound(n)
  BY <1>1 DEF RowIsSound
<1> QED BY <1>1, <1>4, <1>5, <1>6 DEF IssuesInv

\* issues/store.ts, issues.ts: no two issues or pull requests that exist or are being made have the same number, and
\* whoever follows the cursors of the list sees every issue there was, whatever is opened in between.
THEOREM IssuesStaySound == IssueAssumption => (ISpec => []IssuesHold)
<1> SUFFICES ASSUME IssueAssumption PROVE ISpec => []IssuesHold
  OBVIOUS
<1>1. IInit => IssuesInv
  <2> SUFFICES ASSUME IInit PROVE IssuesInv
    OBVIOUS
  <2>1. /\ issues = [n \in Numbers |-> {}] /\ nextValue = 1 /\ labels = LabelIds /\ walk = NoWalk
        /\ todo = [c \in IssueCallers |-> <<>>] /\ number = [c \in IssueCallers |-> 0]
    BY DEF IInit
  <2>2. \A c \in IssueCallers : CallerIsSound(c) /\ ~Drawn(c)
    BY <2>1, NoneIsPlain, PlainIsInOrder DEF CallerIsSound, Drawn
  <2>3. WalkIsSound
    BY <2>1 DEF WalkIsSound, NoWalk
  <2> QED BY <2>1, <2>2, <2>3 DEF IssuesInv, RowIsSound, IssueAssumption
<1>2. IssuesInv /\ [INext]_ivars => IssuesInv'
  <2> SUFFICES ASSUME IssuesInv, [INext]_ivars PROVE IssuesInv'
    OBVIOUS
  <2>1. CASE UNCHANGED ivars
    <3>1. UNCHANGED <<issues, nextValue, labels, todo, number, walk>>
      BY <2>1 DEF ivars
    <3>2. \A d \in IssueCallers : (CallerIsSound(d)' <=> CallerIsSound(d)) /\ (Drawn(d)' <=> Drawn(d))
      BY <3>1 DEF CallerIsSound, Drawn
    <3>3. WalkIsSound'
      BY <3>1, NothingWritten, WalkEndures DEF IssuesInv
    <3> QED BY <3>1, <3>2, <3>3 DEF IssuesInv, RowIsSound
  <2>2. CASE INext
    BY <2>2, HandlersKeep, AllocationKeeps, InsertionKeeps, StatementsKeep, ReadersKeep DEF INext
  <2> QED BY <2>1, <2>2
<1>3. IssuesInv => IssuesHold
  BY DEF IssuesInv, IssuesHold, NumbersAreOwn, WalkSeesAll, CallerIsSound, Drawn, Has, Making, WalkIsSound
<1> QED BY <1>1, <1>2, <1>3, PTL DEF ISpec

-----------------------------------------------------------------------------
(* Runs: their attempts are counted without a gap, and a walk misses none. *)

RunRowType == [number : Nat, attempt : Nat, commit : Nat, completed : BOOLEAN]
AskingType ==
    [pc : {"idle", "allocate", "attempt", "find", "save", "insert"}, number : Nat, attempt : Nat, commit : Nat, found : BOOLEAN]
RowsOf(n) == {j \in RunRows : workflowRuns[j].number = n}
Attempts(n) == Cardinality(RowsOf(n))

\* A request that has its number, and one that has its attempt as well.
HasNumber(c) == asking[c].pc \in {"attempt", "find", "save", "insert"}
HasAttempt(c) == asking[c].pc \in {"find", "save", "insert"}

\* What a request is about to insert: a run of a number that was handed out, at the commit its other runs are at,
\* and an attempt that is the next one or is taken.
RequestIsNext(c) ==
    /\ HasNumber(c) => asking[c].number \in 1..counter /\ \A j \in RowsOf(asking[c].number) : workflowRuns[j].commit = asking[c].commit
    /\ HasAttempt(c) => asking[c].attempt \in 1..Attempts(asking[c].number) + 1

ReaderIsSound ==
    /\ reader.offset \in Nat /\ reader.from \subseteq RunRows
    /\ \A i \in reader.from \ reader.seen : reader.on /\ Len(workflowRuns) - i >= reader.offset

RunsInv ==
    /\ tip \in Nat /\ counter \in Nat /\ workflowRuns \in Seq(RunRowType) /\ asking \in [RunCallers -> AskingType]
    /\ \A i \in RunRows : workflowRuns[i].number \in 1..counter
    /\ \A n \in Nat : AttemptsOf(n) = 1..Attempts(n)
    /\ \A i, j \in RunRows : workflowRuns[i].number = workflowRuns[j].number => workflowRuns[i].commit = workflowRuns[j].commit
    /\ \A c \in RunCallers : RequestIsNext(c)
    /\ \A c, d \in RunCallers : HasNumber(c) /\ HasNumber(d) /\ asking[c].number = asking[d].number => asking[c].commit = asking[d].commit
    /\ ReaderIsSound

\* The runs of a number are finitely many.
LEMMA AttemptsAreCounted ==
    ASSUME workflowRuns \in Seq(RunRowType), NEW n
    PROVE  IsFiniteSet(RowsOf(n)) /\ Attempts(n) \in Nat /\ RowsOf(n) \subseteq 1..Len(workflowRuns)
<1>1. Len(workflowRuns) \in Nat /\ RunRows = 1..Len(workflowRuns)
  BY LenProperties DEF RunRows
<1>2. IsFiniteSet(1..Len(workflowRuns)) /\ RowsOf(n) \subseteq 1..Len(workflowRuns)
  BY <1>1, FS_Interval DEF RowsOf
<1> QED BY <1>2, FS_Subset, FS_CardinalityType DEF Attempts

LEMMA ElementsAreRuns ==
    ASSUME workflowRuns \in Seq(RunRowType)
    PROVE  /\ RunRows = 1..Len(workflowRuns) /\ Len(workflowRuns) \in Nat
           /\ \A i \in RunRows : workflowRuns[i] \in RunRowType
BY ElementOfSeq, LenProperties DEF RunRows

Numbering == {"attempt", "find", "save", "insert"}
Trying == {"find", "save", "insert"}

\* One request goes on to `to`, and no run is made.
WentTo(c, to) ==
    /\ asking' = [asking EXCEPT ![c] = to] /\ to \in AskingType
    /\ UNCHANGED <<workflowRuns, reader>> /\ tip' \in Nat /\ counter' \in {counter, counter + 1}
    /\ to.pc \in Numbering =>
          /\ to.number \in 1..counter' /\ \A j \in RowsOf(to.number) : workflowRuns[j].commit = to.commit
          /\ \A d \in RunCallers \ {c} : HasNumber(d) /\ asking[d].number = to.number => asking[d].commit = to.commit
    /\ to.pc \in Trying => to.attempt \in 1..Attempts(to.number) + 1

LEMMA OneGoesOn ==
    ASSUME RunsInv, NEW c \in RunCallers, NEW to, WentTo(c, to)
    PROVE  RunsInv'
<1>1. /\ asking' \in [RunCallers -> AskingType] /\ asking'[c] = to
      /\ \A d \in RunCallers : d # c => asking'[d] = asking[d]
      /\ UNCHANGED <<workflowRuns, reader>> /\ tip' \in Nat /\ counter \in Nat /\ counter' \in {counter, counter + 1}
  BY DEF RunsInv, WentTo
<1>2. \A n : RowsOf(n)' = RowsOf(n) /\ Attempts(n)' = Attempts(n) /\ AttemptsOf(n)' = AttemptsOf(n)
  BY <1>1 DEF RowsOf, Attempts, AttemptsOf, RunRows
<1>3. ASSUME NEW d \in RunCallers PROVE RequestIsNext(d)'
  <2>1. CASE d = c
    <3>1. HasNumber(d)' => to.number \in 1..counter' /\ \A j \in RowsOf(to.number) : workflowRuns[j].commit = to.commit
      BY <1>1, <2>1 DEF WentTo, HasNumber, Numbering
    <3>2. HasAttempt(d)' => to.attempt \in 1..Attempts(to.number) + 1
      BY <1>1, <2>1 DEF WentTo, HasAttempt, Trying
    <3> QED BY <1>1, <1>2, <2>1, <3>1, <3>2 DEF RequestIsNext
  <2>2. CASE d # c
    <3>1. RequestIsNext(d) /\ asking'[d] = asking[d] /\ asking[d].number \in Nat
      BY <1>1, <2>2 DEF RunsInv, AskingType
    <3>2. asking[d].number \in 1..counter => asking[d].number \in 1..counter'
      BY <1>1, <3>1
    <3> QED BY <1>1, <1>2, <3>1, <3>2 DEF RequestIsNext, HasNumber, HasAttempt
  <2> QED BY <2>1, <2>2
<1>4. ASSUME NEW d \in RunCallers, NEW e \in RunCallers, HasNumber(d)', HasNumber(e)', asking'[d].number = asking'[e].number
      PROVE  asking'[d].commit = asking'[e].commit
  <2>1. CASE d = c /\ e = c
    BY <2>1
  <2>2. CASE d = c /\ e # c
    BY <1>1, <1>4, <2>2 DEF WentTo, HasNumber, Numbering
  <2>3. CASE d # c /\ e = c
    BY <1>1, <1>4, <2>3 DEF WentTo, HasNumber, Numbering
  <2>4. CASE d # c /\ e # c
    BY <1>1, <1>4, <2>4 DEF RunsInv, HasNumber
  <2> QED BY <2>1, <2>2, <2>3, <2>4
<1>5. ReaderIsSound'
  BY <1>1 DEF RunsInv, ReaderIsSound, RunRows
<1>6. \A i \in RunRows' : workflowRuns'[i].number \in 1..counter'
  <2> SUFFICES ASSUME NEW i \in RunRows PROVE workflowRuns[i].number \in 1..counter'
    BY <1>1 DEF RunRows
  <2>1. workflowRuns[i].number \in 1..counter /\ workflowRuns[i] \in RunRowType
    BY ElementsAreRuns DEF RunsInv
  <2>2. workflowRuns[i].number \in Nat
    BY <2>1 DEF RunRowType
  <2> QED BY <1>1, <2>1, <2>2
<1>7. \A i, j \in RunRows' : workflowRuns'[i].number = workflowRuns'[j].number => workflowRuns'[i].commit = workflowRuns'[j].commit
  BY <1>1 DEF RunsInv, RunRows
<1>8. \A n \in Nat : AttemptsOf(n)' = 1..Attempts(n)'
  BY <1>2 DEF RunsInv
<1>9. workflowRuns' \in Seq(RunRowType) /\ counter' \in Nat
  BY <1>1 DEF RunsInv
<1> QED BY <1>1, <1>3, <1>4, <1>5, <1>6, <1>7, <1>8, <1>9 DEF RunsInv

\* The next attempt, from what was read.
LEMMA NextIsCounted ==
    ASSUME RunsInv, NEW n \in Nat
    PROVE  Max(AttemptsOf(n) \cup {0}) + 1 = Attempts(n) + 1
<1>1. AttemptsOf(n) = 1..Attempts(n) /\ Attempts(n) \in Nat
  BY AttemptsAreCounted DEF RunsInv
<1>2. AttemptsOf(n) \cup {0} = 0..Attempts(n)
  BY <1>1
<1> DEFINE m == Max(0..Attempts(n))
<1>3. \E x \in 0..Attempts(n) : \A y \in 0..Attempts(n) : x >= y
  BY <1>1
<1>4. m \in 0..Attempts(n) /\ \A y \in 0..Attempts(n) : m >= y
  BY <1>3 DEF Max
<1> HIDE DEF m
<1>5. m = Attempts(n)
  BY <1>1, <1>4
<1> QED BY <1>2, <1>5 DEF m

\* Every statement that makes no run.
LEMMA RequestsKeep ==
    ASSUME RunAssumption, RunsInv, NEW c \in RunCallers,
           \/ DispatchRun(c) \/ PushRun(c) \/ Rerun(c) \/ AllocateNumber(c) \/ NextAttempt(c)
           \/ FindWorkflow(c) \/ SaveWorkflow(c) \/ RequestEnds(c)
           \/ InsertRun(c) /\ Taken(asking[c].number, asking[c].attempt)
    PROVE  RunsInv'
<1>1. /\ asking[c] \in AskingType /\ counter \in Nat /\ tip \in Nat /\ RequestIsNext(c)
      /\ \A d \in RunCallers : asking[d] \in AskingType /\ RequestIsNext(d)
      /\ \A d, e \in RunCallers : HasNumber(d) /\ HasNumber(e) /\ asking[d].number = asking[e].number => asking[d].commit = asking[e].commit
  BY DEF RunsInv
<1>2. NoRequest \in AskingType /\ NoRequest.pc \notin Numbering \cup Trying
  BY DEF NoRequest, AskingType, Numbering, Trying
<1>3. ASSUME asking' = [asking EXCEPT ![c] = NoRequest], UNCHANGED <<tip, counter, workflowRuns, reader>> PROVE RunsInv'
  <2>1. WentTo(c, NoRequest)
    BY <1>1, <1>2, <1>3 DEF WentTo
  <2> QED BY <2>1, OneGoesOn
<1>4. CASE RequestEnds(c)
  BY <1>3, <1>4 DEF RequestEnds, Ends
<1>5. CASE InsertRun(c) /\ Taken(asking[c].number, asking[c].attempt)
  BY <1>3, <1>5 DEF InsertRun, Reached, Ends
<1>6. CASE DispatchRun(c) \/ PushRun(c)
  <2> DEFINE To(m) == [NoRequest EXCEPT !.pc = "allocate", !.number = 0, !.commit = m]
  <2>1. \A m \in Nat : To(m) \in AskingType /\ To(m).pc \notin Numbering \cup Trying
    BY DEF NoRequest, AskingType, Numbering, Trying
  <2>2. \E m \in Nat : asking' = [asking EXCEPT ![c] = To(m)] /\ tip' \in Nat /\ UNCHANGED <<counter, workflowRuns, reader>>
    <3>1. CASE DispatchRun(c)
      <4>1. asking' = [asking EXCEPT ![c] = To(tip)] /\ tip' = tip /\ UNCHANGED <<counter, workflowRuns, reader>>
        BY <3>1 DEF DispatchRun, BeginRequest
      <4> QED BY <1>1, <4>1
    <3>2. CASE PushRun(c)
      <4>1. asking' = [asking EXCEPT ![c] = To(tip + 1)] /\ tip' = tip + 1 /\ UNCHANGED <<counter, workflowRuns, reader>>
        BY <3>2 DEF PushRun, BeginRequest
      <4> HIDE DEF To
      <4>2. tip + 1 \in Nat
        BY <1>1
      <4> QED BY <4>1, <4>2
    <3> QED BY <1>6, <3>1, <3>2
  <2> HIDE DEF To
  <2>3. PICK m \in Nat : asking' = [asking EXCEPT ![c] = To(m)] /\ tip' \in Nat /\ UNCHANGED <<counter, workflowRuns, reader>>
    BY <2>2
  <2>4. WentTo(c, To(m))
    BY <1>1, <2>1, <2>3 DEF WentTo
  <2> QED BY <2>4, OneGoesOn
<1>7. CASE Rerun(c)
  <2>1. PICK i \in RunRows :
          /\ BeginRequest(c, "attempt", workflowRuns[i].number, workflowRuns[i].commit) /\ UNCHANGED tip
    BY <1>7 DEF Rerun, PinnedCommit
  <2> DEFINE n == workflowRuns[i].number
             m == workflowRuns[i].commit
             to == [NoRequest EXCEPT !.pc = "attempt", !.number = n, !.commit = m]
  <2>2. workflowRuns[i] \in RunRowType /\ n \in 1..counter
    BY ElementsAreRuns DEF RunsInv
  <2>3. n \in Nat /\ m \in Nat
    BY <2>2 DEF RunRowType
  <2>4. to \in AskingType /\ to.pc = "attempt" /\ to.number = n /\ to.commit = m
    BY <2>3 DEF NoRequest, AskingType
  <2>5. asking' = [asking EXCEPT ![c] = to] /\ UNCHANGED <<counter, workflowRuns, reader, tip>>
    BY <2>1 DEF BeginRequest
  <2> HIDE DEF n, m, to
  <2>7. \A j \in RowsOf(n) : workflowRuns[j].commit = m
    BY DEF RunsInv, RowsOf, n, m
  <2>8. \A d \in RunCallers \ {c} : HasNumber(d) /\ asking[d].number = n => asking[d].commit = m
    BY <1>1 DEF RequestIsNext, RowsOf, n, m
  <2>9. WentTo(c, to)
    BY <1>1, <2>4, <2>2, <2>5, <2>7, <2>8 DEF WentTo, Numbering, Trying
  <2> QED BY <2>9, OneGoesOn
<1>8. CASE AllocateNumber(c)
  <2> DEFINE to == [asking[c] EXCEPT !.pc = "find", !.number = counter + 1, !.attempt = 1]
  <2>1. /\ asking' = [asking EXCEPT ![c] = to] /\ counter' = counter + 1 /\ UNCHANGED <<workflowRuns, reader, tip>>
    BY <1>8 DEF AllocateNumber, Reached
  <2>2. to \in AskingType /\ to.pc = "find" /\ to.number = counter + 1 /\ to.attempt = 1
    <3>1. \A q \in AskingType, n \in Nat :
            LET r == [q EXCEPT !.pc = "find", !.number = n, !.attempt = 1]
            IN r \in AskingType /\ r.pc = "find" /\ r.number = n /\ r.attempt = 1
      BY DEF AskingType
    <3>2. counter + 1 \in Nat
      BY <1>1
    <3> QED BY <1>1, <3>1, <3>2
  <2>3. RowsOf(counter + 1) = {}
    <3>1. \A i \in RunRows : workflowRuns[i].number \in 1..counter /\ workflowRuns[i] \in RunRowType
      BY ElementsAreRuns DEF RunsInv
    <3>2. \A i \in RunRows : workflowRuns[i].number # counter + 1
      BY <1>1, <3>1 DEF RunRowType
    <3> QED BY <3>2 DEF RowsOf
  <2>4. \A d \in RunCallers : HasNumber(d) => asking[d].number # counter + 1
    BY <1>1 DEF RequestIsNext
  <2>5. Attempts(counter + 1) = 0
    BY <2>3, FS_EmptySet DEF Attempts
  <2> HIDE DEF to
  <2>6. WentTo(c, to)
    BY <1>1, <2>1, <2>2, <2>3, <2>4, <2>5 DEF WentTo
  <2> QED BY <2>6, OneGoesOn
<1>9. CASE NextAttempt(c)
  <2> DEFINE k == Max(AttemptsOf(asking[c].number) \cup {0}) + 1
             to == [asking[c] EXCEPT !.pc = "find", !.attempt = k]
  <2>1. HasNumber(c) /\ asking' = [asking EXCEPT ![c] = to] /\ UNCHANGED <<counter, workflowRuns, reader, tip>>
    BY <1>9 DEF NextAttempt, Reached, HasNumber
  <2>2. k = Attempts(asking[c].number) + 1 /\ Attempts(asking[c].number) \in Nat /\ k \in Nat
    <3>1. asking[c].number \in Nat /\ workflowRuns \in Seq(RunRowType)
      BY <1>1 DEF AskingType, RunsInv
    <3>2. Attempts(asking[c].number) \in Nat
      BY <3>1, AttemptsAreCounted
    <3>3. k = Attempts(asking[c].number) + 1
      BY <3>1, NextIsCounted
    <3> QED BY <3>2, <3>3
  <2> HIDE DEF k
  <2>3. to \in AskingType /\ to.pc = "find" /\ to.number = asking[c].number /\ to.attempt = k /\ to.commit = asking[c].commit
    BY <1>1, <2>2 DEF AskingType
  <2> HIDE DEF to
  <2>4. WentTo(c, to)
    BY <1>1, <2>1, <2>2, <2>3 DEF WentTo, RequestIsNext
  <2> QED BY <2>4, OneGoesOn
<1>10. ASSUME NEW to, asking' = [asking EXCEPT ![c] = to], UNCHANGED <<counter, workflowRuns, reader, tip>>, HasAttempt(c),
              to \in AskingType, to.number = asking[c].number, to.attempt = asking[c].attempt, to.commit = asking[c].commit
       PROVE  RunsInv'
  <2>1. WentTo(c, to)
    BY <1>1, <1>10 DEF WentTo, RequestIsNext, HasAttempt, HasNumber
  <2> QED BY <2>1, OneGoesOn
<1>11. CASE FindWorkflow(c)
  <2> DEFINE to == [asking[c] EXCEPT !.pc = "save", !.found = cached # 0]
  <2>1. HasAttempt(c) /\ asking' = [asking EXCEPT ![c] = to] /\ UNCHANGED <<counter, workflowRuns, reader, tip>>
    BY <1>11 DEF FindWorkflow, Reached, HasAttempt
  <2>2. to \in AskingType /\ to.number = asking[c].number /\ to.attempt = asking[c].attempt /\ to.commit = asking[c].commit
    BY <1>1 DEF AskingType
  <2> HIDE DEF to
  <2> QED BY <1>10, <2>1, <2>2
<1>12. CASE SaveWorkflow(c)
  <2> DEFINE to == [asking[c] EXCEPT !.pc = "insert"]
  <2>1. HasAttempt(c) /\ UNCHANGED <<counter, workflowRuns, reader, tip>>
    BY <1>12 DEF SaveWorkflow, Reached, HasAttempt
  <2>2. to \in AskingType /\ to.number = asking[c].number /\ to.attempt = asking[c].attempt /\ to.commit = asking[c].commit
    BY <1>1 DEF AskingType
  <2>3. asking' = [asking EXCEPT ![c] = to] \/ asking' = [asking EXCEPT ![c] = NoRequest]
    BY <1>12 DEF SaveWorkflow, GoesTo, Ends
  <2> HIDE DEF to
  <2> QED BY <1>3, <1>10, <2>1, <2>2, <2>3
<1> QED BY <1>4, <1>5, <1>6, <1>7, <1>8, <1>9, <1>11, <1>12

\* service.ts createWorkflowRun: the next attempt of a number, at the commit of the others.
LEMMA InsertsKeep ==
    ASSUME RunsInv, NEW c \in RunCallers, InsertRun(c), ~Taken(asking[c].number, asking[c].attempt)
    PROVE  RunsInv'
<1>0. PICK n, k, m, len : n = asking[c].number /\ k = asking[c].attempt /\ m = asking[c].commit /\ len = Len(workflowRuns)
  OBVIOUS
<1> DEFINE row == NewRun(n, k, m)
<1>1. /\ HasAttempt(c) /\ HasNumber(c) /\ workflowRuns' = Append(workflowRuns, row)
      /\ asking' = [asking EXCEPT ![c] = NoRequest] /\ UNCHANGED <<tip, counter, reader>>
  BY <1>0 DEF InsertRun, Reached, Ends, HasAttempt, HasNumber
<1>2. n \in Nat /\ k \in Nat /\ m \in Nat /\ counter \in Nat /\ workflowRuns \in Seq(RunRowType) /\ len \in Nat
  BY <1>0, LenProperties DEF RunsInv, AskingType
<1>3. row \in RunRowType /\ row.number = n /\ row.attempt = k /\ row.commit = m
  BY <1>2 DEF NewRun, RunRowType
<1>4. /\ n \in 1..counter /\ k \in 1..Attempts(n) + 1 /\ \A j \in RowsOf(n) : workflowRuns[j].commit = m
  BY <1>0, <1>1 DEF RunsInv, RequestIsNext
<1>5. \A j \in RowsOf(n) : workflowRuns[j].attempt # k
  BY <1>0 DEF Taken, RowsOf
<1> HIDE DEF row
<1>6. /\ workflowRuns' \in Seq(RunRowType) /\ Len(workflowRuns') = len + 1 /\ RunRows = 1..len /\ RunRows' = 1..len + 1
      /\ workflowRuns'[len + 1] = row /\ \A i \in 1..len : workflowRuns'[i] = workflowRuns[i]
  <2>1. workflowRuns' \in Seq(RunRowType) /\ Len(workflowRuns') = len + 1
    BY <1>0, <1>1, <1>2, <1>3, AppendProperties
  <2>2. RunRows = 1..len /\ RunRows' = 1..len + 1
    BY <1>0, <1>2, <2>1, LenProperties DEF RunRows
  <2> QED BY <1>0, <1>1, <1>2, <1>3, <2>1, <2>2, AppendProperties
<1>7. RowsOf(n)' = RowsOf(n) \cup {len + 1} /\ \A x : x # n => RowsOf(x)' = RowsOf(x)
  <2>1. RunRows' = RunRows \cup {len + 1} /\ len + 1 \notin RunRows
    BY <1>2, <1>6
  <2> QED BY <1>3, <1>6, <2>1 DEF RowsOf
<1>8. /\ IsFiniteSet(RowsOf(n)) /\ Attempts(n) \in Nat /\ len + 1 \notin RowsOf(n)
      /\ AttemptsOf(n) = 1..Attempts(n)
  <2>1. len + 1 \notin RowsOf(n)
    BY <1>2, <1>6 DEF RowsOf
  <2>2. AttemptsOf(n) = 1..Attempts(n)
    BY <1>2 DEF RunsInv
  <2> QED BY <1>2, <2>1, <2>2, AttemptsAreCounted
<1>9. Attempts(n)' = Attempts(n) + 1 /\ \A x : x # n => Attempts(x)' = Attempts(x)
  BY <1>7, <1>8, FS_AddElement DEF Attempts
<1>10. \A x : AttemptsOf(x) = {workflowRuns[i].attempt : i \in RowsOf(x)} /\ AttemptsOf(x)' = {workflowRuns'[i].attempt : i \in RowsOf(x)'}
  BY DEF AttemptsOf, RowsOf
<1>11. AttemptsOf(n)' = AttemptsOf(n) \cup {k} /\ \A x : x # n => AttemptsOf(x)' = AttemptsOf(x)
  <2>1. \A x : \A i \in RowsOf(x) : workflowRuns'[i] = workflowRuns[i]
    BY <1>6 DEF RowsOf
  <2>2. \A x : {workflowRuns'[i].attempt : i \in RowsOf(x)} = AttemptsOf(x)
    BY <1>10, <2>1
  <2>3. AttemptsOf(n)' = {workflowRuns'[i].attempt : i \in RowsOf(n) \cup {len + 1}}
    BY <1>7, <1>10
  <2>4. AttemptsOf(n)' = {workflowRuns'[i].attempt : i \in RowsOf(n)} \cup {k}
    BY <1>3, <1>6, <2>3
  <2>5. \A x : x # n => AttemptsOf(x)' = {workflowRuns'[i].attempt : i \in RowsOf(x)}
    BY <1>7, <1>10
  <2> QED BY <2>2, <2>4, <2>5
<1>12. k = Attempts(n) + 1
  <2>1. k \notin 1..Attempts(n)
    BY <1>5, <1>8, <1>10
  <2> QED BY <1>2, <1>4, <1>8, <2>1
<1>13. ASSUME NEW x \in Nat PROVE AttemptsOf(x)' = 1..Attempts(x)'
  <2>1. CASE x = n
    <3>1. AttemptsOf(n)' = 1..Attempts(n) \cup {Attempts(n) + 1} /\ Attempts(n)' = Attempts(n) + 1 /\ Attempts(n) \in Nat
      BY <1>8, <1>9, <1>11, <1>12
    <3>2. \A a \in Nat : 1..a \cup {a + 1} = 1..a + 1
      OBVIOUS
    <3>3. AttemptsOf(n)' = 1..Attempts(n)'
      BY <3>1, <3>2
    <3> QED BY <2>1, <3>3
  <2>2. CASE x # n
    BY <1>9, <1>11, <2>2 DEF RunsInv
  <2> QED BY <2>1, <2>2
<1>14. /\ asking' \in [RunCallers -> AskingType] /\ asking'[c] = NoRequest
       /\ \A d \in RunCallers : d # c => asking'[d] = asking[d]
       /\ ~HasNumber(c)' /\ ~HasAttempt(c)'
  BY <1>1 DEF RunsInv, NoRequest, AskingType, HasNumber, HasAttempt
<1>15. ASSUME NEW d \in RunCallers PROVE RequestIsNext(d)'
  <2>1. CASE d = c
    BY <1>14, <2>1 DEF RequestIsNext
  <2>2. CASE d # c
    <3>0. PICK x, y, z : x = asking[d].number /\ y = asking[d].commit /\ z = asking[d].attempt
      OBVIOUS
    <3>1. /\ RequestIsNext(d) /\ asking'[d] = asking[d] /\ x \in Nat /\ z \in Nat
          /\ (HasNumber(d)' <=> HasNumber(d)) /\ (HasAttempt(d)' <=> HasAttempt(d))
      BY <1>14, <2>2, <3>0 DEF RunsInv, AskingType, HasNumber, HasAttempt
    <3>2. ASSUME HasNumber(d), NEW j \in RowsOf(x)' PROVE workflowRuns'[j].commit = y
      <4>1. CASE j \in RowsOf(x)
        <5>1. workflowRuns'[j] = workflowRuns[j]
          BY <1>6, <4>1 DEF RowsOf
        <5> QED BY <3>0, <3>1, <3>2, <4>1, <5>1 DEF RequestIsNext
      <4>2. CASE j \notin RowsOf(x)
        <5>1. x = n /\ j = len + 1
          BY <1>7, <3>2, <4>2
        <5>2. y = m
          BY <1>0, <1>1, <3>0, <3>2, <5>1 DEF RunsInv
        <5> QED BY <1>3, <1>6, <5>1, <5>2
      <4> QED BY <4>1, <4>2
    <3>3. HasAttempt(d) => z \in 1..Attempts(x)' + 1
      <4>1. Attempts(x) \in Nat
        BY <1>2, AttemptsAreCounted
      <4>2. Attempts(x)' = Attempts(x) \/ Attempts(x)' = Attempts(x) + 1
        BY <1>9
      <4>3. HasAttempt(d) => z \in 1..Attempts(x) + 1
        BY <3>0, <3>1 DEF RequestIsNext
      <4> QED BY <4>1, <4>2, <4>3
    <3>4. x = asking'[d].number /\ y = asking'[d].commit /\ z = asking'[d].attempt
      BY <3>0, <3>1
    <3>5. HasNumber(d) => x \in 1..counter
      BY <3>0, <3>1 DEF RequestIsNext
    <3> QED BY <1>1, <3>1, <3>2, <3>3, <3>4, <3>5 DEF RequestIsNext
  <2> QED BY <2>1, <2>2
<1>16. \A d, e \in RunCallers : HasNumber(d)' /\ HasNumber(e)' /\ asking'[d].number = asking'[e].number => asking'[d].commit = asking'[e].commit
  BY <1>14 DEF RunsInv, HasNumber
<1>17. \A i \in RunRows' : workflowRuns'[i].number \in 1..counter'
  BY <1>1, <1>2, <1>3, <1>4, <1>6 DEF RunsInv
<1>18. ASSUME NEW i \in RunRows', NEW j \in RunRows', workflowRuns'[i].number = workflowRuns'[j].number
       PROVE  workflowRuns'[i].commit = workflowRuns'[j].commit
  <2>1. \A x \in RunRows' : (x \in RunRows /\ workflowRuns'[x] = workflowRuns[x]) \/ workflowRuns'[x] = row
    BY <1>2, <1>6
  <2>2. \A x \in RunRows : workflowRuns[x].number = n => workflowRuns[x].commit = m
    BY <1>4 DEF RowsOf
  <2> QED BY <1>3, <1>18, <2>1, <2>2 DEF RunsInv
<1>19. ReaderIsSound'
  <2>1. reader.from \subseteq RunRows' /\ reader.offset \in Nat
    BY <1>2, <1>6 DEF RunsInv, ReaderIsSound
  <2>2. ASSUME NEW i \in reader.from \ reader.seen PROVE reader.on /\ len + 1 - i >= reader.offset
    <3>1. reader.on /\ len - i >= reader.offset /\ i \in 1..len
      BY <1>0, <1>6 DEF RunsInv, ReaderIsSound
    <3> QED BY <1>2, <2>1, <3>1
  <2>3. reader' = reader /\ Len(workflowRuns') = len + 1
    BY <1>1, <1>6
  <2>4. ASSUME NEW i \in reader'.from \ reader'.seen PROVE reader'.on /\ Len(workflowRuns') - i >= reader'.offset
    <3>1. reader.on /\ len + 1 - i >= reader.offset
      BY <2>2, <2>3, <2>4
    <3>2. reader'.on
      BY <2>3, <3>1
    <3>3. i \in 1..len
      BY <1>6, <2>3, <2>4 DEF RunsInv, ReaderIsSound
    <3>4. Len(workflowRuns') - i >= reader'.offset
      BY <1>2, <2>1, <2>3, <3>1, <3>3
    <3> QED BY <3>2, <3>4
  <2> QED BY <2>1, <2>3, <2>4 DEF ReaderIsSound
<1> QED BY <1>1, <1>2, <1>6, <1>13, <1>14, <1>15, <1>16, <1>17, <1>18, <1>19 DEF RunsInv

\* A run that ends is otherwise as it was.
LEMMA CompletionKeeps ==
    ASSUME RunsInv, CompleteRun
    PROVE  RunsInv'
<1>1. PICK k \in RunRows : workflowRuns' = [workflowRuns EXCEPT ![k].completed = TRUE]
  BY DEF CompleteRun
<1>2. UNCHANGED <<tip, counter, asking, reader>>
  BY DEF CompleteRun
<1> DEFINE row == [workflowRuns[k] EXCEPT !.completed = TRUE]
<1>3. workflowRuns \in Seq(RunRowType) /\ k \in 1..Len(workflowRuns) /\ workflowRuns[k] \in RunRowType
  BY ElementsAreRuns DEF RunsInv
<1>4. row \in RunRowType /\ row.number = workflowRuns[k].number /\ row.attempt = workflowRuns[k].attempt /\ row.commit = workflowRuns[k].commit
  BY <1>3 DEF RunRowType
<1>5. workflowRuns' = [workflowRuns EXCEPT ![k] = row]
  BY <1>1
<1> HIDE DEF row
<1>6. /\ workflowRuns' \in Seq(RunRowType) /\ Len(workflowRuns') = Len(workflowRuns)
      /\ \A j \in 1..Len(workflowRuns) : workflowRuns'[j] = IF j = k THEN row ELSE workflowRuns[j]
  BY <1>3, <1>4, <1>5, ExceptSeq
<1>7. RunRows = 1..Len(workflowRuns) /\ RunRows' = RunRows
  BY <1>3, <1>6, LenProperties DEF RunRows
<1>8. \A j \in RunRows : /\ workflowRuns'[j].number = workflowRuns[j].number
                         /\ workflowRuns'[j].attempt = workflowRuns[j].attempt
                         /\ workflowRuns'[j].commit = workflowRuns[j].commit
  BY <1>4, <1>6, <1>7
<1>9. \A n : RowsOf(n)' = RowsOf(n) /\ Attempts(n)' = Attempts(n)
  BY <1>7, <1>8 DEF RowsOf, Attempts
<1>10. \A n : AttemptsOf(n)' = AttemptsOf(n)
  <2>1. \A n : AttemptsOf(n) = {workflowRuns[i].attempt : i \in RowsOf(n)} /\ AttemptsOf(n)' = {workflowRuns'[i].attempt : i \in RowsOf(n)'}
    BY DEF AttemptsOf, RowsOf
  <2>2. \A n : \A i \in RowsOf(n) : workflowRuns'[i].attempt = workflowRuns[i].attempt
    BY <1>8 DEF RowsOf
  <2> QED BY <1>9, <2>1, <2>2
<1>11. ASSUME NEW c \in RunCallers PROVE RequestIsNext(c)'
  <2>1. PICK x : x = asking[c].number
    OBVIOUS
  <2>2. \A j \in RowsOf(x) : workflowRuns'[j].commit = workflowRuns[j].commit
    BY <1>8 DEF RowsOf
  <2>3. RequestIsNext(c) /\ x = asking'[c].number /\ asking' = asking /\ counter' = counter
    BY <1>2, <2>1 DEF RunsInv
  <2>4. (HasNumber(c)' <=> HasNumber(c)) /\ (HasAttempt(c)' <=> HasAttempt(c))
    BY <1>2 DEF HasNumber, HasAttempt
  <2> QED BY <1>9, <2>1, <2>2, <2>3, <2>4 DEF RequestIsNext
<1>12. ReaderIsSound'
  BY <1>2, <1>6, <1>7 DEF RunsInv, ReaderIsSound
<1>13. \A i \in RunRows' : workflowRuns'[i].number \in 1..counter'
  BY <1>2, <1>7, <1>8 DEF RunsInv
<1>14. \A i, j \in RunRows' : workflowRuns'[i].number = workflowRuns'[j].number => workflowRuns'[i].commit = workflowRuns'[j].commit
  BY <1>7, <1>8 DEF RunsInv
<1>15. \A c, d \in RunCallers : HasNumber(c)' /\ HasNumber(d)' /\ asking'[c].number = asking'[d].number => asking'[c].commit = asking'[d].commit
  BY <1>2 DEF RunsInv, HasNumber
<1> QED BY <1>2, <1>6, <1>9, <1>10, <1>11, <1>12, <1>13, <1>14, <1>15 DEF RunsInv

\* Neither a run nor a request changes.
LEMMA SameRunsKeep ==
    ASSUME RunsInv, UNCHANGED <<tip, counter, workflowRuns, asking>>, ReaderIsSound'
    PROVE  RunsInv'
<1>1. \A n : RowsOf(n)' = RowsOf(n) /\ Attempts(n)' = Attempts(n) /\ AttemptsOf(n)' = AttemptsOf(n)
  BY DEF RowsOf, Attempts, AttemptsOf, RunRows
<1>2. \A c : (HasNumber(c)' <=> HasNumber(c)) /\ (HasAttempt(c)' <=> HasAttempt(c))
  BY DEF HasNumber, HasAttempt
<1>3. RunRows' = RunRows
  BY DEF RunRows
<1>4. \A c \in RunCallers : RequestIsNext(c)'
  <2> SUFFICES ASSUME NEW c \in RunCallers PROVE RequestIsNext(c)'
    OBVIOUS
  <2>1. PICK x : x = asking[c].number
    OBVIOUS
  <2>2. RequestIsNext(c) /\ x = asking'[c].number
    BY <2>1 DEF RunsInv
  <2> QED BY <1>1, <1>2, <2>1, <2>2 DEF RequestIsNext
<1> QED BY <1>1, <1>2, <1>3, <1>4 DEF RunsInv

\* read-model.ts listRuns: the next page, and its cursor.
LEMMA RunReadersKeep ==
    ASSUME RunAssumption, RunsInv, StartRunWalk \/ ReadRunPage
    PROVE  RunsInv'
<1>1. UNCHANGED <<tip, counter, workflowRuns, asking>>
  BY DEF StartRunWalk, ReadRunPage
<1>2. PICK len, L : len = Len(workflowRuns) /\ L = RunLimit /\ len \in Nat /\ L \in Nat /\ RunRows = 1..len
  BY ElementsAreRuns DEF RunsInv, RunAssumption
<1>3. ReaderIsSound'
  <2>1. CASE StartRunWalk
    <3>1. reader' = [NoRunWalk EXCEPT !.on = TRUE, !.from = RunRows]
      BY <2>1 DEF StartRunWalk
    <3>2. reader'.on /\ reader'.from = RunRows /\ reader'.offset = 0
      BY <3>1 DEF NoRunWalk
    <3>3. \A i \in RunRows : len - i >= 0
      BY <1>2
    <3> QED BY <1>1, <1>2, <3>2, <3>3 DEF ReaderIsSound, RunRows
  <2>2. CASE ReadRunPage
    <3>1. reader' = [on |-> len > reader.offset + L, offset |-> reader.offset + L,
                     seen |-> reader.seen \cup RunPageAt(reader.offset), from |-> reader.from]
      BY <1>2, <2>2 DEF ReadRunPage, NextRunOffset
    <3>2. ReaderIsSound /\ reader.offset \in Nat /\ reader.from \subseteq 1..len
      BY <1>2 DEF RunsInv, ReaderIsSound
    <3>3. ASSUME NEW i \in reader.from \ (reader.seen \cup RunPageAt(reader.offset))
          PROVE  len > reader.offset + L /\ len - i >= reader.offset + L
      <4>1. i \in 1..len /\ len - i >= reader.offset /\ len - i \notin reader.offset..reader.offset + L - 1
        BY <1>2, <3>2, <3>3 DEF ReaderIsSound, RunPageAt
      <4> QED BY <1>2, <3>2, <4>1
    <3>4. reader.offset + L \in Nat
      BY <1>2, <3>2
    <3> QED BY <1>1, <1>2, <3>1, <3>2, <3>3, <3>4 DEF ReaderIsSound, RunRows
  <2> QED BY <2>1, <2>2
<1> QED BY <1>1, <1>3, SameRunsKeep

\* http.ts, service.ts, read-model.ts: however requests cross, the runs of a number are its attempts 1, 2, ... of
\* one commit, and a walk from page to page passes none over.
THEOREM RunsStaySound == RunAssumption => (QSpec => []RunsHold)
<1> SUFFICES ASSUME RunAssumption PROVE QSpec => []RunsHold
  OBVIOUS
<1>1. QInit => RunsInv
  <2> SUFFICES ASSUME QInit PROVE RunsInv
    OBVIOUS
  <2>1. /\ tip = 1 /\ counter = 0 /\ workflowRuns = <<>> /\ asking = [c \in RunCallers |-> NoRequest] /\ reader = NoRunWalk
        /\ RunRows = {} /\ workflowRuns \in Seq(RunRowType)
    BY EmptySeq DEF QInit, RunRows
  <2>2. asking \in [RunCallers -> AskingType] /\ \A c \in RunCallers : ~HasNumber(c) /\ ~HasAttempt(c)
    BY <2>1 DEF NoRequest, AskingType, HasNumber, HasAttempt
  <2>3. \A n : RowsOf(n) = {} /\ AttemptsOf(n) = {}
    BY <2>1 DEF RowsOf, AttemptsOf
  <2>4. \A n \in Nat : AttemptsOf(n) = 1..Attempts(n)
    BY <2>3, FS_EmptySet DEF Attempts
  <2>5. ReaderIsSound
    BY <2>1 DEF ReaderIsSound, NoRunWalk
  <2> QED BY <2>1, <2>2, <2>4, <2>5 DEF RunsInv, RequestIsNext
<1>2. RunsInv /\ [QNext]_qvars => RunsInv'
  <2> SUFFICES ASSUME RunsInv, [QNext]_qvars PROVE RunsInv'
    OBVIOUS
  <2>1. CASE UNCHANGED qvars
    <3>1. UNCHANGED <<tip, counter, workflowRuns, asking, reader>>
      BY <2>1 DEF qvars
    <3>2. ReaderIsSound'
      BY <3>1 DEF RunsInv, ReaderIsSound, RunRows
    <3> QED BY <3>1, <3>2, SameRunsKeep
  <2>2. ASSUME NEW c \in RunCallers, InsertRun(c) PROVE RunsInv'
    BY <2>2, RequestsKeep, InsertsKeep
  <2>3. CASE QNext
    BY <2>2, <2>3, RequestsKeep, CompletionKeeps, RunReadersKeep DEF QNext
  <2> QED BY <2>1, <2>3
<1>3. RunsInv => RunsHold
  <2> SUFFICES ASSUME RunsInv PROVE RunsHold
    OBVIOUS
  <2>1. ASSUME NEW i \in RunRows
        PROVE  AttemptsOf(workflowRuns[i].number) = 1..Cardinality({j \in RunRows : workflowRuns[j].number = workflowRuns[i].number})
    <3>1. workflowRuns[i].number \in Nat
      BY ElementsAreRuns DEF RunsInv, RunRowType
    <3> QED BY <3>1 DEF RunsInv, Attempts, RowsOf
  <2>2. RunsWalkSeesAll
    BY DEF RunsInv, ReaderIsSound, RunsWalkSeesAll
  <2> QED BY <2>1, <2>2 DEF RunsInv, RunsHold, AttemptsHold
<1> QED BY <1>1, <1>2, <1>3, PTL DEF QSpec

-----------------------------------------------------------------------------
(* Checks: a text is there before a row points at it, and the newest status of *)
(* each context counts.                                                       *)

PostType == [context : Contexts, state : States]

\* A request writes the text first, if at all, and then the row.
BotIsSound(b) ==
    /\ bot[b].todo \in {<<>>, <<"update">>, <<"text", "update">>} /\ bot[b].patch.spill \in BOOLEAN
    /\ bot[b].todo = <<"update">> /\ "spill" \in bot[b].sets /\ bot[b].patch.spill => bot[b].id \in text

ChecksInv ==
    /\ DOMAIN check = Checks /\ \A k \in Checks : check[k].spill \in BOOLEAN /\ (check[k].spill => k \in text)
    /\ DOMAIN bot = Bots /\ \A b \in Bots : BotIsSound(b)
    /\ posts \in Seq(PostType)

LEMMA WaitingIsSound == Waiting.todo = <<>> /\ Waiting.patch.spill = FALSE
BY DEF Waiting, NoCheck

\* One request goes on to `to`.
BotWentTo(b, to) ==
    /\ bot' = [bot EXCEPT ![b] = to] /\ text \subseteq text'
    /\ to.todo \in {<<>>, <<"update">>, <<"text", "update">>} /\ to.patch.spill \in BOOLEAN
    /\ to.todo = <<"update">> /\ "spill" \in to.sets /\ to.patch.spill => to.id \in text'

LEMMA OneBotGoesOn ==
    ASSUME ChecksInv, NEW b \in Bots, NEW to, BotWentTo(b, to)
    PROVE  DOMAIN bot' = Bots /\ \A d \in Bots : BotIsSound(d)'
<1>1. DOMAIN bot' = Bots /\ bot'[b] = to /\ \A d \in Bots : d # b => bot'[d] = bot[d]
  BY DEF ChecksInv, BotWentTo
<1>2. ASSUME NEW d \in Bots PROVE BotIsSound(d)'
  <2>1. CASE d = b
    BY <1>1, <2>1 DEF BotIsSound, BotWentTo
  <2>2. CASE d # b
    <3>1. BotIsSound(d) /\ bot'[d] = bot[d] /\ text \subseteq text'
      BY <1>1, <2>2 DEF ChecksInv, BotWentTo
    <3> QED BY <3>1 DEF BotIsSound
  <2> QED BY <2>1, <2>2
<1> QED BY <1>1, <1>2

LEMMA WritesAre == Writes(TRUE) = <<"text", "update">> /\ Writes(FALSE) = <<"update">>
BY DEF Writes

\* What the handler does once its inputs are fixed.
CreatesRow(b, k, long) ==
    \E status \in Statuses, conclusion \in Conclusions \cup {Null} :
        /\ check' = [check EXCEPT ![k] = [status |-> status, conclusion |-> conclusion, started |-> status # "queued",
                                          completed |-> status = "completed", spill |-> FALSE]]
        /\ AskBot(b, IF long THEN [todo |-> Writes(TRUE), id |-> k, patch |-> [NoCheck EXCEPT !.spill = TRUE], sets |-> {"spill"}] ELSE Waiting)
        /\ UNCHANGED <<text, posts, branch>>

LEMMA ChecksKeep ==
    ASSUME ChecksInv, NEW b \in Bots,
           CreateCheckRun(b) \/ UpdateCheckRun(b) \/ PutText(b) \/ UpdateRow(b) \/ KillBot(b) \/ CreateCommitStatus(b)
    PROVE  ChecksInv'
<1>1. /\ BotIsSound(b) /\ DOMAIN check = Checks /\ \A k \in Checks : check[k].spill \in BOOLEAN /\ (check[k].spill => k \in text)
      /\ posts \in Seq(PostType)
  BY DEF ChecksInv
<1>2. ASSUME NEW to, BotWentTo(b, to), UNCHANGED <<check, posts>> PROVE ChecksInv'
  BY <1>1, <1>2, OneBotGoesOn DEF ChecksInv, BotWentTo
<1>3. ASSUME bot' = [bot EXCEPT ![b] = Waiting], text' = text PROVE BotWentTo(b, Waiting)
  BY <1>3, WaitingIsSound DEF BotWentTo
<1>4. CASE KillBot(b)
  BY <1>2, <1>3, <1>4 DEF KillBot
<1>5. CASE CreateCommitStatus(b)
  <2>1. PICK c \in Contexts, s \in States : posts' = Append(posts, [context |-> c, state |-> s])
    BY <1>5 DEF CreateCommitStatus
  <2>2. bot' = [bot EXCEPT ![b] = Waiting] /\ UNCHANGED <<check, text>>
    BY <1>5 DEF CreateCommitStatus, AskBot
  <2>3. posts' \in Seq(PostType)
    BY <1>1, <2>1, AppendProperties DEF PostType
  <2> QED BY <1>1, <1>3, <2>2, <2>3, OneBotGoesOn DEF ChecksInv
<1>6. CASE CreateCheckRun(b)
  <2>1. PICK k \in {j \in Checks : check[j] = NoCheck} : \E long \in BOOLEAN : CreatesRow(b, k, long)
    BY <1>6 DEF CreateCheckRun, CreatesRow
  <2>2. PICK long \in BOOLEAN : CreatesRow(b, k, long)
    BY <2>1
  <2> DEFINE to == IF long THEN [todo |-> Writes(TRUE), id |-> k, patch |-> [NoCheck EXCEPT !.spill = TRUE], sets |-> {"spill"}] ELSE Waiting
  <2>3. to.todo \in {<<>>, <<"text", "update">>} /\ to.patch.spill \in BOOLEAN
    BY WaitingIsSound, WritesAre DEF NoCheck
  <2>4. bot' = [bot EXCEPT ![b] = to] /\ UNCHANGED <<text, posts>>
    BY <2>2 DEF CreatesRow, AskBot
  <2>5. DOMAIN check' = Checks /\ \A j \in Checks : check'[j].spill \in BOOLEAN /\ (check'[j].spill => j \in text)
    <3>1. PICK status \in Statuses, conclusion \in Conclusions \cup {Null} :
            check' = [check EXCEPT ![k] = [status |-> status, conclusion |-> conclusion, started |-> status # "queued",
                                           completed |-> status = "completed", spill |-> FALSE]]
      BY <2>2 DEF CreatesRow
    <3> DEFINE row == [status |-> status, conclusion |-> conclusion, started |-> status # "queued",
                       completed |-> status = "completed", spill |-> FALSE]
    <3>2. row.spill = FALSE
      OBVIOUS
    <3>3. check' = [check EXCEPT ![k] = row]
      BY <3>1
    <3> HIDE DEF row
    <3> QED BY <1>1, <3>2, <3>3
  <2> HIDE DEF to
  <2>6. <<"update">> # <<>> /\ <<"update">> # <<"text", "update">>
    OBVIOUS
  <2>7. BotWentTo(b, to)
    BY <2>3, <2>4, <2>6 DEF BotWentTo
  <2> QED BY <1>1, <2>4, <2>5, <2>7, OneBotGoesOn DEF ChecksInv
<1>7. CASE UpdateCheckRun(b)
  <2>1. PICK k, given, output, status, conclusion : PatchesRow(b, k, given, output, status, conclusion)
    BY <1>7 DEF UpdateCheckRun
  <2>2. PICK to : bot' = [bot EXCEPT ![b] = to] /\ \E long \in BOOLEAN : to.todo = Writes(long) /\ to.patch.spill = long
    <3> DEFINE touched == IF "status" \in given
                          THEN {f \in {g \in {"started", "completed"} : IF g = "started" THEN status # "queued" ELSE status = "completed"} : ~check[k][f]}
                          ELSE {}
               to == [todo |-> Writes(output = "long"), id |-> k,
                      patch |-> [status |-> status, conclusion |-> conclusion, started |-> TRUE, completed |-> TRUE, spill |-> output = "long"],
                      sets |-> given \cup touched \cup (IF output = Null THEN {} ELSE {"spill"})]
    <3>1. to.todo = Writes(output = "long") /\ to.patch.spill = (output = "long") /\ (output = "long") \in BOOLEAN
      OBVIOUS
    <3>2. bot' = [bot EXCEPT ![b] = to]
      BY <2>1 DEF PatchesRow, AskBot
    <3> HIDE DEF to
    <3> QED BY <3>1, <3>2
  <2>3. UNCHANGED <<check, text, posts>>
    BY <2>1 DEF PatchesRow
  <2>4. <<"update">> # <<"text", "update">>
    OBVIOUS
  <2>5. BotWentTo(b, to)
    BY <2>2, <2>3, <2>4, WritesAre DEF BotWentTo
  <2> QED BY <1>2, <2>3, <2>5
<1>8. CASE PutText(b)
  <2>1. bot[b].todo # <<>> /\ Head(bot[b].todo) = "text" /\ text' = text \cup {bot[b].id} /\ UNCHANGED <<check, posts>>
    BY <1>8 DEF PutText
  <2>2. bot[b].todo = <<"text", "update">>
    BY <1>1, <2>1 DEF BotIsSound
  <2> DEFINE to == [bot[b] EXCEPT !.todo = Tail(@)]
  <2>3. bot' = [bot EXCEPT ![b] = to]
    BY <1>8, <2>2 DEF PutText, WentOn, Then
  <2>4. Tail(<<"text", "update">>) = <<"update">>
    OBVIOUS
  <2>5. to.todo = <<"update">> /\ to.patch = bot[b].patch /\ to.id = bot[b].id
    BY <2>2, <2>4
  <2> HIDE DEF to
  <2>6. BotWentTo(b, to)
    BY <1>1, <2>1, <2>3, <2>5 DEF BotWentTo, BotIsSound
  <2>7. DOMAIN bot' = Bots /\ \A d \in Bots : BotIsSound(d)'
    BY <2>6, OneBotGoesOn
  <2> QED BY <1>1, <2>1, <2>7 DEF ChecksInv
<1>9. CASE UpdateRow(b)
  <2>1. /\ bot[b].todo # <<>> /\ Head(bot[b].todo) = "update" /\ UNCHANGED <<text, posts>>
        /\ check' = [check EXCEPT ![bot[b].id] =
                       [f \in DOMAIN NoCheck |-> IF f \in bot[b].sets THEN bot[b].patch[f] ELSE @[f]]]
    BY <1>9 DEF UpdateRow
  <2>2. bot[b].todo = <<"update">>
    BY <1>1, <2>1 DEF BotIsSound
  <2>3. bot' = [bot EXCEPT ![b] = Waiting]
    BY <1>9, <2>2 DEF UpdateRow, WentOn, Then
  <2>4. BotWentTo(b, Waiting)
    BY <1>3, <2>1, <2>3
  <2>5. ASSUME NEW k \in Checks PROVE check'[k].spill \in BOOLEAN /\ (check'[k].spill => k \in text)
    <3>1. CASE k = bot[b].id
      <4>1. check'[k].spill = IF "spill" \in bot[b].sets THEN bot[b].patch.spill ELSE check[k].spill
        BY <1>1, <2>1, <3>1 DEF NoCheck
      <4> QED BY <1>1, <2>2, <3>1, <4>1 DEF BotIsSound
    <3>2. CASE k # bot[b].id
      BY <1>1, <2>1, <3>2
    <3> QED BY <3>1, <3>2
  <2> QED BY <1>1, <2>1, <2>4, <2>5, OneBotGoesOn DEF ChecksInv
<1> QED BY <1>4, <1>5, <1>6, <1>7, <1>8, <1>9

LEMMA ChecksBegin == CInit => ChecksInv
<1>1. <<"update">> # <<>> /\ <<>> \in Seq(PostType) /\ NoCheck.spill = FALSE
  BY EmptySeq DEF NoCheck
<1>2. ASSUME CInit, NEW b \in Bots PROVE BotIsSound(b)
  BY <1>1, <1>2, WaitingIsSound DEF CInit, BotIsSound
<1> QED BY <1>1, <1>2 DEF CInit, ChecksInv

LEMMA ChecksStep == ChecksInv /\ [CNext]_cvars => ChecksInv'
<1>1. ASSUME ChecksInv, UNCHANGED <<check, text, posts, bot>> PROVE ChecksInv'
  BY <1>1 DEF ChecksInv, BotIsSound
<1>2. CASE UNCHANGED cvars
  BY <1>1, <1>2 DEF cvars
<1>3. CASE MoveBranch
  BY <1>1, <1>3 DEF MoveBranch
<1>4. CASE \E b \in Bots : CreateCheckRun(b) \/ UpdateCheckRun(b) \/ PutText(b) \/ UpdateRow(b) \/ KillBot(b) \/ CreateCommitStatus(b)
  BY <1>4, ChecksKeep
<1> QED BY <1>2, <1>3, <1>4 DEF CNext

-----------------------------------------------------------------------------
(* What counts of the statuses, the newest first.                             *)

\* No newer one has the context of the i-th.
IsNewest(nf, i) == \A j \in 1..i - 1 : nf[j].context # nf[i].context

\* After n of them the loop has the newest of each context, and has every context.
Counted(nf, w, n) ==
    /\ w \in Seq(PostType)
    /\ \A k \in 1..Len(w) : \E i \in 1..n : w[k] = nf[i] /\ IsNewest(nf, i)
    /\ \A i \in 1..n : \E k \in 1..Len(w) : w[k].context = nf[i].context

LEMMA OneMoreCounted ==
    ASSUME NEW nf \in Seq(PostType), NEW w, NEW n \in Nat, n + 1 \in 1..Len(nf), Counted(nf, w, n)
    PROVE  Counted(nf, WithStatus(w, nf[n + 1]), n + 1)
<1>1. nf[n + 1] \in PostType /\ w \in Seq(PostType) /\ Len(w) \in Nat /\ DOMAIN w = 1..Len(w)
  BY ElementOfSeq, LenProperties DEF Counted
<1>2. CASE \E k \in DOMAIN w : w[k].context = nf[n + 1].context
  <2>1. WithStatus(w, nf[n + 1]) = w
    BY <1>2 DEF WithStatus
  <2>2. \A k \in 1..Len(w) : \E i \in 1..n + 1 : w[k] = nf[i] /\ IsNewest(nf, i)
    BY DEF Counted
  <2>3. ASSUME NEW i \in 1..n + 1 PROVE \E k \in 1..Len(w) : w[k].context = nf[i].context
    <3>1. i \in 1..n \/ i = n + 1
      OBVIOUS
    <3> QED BY <1>1, <1>2, <3>1 DEF Counted
  <2> QED BY <1>1, <2>1, <2>2, <2>3 DEF Counted
<1>3. CASE \A k \in DOMAIN w : w[k].context # nf[n + 1].context
  <2> DEFINE v == Append(w, nf[n + 1])
  <2>1. WithStatus(w, nf[n + 1]) = v
    BY <1>3 DEF WithStatus
  <2>2. /\ v \in Seq(PostType) /\ Len(v) = Len(w) + 1 /\ v[Len(w) + 1] = nf[n + 1]
        /\ \A k \in 1..Len(w) : v[k] = w[k]
    BY <1>1, AppendProperties
  <2> HIDE DEF v
  <2>3. IsNewest(nf, n + 1)
    <3> SUFFICES ASSUME NEW j \in 1..n PROVE nf[j].context # nf[n + 1].context
      BY DEF IsNewest
    <3>1. PICK k \in 1..Len(w) : w[k].context = nf[j].context
      BY DEF Counted
    <3> QED BY <1>1, <1>3, <3>1
  <2>4. ASSUME NEW k \in 1..Len(v) PROVE \E i \in 1..n + 1 : v[k] = nf[i] /\ IsNewest(nf, i)
    <3>1. CASE k = Len(w) + 1
      <4>1. n + 1 \in 1..n + 1
        OBVIOUS
      <4> QED BY <2>2, <2>3, <3>1, <4>1
    <3>2. CASE k # Len(w) + 1
      <4>1. k \in 1..Len(w)
        BY <1>1, <2>2, <3>2
      <4>2. PICK i \in 1..n : w[k] = nf[i] /\ IsNewest(nf, i)
        BY <4>1 DEF Counted
      <4> QED BY <2>2, <4>1, <4>2
    <3> QED BY <3>1, <3>2
  <2>5. ASSUME NEW i \in 1..n + 1 PROVE \E k \in 1..Len(v) : v[k].context = nf[i].context
    <3>1. CASE i = n + 1
      <4>1. Len(w) + 1 \in 1..Len(v)
        BY <1>1, <2>2
      <4> QED BY <2>2, <3>1, <4>1
    <3>2. CASE i # n + 1
      <4>1. PICK k \in 1..Len(w) : w[k].context = nf[i].context
        BY <3>2 DEF Counted
      <4>2. k \in 1..Len(v)
        BY <1>1, <2>2
      <4> QED BY <2>2, <4>1, <4>2
    <3> QED BY <3>1, <3>2
  <2> QED BY <2>1, <2>2, <2>4, <2>5 DEF Counted
<1> QED BY <1>2, <1>3

\* The loop starts with nothing and takes one status after the other.
LEMMA LatestIsLoop ==
    ASSUME NEW nf \in Seq(PostType)
    PROVE  /\ LatestOf(nf)[0] = <<>>
           /\ \A n \in 1..Len(nf) : LatestOf(nf)[n] = WithStatus(LatestOf(nf)[n - 1], nf[n])
<1> DEFINE K == Len(nf)
           Good(g, m) == /\ DOMAIN g = 0..m /\ g = [n \in 0..m |-> g[n]] /\ g[0] = <<>>
                         /\ \A n \in 1..m : g[n] = WithStatus(g[n - 1], nf[n])
           SoFar == {m \in Nat : \E g : Good(g, m)}
<1>0. K \in Nat
  BY LenProperties
<1>1. 0 \in SoFar
  <2>1. Good([n \in 0..0 |-> <<>>], 0)
    OBVIOUS
  <2> QED BY <2>1
<1>2. ASSUME NEW m \in Nat, m \in SoFar PROVE m + 1 \in SoFar
  <2>1. PICK g : Good(g, m)
    BY <1>2
  <2> DEFINE h == [n \in 0..m + 1 |-> IF n <= m THEN g[n] ELSE WithStatus(g[m], nf[m + 1])]
  <2>2. DOMAIN h = 0..m + 1 /\ h = [n \in 0..m + 1 |-> h[n]] /\ h[0] = <<>>
    BY <2>1
  <2>3. ASSUME NEW n \in 1..m + 1 PROVE h[n] = WithStatus(h[n - 1], nf[n])
    <3>1. n - 1 \in 0..m /\ n \in 0..m + 1 /\ n - 1 \in 0..m + 1 /\ n - 1 <= m
      OBVIOUS
    <3>2. h[n - 1] = g[n - 1]
      BY <3>1
    <3>3. CASE n <= m
      <4>1. n \in 1..m /\ h[n] = g[n]
        BY <3>1, <3>3
      <4>2. g[n] = WithStatus(g[n - 1], nf[n])
        BY <2>1, <4>1
      <4> QED BY <3>2, <4>1, <4>2
    <3>4. CASE ~(n <= m)
      <4>1. n - 1 = m /\ n = m + 1
        BY <3>1, <3>4
      <4>2. h[n] = WithStatus(g[m], nf[m + 1])
        BY <3>1, <3>4
      <4> QED BY <3>2, <4>1, <4>2
    <3> QED BY <3>3, <3>4
  <2>4. Good(h, m + 1)
    BY <2>2, <2>3
  <2> HIDE DEF h, Good
  <2> QED BY <2>4
<1>3. K \in SoFar
  <2> HIDE DEF SoFar, K
  <2> QED BY <1>0, <1>1, <1>2, NumbersByStep
<1>4. PICK g : Good(g, K)
  BY <1>3
<1> DEFINE Rule(f) == [n \in 0..K |-> IF n = 0 THEN <<>> ELSE WithStatus(f[n - 1], nf[n])]
<1>5. g = Rule(g)
  <2>1. \A n \in 0..K : g[n] = IF n = 0 THEN <<>> ELSE WithStatus(g[n - 1], nf[n])
    BY <1>0, <1>4
  <2>2. g = [n \in 0..K |-> g[n]]
    BY <1>4
  <2> QED BY <2>1, <2>2
<1>6. LatestOf(nf) = CHOOSE f : f = Rule(f)
  BY DEF LatestOf
<1>7. LatestOf(nf) = Rule(LatestOf(nf))
  BY <1>5, <1>6
<1> QED BY <1>0, <1>7

\* So at the end it has what Counted says of all of them.
LEMMA LatestIsCounted ==
    ASSUME NEW nf \in Seq(PostType)
    PROVE  Counted(nf, latestPerContext(nf), Len(nf))
<1> DEFINE f == LatestOf(nf)
           Done == {n \in Nat : n <= Len(nf) => Counted(nf, f[n], n)}
<1>1. Len(nf) \in Nat
  BY LenProperties
<1>2. f[0] = <<>> /\ \A n \in 1..Len(nf) : f[n] = WithStatus(f[n - 1], nf[n])
  BY LatestIsLoop
<1> HIDE DEF f
<1>3. 0 \in Done
  <2>1. f[0] = <<>> /\ <<>> \in Seq(PostType) /\ Len(<<>>) = 0 /\ 1..0 = {}
    BY <1>2, EmptySeq
  <2>2. Counted(nf, f[0], 0)
    BY <2>1 DEF Counted
  <2> QED BY <2>2
<1>4. ASSUME NEW n \in Nat, n \in Done PROVE n + 1 \in Done
  <2> SUFFICES ASSUME n + 1 <= Len(nf) PROVE Counted(nf, f[n + 1], n + 1)
    OBVIOUS
  <2>1. n + 1 \in 1..Len(nf) /\ (n + 1) - 1 = n /\ Counted(nf, f[n], n)
    BY <1>1, <1>4
  <2>2. f[n + 1] = WithStatus(f[n], nf[n + 1])
    BY <1>2, <2>1
  <2> QED BY <2>1, <2>2, OneMoreCounted
<1>5. Nat \subseteq Done
  <2> HIDE DEF Done
  <2> QED BY <1>3, <1>4, NumbersByStep
<1>6. Counted(nf, f[Len(nf)], Len(nf))
  BY <1>1, <1>5
<1> QED BY <1>6 DEF f, latestPerContext

\* The i-th status, the oldest first, is the last of its context.
IsLastOf(c, i) == posts[i].context = c /\ \A j \in i + 1..Len(posts) : posts[j].context # c

\* The newest of a list is the last of the other.
LEMMA NewestIsLast ==
    ASSUME posts \in Seq(PostType), NEW i \in 1..Len(posts)
    PROVE  /\ listCommitStatuses[i] = posts[(Len(posts) - i) + 1] /\ (Len(posts) - i) + 1 \in 1..Len(posts)
           /\ IsNewest(listCommitStatuses, i) => IsLastOf(listCommitStatuses[i].context, (Len(posts) - i) + 1)
<1>0. Len(posts) \in Nat
  BY LenProperties
<1>1. \A j \in 1..Len(posts) : listCommitStatuses[j] = posts[(Len(posts) - j) + 1]
  BY DEF listCommitStatuses, Reverse
<1>2. (Len(posts) - i) + 1 \in 1..Len(posts)
  BY <1>0
<1>3. ASSUME IsNewest(listCommitStatuses, i), NEW j \in ((Len(posts) - i) + 1) + 1..Len(posts)
      PROVE  posts[j].context # listCommitStatuses[i].context
  <2>1. (Len(posts) - j) + 1 \in 1..i - 1 /\ (Len(posts) - j) + 1 \in 1..Len(posts) /\ (Len(posts) - ((Len(posts) - j) + 1)) + 1 = j
    BY <1>0
  <2>2. listCommitStatuses[(Len(posts) - j) + 1] = posts[j]
    BY <1>1, <2>1
  <2>3. listCommitStatuses[(Len(posts) - j) + 1].context # listCommitStatuses[i].context
    BY <1>3, <2>1 DEF IsNewest
  <2> QED BY <2>2, <2>3
<1> QED BY <1>1, <1>2, <1>3 DEF IsLastOf

LEMMA ListIsTyped ==
    ASSUME posts \in Seq(PostType)
    PROVE  listCommitStatuses \in Seq(PostType) /\ Len(listCommitStatuses) = Len(posts)
<1>1. Len(posts) \in Nat /\ \A i \in 1..Len(posts) : (Len(posts) - i) + 1 \in 1..Len(posts)
  BY LenProperties
<1>2. \A i \in 1..Len(posts) : posts[(Len(posts) - i) + 1] \in PostType
  BY <1>1, ElementOfSeq
<1>3. listCommitStatuses \in [1..Len(posts) -> PostType]
  BY <1>2 DEF listCommitStatuses, Reverse
<1> QED BY <1>1, <1>3, SeqDef, LenProperties

\* What the roll-up sees is what the last status of each context says.
LEMMA SaidIsNow ==
    ASSUME posts \in Seq(PostType)
    PROVE  LET latest == latestPerContext(listCommitStatuses)
               reported == {c \in Contexts : \E i \in DOMAIN posts : posts[i].context = c}
           IN  /\ \A k \in DOMAIN latest : latest[k].context \in reported /\ latest[k].state \in States
                                           /\ \E i \in 1..Len(posts) : latest[k] = posts[i] /\ IsLastOf(latest[k].context, i)
               /\ \A c \in reported : \E k \in DOMAIN latest : latest[k].context = c
<1> DEFINE nf == listCommitStatuses
           latest == latestPerContext(listCommitStatuses)
           reported == {c \in Contexts : \E i \in DOMAIN posts : posts[i].context = c}
<1>1. Counted(nf, latest, Len(posts))
  BY ListIsTyped, LatestIsCounted
<1>2. Len(posts) \in Nat /\ DOMAIN posts = 1..Len(posts)
  BY LenProperties
<1> HIDE DEF latest
<1>3. latest \in Seq(PostType) /\ DOMAIN latest = 1..Len(latest)
  BY <1>1, LenProperties DEF Counted
<1>4. ASSUME NEW k \in DOMAIN latest
      PROVE  /\ latest[k].context \in reported /\ latest[k].state \in States
             /\ \E i \in 1..Len(posts) : latest[k] = posts[i] /\ IsLastOf(latest[k].context, i)
  <2>1. PICK i \in 1..Len(posts) : latest[k] = nf[i] /\ IsNewest(nf, i)
    BY <1>1, <1>3 DEF Counted
  <2>2. /\ nf[i] = posts[(Len(posts) - i) + 1] /\ (Len(posts) - i) + 1 \in 1..Len(posts)
        /\ IsLastOf(nf[i].context, (Len(posts) - i) + 1)
    BY <2>1, NewestIsLast
  <2>3. latest[k] \in PostType
    BY <1>3, ElementOfSeq
  <2> HIDE DEF nf
  <2>4. latest[k].context \in Contexts /\ latest[k].state \in States
    BY <2>3 DEF PostType
  <2> QED BY <1>2, <2>1, <2>2, <2>4
<1>5. ASSUME NEW c \in reported PROVE \E k \in DOMAIN latest : latest[k].context = c
  <2>1. PICK i \in 1..Len(posts) : posts[i].context = c
    BY <1>2
  <2>2. (Len(posts) - i) + 1 \in 1..Len(posts) /\ (Len(posts) - ((Len(posts) - i) + 1)) + 1 = i
    BY <1>2
  <2>3. nf[(Len(posts) - i) + 1] = posts[i]
    BY <2>2, NewestIsLast
  <2>4. \E k \in 1..Len(latest) : latest[k].context = nf[(Len(posts) - i) + 1].context
    BY <1>1, <2>2 DEF Counted
  <2> QED BY <1>3, <2>1, <2>3, <2>4
<1> QED BY <1>4, <1>5 DEF latest

LEMMA CountIsNow ==
    ASSUME posts \in Seq(PostType)
    PROVE  CombinedIsNow
<1> DEFINE latest == latestPerContext(listCommitStatuses)
           now(c) == CHOOSE i \in DOMAIN posts : posts[i].context = c /\ \A j \in i + 1..Len(posts) : posts[j].context # c
           reported == {c \in Contexts : \E i \in DOMAIN posts : posts[i].context = c}
           said == {latest[i].state : i \in DOMAIN latest}
<1>1. Len(posts) \in Nat /\ DOMAIN posts = 1..Len(posts)
  BY LenProperties
<1>2. /\ \A k \in DOMAIN latest : latest[k].context \in reported /\ latest[k].state \in States
                                  /\ \E i \in 1..Len(posts) : latest[k] = posts[i] /\ IsLastOf(latest[k].context, i)
      /\ \A c \in reported : \E k \in DOMAIN latest : latest[k].context = c
  BY SaidIsNow
<1>3. \A c : now(c) = CHOOSE i \in DOMAIN posts : IsLastOf(c, i)
  BY DEF IsLastOf
<1>4. combinedStatus = rollup(latest)
  BY DEF combinedStatus
<1> HIDE DEF latest, now, reported
<1>5. ASSUME NEW k \in DOMAIN latest PROVE latest[k].state = posts[now(latest[k].context)].state
  <2>1. PICK i \in 1..Len(posts) : latest[k] = posts[i] /\ IsLastOf(latest[k].context, i)
    BY <1>2
  <2>2. now(latest[k].context) \in DOMAIN posts /\ IsLastOf(latest[k].context, now(latest[k].context))
    BY <1>1, <1>3, <2>1
  <2>3. now(latest[k].context) = i
    <3> DEFINE n == now(latest[k].context)
    <3>1. n \in 1..Len(posts) /\ posts[n].context = latest[k].context /\ posts[i].context = latest[k].context
          /\ (\A j \in n + 1..Len(posts) : posts[j].context # latest[k].context)
          /\ (\A j \in i + 1..Len(posts) : posts[j].context # latest[k].context)
      BY <1>1, <2>1, <2>2 DEF IsLastOf
    <3> HIDE DEF n
    <3>2. ~(n < i) /\ ~(i < n)
      BY <1>1, <3>1
    <3> QED BY <1>1, <3>1, <3>2 DEF n
  <2> QED BY <2>1, <2>3
<1>6. said = {posts[now(c)].state : c \in reported}
  <2>1. ASSUME NEW k \in DOMAIN latest PROVE latest[k].state \in {posts[now(c)].state : c \in reported}
    BY <1>2, <1>5
  <2>2. ASSUME NEW c \in reported PROVE posts[now(c)].state \in said
    BY <1>2, <1>5
  <2> QED BY <2>1, <2>2
<1>7. said \subseteq {"success", "failure", "error", "pending"}
  BY <1>2 DEF States
<1>8. combinedStatus = IF said \cap {"failure", "error"} # {} THEN "failure"
                       ELSE IF "pending" \in said \/ said = {} THEN "pending" ELSE "success"
  BY <1>4 DEF rollup
<1> HIDE DEF said
<1>9. combinedStatus = "success" <=> said # {} /\ said \subseteq {"success"}
  BY <1>7, <1>8
<1>10. combinedStatus = "failure" <=> \E s \in said : s \in {"failure", "error"}
  BY <1>8
<1>11. (combinedStatus = "success") = (reported # {} /\ \A c \in reported : posts[now(c)].state = "success")
  BY <1>6, <1>9
<1>12. (combinedStatus = "failure") = (\E c \in reported : posts[now(c)].state \in {"failure", "error"})
  BY <1>6, <1>10
<1> QED BY <1>11, <1>12 DEF CombinedIsNow, now, reported

(* checks/http.ts, checks/service.ts: whatever requests run at a time and whichever are   *)
(* lost between their writes, a row that points at a text has one; and the combined        *)
(* status is what the newest status of each context says.                                   *)
THEOREM ChecksStaySound == CSpec => []ChecksHold
<1>1. ChecksInv => ChecksHold
  BY CountIsNow DEF ChecksInv, ChecksHold, SpillHasText
<1> QED BY ChecksBegin, ChecksStep, <1>1, PTL DEF CSpec
=============================================================================
