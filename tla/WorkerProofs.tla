---------------------------- MODULE WorkerProofs ----------------------------
(***************************************************************************)
(* What Serving, RunPins, Releases and Sessions promise, for any number of     *)
(* versions, isolates, requests, runs, tags, tabs and failures.                *)
(*                                                                         *)
(* Serving: the statements of a version and its row of the ledger commit       *)
(* together, so that the ledger says what took effect (Recorded); an isolate    *)
(* goes on only past a version that is on the ledger (PastIsRecorded), and       *)
(* nothing is ever taken off it.  The end of a request cuts off tasks only of one  *)
(* that fails, and a dead isolate only those of deferred ones (CutOffWithFailed). *)
(*                                                                         *)
(* RunPins: a write that goes through replaces a document by that document     *)
(* with one pin changed, because it is conditional on the content it was made   *)
(* from.  So PinIsKept is inductive together with the types.  That a lost        *)
(* attempt was lost to another call needs one fact more (SeenIsOlder): as long   *)
(* as nothing was written since a call read the document, it is what it read.   *)
(*                                                                         *)
(* Releases: a tag that was there once is there or was deleted, and so are an    *)
(* asset's bytes (NothingIsLost); what a handler relies on between two writes     *)
(* is of that kind (JobIsSound), so that no step of another takes it away.         *)
(*                                                                         *)
(* Sessions: a request that is being verified has seen what Accounts says now     *)
(* (TabIsSound), whose answer is read under the installation of its cookie.        *)
(***************************************************************************)
EXTENDS Serving, RunPins, Releases, Sessions, TLAPS

-----------------------------------------------------------------------------
(* The versions of the schema, and the work of a request.                    *)

IsolateType == [at : {"none", "lookup", "batch", "recheck", "done"}, version : SchemaVersions]
RequestType == [at : {"new", "schema", "handle", "settle", "answered", "failed"},
                on : Isolates \cup {NoIsolate}, awaits : SUBSET Tasks]

\* What took effect took effect once, and is what the ledger says.
Recorded == \A v \in SchemaVersions : altered[v] = IF v \in ledger THEN 1 ELSE 0

\* Where an isolate is in its migrations.
PastIsRecorded ==
    \A i \in Isolates :
        /\ \A v \in SchemaVersions : v < isolate[i].version => v \in ledger
        /\ isolate[i].at = "done" => SchemaVersions \subseteq ledger

\* A request that waits does so on an isolate, and one that is served found everything done.
ServedOnWhole ==
    \A r \in Requests :
        /\ served[r].at = "schema" => served[r].on \in Isolates
        /\ served[r].at \in {"handle", "settle", "answered"} => SchemaVersions \subseteq ledger

SchemaInv == WTypeOK /\ Recorded /\ PastIsRecorded /\ ServedOnWhole

\* The names of the tasks are tasks.
LEMMA TaskFacts == "drain" \in Tasks /\ "event" \in Tasks /\ "further" \in Tasks
BY DEF Tasks

\* The next version, or the end, has its type.
LEMMA NextIsTyped ==
    ASSUME ServingAssumption, WTypeOK, NEW i \in Isolates, NextVersion(i)
    PROVE  isolate' \in [Isolates -> IsolateType]
<1> DEFINE e == [isolate[i] EXCEPT !.at = IF isolate[i].version = migrations THEN "done" ELSE "lookup",
                                   !.version = IF isolate[i].version = migrations THEN isolate[i].version ELSE isolate[i].version + 1]
<1>1. isolate \in [Isolates -> IsolateType] /\ isolate[i] \in IsolateType
  BY DEF WTypeOK, IsolateType
<1>2. isolate[i].version \in SchemaVersions /\ migrations \in Nat /\ (isolate[i].version # migrations => isolate[i].version + 1 \in SchemaVersions)
  BY <1>1 DEF IsolateType, SchemaVersions, ServingAssumption
<1>3. e \in IsolateType
  BY <1>1, <1>2 DEF IsolateType
<1>4. isolate' = [isolate EXCEPT ![i] = e]
  BY <1>1 DEF NextVersion, IsolateType
<1> QED BY <1>1, <1>3, <1>4

\* An isolate moves to a place of its migrations.
LEMMA PlaceIsTyped ==
    ASSUME WTypeOK, NEW i \in Isolates, NEW where \in {"none", "lookup", "batch", "recheck", "done"}, PlaceIsolate(i, where)
    PROVE  isolate' \in [Isolates -> IsolateType]
BY DEF WTypeOK, PlaceIsolate, IsolateType

\* A request is at another place.
LEMMA MoveIsTyped ==
    ASSUME WTypeOK, NEW r \in Requests, NEW where \in {"new", "schema", "handle", "settle", "answered", "failed"}
    PROVE  [served EXCEPT ![r].at = where] \in [Requests -> RequestType]
BY DEF WTypeOK, RequestType

\* ensure-schema.ts, lifecycle.ts: every variable keeps its type, for every bound.
THEOREM ServingTyped == ServingAssumption => (WSpec => []WTypeOK)
<1> SUFFICES ASSUME ServingAssumption PROVE WSpec => []WTypeOK
  OBVIOUS
<1>1. WInit => WTypeOK
  BY DEF WInit, WTypeOK, Fresh, NewRequest, SchemaVersions, ServingAssumption
<1>2. WTypeOK /\ [WNext]_wvars => WTypeOK'
  <2> SUFFICES ASSUME WTypeOK, [WNext]_wvars PROVE WTypeOK'
    OBVIOUS
  <2>1. /\ altered \in [SchemaVersions -> Nat] /\ ledger \in SUBSET SchemaVersions
        /\ isolate \in [Isolates -> IsolateType] /\ served \in [Requests -> RequestType]
        /\ tasks \in [Requests -> SUBSET Tasks] /\ started \in [Requests -> SUBSET Tasks]
        /\ dropped \in SUBSET (Requests \X Tasks \X {"request", "isolate"}) /\ trouble \in 0..MaxTrouble /\ MaxTrouble \in Nat
    BY DEF WTypeOK, IsolateType, RequestType, ServingAssumption
  <2>2. Trouble => trouble' \in 0..MaxTrouble
    BY <2>1 DEF Trouble
  <2>3. Fresh \in IsolateType
    BY DEF Fresh, IsolateType, SchemaVersions, ServingAssumption
  <2>4. ASSUME NEW v \in SchemaVersions, Commit(v) PROVE altered' \in [SchemaVersions -> Nat] /\ ledger' \in SUBSET SchemaVersions
    BY <2>1, <2>4 DEF Commit
  <2>5. ASSUME NEW i \in Isolates PROVE isolate[i].version \in SchemaVersions
    BY <2>1 DEF IsolateType
  <2>6. ASSUME NEW r \in Requests, NEW i \in Isolates, Arrive(r, i) PROVE WTypeOK'
    <3>1. isolate' \in [Isolates -> IsolateType]
      <4>1. isolate' = [isolate EXCEPT ![i] = [isolate[i] EXCEPT !.at = IF isolate[i].at = "none" THEN "lookup" ELSE isolate[i].at]]
        BY <2>1, <2>6 DEF Arrive, IsolateType
      <4>2. [isolate[i] EXCEPT !.at = IF isolate[i].at = "none" THEN "lookup" ELSE isolate[i].at] \in IsolateType
        BY <2>1 DEF IsolateType
      <4> QED BY <2>1, <4>1, <4>2
    <3>2. served' \in [Requests -> RequestType]
      BY <2>1, <2>6 DEF Arrive, RequestType
    <3> QED BY <2>1, <2>6, <3>1, <3>2 DEF Arrive, WTypeOK, IsolateType, RequestType
  <2>7. ASSUME NEW i \in Isolates, Lookup(i) PROVE WTypeOK'
    <3>1. isolate' \in [Isolates -> IsolateType]
      BY <2>7, NextIsTyped, PlaceIsTyped DEF Lookup
    <3> QED BY <2>1, <2>2, <2>7, <3>1 DEF Lookup, WTypeOK, IsolateType, RequestType
  <2>8. ASSUME NEW i \in Isolates, Batch(i) PROVE WTypeOK'
    <3>1. isolate' \in [Isolates -> IsolateType]
      BY <2>8, NextIsTyped, PlaceIsTyped DEF Batch
    <3>2. altered' \in [SchemaVersions -> Nat] /\ ledger' \in SUBSET SchemaVersions
      BY <2>1, <2>4, <2>5, <2>8 DEF Batch
    <3> QED BY <2>1, <2>2, <2>8, <3>1, <3>2 DEF Batch, WTypeOK, IsolateType, RequestType
  <2>9. ASSUME NEW i \in Isolates, Recheck(i) PROVE WTypeOK'
    <3>1. isolate' \in [Isolates -> IsolateType]
      BY <2>1, <2>3, <2>9, NextIsTyped DEF Recheck
    <3>2. served' \in [Requests -> RequestType]
      <4>1. \A r \in Requests : [served[r] EXCEPT !.at = "failed"] \in RequestType
        BY <2>1 DEF RequestType
      <4> QED BY <2>1, <2>9, <4>1 DEF Recheck
    <3> QED BY <2>1, <2>2, <2>9, <3>1, <3>2 DEF Recheck, WTypeOK, IsolateType, RequestType
  <2>10. ASSUME NEW r \in Requests, StartDrain(r) \/ Emit(r) \/ Further(r) PROVE WTypeOK'
    <3>1. served' \in [Requests -> RequestType]
      <4>1. served' = served \/ served' = [served EXCEPT ![r].at = "handle"]
        BY <2>10 DEF StartDrain, Emit, Further
      <4> QED BY <2>1, <4>1, MoveIsTyped
    <3>2. tasks' \in [Requests -> SUBSET Tasks] /\ started' \in [Requests -> SUBSET Tasks]
      BY <2>1, <2>10, TaskFacts DEF StartDrain, Emit, Further, Run
    <3> QED BY <2>1, <2>10, <3>1, <3>2 DEF StartDrain, Emit, Further, WTypeOK, IsolateType, RequestType
  <2>11. ASSUME NEW r \in Requests, NEW t \in Tasks, End(r, t) PROVE WTypeOK'
    BY <2>1, <2>11 DEF End, WTypeOK, IsolateType, RequestType
  <2>12. ASSUME NEW r \in Requests, Respond(r) PROVE WTypeOK'
    <3>1. served' \in [Requests -> RequestType]
      <4>1. [served[r] EXCEPT !.at = "settle", !.awaits = tasks[r]] \in RequestType
        BY <2>1 DEF RequestType
      <4>2. served' = [served EXCEPT ![r] = [served[r] EXCEPT !.at = "settle", !.awaits = tasks[r]]]
        BY <2>1, <2>12 DEF Respond
      <4> QED BY <2>1, <4>1, <4>2
    <3> QED BY <2>1, <2>12, <3>1 DEF Respond, WTypeOK, IsolateType, RequestType
  <2>13. ASSUME NEW r \in Requests, NEW how \in {"answered", "failed"}, Over(r, how)
         PROVE  /\ served' \in [Requests -> RequestType] /\ tasks' \in [Requests -> SUBSET Tasks]
                /\ dropped' \in SUBSET (Requests \X Tasks \X {"request", "isolate"})
    <3>1. served' \in [Requests -> RequestType]
      BY <2>13, MoveIsTyped DEF Over
    <3>2. tasks' \in [Requests -> SUBSET Tasks]
      BY <2>1, <2>13 DEF Over
    <3>3. {r} \X tasks[r] \X {"request"} \subseteq Requests \X Tasks \X {"request", "isolate"}
      BY <2>1
    <3>4. dropped' = dropped \/ dropped' = dropped \cup ({r} \X tasks[r] \X {"request"})
      BY <2>13 DEF Over
    <3>5. dropped' \in SUBSET (Requests \X Tasks \X {"request", "isolate"})
      BY <2>1, <3>3, <3>4
    <3> QED BY <3>1, <3>2, <3>5
  <2>14. ASSUME NEW r \in Requests, Settle(r) PROVE WTypeOK'
    <3>1. /\ served' \in [Requests -> RequestType] /\ tasks' \in [Requests -> SUBSET Tasks]
          /\ dropped' \in SUBSET (Requests \X Tasks \X {"request", "isolate"})
      <4>1. CASE Over(r, "answered")
        BY <2>13, <4>1
      <4>2. CASE served' = [served EXCEPT ![r].awaits = tasks[r]] /\ UNCHANGED <<tasks, dropped>>
        BY <2>1, <4>2 DEF RequestType
      <4> QED BY <2>14, <4>1, <4>2 DEF Settle
    <3> QED BY <2>1, <2>14, <3>1 DEF Settle, WTypeOK, IsolateType, RequestType
  <2>15. ASSUME NEW r \in Requests, Throw(r) PROVE WTypeOK'
    BY <2>1, <2>2, <2>13, <2>15 DEF Throw, WTypeOK, IsolateType, RequestType
  <2>16. ASSUME NEW i \in Isolates, Evict(i) PROVE WTypeOK'
    <3>1. \A r \in Requests : [served[r] EXCEPT !.at = "failed"] \in RequestType
      BY <2>1 DEF RequestType
    <3>2. {cut \in Requests \X Tasks \X {"isolate"} : served[cut[1]].on = i /\ cut[2] \in tasks[cut[1]]}
            \subseteq Requests \X Tasks \X {"request", "isolate"}
      OBVIOUS
    <3>3. dropped' \in SUBSET (Requests \X Tasks \X {"request", "isolate"})
      BY <2>1, <2>16, <3>2 DEF Evict
    <3> QED BY <2>1, <2>2, <2>3, <2>16, <3>1, <3>3 DEF Evict, WTypeOK, IsolateType, RequestType
  <2>17. CASE UNCHANGED wvars
    BY <2>17 DEF wvars, WTypeOK
  <2> QED BY <2>6, <2>7, <2>8, <2>9, <2>10, <2>11, <2>12, <2>14, <2>15, <2>16, <2>17 DEF WNext
<1> QED BY <1>1, <1>2, PTL DEF WSpec

\* What is on the ledger stays there, and an isolate that was past a version is past it still.
LEMMA VersionsArePassed ==
    ASSUME ServingAssumption, WTypeOK, PastIsRecorded, NEW i \in Isolates, NextVersion(i),
           isolate[i].version \in ledger', ledger \subseteq ledger'
    PROVE  PastIsRecorded'
<1> SUFFICES ASSUME NEW k \in Isolates
             PROVE  /\ \A v \in SchemaVersions : v < isolate'[k].version => v \in ledger'
                    /\ isolate'[k].at = "done" => SchemaVersions \subseteq ledger'
  BY DEF PastIsRecorded
<1>1. isolate \in [Isolates -> IsolateType] /\ isolate[i].version \in SchemaVersions
  BY DEF WTypeOK, IsolateType
<1>2. \A v \in SchemaVersions : v < isolate[i].version => v \in ledger'
  BY DEF PastIsRecorded
<1>3. CASE k # i
  BY <1>1, <1>3 DEF NextVersion, PastIsRecorded
<1>4. CASE k = i /\ isolate[i].version = migrations
  <2>1. isolate'[k].version = migrations
    BY <1>1, <1>4 DEF NextVersion, IsolateType
  <2>2. \A v \in SchemaVersions : v < migrations \/ v = migrations
    BY DEF SchemaVersions, ServingAssumption
  <2>3. SchemaVersions \subseteq ledger'
    BY <1>2, <1>4, <2>2
  <2> QED BY <2>3
<1>5. CASE k = i /\ isolate[i].version # migrations
  <2>1. isolate'[k].version = isolate[i].version + 1 /\ isolate'[k].at = "lookup"
    BY <1>1, <1>5 DEF NextVersion, IsolateType
  <2>2. \A v \in SchemaVersions : v < isolate[i].version + 1 => v < isolate[i].version \/ v = isolate[i].version
    BY <1>1 DEF SchemaVersions
  <2> QED BY <1>2, <2>1, <2>2
<1> QED BY <1>3, <1>4, <1>5

\* An isolate that goes to a place of its migrations, or begins anew, is past no more versions.
LEMMA NobodyIsAhead ==
    ASSUME WTypeOK, PastIsRecorded, NEW i \in Isolates, NEW e, isolate' = [isolate EXCEPT ![i] = e],
           ServingAssumption, e.version = isolate[i].version \/ e.version = 1, e.at # "done", ledger \subseteq ledger'
    PROVE  PastIsRecorded'
<1>1. isolate \in [Isolates -> IsolateType]
  BY DEF WTypeOK, IsolateType
<1>2. \A v \in SchemaVersions : ~ (v < 1)
  BY DEF SchemaVersions
<1>3. \A k \in Isolates : isolate'[k] = IF k = i THEN e ELSE isolate[k]
  BY <1>1
<1> QED BY <1>2, <1>3 DEF PastIsRecorded

\* What commits is recorded, and nothing else changes.
LEMMA CommitIsRecorded ==
    ASSUME ServingAssumption, WTypeOK, Recorded, NEW v \in SchemaVersions, Applies(v), Commit(v)
    PROVE  Recorded' /\ ledger \subseteq ledger' /\ v \in ledger'
<1>1. altered \in [SchemaVersions -> Nat] /\ ledger' = ledger \cup {v}
  BY DEF WTypeOK, Commit
<1>2. altered'[v] = 1
  BY <1>1 DEF Commit, Applies
<1>3. \A u \in SchemaVersions : u # v => altered'[u] = altered[u]
  BY <1>1 DEF Commit
<1> QED BY <1>1, <1>2, <1>3 DEF Recorded

\* Every step keeps what the ledger, the isolates and the requests say of one another.
LEMMA SchemaInvKept ==
    ASSUME ServingAssumption, SchemaInv, WTypeOK', [WNext]_wvars
    PROVE  SchemaInv'
<1>1. /\ altered \in [SchemaVersions -> Nat] /\ ledger \in SUBSET SchemaVersions
      /\ isolate \in [Isolates -> IsolateType] /\ served \in [Requests -> RequestType]
  BY DEF SchemaInv, WTypeOK, IsolateType, RequestType
<1>2. WTypeOK /\ Recorded /\ PastIsRecorded /\ ServedOnWhole
  BY DEF SchemaInv
\* As long as nothing is taken off the ledger, what requests found done is done.
<1>3. ASSUME ledger \subseteq ledger',
             \A r \in Requests : served'[r] = served[r] \/ served'[r].at = "failed"
      PROVE  ServedOnWhole'
  BY <1>2, <1>3 DEF ServedOnWhole
<1>4. ASSUME UNCHANGED <<altered, ledger>> PROVE Recorded'
  BY <1>2, <1>4 DEF Recorded
<1>5. ASSUME UNCHANGED <<ledger, isolate>> PROVE PastIsRecorded'
  BY <1>2, <1>5 DEF PastIsRecorded
<1>6. ASSUME NEW i \in Isolates, NEW where \in {"batch", "recheck"}, PlaceIsolate(i, where), ledger \subseteq ledger'
      PROVE  PastIsRecorded'
  <2> DEFINE e == [isolate[i] EXCEPT !.at = where]
  <2>1. isolate' = [isolate EXCEPT ![i] = e] /\ e.version = isolate[i].version /\ e.at # "done"
    BY <1>1, <1>6 DEF PlaceIsolate, IsolateType
  <2> QED BY <1>2, <1>6, <2>1, NobodyIsAhead
<1>7. ASSUME NEW i \in Isolates, isolate' = [isolate EXCEPT ![i] = Fresh], ledger \subseteq ledger'
      PROVE  PastIsRecorded'
  <2>1. Fresh.version = 1 /\ Fresh.at # "done"
    BY DEF Fresh
  <2> QED BY <1>2, <1>7, <2>1, NobodyIsAhead
<1>8. ASSUME NEW i \in Isolates PROVE isolate[i].version \in SchemaVersions
  BY <1>1 DEF IsolateType
<1>9. ASSUME NEW r \in Requests, NEW i \in Isolates, Arrive(r, i) PROVE SchemaInv'
  <2> DEFINE e == [isolate[i] EXCEPT !.at = IF isolate[i].at = "none" THEN "lookup" ELSE isolate[i].at]
  <2>1. isolate' = [isolate EXCEPT ![i] = e] /\ UNCHANGED <<altered, ledger>>
    BY <1>1, <1>9 DEF Arrive
  <2>2. e.version = isolate[i].version /\ (e.at = "done" => isolate[i].at = "done")
    BY <1>1 DEF IsolateType
  <2>3. \A k \in Isolates : isolate'[k] = IF k = i THEN e ELSE isolate[k]
    BY <1>1, <2>1
  <2>4. PastIsRecorded'
    BY <1>2, <2>1, <2>2, <2>3 DEF PastIsRecorded
  <2>5. ServedOnWhole'
    <3>1. \A q \in Requests : IF q = r THEN served'[q].at = "schema" /\ served'[q].on \in Isolates ELSE served'[q] = served[q]
      BY <1>1, <1>9 DEF Arrive, RequestType
    <3> QED BY <1>2, <2>1, <3>1 DEF ServedOnWhole
  <2> QED BY <1>4, <2>1, <2>4, <2>5 DEF SchemaInv
<1>10. ASSUME NEW i \in Isolates, Lookup(i) PROVE SchemaInv'
  <2>1. UNCHANGED <<altered, ledger, served>>
    BY <1>10 DEF Lookup
  <2>2. PastIsRecorded'
    <3>1. CASE isolate[i].version \in ledger /\ NextVersion(i)
      BY <1>2, <2>1, <3>1, VersionsArePassed
    <3>2. CASE PlaceIsolate(i, "batch")
      BY <1>6, <2>1, <3>2
    <3> QED BY <1>10, <3>1, <3>2 DEF Lookup
  <2> QED BY <1>3, <1>4, <2>1, <2>2 DEF SchemaInv
<1>11. ASSUME NEW i \in Isolates, Batch(i) PROVE SchemaInv'
  <2>1. served' = served /\ isolate[i].version \in SchemaVersions
    BY <1>8, <1>11 DEF Batch
  <2>2. CASE Applies(isolate[i].version) /\ Commit(isolate[i].version)
    <3>1. Recorded' /\ ledger \subseteq ledger' /\ isolate[i].version \in ledger'
      BY <1>2, <2>1, <2>2, CommitIsRecorded
    <3>2. NextVersion(i) \/ PlaceIsolate(i, "recheck")
      BY <1>11 DEF Batch
    <3>3. PastIsRecorded'
      BY <1>2, <1>6, <3>1, <3>2, VersionsArePassed
    <3> QED BY <1>3, <2>1, <3>1, <3>3 DEF SchemaInv
  <2>3. CASE PlaceIsolate(i, "recheck") /\ UNCHANGED <<altered, ledger>>
    BY <1>3, <1>4, <1>6, <2>1, <2>3 DEF SchemaInv
  <2> QED BY <1>11, <2>2, <2>3 DEF Batch
<1>12. ASSUME NEW i \in Isolates, Recheck(i) PROVE SchemaInv'
  <2>1. UNCHANGED <<altered, ledger>>
    BY <1>12 DEF Recheck
  <2>2. \A r \in Requests : served'[r] = served[r] \/ served'[r].at = "failed"
    BY <1>1, <1>12 DEF Recheck, RequestType
  <2>3. PastIsRecorded'
    <3>1. CASE isolate[i].version \in ledger /\ NextVersion(i)
      BY <1>2, <2>1, <3>1, VersionsArePassed
    <3>2. CASE isolate' = [isolate EXCEPT ![i] = Fresh]
      BY <1>7, <2>1, <3>2
    <3> QED BY <1>12, <3>1, <3>2 DEF Recheck, wonElsewhere
  <2> QED BY <1>3, <1>4, <2>1, <2>2, <2>3 DEF SchemaInv
<1>13. ASSUME NEW i \in Isolates, Evict(i) PROVE SchemaInv'
  <2>1. UNCHANGED <<altered, ledger>> /\ isolate' = [isolate EXCEPT ![i] = Fresh]
    BY <1>13 DEF Evict
  <2>2. \A r \in Requests : served'[r] = served[r] \/ served'[r].at = "failed"
    BY <1>1, <1>13 DEF Evict, RequestType
  <2> QED BY <1>3, <1>4, <1>7, <2>1, <2>2 DEF SchemaInv
<1>14. ASSUME NEW r \in Requests, StartDrain(r) PROVE SchemaInv'
  <2>1. UNCHANGED <<altered, ledger, isolate>> /\ served' = [served EXCEPT ![r].at = "handle"]
    BY <1>14 DEF StartDrain
  <2>2. SchemaVersions \subseteq ledger
    BY <1>2, <1>14 DEF StartDrain, ServedOnWhole, PastIsRecorded
  <2>3. \A q \in Requests : IF q = r THEN served'[q].at = "handle" ELSE served'[q] = served[q]
    BY <1>1, <2>1 DEF RequestType
  <2> QED BY <1>2, <1>4, <1>5, <2>1, <2>2, <2>3 DEF SchemaInv, ServedOnWhole
\* A request that moves on past the migrations found them done.
<1>15. ASSUME NEW r \in Requests, UNCHANGED <<altered, ledger, isolate>>, served[r].at \in {"handle", "settle"},
              \A q \in Requests : IF q = r THEN served'[q].at # "schema" ELSE served'[q] = served[q]
       PROVE  SchemaInv'
  <2>1. SchemaVersions \subseteq ledger
    BY <1>2, <1>15 DEF ServedOnWhole
  <2> QED BY <1>2, <1>4, <1>5, <1>15, <2>1 DEF SchemaInv, ServedOnWhole
<1>16. ASSUME NEW r \in Requests, Respond(r) PROVE SchemaInv'
  <2>1. \A q \in Requests : IF q = r THEN served'[q].at = "settle" ELSE served'[q] = served[q]
    BY <1>1, <1>16 DEF Respond, RequestType
  <2> QED BY <1>15, <1>16, <2>1 DEF Respond
<1>17. ASSUME NEW r \in Requests, Settle(r) PROVE SchemaInv'
  <2>1. CASE Over(r, "answered")
    <3>1. \A q \in Requests : IF q = r THEN served'[q].at = "answered" ELSE served'[q] = served[q]
      BY <1>1, <2>1 DEF Over, RequestType
    <3> QED BY <1>15, <1>17, <3>1 DEF Settle
  <2>2. CASE served' = [served EXCEPT ![r].awaits = tasks[r]]
    <3>1. \A q \in Requests : IF q = r THEN served'[q].at = served[q].at ELSE served'[q] = served[q]
      BY <1>1, <2>2 DEF RequestType
    <3>2. served[r].at = "settle"
      BY <1>17 DEF Settle
    <3> QED BY <1>15, <1>17, <3>1, <3>2 DEF Settle
  <2> QED BY <1>17, <2>1, <2>2 DEF Settle
<1>18. ASSUME NEW r \in Requests, Throw(r) PROVE SchemaInv'
  <2>1. \A q \in Requests : IF q = r THEN served'[q].at = "failed" ELSE served'[q] = served[q]
    BY <1>1, <1>18 DEF Throw, Over, RequestType
  <2> QED BY <1>15, <1>18, <2>1 DEF Throw
<1>19. ASSUME UNCHANGED <<altered, ledger, isolate, served>> PROVE SchemaInv'
  BY <1>3, <1>4, <1>5, <1>19 DEF SchemaInv
<1>20. ASSUME NEW r \in Requests, Emit(r) \/ Further(r) \/ (\E t \in Tasks : End(r, t)) PROVE SchemaInv'
  BY <1>19, <1>20 DEF Emit, Further, End
<1>21. CASE UNCHANGED wvars
  BY <1>19, <1>21 DEF wvars
<1> QED BY <1>9, <1>10, <1>11, <1>12, <1>13, <1>14, <1>16, <1>17, <1>18, <1>20, <1>21 DEF WNext

\* ensure-schema.ts, "an ALTER cannot be left half-applied and unrecorded": whatever isolates race,
\* fail and die, a request that is served sees every version, each applied once.
THEOREM SchemaStaysWhole == ServingAssumption => (WSpec => []SchemaIsWhole)
<1> SUFFICES ASSUME ServingAssumption PROVE WSpec => []SchemaIsWhole
  OBVIOUS
<1>1. WInit /\ WTypeOK => SchemaInv
  <2> SUFFICES ASSUME WInit, WTypeOK PROVE SchemaInv
    OBVIOUS
  <2>1. \A v \in SchemaVersions : ~ (v < 1)
    BY DEF SchemaVersions
  <2> QED BY <2>1 DEF WInit, SchemaInv, Recorded, PastIsRecorded, ServedOnWhole, Fresh, NewRequest
<1>2. SchemaInv /\ WTypeOK' /\ [WNext]_wvars => SchemaInv'
  BY SchemaInvKept
<1>3. SchemaInv => SchemaIsWhole
  <2> SUFFICES ASSUME SchemaInv, NEW r \in Requests, served[r].at \in {"handle", "settle", "answered"}
               PROVE  ledger = SchemaVersions /\ \A v \in SchemaVersions : altered[v] = 1
    BY DEF SchemaIsWhole
  <2>1. ledger = SchemaVersions
    BY DEF SchemaInv, ServedOnWhole, WTypeOK
  <2> QED BY <2>1 DEF SchemaInv, Recorded
<1> QED BY <1>1, <1>2, <1>3, ServingTyped, PTL DEF WSpec

\* The end of a request cuts off tasks only of one that failed; the death of an isolate also those of
\* a deferred one that has answered, while the others answer with nothing left that runs.
CutOffWithFailed ==
    \A r \in Requests :
        /\ \A t \in Tasks : <<r, t, "request">> \in dropped => served[r].at = "failed"
        /\ \A t \in Tasks : <<r, t, "isolate">> \in dropped =>
               served[r].at = "failed" \/ (r \in Deferred /\ served[r].at = "answered")
        /\ served[r].at = "answered" /\ r \notin Deferred => tasks[r] = {}

\* worker.ts, "the third argument controls latency, not correctness": a request that answered has lost
\* none of the work it started, but for what a deferred one runs on an isolate that dies.
THEOREM WorkIsKept == ServingAssumption => (WSpec => []AnsweredKeepsWork)
<1> SUFFICES ASSUME ServingAssumption PROVE WSpec => []AnsweredKeepsWork
  OBVIOUS
<1>1. WInit => CutOffWithFailed
  BY DEF WInit, CutOffWithFailed, NewRequest
<1>2. WTypeOK /\ CutOffWithFailed /\ [WNext]_wvars => CutOffWithFailed'
  <2> SUFFICES ASSUME WTypeOK, CutOffWithFailed, [WNext]_wvars PROVE CutOffWithFailed'
    OBVIOUS
  <2>1. served \in [Requests -> RequestType] /\ tasks \in [Requests -> SUBSET Tasks]
    BY DEF WTypeOK, RequestType
  \* A request that is over stays where it is, and none answers.
  <2>2. ASSUME dropped' = dropped,
               \A q \in Requests : \/ served'[q].at = served[q].at
                                   \/ served[q].at \notin {"answered", "failed"} /\ served'[q].at # "answered",
               \A q \in Requests : tasks[q] = {} => tasks'[q] = {} \/ served[q].at \notin {"answered", "failed"}
        PROVE  CutOffWithFailed'
    BY <2>2 DEF CutOffWithFailed
  <2>3. ASSUME NEW r \in Requests, NEW how \in {"answered", "failed"}, Over(r, how), how = "answered" => Drained(r),
               served[r].at \notin {"answered", "failed"}
        PROVE  CutOffWithFailed'
    <3>1. \A q \in Requests : served'[q].at = IF q = r THEN how ELSE served[q].at
      BY <2>1, <2>3 DEF Over, RequestType
    <3>2. CASE r \in Deferred
      BY <2>3, <3>1, <3>2 DEF Over, CutOffWithFailed
    <3>3. CASE r \notin Deferred
      <4>1. dropped' = dropped \cup ({r} \X tasks[r] \X {"request"}) /\ tasks' = [tasks EXCEPT ![r] = {}]
        BY <2>3, <3>3 DEF Over
      <4>2. how = "answered" => tasks[r] = {}
        BY <2>3, <3>3 DEF Drained
      <4>3. \A q \in Requests : tasks'[q] = IF q = r THEN {} ELSE tasks[q]
        BY <2>1, <4>1
      <4>4. \A q \in Requests, t \in Tasks :
              /\ <<q, t, "isolate">> \in dropped' <=> <<q, t, "isolate">> \in dropped
              /\ <<q, t, "request">> \in dropped' => <<q, t, "request">> \in dropped \/ (q = r /\ how = "failed")
        BY <4>1, <4>2
      <4> QED BY <2>3, <3>1, <3>3, <4>3, <4>4 DEF CutOffWithFailed
    <3> QED BY <3>2, <3>3
  <2>4. ASSUME NEW r \in Requests, NEW i \in Isolates, Arrive(r, i) PROVE CutOffWithFailed'
    <3>1. \A q \in Requests : served'[q].at = served[q].at \/ (served[q].at = "new" /\ served'[q].at = "schema")
      BY <2>1, <2>4 DEF Arrive, RequestType
    <3> QED BY <2>2, <2>4, <3>1 DEF Arrive
  <2>5. ASSUME NEW i \in Isolates, Lookup(i) \/ Batch(i) PROVE CutOffWithFailed'
    BY <2>2, <2>5 DEF Lookup, Batch
  <2>6. ASSUME NEW i \in Isolates, Recheck(i) PROVE CutOffWithFailed'
    <3>1. \A q \in Requests : served'[q] = served[q] \/ (served[q].at = "schema" /\ served'[q].at = "failed")
      BY <2>1, <2>6 DEF Recheck, RequestType
    <3> QED BY <2>2, <2>6, <3>1 DEF Recheck
  <2>7. ASSUME NEW i \in Isolates, Evict(i) PROVE CutOffWithFailed'
    <3>1. \A q \in Requests :
            /\ served'[q].at = IF served[q].on = i /\ served[q].at \notin {"answered", "failed"} THEN "failed" ELSE served[q].at
            /\ tasks'[q] = IF served[q].on = i THEN {} ELSE tasks[q]
      BY <2>1, <2>7 DEF Evict, RequestType
    <3>2. \A q \in Requests, t \in Tasks :
            /\ <<q, t, "request">> \in dropped' <=> <<q, t, "request">> \in dropped
            /\ <<q, t, "isolate">> \in dropped' => <<q, t, "isolate">> \in dropped \/ (served[q].on = i /\ t \in tasks[q])
      BY <2>7 DEF Evict
    <3> QED BY <3>1, <3>2 DEF CutOffWithFailed
  <2>8. ASSUME NEW r \in Requests, StartDrain(r) \/ Emit(r) PROVE CutOffWithFailed'
    <3>1. served[r].at \in {"schema", "handle"} /\ \A q \in Requests : served'[q].at = IF q = r THEN "handle" ELSE served[q].at
      BY <2>1, <2>8 DEF StartDrain, Emit, RequestType
    <3>2. dropped' = dropped /\ \A q \in Requests : q # r => tasks'[q] = tasks[q]
      BY <2>1, <2>8 DEF StartDrain, Emit, Run
    <3> QED BY <2>2, <3>1, <3>2
  <2>9. ASSUME NEW r \in Requests, Further(r) \/ \E t \in Tasks : End(r, t) PROVE CutOffWithFailed'
    <3>1. served' = served /\ dropped' = dropped /\ \A q \in Requests : tasks[q] = {} => tasks'[q] = {}
      BY <2>1, <2>9 DEF Further, End, Run
    <3> QED BY <2>2, <3>1
  <2>10. ASSUME NEW r \in Requests, Respond(r) PROVE CutOffWithFailed'
    <3>1. \A q \in Requests : served'[q].at = served[q].at \/ (served[q].at = "handle" /\ served'[q].at = "settle")
      BY <2>1, <2>10 DEF Respond, RequestType
    <3> QED BY <2>2, <2>10, <3>1 DEF Respond
  <2>11. ASSUME NEW r \in Requests, Settle(r) PROVE CutOffWithFailed'
    <3>1. CASE Drained(r) /\ Over(r, "answered")
      BY <2>3, <2>11, <3>1 DEF Settle
    <3>2. CASE served' = [served EXCEPT ![r].awaits = tasks[r]] /\ UNCHANGED <<tasks, dropped>>
      <4>1. \A q \in Requests : served'[q].at = served[q].at
        BY <2>1, <3>2 DEF RequestType
      <4> QED BY <2>2, <3>2, <4>1
    <3> QED BY <2>11, <3>1, <3>2 DEF Settle
  <2>12. ASSUME NEW r \in Requests, Throw(r) PROVE CutOffWithFailed'
    BY <2>3, <2>12 DEF Throw
  <2>13. CASE UNCHANGED wvars
    BY <2>2, <2>13 DEF wvars
  <2> QED BY <2>4, <2>5, <2>6, <2>7, <2>8, <2>9, <2>10, <2>11, <2>12, <2>13 DEF WNext
<1>3. CutOffWithFailed => AnsweredKeepsWork
  BY DEF CutOffWithFailed, AnsweredKeepsWork
<1> QED BY <1>1, <1>2, <1>3, ServingTyped, PTL DEF WSpec

\* ensure-schema.ts, lifecycle.ts: both together.
THEOREM ServingIsWhole == ServingAssumption => (WSpec => []ServingHolds)
<1> SUFFICES ASSUME ServingAssumption PROVE WSpec => []ServingHolds
  OBVIOUS
<1>1. SchemaIsWhole /\ AnsweredKeepsWork => ServingHolds
  BY DEF ServingHolds
<1> QED BY <1>1, SchemaStaysWhole, WorkIsKept, PTL

-----------------------------------------------------------------------------
(* The document of pins.                                                     *)

\* What is written is newer than what a call began with, by its lost attempts at least; while it
\* is newer by no more than these, the document is the one the call has read.
SeenIsOlder ==
    \A c \in PinCallers :
        /\ op[c].at = "idle" => op[c].lost = 0
        /\ op[c].at # "idle" => op[c].began + op[c].lost <= writes
        /\ op[c].at = "put" => doc = op[c].seen \/ op[c].began + op[c].lost < writes

CallType == [at : {"idle", "read", "put"}, lost : 0..MaxAttempts, seen : Docs, began : Nat]

\* A step of one call leaves the others as they were.
LEMMA OneCallMoves ==
    ASSUME NEW S, NEW c \in PinCallers, op \in [PinCallers -> S], NEW e \in S
    PROVE  [op EXCEPT ![c] = e] \in [PinCallers -> S]
OBVIOUS

\* refs-store.ts: the documents and calls have their types, for every bound.
THEOREM PinsTyped == PinsAssumption => (PinsSpec => []PinsTypeOK)
<1> SUFFICES ASSUME PinsAssumption PROVE PinsSpec => []PinsTypeOK
  OBVIOUS
<1>1. PinsInit => PinsTypeOK
  BY DEF PinsInit, PinsTypeOK, PinsAssumption, NoDoc, Docs, NoCall, PinCallers
<1>2. PinsTypeOK /\ [PinsNext]_pinVars => PinsTypeOK'
  <2> SUFFICES ASSUME PinsTypeOK, [PinsNext]_pinVars PROVE PinsTypeOK'
    OBVIOUS
  <2>1. NoDoc \in Docs /\ NoCall \in [at : {"idle", "read", "put"}, lost : 0..MaxAttempts, seen : Docs, began : Nat]
    BY DEF NoDoc, Docs, NoCall, PinsAssumption
  <2>2. ASSUME NEW c \in PinCallers, NEW d \in Docs PROVE Changed(c, d) \in Docs
    BY <2>2 DEF Changed, Docs, Wants, PinCallers, Kinds, PinsAssumption
  <2>3. ASSUME NEW c \in PinCallers, Call(c) PROVE PinsTypeOK'
    <3>1. op'[c] = [op[c] EXCEPT !.at = "read", !.began = writes] /\ writes \in Nat /\ calls \in Nat
      BY <2>3 DEF Call, PinsTypeOK
    <3>2. op'[c] \in CallType
      BY <3>1 DEF PinsTypeOK, CallType
    <3>3. op' \in [PinCallers -> CallType]
      BY <2>3, <3>2, OneCallMoves DEF Call, PinsTypeOK, CallType
    <3> QED BY <2>3, <3>1, <3>3 DEF Call, PinsTypeOK, CallType
  <2>4. ASSUME NEW c \in PinCallers, Found(c) PROVE PinsTypeOK'
    BY <2>1, <2>4 DEF Found, Return, Done, PinsTypeOK, PinCallers
  <2>5. ASSUME NEW c \in PinCallers, Read(c) PROVE PinsTypeOK'
    BY <2>5 DEF Read, PinsTypeOK
  <2>6. ASSUME NEW c \in PinCallers, Put(c) PROVE PinsTypeOK'
    <3>1. op[c].seen \in Docs
      BY DEF PinsTypeOK
    <3> QED BY <2>1, <2>2, <2>6, <3>1 DEF Put, WritePins, Return, Done, PinsTypeOK, PinCallers
  <2>7. ASSUME NEW c \in PinCallers, Lose(c) PROVE PinsTypeOK'
    <3>1. op[c] \in CallType /\ op' = [op EXCEPT ![c] = op'[c]]
      BY <2>7 DEF Lose, PinsTypeOK, CallType
    <3>2. CASE op[c].lost + 1 < MaxAttempts
      <4>1. op'[c] = [op[c] EXCEPT !.at = "read", !.lost = op[c].lost + 1, !.seen = NoDoc]
        BY <2>7, <3>2 DEF Lose, Again, PinsTypeOK
      <4>2. op[c].lost + 1 \in 0..MaxAttempts
        BY <3>1, <3>2 DEF CallType, PinsAssumption
      <4>3. op'[c] \in CallType
        BY <2>1, <3>1, <4>1, <4>2 DEF CallType
      <4> QED BY <2>7, <3>1, <4>3 DEF Lose, PinsTypeOK, CallType
    <3>3. CASE ~ (op[c].lost + 1 < MaxAttempts)
      <4>1. op'[c] = NoCall
        BY <2>7, <3>3 DEF Lose, PinsTypeOK
      <4> QED BY <2>1, <2>7, <3>1, <4>1 DEF Lose, PinsTypeOK, CallType
    <3> QED BY <3>2, <3>3
  <2>8. ASSUME NEW c \in PinCallers, FailCall(c) PROVE PinsTypeOK'
    <3>1. op[c].seen \in Docs
      BY DEF PinsTypeOK
    <3> QED BY <2>1, <2>2, <2>8, <3>1 DEF FailCall, WritePins, Return, PinsTypeOK, PinCallers
  <2>9. CASE UNCHANGED pinVars
    BY <2>9 DEF pinVars, PinsTypeOK
  <2> QED BY <2>3, <2>4, <2>5, <2>6, <2>7, <2>8, <2>9 DEF PinsNext
<1> QED BY <1>1, <1>2, PTL DEF PinsSpec

\* refs-store.ts:163: a run whose pin was put keeps it until it takes it back, whatever the other
\* runs of the repository write.
THEOREM PinsKept == PinsAssumption => (PinsSpec => []PinIsKept)
<1> SUFFICES ASSUME PinsAssumption PROVE PinsSpec => []PinIsKept
  OBVIOUS
<1>1. PinsInit => PinIsKept
  BY DEF PinsInit, PinIsKept
<1>2. PinsTypeOK /\ PinIsKept /\ [PinsNext]_pinVars => PinIsKept'
  <2> SUFFICES ASSUME PinsTypeOK, PinIsKept, [PinsNext]_pinVars PROVE PinIsKept'
    OBVIOUS
  <2>1. ASSUME NEW c \in PinCallers, Matches(c), doc' = Changed(c, op[c].seen),
               pinned' = IF c[2] = "pin" THEN pinned \cup {c[1]} ELSE pinned \ {c[1]}
        PROVE  PinIsKept'
    <3>1. doc' = [there |-> TRUE, pins |-> [doc.pins EXCEPT ![c[1]] = Wants(c)]]
      BY <2>1 DEF Matches, Changed
    <3>2. doc.pins \in [Runs -> RunCommits \cup {NoPin}] /\ c[1] \in Runs /\ pinned \in SUBSET Runs
      BY DEF PinsTypeOK, Docs, PinCallers
    <3>3. \A r \in Runs : doc'.pins[r] = IF r = c[1] THEN Wants(c) ELSE doc.pins[r]
      BY <3>1, <3>2
    <3>4. \A r \in pinned' : r \in Runs /\ (r = c[1] => c[2] = "pin") /\ (r # c[1] => r \in pinned)
      BY <2>1, <3>2
    <3> QED BY <3>3, <3>4 DEF PinIsKept, Wants
  <2>2. ASSUME NEW c \in PinCallers, Found(c) PROVE PinIsKept'
    BY <2>2 DEF Found, Done, Wants, PinIsKept
  <2>3. ASSUME NEW c \in PinCallers, Put(c) PROVE PinIsKept'
    BY <2>1, <2>3 DEF Put, WritePins, Done
  <2>4. ASSUME NEW c \in PinCallers, FailCall(c) PROVE PinIsKept'
    <3>1. CASE UNCHANGED <<doc, writes, pinned>>
      BY <3>1 DEF PinIsKept
    <3>2. CASE /\ Matches(c) /\ WritePins(c)
               /\ pinned' = IF c[2] = "unpin" THEN pinned \ {c[1]} ELSE pinned
      <4>1. c[2] \in {"pin", "unpin"} /\ doc.pins \in [Runs -> RunCommits \cup {NoPin}] /\ c[1] \in Runs /\ pinned \in SUBSET Runs
        BY DEF PinsTypeOK, Docs, PinCallers, Kinds
      <4>2. doc' = [there |-> TRUE, pins |-> [doc.pins EXCEPT ![c[1]] = Wants(c)]]
        BY <3>2 DEF Matches, WritePins, Changed
      <4>3. \A r \in Runs : doc'.pins[r] = IF r = c[1] THEN Wants(c) ELSE doc.pins[r]
        BY <4>1, <4>2
      <4>4. \A r \in pinned' : r \in pinned /\ r \in Runs /\ (r = c[1] => c[2] = "pin")
        BY <3>2, <4>1
      <4> QED BY <4>3, <4>4 DEF PinIsKept, Wants
    <3> QED BY <2>4, <3>1, <3>2 DEF FailCall
  <2>5. ASSUME NEW c \in PinCallers, Call(c) \/ Read(c) \/ Lose(c) PROVE PinIsKept'
    BY <2>5 DEF Call, Read, Lose, PinIsKept
  <2>6. CASE UNCHANGED pinVars
    BY <2>6 DEF pinVars, PinIsKept
  <2> QED BY <2>2, <2>3, <2>4, <2>5, <2>6 DEF PinsNext
<1> QED BY <1>1, <1>2, PinsTyped, PTL DEF PinsSpec

\* refs-store.ts:241 "Throws only when the CAS cannot converge (extreme contention)": every attempt
\* that a call has lost was lost to a write of another since the call began.
THEOREM AttemptsLost == PinsAssumption => (PinsSpec => []LostToOthers)
<1> SUFFICES ASSUME PinsAssumption PROVE PinsSpec => []LostToOthers
  OBVIOUS
<1>1. PinsInit => SeenIsOlder
  BY DEF PinsInit, SeenIsOlder, NoCall
<1>2. PinsTypeOK /\ SeenIsOlder /\ [PinsNext]_pinVars => SeenIsOlder'
  <2> DEFINE Older(c) == /\ op[c].at = "idle" => op[c].lost = 0
                         /\ op[c].at # "idle" => op[c].began + op[c].lost <= writes
                         /\ op[c].at = "put" => doc = op[c].seen \/ op[c].began + op[c].lost < writes
  <2> SUFFICES ASSUME PinsTypeOK, SeenIsOlder, [PinsNext]_pinVars, NEW b \in PinCallers PROVE Older(b)'
    BY DEF SeenIsOlder
  <2>1. Older(b) /\ writes \in Nat /\ op \in [PinCallers -> CallType]
    BY DEF SeenIsOlder, PinsTypeOK, CallType
  <2>2. op[b].lost \in Nat /\ op[b].began \in Nat
    BY <2>1 DEF CallType
  \* A call that does not move is none the younger for what others do.
  <2>3. ASSUME op'[b] = op[b], (doc' = doc /\ writes' = writes) \/ writes' = writes + 1 PROVE Older(b)'
    <3>1. CASE doc' = doc /\ writes' = writes
      BY <2>1, <2>3, <3>1
    <3>2. CASE writes' = writes + 1
      BY <2>1, <2>2, <2>3, <3>2
    <3> QED BY <2>3, <3>1, <3>2
  <2>4. ASSUME op'[b] = NoCall PROVE Older(b)'
    BY <2>4 DEF NoCall
  <2>5. ASSUME NEW c \in PinCallers, Call(c) PROVE Older(b)'
    <3>1. CASE b = c
      <4>1. op'[b] = [op[b] EXCEPT !.at = "read", !.began = writes] /\ op[b].at = "idle" /\ writes' = writes
        BY <2>1, <2>5, <3>1 DEF Call
      <4>2. op'[b].at = "read" /\ op'[b].lost = op[b].lost /\ op'[b].began = writes
        BY <2>1, <4>1 DEF CallType
      <4> QED BY <2>1, <4>1, <4>2
    <3>2. CASE b # c
      BY <2>1, <2>3, <2>5, <3>2 DEF Call
    <3> QED BY <3>1, <3>2
  <2>6. ASSUME NEW c \in PinCallers, Read(c) PROVE Older(b)'
    <3>1. CASE b = c
      <4>1. op'[b] = [op[b] EXCEPT !.at = "put", !.seen = doc] /\ op[b].at = "read" /\ writes' = writes /\ doc' = doc
        BY <2>1, <2>6, <3>1 DEF Read
      <4>2. op'[b].at = "put" /\ op'[b].lost = op[b].lost /\ op'[b].began = op[b].began /\ op'[b].seen = doc
        BY <2>1, <4>1 DEF CallType
      <4> QED BY <2>1, <4>1, <4>2
    <3>2. CASE b # c
      BY <2>1, <2>3, <2>6, <3>2 DEF Read
    <3> QED BY <3>1, <3>2
  <2>7. ASSUME NEW c \in PinCallers, Lose(c) PROVE Older(b)'
    <3>1. CASE b = c /\ op[b].lost + 1 < MaxAttempts
      <4>1. op'[b] = [op[b] EXCEPT !.at = "read", !.lost = op[b].lost + 1, !.seen = NoDoc] /\ writes' = writes
        BY <2>1, <2>7, <3>1 DEF Lose, Again
      <4>2. op'[b].at = "read" /\ op'[b].lost = op[b].lost + 1 /\ op'[b].began = op[b].began
        BY <2>1, <4>1 DEF CallType
      <4>3. op[b].began + op[b].lost < writes
        BY <2>1, <2>7, <3>1 DEF Lose, Matches
      <4> QED BY <2>1, <2>2, <4>1, <4>2, <4>3
    <3>2. CASE b = c /\ ~ (op[b].lost + 1 < MaxAttempts)
      BY <2>1, <2>4, <2>7, <3>2 DEF Lose
    <3>3. CASE b # c
      BY <2>1, <2>3, <2>7, <3>3 DEF Lose
    <3> QED BY <3>1, <3>2, <3>3
  <2>8. ASSUME NEW c \in PinCallers, Found(c) \/ Put(c) \/ FailCall(c) PROVE Older(b)'
    <3>1. op' = [op EXCEPT ![c] = NoCall] /\ ((doc' = doc /\ writes' = writes) \/ writes' = writes + 1)
      BY <2>8 DEF Found, Put, FailCall, Return, WritePins
    <3>2. CASE b = c
      BY <2>1, <2>4, <3>1, <3>2
    <3>3. CASE b # c
      BY <2>1, <2>3, <3>1, <3>3
    <3> QED BY <3>2, <3>3
  <2>9. CASE UNCHANGED pinVars
    BY <2>3, <2>9 DEF pinVars
  <2> QED BY <2>5, <2>6, <2>7, <2>8, <2>9 DEF PinsNext
<1>3. PinsTypeOK /\ SeenIsOlder => LostToOthers
  <2> SUFFICES ASSUME PinsTypeOK, SeenIsOlder, NEW c \in PinCallers, op[c].at # "idle" PROVE op[c].lost <= writes - op[c].began
    BY DEF LostToOthers
  <2>1. op[c].lost \in Nat /\ op[c].began \in Nat /\ writes \in Nat /\ op[c].began + op[c].lost <= writes
    BY DEF PinsTypeOK, SeenIsOlder
  <2> QED BY <2>1
<1> QED BY <1>1, <1>2, <1>3, PinsTyped, PTL DEF PinsSpec

\* Nothing is written to the document but the run's own commit, or nothing, for a run.
THEOREM PinsAreOwn == PinsAssumption => (PinsSpec => []DocIsSound)
<1> SUFFICES ASSUME PinsAssumption PROVE PinsSpec => []DocIsSound
  OBVIOUS
<1>1. PinsInit => DocIsSound
  BY DEF PinsInit, DocIsSound, NoDoc
<1>2. PinsTypeOK /\ DocIsSound /\ [PinsNext]_pinVars => DocIsSound'
  <2> SUFFICES ASSUME PinsTypeOK, DocIsSound, [PinsNext]_pinVars PROVE DocIsSound'
    OBVIOUS
  <2>1. CASE doc' = doc
    BY <2>1 DEF DocIsSound
  <2>2. ASSUME NEW c \in PinCallers, Matches(c), WritePins(c) PROVE DocIsSound'
    <3>1. doc.pins \in [Runs -> RunCommits \cup {NoPin}] /\ c[1] \in Runs
      BY DEF PinsTypeOK, Docs, PinCallers
    <3>2. doc' = [there |-> TRUE, pins |-> [doc.pins EXCEPT ![c[1]] = Wants(c)]]
      BY <2>2 DEF Matches, WritePins, Changed
    <3>3. \A r \in Runs : doc'.pins[r] = IF r = c[1] THEN Wants(c) ELSE doc.pins[r]
      BY <3>1, <3>2
    <3> QED BY <3>2, <3>3 DEF DocIsSound, Wants
  <2>3. doc' = doc \/ \E c \in PinCallers : Matches(c) /\ WritePins(c)
    BY DEF PinsNext, Call, Found, Read, Put, Lose, FailCall, pinVars
  <2> QED BY <2>1, <2>2, <2>3
<1> QED BY <1>1, <1>2, PinsTyped, PTL DEF PinsSpec

\* refs-store.ts, pinRunCommit and unpinRun: the three together.
THEOREM PinsStay == PinsAssumption => (PinsSpec => []PinsHold)
<1> SUFFICES ASSUME PinsAssumption PROVE PinsSpec => []PinsHold
  OBVIOUS
<1>1. PinIsKept /\ LostToOthers /\ DocIsSound => PinsHold
  BY DEF PinsHold
<1> QED BY <1>1, PinsKept, AttemptsLost, PinsAreOwn, PTL

-----------------------------------------------------------------------------
(* Releases, their tags and assets.                                          *)

RowType == [id : Nat, draft : BOOLEAN, target : TagTargets \cup {NoSha}, published : BOOLEAN]
RefType == [commit : TagTargets \cup {NoSha}, object : 0..MaxObjects]
JobType == [at : JobPlaces, tag : Tags, target : TagTargets \cup {NoSha}, draft : BOOLEAN, id : Nat, of : Nat]

ReleasesTyped ==
    /\ tagRef \in [Tags -> RefType] /\ tagObject \in [TagObjectIds -> TagTargets \cup {NoSha}]
    /\ release \in [Tags -> RowType] /\ asset \in [AssetIds -> Nat] /\ ids \in Nat
    /\ job \in [ReleaseCallers -> JobType]

\* A tag that is there, or that somebody has deleted; bytes that are there, or that a deletion took.
Tagged(t) == findTagRef(t) \/ t \in untagged
Stored(a) == a \in bytes \/ a \in condemned

\* What the handlers between two writes rely on.
JobIsSound(j) ==
    /\ j.at = "writeTag" => j.id \in 0..MaxObjects
    /\ j.at \in {"createRef", "publishRef"} => j.target # NoSha
    /\ j.at \in {"insertRelease", "update"} /\ ~j.draft => Tagged(j.tag)
    /\ j.at = "insertAsset" => Stored(j.id)
JobsAreSound == \A c \in ReleaseCallers : JobIsSound(job[c])

ReleasesInv == ReleasesTyped /\ PublishedIsTagged /\ ListedHasBytes /\ JobsAreSound

\* Neither is ever undone by a step of a handler: only a deletion takes a tag or bytes away, and says so.
NothingIsLost ==
    /\ \A t \in Tags : Tagged(t) => Tagged(t)'
    /\ \A a : Stored(a) => Stored(a)'

\* A handler that goes on to what is sound leaves the others sound.
LEMMA JobsStaySound ==
    ASSUME ReleasesInv, NEW c \in ReleaseCallers, NEW e \in JobType, job' = [job EXCEPT ![c] = e],
           NothingIsLost, JobIsSound(e)'
    PROVE  job' \in [ReleaseCallers -> JobType] /\ JobsAreSound'
<1>1. job \in [ReleaseCallers -> JobType] /\ JobsAreSound
  BY DEF ReleasesInv, ReleasesTyped
<1>2. \A d \in ReleaseCallers : job'[d] = IF d = c THEN e ELSE job[d]
  BY <1>1
<1>3. ASSUME NEW d \in ReleaseCallers, d # c PROVE JobIsSound(job[d])'
  <2>1. job'[d] = job[d] /\ job[d].tag \in Tags /\ JobIsSound(job[d])
    BY <1>1, <1>2, <1>3 DEF JobType, JobsAreSound
  <2> QED BY <2>1 DEF JobIsSound, NothingIsLost
<1>4. JobIsSound(job[c])'
  <2>1. job'[c] = e
    BY <1>2
  <2> QED BY <2>1 DEF JobIsSound
<1>5. JobsAreSound'
  BY <1>3, <1>4 DEF JobsAreSound
<1> QED BY <1>1, <1>5

\* A handler that has nothing more to do is sound.
LEMMA NoJobIsSound == ASSUME ReleasesAssumption PROVE NoJob \in JobType /\ JobIsSound(NoJob) /\ JobIsSound(NoJob)'
<1>1. (CHOOSE t \in Tags : TRUE) \in Tags
  BY DEF ReleasesAssumption
<1> QED BY <1>1 DEF NoJob, JobType, JobPlaces, JobIsSound

\* What a tag peels to is a commit or nothing.
LEMMA PeeledIsTyped ==
    ASSUME ReleasesAssumption, ReleasesTyped, NEW t \in Tags
    PROVE  peelToCommit(tagRef[t]) \in TagTargets \cup {NoSha}
<1>1. tagRef[t].commit \in TagTargets \cup {NoSha} /\ tagRef[t].object \in 0..MaxObjects
  BY DEF ReleasesTyped, RefType
<1>2. tagRef[t].object # 0 => tagRef[t].object \in TagObjectIds
  BY <1>1 DEF TagObjectIds, ReleasesAssumption
<1> QED BY <1>1, <1>2 DEF ReleasesTyped, peelToCommit

\* Every step of a handler keeps the invariant.
LEMMA ReleasesInvKept == ASSUME ReleasesAssumption, ReleasesInv, [RNext]_rvars PROVE ReleasesInv'
<1>1. /\ tagRef \in [Tags -> RefType] /\ tagObject \in [TagObjectIds -> TagTargets \cup {NoSha}]
      /\ release \in [Tags -> RowType] /\ asset \in [AssetIds -> Nat] /\ ids \in Nat
      /\ job \in [ReleaseCallers -> JobType] /\ ReleasesTyped
      /\ PublishedIsTagged /\ ListedHasBytes /\ JobsAreSound
  BY DEF ReleasesInv, ReleasesTyped
<1>2. ASSUME NEW c \in ReleaseCallers PROVE job[c] \in JobType /\ JobIsSound(job[c])
  BY <1>1 DEF JobsAreSound
<1>3. NoJob \in JobType /\ JobIsSound(NoJob)'
  BY NoJobIsSound
\* A step that leaves tags and assets alone, and what it sets out to do.
<1>4. ASSUME UNCHANGED <<Refs, Ghosts, bytes>> PROVE NothingIsLost
  BY <1>4 DEF Refs, Ghosts, NothingIsLost, Tagged, Stored, findTagRef
<1>5. ASSUME NEW c \in ReleaseCallers, NEW e \in JobType, job' = [job EXCEPT ![c] = e], JobIsSound(e)', NothingIsLost,
             UNCHANGED <<ReleaseRows, ids>>,
             tagRef' \in [Tags -> RefType], tagObject' \in [TagObjectIds -> TagTargets \cup {NoSha}]
      PROVE  ReleasesInv'
  <2>1. job' \in [ReleaseCallers -> JobType] /\ JobsAreSound'
    BY <1>5, JobsStaySound
  <2>2. release' = release /\ asset' = asset /\ ids' = ids
    BY <1>5 DEF ReleaseRows
  <2>3. ReleasesTyped'
    BY <1>1, <1>5, <2>1, <2>2 DEF ReleasesTyped, RowType, RefType, JobType
  <2>4. PublishedIsTagged'
    BY <1>1, <1>5, <2>2 DEF PublishedIsTagged, NothingIsLost, Tagged, findTagRef
  <2>5. ListedHasBytes'
    BY <1>1, <1>5, <2>2 DEF ListedHasBytes, NothingIsLost, Stored
  <2> QED BY <2>1, <2>3, <2>4, <2>5 DEF ReleasesInv
<1>6. ASSUME NEW c \in ReleaseCallers, NEW place, Go(c, place)
      PROVE  job' = [job EXCEPT ![c] = [job[c] EXCEPT !.at = place]]
  BY <1>6 DEF Go
<1>7. ASSUME NEW c \in ReleaseCallers, createReleaseHandler(c) PROVE ReleasesInv'
  <2>1. PICK t \in Tags, asks \in TagTargets \cup {NoSha}, draft \in BOOLEAN :
           LET target == IF findTagRef(t) THEN peelToCommit(tagRef[t]) ELSE asks IN
           /\ release[t] = NoRow /\ (draft \/ target # NoSha)
           /\ Start(c, [NoJob EXCEPT !.at = IF draft \/ findTagRef(t) THEN "insertRelease" ELSE "createRef",
                                     !.tag = t, !.target = target, !.draft = draft])
           /\ UNCHANGED <<Refs, ReleaseRows, bytes, ids, Ghosts>>
    BY <1>7 DEF createReleaseHandler
  <2> DEFINE target == IF findTagRef(t) THEN peelToCommit(tagRef[t]) ELSE asks
             place == IF draft \/ findTagRef(t) THEN "insertRelease" ELSE "createRef"
             to == [NoJob EXCEPT !.at = place, !.tag = t, !.target = target, !.draft = draft]
  <2>2. target \in TagTargets \cup {NoSha}
    BY <1>1, PeeledIsTyped
  <2>3. to \in JobType /\ to.at = place /\ to.tag = t /\ to.target = target /\ to.draft = draft
    BY <1>3, <2>2 DEF JobType, JobPlaces
  <2>4. Start(c, to) /\ UNCHANGED <<Refs, ReleaseRows, bytes, ids, Ghosts>> /\ (draft \/ target # NoSha)
    BY <2>1
  <2> HIDE DEF to
  <2>5. PICK e \in JobType : e = to
    BY <2>3
  <2>6. findTagRef(t)' = findTagRef(t)
    BY <2>4 DEF Refs, findTagRef
  <2>7. JobIsSound(e)'
    <3>1. e.at = "createRef" => e.target # NoSha
      BY <2>3, <2>4, <2>5
    <3>2. e.at = "insertRelease" /\ ~e.draft => findTagRef(e.tag)'
      BY <2>3, <2>5, <2>6
    <3>3. e.at \in {"createRef", "insertRelease"}
      BY <2>3, <2>5
    <3> QED BY <3>1, <3>2, <3>3 DEF JobIsSound, Tagged
  <2>8. job' = [job EXCEPT ![c] = e]
    BY <2>4, <2>5 DEF Start
  <2>9. UNCHANGED <<ReleaseRows, ids>> /\ tagRef' = tagRef /\ tagObject' = tagObject /\ NothingIsLost
    BY <1>4, <2>4 DEF Refs
  <2> QED BY <1>1, <1>5, <2>7, <2>8, <2>9
<1>8. ASSUME NEW c \in ReleaseCallers, NEW next \in {"insertRelease", "update"}, CreateRef(c, next),
             job[c].at \in {"createRef", "publishRef"}
      PROVE  ReleasesInv'
  <2>1. PICK e \in JobType, t \in Tags : e = [job[c] EXCEPT !.at = next] /\ e.at = next /\ t = job[c].tag /\ e.tag = t
    <3>1. job[c] \in JobType
      BY <1>2
    <3>2. [job[c] EXCEPT !.at = next] \in JobType
      BY <3>1 DEF JobType, JobPlaces
    <3> QED BY <3>1, <3>2 DEF JobType
  <2>2. job[c].target \in TagTargets /\ job[c].target # NoSha
    BY <1>2, <1>8 DEF JobType, JobIsSound
  <2>3. CommitAt(job[c].target) \in RefType /\ CommitAt(job[c].target) # NoRef
    BY <2>2 DEF CommitAt, NoRef, RefType, ReleasesAssumption
  <2>4. tagRef' = (IF findTagRef(t) THEN tagRef ELSE [tagRef EXCEPT ![t] = CommitAt(job[c].target)])
    BY <1>8, <2>1 DEF CreateRef
  <2>5. tagRef' \in [Tags -> RefType]
    BY <1>1, <2>3, <2>4
  <2>6. \A s \in Tags : findTagRef(s) \/ s = t => findTagRef(s)'
    BY <1>1, <2>1, <2>3, <2>4 DEF findTagRef
  <2>7. UNCHANGED <<tagObject, ReleaseRows, bytes, ids, Ghosts>> /\ job' = [job EXCEPT ![c] = e]
    BY <1>6, <1>8, <2>1 DEF CreateRef
  <2>8. NothingIsLost
    BY <2>6, <2>7 DEF NothingIsLost, Tagged, Stored, Ghosts
  <2>9. JobIsSound(e)'
    BY <1>8, <2>1, <2>6 DEF JobIsSound, Tagged
  <2> QED BY <1>1, <1>5, <2>5, <2>7, <2>8, <2>9
<1>9. ASSUME NEW c \in ReleaseCallers, InsertRelease(c) PROVE ReleasesInv'
  <2>1. job' = [job EXCEPT ![c] = NoJob] /\ NothingIsLost /\ job[c].at = "insertRelease"
    BY <1>4, <1>9 DEF InsertRelease, Finish, JobAt
  <2>2. job' \in [ReleaseCallers -> JobType] /\ JobsAreSound'
    BY <1>3, <2>1, JobsStaySound
  <2> DEFINE t == job[c].tag
             row == [id |-> ids + 1, draft |-> job[c].draft, target |-> job[c].target, published |-> ~job[c].draft]
  <2>3. row \in RowType /\ t \in Tags /\ row.draft = job[c].draft
    BY <1>1, <1>2 DEF RowType, JobType
  <2>4. (~row.draft => Tagged(t)) /\ row.draft \in BOOLEAN
    BY <1>2, <2>1, <2>3 DEF JobIsSound, JobType
  <2>5. release' \in {release, [release EXCEPT ![t] = row]} /\ ids' \in {ids, ids + 1}
    BY <1>9 DEF InsertRelease
  <2>6. UNCHANGED <<Refs, gitTag, asset, bytes, Ghosts>>
    BY <1>9 DEF InsertRelease
  <2> HIDE DEF row, t
  <2>7. release' \in [Tags -> RowType] /\ ids' \in Nat
    BY <1>1, <2>3, <2>5
  <2>8. ReleasesTyped'
    BY <1>1, <2>2, <2>6, <2>7 DEF Refs, ReleasesTyped, RowType, RefType, JobType
  <2>9. PublishedIsTagged'
    <3>1. \A s \in Tags : release'[s] = release[s] \/ (s = t /\ release'[s] = row)
      BY <1>1, <2>3, <2>5
    <3> QED BY <1>1, <2>1, <2>4, <3>1 DEF PublishedIsTagged, NothingIsLost, Tagged, findTagRef
  <2>10. ListedHasBytes'
    BY <1>1, <2>6 DEF ListedHasBytes, Ghosts
  <2> QED BY <2>2, <2>8, <2>9, <2>10 DEF ReleasesInv
<1>10. ASSUME NEW c \in ReleaseCallers, PatchRelease(c) PROVE ReleasesInv'
  <2>1. PICK t \in Tags, draft \in BOOLEAN :
           /\ release[t] # NoRow
           /\ ~IsPublishing(release[t], draft) \/ release[t].target # NoSha
           /\ job' = [job EXCEPT ![c] =
                        [NoJob EXCEPT !.at = FirstWrite(IsPublishing(release[t], draft), t),
                                      !.tag = t, !.target = release[t].target, !.draft = draft]]
           /\ UNCHANGED <<Refs, ReleaseRows, bytes, ids, Ghosts>>
    BY <1>10 DEF PatchRelease, Start
  <2> DEFINE place == FirstWrite(IsPublishing(release[t], draft), t)
             to == [NoJob EXCEPT !.at = place, !.tag = t, !.target = release[t].target, !.draft = draft]
  <2>2. release[t] \in RowType /\ place \in {"publishRef", "update"}
    BY <1>1 DEF FirstWrite
  <2>3. to \in JobType /\ to.at = place /\ to.tag = t /\ to.target = release[t].target /\ to.draft = draft
    BY <1>3, <2>2 DEF JobType, JobPlaces, RowType
  <2>4. findTagRef(t)' = findTagRef(t) /\ untagged' = untagged
    BY <2>1 DEF Refs, Ghosts, findTagRef
  <2>5. place = "publishRef" => release[t].target # NoSha
    BY <2>1 DEF FirstWrite
  <2>6. place = "update" /\ ~draft => Tagged(t)'
    <3>1. place = "update" /\ ~draft => findTagRef(t) \/ t \in untagged
      BY <1>1, <2>1, <2>2 DEF FirstWrite, IsPublishing, PublishedIsTagged, RowType
    <3> QED BY <2>4, <3>1 DEF Tagged
  <2> HIDE DEF to
  <2>7. PICK e \in JobType : e = to
    BY <2>3
  <2>8. JobIsSound(e)'
    <3>1. e.at \in {"publishRef", "update"} /\ (e.at = "publishRef" => e.target # NoSha)
      BY <2>2, <2>3, <2>5, <2>7
    <3>2. e.at = "update" /\ ~e.draft => Tagged(e.tag)'
      BY <2>3, <2>6, <2>7
    <3> QED BY <3>1, <3>2 DEF JobIsSound
  <2>9. job' = [job EXCEPT ![c] = e]
    BY <2>1, <2>7 DEF to
  <2>10. UNCHANGED <<ReleaseRows, ids>> /\ tagRef' = tagRef /\ tagObject' = tagObject /\ NothingIsLost
    BY <1>4, <2>1 DEF Refs
  <2> QED BY <1>1, <1>5, <2>8, <2>9, <2>10
<1>11. ASSUME NEW c \in ReleaseCallers, UpdateRelease(c) PROVE ReleasesInv'
  <2>1. job' = [job EXCEPT ![c] = NoJob] /\ NothingIsLost /\ job[c].at = "update"
    BY <1>4, <1>11 DEF UpdateRelease, Finish, JobAt
  <2>2. job' \in [ReleaseCallers -> JobType] /\ JobsAreSound'
    BY <1>3, <2>1, JobsStaySound
  <2> DEFINE t == job[c].tag
             row == [release[t] EXCEPT !.draft = job[c].draft, !.published = release[t].published \/ ~job[c].draft]
  <2>3. t \in Tags /\ job[c].draft \in BOOLEAN /\ release[t] \in RowType
    BY <1>1, <1>2 DEF JobType
  <2>4. row \in RowType /\ row.draft = job[c].draft
    BY <2>3 DEF RowType
  <2>5. ~row.draft => Tagged(t)
    BY <1>2, <2>1, <2>3, <2>4 DEF JobIsSound
  <2>6. release' = release \/ release' = [release EXCEPT ![t] = row]
    BY <1>11 DEF UpdateRelease
  <2>7. UNCHANGED <<Refs, gitTag, asset, bytes, ids, Ghosts>>
    BY <1>11 DEF UpdateRelease
  <2> HIDE DEF row, t
  <2>8. release' \in [Tags -> RowType]
    BY <1>1, <2>3, <2>4, <2>6
  <2>9. ReleasesTyped'
    BY <1>1, <2>2, <2>7, <2>8 DEF Refs, ReleasesTyped, RowType, RefType, JobType
  <2>10. PublishedIsTagged'
    <3>1. \A s \in Tags : release'[s] = release[s] \/ (s = t /\ release'[s] = row)
      BY <1>1, <2>3, <2>6
    <3> QED BY <1>1, <2>1, <2>5, <3>1 DEF PublishedIsTagged, NothingIsLost, Tagged, findTagRef
  <2>11. ListedHasBytes'
    BY <1>1, <2>7 DEF ListedHasBytes, Ghosts
  <2> QED BY <2>2, <2>9, <2>10, <2>11 DEF ReleasesInv
<1>12. ASSUME NEW c \in ReleaseCallers, DeleteRelease(c) PROVE ReleasesInv'
  <2>1. PICK t \in Tags :
           /\ release' = [release EXCEPT ![t] = NoRow]
           /\ asset' = [a \in AssetIds |-> IF asset[a] = release[t].id THEN 0 ELSE asset[a]]
           /\ job' = [job EXCEPT ![c] = NoJob] /\ UNCHANGED <<Refs, gitTag, bytes, ids, Ghosts>>
    BY <1>12 DEF DeleteRelease, Start
  <2>2. NothingIsLost
    BY <1>4, <2>1
  <2>3. job' \in [ReleaseCallers -> JobType] /\ JobsAreSound'
    BY <1>3, <2>1, <2>2, JobsStaySound
  <2>4. NoRow \in RowType
    BY DEF NoRow, RowType
  <2>5. release' \in [Tags -> RowType] /\ asset' \in [AssetIds -> Nat]
    BY <1>1, <2>1, <2>4
  <2>6. ReleasesTyped'
    BY <1>1, <2>1, <2>3, <2>5 DEF Refs, ReleasesTyped, RowType, RefType, JobType
  <2>7. PublishedIsTagged'
    <3>1. \A s \in Tags : release'[s] = release[s] \/ release'[s] = NoRow
      BY <1>1, <2>1
    <3> QED BY <1>1, <2>2, <3>1 DEF PublishedIsTagged, NothingIsLost, Tagged, findTagRef
  <2>8. ListedHasBytes'
    BY <1>1, <2>1 DEF ListedHasBytes, Ghosts
  <2> QED BY <2>3, <2>6, <2>7, <2>8 DEF ReleasesInv
<1>13. ASSUME NEW c \in ReleaseCallers, Upload(c) PROVE ReleasesInv'
  <2>1. PICK t \in Tags, a \in AssetIds :
           /\ job' = [job EXCEPT ![c] = [NoJob EXCEPT !.at = "put", !.tag = t, !.id = a, !.of = release[t].id]]
           /\ UNCHANGED <<Refs, ReleaseRows, bytes, ids, Ghosts>>
    BY <1>13 DEF Upload, Start
  <2>2. PICK e \in JobType : e = [NoJob EXCEPT !.at = "put", !.tag = t, !.id = a, !.of = release[t].id] /\ e.at = "put"
    <3>1. a \in Nat /\ release[t].id \in Nat
      BY <1>1 DEF RowType, AssetIds, ReleasesAssumption
    <3> DEFINE to == [NoJob EXCEPT !.at = "put", !.tag = t, !.id = a, !.of = release[t].id]
    <3>2. to \in JobType /\ to.at = "put"
      BY <1>3, <3>1 DEF JobType, JobPlaces
    <3> QED BY <3>2
  <2>3. JobIsSound(e)'
    BY <2>2 DEF JobIsSound
  <2>4. UNCHANGED <<ReleaseRows, ids>> /\ tagRef' = tagRef /\ tagObject' = tagObject /\ NothingIsLost
    BY <1>4, <2>1 DEF Refs
  <2>5. job' = [job EXCEPT ![c] = e]
    BY <2>1, <2>2
  <2> QED BY <1>1, <1>5, <2>3, <2>4, <2>5
<1>14. ASSUME NEW c \in ReleaseCallers, Store(c) PROVE ReleasesInv'
  <2>1. CASE JobAt(c, "put")
    <3>1. PICK e \in JobType : e = [job[c] EXCEPT !.at = "insertAsset"] /\ e.at = "insertAsset" /\ e.id = job[c].id
      <4>1. job[c] \in JobType
        BY <1>2
      <4> DEFINE to == [job[c] EXCEPT !.at = "insertAsset"]
      <4>2. to \in JobType /\ to.at = "insertAsset" /\ to.id = job[c].id
        BY <4>1 DEF JobType, JobPlaces
      <4> QED BY <4>2
    <3>2. bytes' = bytes \cup {job[c].id} /\ job' = [job EXCEPT ![c] = e] /\ UNCHANGED <<Refs, ReleaseRows, ids, Ghosts>>
      BY <1>6, <1>14, <2>1, <3>1 DEF Store, JobAt
    <3>3. JobIsSound(e)'
      BY <3>1, <3>2 DEF JobIsSound, Stored
    <3>4. UNCHANGED <<ReleaseRows, ids>> /\ tagRef' = tagRef /\ tagObject' = tagObject /\ NothingIsLost
      BY <3>2 DEF Refs, Ghosts, NothingIsLost, Tagged, Stored, findTagRef
    <3> QED BY <1>1, <1>5, <3>2, <3>3, <3>4
  <2>2. CASE JobAt(c, "insertAsset")
    <3>1. /\ asset' \in {asset, [asset EXCEPT ![job[c].id] = job[c].of]}
          /\ job' = [job EXCEPT ![c] = NoJob] /\ UNCHANGED <<Refs, gitTag, release, bytes, ids, Ghosts>>
      BY <1>14, <2>2 DEF Store, JobAt, Finish
    <3>2. job[c].of \in Nat /\ Stored(job[c].id)
      BY <1>2, <2>2 DEF JobType, JobIsSound, JobAt
    <3>3. job' \in [ReleaseCallers -> JobType] /\ JobsAreSound' /\ NothingIsLost
      BY <1>3, <1>4, <3>1, JobsStaySound
    <3>4. asset' \in [AssetIds -> Nat] /\ \A a \in AssetIds : asset'[a] = asset[a] \/ a = job[c].id
      BY <1>1, <3>1, <3>2
    <3>5. ReleasesTyped'
      BY <1>1, <3>1, <3>3, <3>4 DEF Refs, ReleasesTyped, RowType, RefType, JobType
    <3>6. PublishedIsTagged'
      BY <1>1, <3>1, <3>3 DEF PublishedIsTagged, NothingIsLost, Tagged, findTagRef
    <3>7. ListedHasBytes'
      BY <1>1, <3>2, <3>3, <3>4 DEF ListedHasBytes, NothingIsLost, Stored
    <3> QED BY <3>3, <3>5, <3>6, <3>7 DEF ReleasesInv
  <2> QED BY <1>14, <2>1, <2>2 DEF Store
<1>15. ASSUME NEW c \in ReleaseCallers, DeleteBytes(c) PROVE ReleasesInv'
  <2>1. PICK a \in AssetIds :
           /\ bytes' = bytes \ {a} /\ condemned' = condemned \cup {a}
           /\ job' = [job EXCEPT ![c] = [NoJob EXCEPT !.at = "deleteRow", !.id = a]]
           /\ UNCHANGED <<Refs, ReleaseRows, ids, untagged>>
    BY <1>15 DEF DeleteBytes, Start
  <2> DEFINE e == [NoJob EXCEPT !.at = "deleteRow", !.id = a]
  <2>2. e \in JobType /\ e.at = "deleteRow"
    <3>1. a \in Nat
      BY DEF AssetIds, ReleasesAssumption
    <3> QED BY <1>3, <3>1 DEF JobType, JobPlaces
  <2>3. JobIsSound(e)'
    BY <2>2 DEF JobIsSound
  <2>4. UNCHANGED <<ReleaseRows, ids>> /\ tagRef' = tagRef /\ tagObject' = tagObject /\ NothingIsLost
    BY <2>1 DEF Refs, NothingIsLost, Tagged, Stored, findTagRef
  <2> HIDE DEF e
  <2>5. job' = [job EXCEPT ![c] = e]
    BY <2>1 DEF e
  <2> QED BY <1>1, <1>5, <2>2, <2>3, <2>4, <2>5
<1>16. ASSUME NEW c \in ReleaseCallers, DeleteAssetRow(c) PROVE ReleasesInv'
  <2>1. /\ asset' = [asset EXCEPT ![job[c].id] = 0]
        /\ job' = [job EXCEPT ![c] = NoJob] /\ UNCHANGED <<Refs, gitTag, release, bytes, ids, Ghosts>>
    BY <1>16 DEF DeleteAssetRow, Finish
  <2>2. job' \in [ReleaseCallers -> JobType] /\ JobsAreSound' /\ NothingIsLost
    BY <1>3, <1>4, <2>1, JobsStaySound
  <2>3. asset' \in [AssetIds -> Nat] /\ \A a \in AssetIds : asset'[a] = asset[a] \/ asset'[a] = 0
    BY <1>1, <2>1
  <2>4. ReleasesTyped'
    BY <1>1, <2>1, <2>2, <2>3 DEF Refs, ReleasesTyped, RowType, RefType, JobType
  <2>5. PublishedIsTagged'
    BY <1>1, <2>1, <2>2 DEF PublishedIsTagged, NothingIsLost, Tagged, findTagRef
  <2>6. ListedHasBytes'
    BY <1>1, <2>2, <2>3 DEF ListedHasBytes, NothingIsLost, Stored
  <2> QED BY <2>2, <2>4, <2>5, <2>6 DEF ReleasesInv
<1>17. ASSUME NEW c \in ReleaseCallers, createTagHandler(c) PROVE ReleasesInv'
  <2>1. PICK t \in {s \in Tags : ~findTagRef(s)}, k \in TagTargets, annotated \in BOOLEAN :
           \E o \in IF annotated THEN {p \in TagObjectIds : tagObject[p] = NoSha} ELSE {0} :
              /\ tagObject' = IF annotated THEN [tagObject EXCEPT ![o] = k] ELSE tagObject
              /\ Start(c, [NoJob EXCEPT !.at = "writeTag", !.tag = t, !.target = k, !.id = o])
              /\ UNCHANGED <<tagRef, ReleaseRows, bytes, ids, Ghosts>>
    BY <1>17 DEF createTagHandler
  <2>2. PICK o \in IF annotated THEN {p \in TagObjectIds : tagObject[p] = NoSha} ELSE {0} :
           /\ tagObject' = IF annotated THEN [tagObject EXCEPT ![o] = k] ELSE tagObject
           /\ Start(c, [NoJob EXCEPT !.at = "writeTag", !.tag = t, !.target = k, !.id = o])
           /\ UNCHANGED <<tagRef, ReleaseRows, bytes, ids, Ghosts>>
    BY <2>1
  <2>3. o \in 0..MaxObjects /\ o \in Nat
    BY DEF TagObjectIds, ReleasesAssumption
  <2> DEFINE e == [NoJob EXCEPT !.at = "writeTag", !.tag = t, !.target = k, !.id = o]
  <2>4. e \in JobType /\ e.at = "writeTag" /\ e.id = o
    BY <1>3, <2>3 DEF JobType, JobPlaces
  <2>5. JobIsSound(e)'
    BY <2>3, <2>4 DEF JobIsSound
  <2>6. UNCHANGED <<ReleaseRows, ids>> /\ tagRef' = tagRef /\ NothingIsLost
    BY <2>2 DEF Ghosts, NothingIsLost, Tagged, Stored, findTagRef
  <2>7. tagObject' \in [TagObjectIds -> TagTargets \cup {NoSha}]
    BY <1>1, <2>2
  <2>8. Start(c, e)
    BY <2>2
  <2> HIDE DEF e
  <2>9. job' = [job EXCEPT ![c] = e]
    BY <2>8 DEF Start
  <2> QED BY <1>1, <1>5, <2>4, <2>5, <2>6, <2>7, <2>9
<1>18. ASSUME NEW c \in ReleaseCallers, WriteTag(c) PROVE ReleasesInv'
  <2>1. PICK e \in JobType, t \in Tags : e = [job[c] EXCEPT !.at = "cacheTag"] /\ e.at = "cacheTag" /\ t = job[c].tag
    <3>1. job[c] \in JobType
      BY <1>2
    <3> DEFINE to == [job[c] EXCEPT !.at = "cacheTag"]
    <3>2. to \in JobType /\ to.at = "cacheTag" /\ job[c].tag \in Tags
      BY <3>1 DEF JobType, JobPlaces
    <3> QED BY <3>2
  <2> DEFINE at == IF job[c].id = 0 THEN CommitAt(job[c].target) ELSE ObjectAt(job[c].id)
  <2>2. /\ tagRef' = tagRef \/ (~findTagRef(t) /\ tagRef' = [tagRef EXCEPT ![t] = at])
        /\ job' = [job EXCEPT ![c] = NoJob] \/ job' = [job EXCEPT ![c] = e]
        /\ UNCHANGED <<tagObject, ReleaseRows, bytes, ids, Ghosts>> /\ job[c].at = "writeTag"
    BY <1>6, <1>18, <2>1 DEF WriteTag, Finish, JobAt
  <2>3. job[c].target \in TagTargets \cup {NoSha} /\ job[c].id \in 0..MaxObjects
    BY <1>2, <2>2 DEF JobType, JobIsSound
  <2>4. at \in RefType
    BY <2>3 DEF RefType, CommitAt, ObjectAt, ReleasesAssumption
  <2>5. JobIsSound(e)'
    BY <2>1 DEF JobIsSound
  <2> HIDE DEF at
  <2>6. tagRef' \in [Tags -> RefType]
    BY <1>1, <2>2, <2>4
  <2>7. \A s \in Tags : findTagRef(s) => findTagRef(s)'
    BY <1>1, <2>2 DEF findTagRef
  <2>8. NothingIsLost
    BY <2>2, <2>7 DEF Ghosts, NothingIsLost, Tagged, Stored
  <2>9. CASE job' = [job EXCEPT ![c] = NoJob]
    BY <1>1, <1>3, <1>5, <2>2, <2>6, <2>8, <2>9
  <2>10. CASE job' = [job EXCEPT ![c] = e]
    BY <1>1, <1>5, <2>2, <2>5, <2>6, <2>8, <2>10
  <2> QED BY <2>2, <2>9, <2>10
<1>19. ASSUME NEW c \in ReleaseCallers, DeleteTag(c) PROVE ReleasesInv'
  <2>1. PICK t \in Tags :
           /\ tagRef' = [tagRef EXCEPT ![t] = NoRef] /\ untagged' = untagged \cup {t}
           /\ job' = [job EXCEPT ![c] = [NoJob EXCEPT !.at = "dropTag", !.tag = t]]
           /\ UNCHANGED <<tagObject, ReleaseRows, bytes, ids, condemned>>
    BY <1>19 DEF DeleteTag, Start
  <2> DEFINE e == [NoJob EXCEPT !.at = "dropTag", !.tag = t]
  <2>2. e \in JobType /\ e.at = "dropTag"
    BY <1>3 DEF JobType, JobPlaces
  <2>3. JobIsSound(e)'
    BY <2>2 DEF JobIsSound
  <2>4. NoRef \in RefType
    BY DEF NoRef, CommitAt, RefType, ReleasesAssumption
  <2>5. tagRef' \in [Tags -> RefType]
    BY <1>1, <2>1, <2>4
  <2>6. NothingIsLost
    BY <1>1, <2>1 DEF NothingIsLost, Tagged, Stored, findTagRef
  <2> HIDE DEF e
  <2>7. job' = [job EXCEPT ![c] = e]
    BY <2>1 DEF e
  <2> QED BY <1>1, <1>5, <2>1, <2>2, <2>3, <2>5, <2>6, <2>7
<1>20. ASSUME NEW c \in ReleaseCallers, CacheTag(c) \/ DropTag(c) \/ Die(c) PROVE ReleasesInv'
  <2>1. job' = [job EXCEPT ![c] = NoJob] /\ UNCHANGED <<Refs, release, asset, bytes, ids, Ghosts>>
    BY <1>20 DEF CacheTag, DropTag, Die, Finish, ReleaseRows
  <2>2. job' \in [ReleaseCallers -> JobType] /\ JobsAreSound' /\ NothingIsLost
    BY <1>3, <1>4, <2>1, JobsStaySound
  <2>3. ReleasesTyped'
    BY <1>1, <2>1, <2>2 DEF Refs, ReleasesTyped, RowType, RefType, JobType
  <2>4. PublishedIsTagged' /\ ListedHasBytes'
    BY <1>1, <2>1, <2>2 DEF PublishedIsTagged, ListedHasBytes, NothingIsLost, Tagged, Stored, findTagRef
  <2> QED BY <2>2, <2>3, <2>4 DEF ReleasesInv
<1>21. CASE UNCHANGED rvars
  BY <1>1, <1>21 DEF rvars, ReleasesInv, ReleasesTyped, RowType, RefType, JobType, PublishedIsTagged, ListedHasBytes,
     JobsAreSound, JobIsSound, Tagged, Stored, findTagRef
<1>22. ASSUME NEW c \in ReleaseCallers, CreateRefOfRelease(c) \/ PublishRef(c) PROVE ReleasesInv'
  BY <1>8, <1>22 DEF CreateRefOfRelease, PublishRef, JobAt
<1> QED BY <1>7, <1>9, <1>10, <1>11, <1>12, <1>13, <1>14, <1>15, <1>16, <1>17, <1>18, <1>19, <1>20, <1>21, <1>22
        DEF RNext, Handler, Step

\* releases.ts, assets.ts: a published release has its tag and a listed asset its bytes, until somebody
\* deletes them, in whatever order the writes of the handlers fall and wherever one ends.
THEOREM ReleasesStay == ReleasesAssumption => (RSpec => []ReleasesHold)
<1> SUFFICES ASSUME ReleasesAssumption PROVE RSpec => []ReleasesHold
  OBVIOUS
<1>1. RInit => ReleasesInv
  <2> SUFFICES ASSUME RInit PROVE ReleasesInv
    OBVIOUS
  <2>1. NoRow \in RowType /\ NoRef \in RefType
    BY DEF NoRow, RowType, NoRef, CommitAt, RefType, ReleasesAssumption
  <2>2. ReleasesTyped
    BY <2>1, NoJobIsSound DEF RInit, ReleasesTyped
  <2>3. PublishedIsTagged /\ ListedHasBytes
    BY DEF RInit, PublishedIsTagged, ListedHasBytes
  <2>4. JobsAreSound
    BY NoJobIsSound DEF RInit, JobsAreSound
  <2> QED BY <2>2, <2>3, <2>4 DEF ReleasesInv
<1>2. ReleasesInv /\ [RNext]_rvars => ReleasesInv'
  BY ReleasesInvKept
<1>3. ReleasesInv => ReleasesHold
  BY DEF ReleasesInv, ReleasesHold
<1> QED BY <1>1, <1>2, <1>3, PTL DEF RSpec

-----------------------------------------------------------------------------
(* Who a request is taken for.                                               *)

AnswerType ==
    [kind : {"invalid", "session", "accounts_unauthorized", "accounts_unavailable", "anonymous", "session_expired",
             "interface", "refused"},
     appRole : {NoRole, "owner", "member", "bad"}, member : BOOLEAN]
SessionType == [form : {Nothing, "v1", "v2"}, under : Configs, token : Nat, until : Nat, said : AnswerType]
StateType == [form : {Nothing, "state"}, nonce : Nat, secret : Nat, until : Nat]
TabType ==
    [at : TabPlaces, env : Configs, nonce : Nat, session : SessionType, bearer : Bearers, token : Nat, got : AnswerType,
     sets : {"nothing", "session", "clearState", "clearSession"}, new : SessionType, seen : SUBSET ClaimSet]

SessionsTyped ==
    /\ config \in Configs /\ claims \in ClaimSet
    /\ tokens \in Nat /\ clock \in Nat /\ sent \in Nat
    /\ jar \in [state : StateType, session : SessionType] /\ tab \in [Tabs -> TabType]

\* What an answer says of who asked is so by what Accounts said meanwhile.
IsProven(t) ==
    /\ t.got.appRole # NoRole => \E c \in t.seen : AppRole(t.session.under, c) = t.got.appRole
    /\ t.got.appRole = "owner" => t.session.under.capsule /\ \E c \in t.seen : c.capsule = "ours"
    /\ t.got.kind = "anonymous" => t.session.form = Nothing /\ t.bearer = Nothing

\* A request that is being verified has seen what Accounts says now; a sign-in is no such request.
TabIsSound(t) ==
    /\ t.at \in {"idle", "authorize", "exchange", "userinfo"} => t.seen = {}
    /\ t.at = "verify" => claims \in t.seen /\ t.got = Invalid
    /\ t.at = "reply" /\ t.seen # {} => IsProven(t)

SessionsInv == SessionsTyped /\ \A b \in Tabs : TabIsSound(tab[b])

\* Without a session and without a request everything has its type.
LEMMA QuietIsTyped ==
    ASSUME SessionsAssumption, config \in Configs
    PROVE  NoSession \in SessionType /\ Invalid \in AnswerType /\ Quiet \in TabType /\ NoState \in StateType
<1>1. Invalid \in AnswerType
  BY DEF Invalid, AnswerType, NoRole
<1>2. (CHOOSE x \in Configs : TRUE) \in Configs
  OBVIOUS
<1>3. NoSession \in SessionType
  BY <1>1, <1>2 DEF NoSession, SessionType
<1>4. Quiet \in TabType
  BY <1>1, <1>3 DEF Quiet, TabType, TabPlaces, Bearers
<1> QED BY <1>1, <1>3, <1>4 DEF NoState, StateType

\* An answer that differs from one without a role in its kind has none either.
HasNoRole(who) == who \in AnswerType /\ who.appRole = NoRole
LEMMA KindsHaveNoRole ==
    ASSUME NEW k \in {"accounts_unauthorized", "accounts_unavailable", "session_expired", "interface", "refused"},
           NEW who, HasNoRole(who)
    PROVE  HasNoRole([who EXCEPT !.kind = k]) /\ [who EXCEPT !.kind = k].kind = k
BY DEF HasNoRole, AnswerType

LEMMA NobodyHasNoRole == HasNoRole(Invalid) /\ HasNoRole(Anonymous) /\ \A m \in BOOLEAN : HasNoRole(User(NoRole, m))
BY DEF Invalid, Anonymous, User, HasNoRole, AnswerType, NoRole

\* What Accounts' answer is read as.
LEMMA AnswerIsHonest ==
    ASSUME SessionsAssumption, NEW g \in Configs, NEW c \in ClaimSet
    PROVE  /\ fetchUserInfo(g, c) \in AnswerType /\ fetchUserInfo(g, c).kind \in {"session", "invalid"}
           /\ fetchUserInfo(g, c).appRole # NoRole => fetchUserInfo(g, c).appRole = AppRole(g, c)
           /\ fetchUserInfo(g, c).appRole = "owner" => g.capsule /\ c.capsule = "ours"
<1>1. c \in Claims /\ g \in AllConfigs
  BY DEF SessionsAssumption
<1>2. AppRole(g, c) \in {NoRole, "owner", "member", "bad"}
  BY <1>1 DEF AppRole, Claims, NoRole
<1>3. LegacyMember(g, c) \in BOOLEAN
  BY <1>1 DEF LegacyMember, Claims, AllConfigs
<1>4. AppRole(g, c) = "owner" => c.nested /\ c.appRole = "owner" /\ g.capsule
  BY <1>1 DEF AppRole, Claims, NoRole
<1>5. ~Refused(g, c) /\ AppRole(g, c) = "owner" => g.capsule /\ c.capsule = "ours"
  BY <1>1, <1>4 DEF Refused, Claims, Evidence
<1>6. CASE Refused(g, c)
  BY <1>6 DEF fetchUserInfo, Invalid, AnswerType, NoRole
<1>7. CASE ~Refused(g, c)
  BY <1>2, <1>3, <1>5, <1>7 DEF fetchUserInfo, User, AnswerType
<1> QED BY <1>6, <1>7

\* Whom the Worker takes a request for.
LEMMA IdentityIsHonest ==
    ASSUME SessionsAssumption, SessionsTyped, NEW env \in Configs, NEW s \in SessionType,
           NEW bearer \in Bearers, NEW who, who = resolveIdentity(env, s, bearer, readBrowserSession(env, s))
    PROVE  /\ who \in AnswerType
           /\ who.appRole # NoRole => who.appRole = AppRole(s.under, claims)
           /\ who.appRole = "owner" => s.under.capsule /\ claims.capsule = "ours"
           /\ who.kind = "anonymous" => s.form = Nothing /\ bearer = Nothing
<1> DEFINE read == readBrowserSession(env, s)
<1>1. claims \in ClaimSet
  BY DEF SessionsTyped
<1>2. /\ read \in AnswerType /\ read.kind # "anonymous"
      /\ read.appRole # NoRole => read.appRole = AppRole(s.under, claims)
      /\ read.appRole = "owner" => s.under.capsule /\ claims.capsule = "ours"
  <2>1. CASE read = saidNow(env, s) /\ s.under = env
    BY <1>1, <2>1, AnswerIsHonest DEF saidNow
  <2>2. CASE read \in {Invalid, User(NoRole, TRUE), [Invalid EXCEPT !.kind = "accounts_unauthorized"]}
    <3>1. HasNoRole(read) /\ read.kind # "anonymous"
      <4>1. CASE read \in {Invalid, User(NoRole, TRUE)}
        <5>1. read.kind \in {"invalid", "session"}
          BY <4>1 DEF Invalid, User
        <5> QED BY <4>1, <5>1, NobodyHasNoRole
      <4>2. CASE read = [Invalid EXCEPT !.kind = "accounts_unauthorized"]
        BY <4>2, NobodyHasNoRole, KindsHaveNoRole
      <4> QED BY <2>2, <4>1, <4>2
    <3> QED BY <3>1 DEF HasNoRole, NoRole
  <2>3. (read = saidNow(env, s) /\ s.under = env)
        \/ read \in {Invalid, User(NoRole, TRUE), [Invalid EXCEPT !.kind = "accounts_unauthorized"]}
    BY DEF readBrowserSession, opens, SessionType
  <2> QED BY <2>1, <2>2, <2>3
<1> HIDE DEF read
<1>3. CASE who = read
  BY <1>2, <1>3
<1>4. CASE who # read
  <2>1. \/ who = Anonymous /\ s.form = Nothing /\ bearer = Nothing
        \/ who \in {[Invalid EXCEPT !.kind = "session_expired"], [Anonymous EXCEPT !.kind = "interface"],
                    [Invalid EXCEPT !.kind = "refused"]}
    BY <1>4 DEF resolveIdentity, read
  <2>2. CASE who = Anonymous /\ s.form = Nothing /\ bearer = Nothing
    <3>1. who \in AnswerType /\ who.appRole = NoRole
      BY <2>2 DEF Anonymous, AnswerType, NoRole
    <3> QED BY <2>2, <3>1 DEF NoRole
  <2>3. CASE who \in {[Invalid EXCEPT !.kind = "session_expired"], [Anonymous EXCEPT !.kind = "interface"],
                      [Invalid EXCEPT !.kind = "refused"]}
    <3>1. HasNoRole(who) /\ who.kind # "anonymous"
      BY <2>3, NobodyHasNoRole, KindsHaveNoRole
    <3> QED BY <3>1 DEF HasNoRole, NoRole
  <2> QED BY <2>1, <2>2, <2>3
<1> QED BY <1>3, <1>4

\* The answer to a sign-in that fails shows no claims.
LEMMA FailureIsTyped ==
    ASSUME SessionsAssumption, SessionsTyped
    PROVE  SignInFails \in TabType /\ SignInFails.at = "reply" /\ SignInFails.seen = {}
<1>1. Quiet \in TabType /\ Quiet.seen = {}
  BY QuietIsTyped DEF Quiet, SessionsTyped
<1> QED BY <1>1 DEF SignInFails, TabType, TabPlaces

\* A step of one tab that leaves it sound leaves the others so.
LEMMA TabsStaySound ==
    ASSUME SessionsInv, NEW b \in Tabs, NEW e \in TabType, tab' = [tab EXCEPT ![b] = e], TabIsSound(e)', claims' = claims
    PROVE  tab' \in [Tabs -> TabType] /\ \A d \in Tabs : TabIsSound(tab[d])'
<1>1. tab \in [Tabs -> TabType] /\ \A d \in Tabs : TabIsSound(tab[d])
  BY DEF SessionsInv, SessionsTyped
<1>2. \A d \in Tabs : tab'[d] = IF d = b THEN e ELSE tab[d]
  BY <1>1
<1>3. ASSUME NEW d \in Tabs, d # b PROVE TabIsSound(tab[d])'
  <2>1. tab'[d] = tab[d] /\ TabIsSound(tab[d])
    BY <1>1, <1>2, <1>3
  <2> QED BY <2>1 DEF TabIsSound, IsProven
<1>4. TabIsSound(tab[b])'
  <2>1. tab'[b] = e
    BY <1>2
  <2> QED BY <2>1 DEF TabIsSound, IsProven
<1> QED BY <1>1, <1>3, <1>4

\* Every step keeps the invariant.
LEMMA SessionsInvKept == ASSUME SessionsAssumption, SessionsInv, [SNext]_svars PROVE SessionsInv'
<1>1. /\ config \in Configs /\ claims \in ClaimSet
      /\ tokens \in Nat /\ clock \in Nat /\ sent \in Nat
      /\ jar \in [state : StateType, session : SessionType] /\ tab \in [Tabs -> TabType] /\ SessionsTyped
  BY DEF SessionsInv, SessionsTyped
<1>2. NoSession \in SessionType /\ Invalid \in AnswerType /\ Quiet \in TabType /\ NoState \in StateType /\ Quiet.seen = {}
  BY <1>1, QuietIsTyped DEF Quiet
<1>3. ASSUME NEW b \in Tabs PROVE tab[b] \in TabType /\ TabIsSound(tab[b])
  BY <1>1 DEF SessionsInv
<1>4. ASSUME NEW b \in Tabs, NEW e \in TabType, tab' = [tab EXCEPT ![b] = e], TabIsSound(e)', claims' = claims, config' = config,
             tokens' \in Nat, clock' = clock, sent' \in Nat, jar' \in [state : StateType, session : SessionType]
      PROVE  SessionsInv'
  <2>1. tab' \in [Tabs -> TabType] /\ \A d \in Tabs : TabIsSound(tab[d])'
    BY <1>4, TabsStaySound
  <2> QED BY <1>1, <1>4, <2>1 DEF SessionsInv, SessionsTyped, TabType, SessionType, StateType, AnswerType, TabPlaces, Bearers
\* A tab that waits for something that is no verification saw no claims before, and sees none then.
<1>5. ASSUME NEW e \in TabType, e.at # "verify", e.seen = {} PROVE TabIsSound(e)'
  BY <1>5 DEF TabIsSound
<1>6. ASSUME NEW b \in Tabs, Login(b) PROVE SessionsInv'
  <2> DEFINE to == [Quiet EXCEPT !.at = "authorize", !.nonce = sent + 1]
  <2>1. to \in TabType /\ to.at = "authorize" /\ to.seen = {}
    <3>1. sent + 1 \in Nat
      BY <1>1
    <3> QED BY <1>2, <3>1 DEF TabType, TabPlaces
  <2>2. tab' = [tab EXCEPT ![b] = to] /\ sent' = sent + 1 /\ UNCHANGED <<claims, tokens, config, clock>>
    BY <1>6 DEF Login, Send, Accounts, Elsewhere
  <2>3. PICK e \in TabType : e = to /\ e.at = "authorize" /\ e.seen = {}
    BY <2>1
  <2> HIDE DEF to
  <2>4. config.secret \in Nat /\ clock + StateAge \in Nat /\ sent + 1 \in Nat
    BY <1>1 DEF SessionsAssumption, AllConfigs
  <2>5. jar' = [jar EXCEPT !.state = [form |-> "state", nonce |-> sent + 1, secret |-> config.secret, until |-> clock + StateAge]]
    BY <1>6 DEF Login
  <2>6. jar' \in [state : StateType, session : SessionType]
    <3>1. [form |-> "state", nonce |-> sent + 1, secret |-> config.secret, until |-> clock + StateAge] \in StateType
      BY <2>4 DEF StateType
    <3> QED BY <1>1, <2>5, <3>1
  <2> QED BY <1>1, <1>4, <1>5, <2>2, <2>3, <2>4, <2>6
\* A step of a sign-in: it goes on to another, keeps its claims unseen, and changes no cookie yet.
<1>7. ASSUME NEW b \in Tabs, NEW e \in TabType, tab' = [tab EXCEPT ![b] = e], e.at # "verify", e.seen = {},
             UNCHANGED <<claims, config, clock, sent, jar>>, tokens' \in Nat
      PROVE  SessionsInv'
  BY <1>1, <1>4, <1>5, <1>7
<1>8. ASSUME NEW b \in Tabs, Callback(b) PROVE SessionsInv'
  <2> DEFINE to1 == [Quiet EXCEPT !.at = "exchange", !.env = config]
             to2 == SignInFails
  <2>1. to1 \in TabType /\ to1.at = "exchange" /\ to1.seen = {}
    BY <1>1, <1>2 DEF TabType, TabPlaces
  <2>2. to2 \in TabType /\ to2.at = "reply" /\ to2.seen = {}
    BY <1>1, FailureIsTyped
  <2>3. tab' = [tab EXCEPT ![b] = to1] \/ tab' = [tab EXCEPT ![b] = to2]
    BY <1>8 DEF Callback, Answered
  <2>4. UNCHANGED <<claims, config, clock, sent, jar, tokens>>
    BY <1>8 DEF Callback, Answered, Accounts, Elsewhere
  <2> HIDE DEF to1, to2
  <2>5. PICK e \in TabType : tab' = [tab EXCEPT ![b] = e] /\ e.at # "verify" /\ e.seen = {}
    BY <2>1, <2>2, <2>3
  <2> QED BY <1>1, <1>7, <2>4, <2>5
<1>9. ASSUME NEW b \in Tabs, Exchange(b) PROVE SessionsInv'
  <2> DEFINE to1 == [tab[b] EXCEPT !.at = "userinfo", !.token = tokens + 1]
             to2 == SignInFails
  <2>1. tab[b] \in TabType /\ tab[b].seen = {}
    BY <1>3, <1>9 DEF Exchange, TabIsSound
  <2>2. to1 \in TabType /\ to1.at = "userinfo" /\ to1.seen = {} /\ to2 \in TabType /\ to2.at = "reply" /\ to2.seen = {}
    <3>1. tokens + 1 \in Nat
      BY <1>1
    <3> QED BY <1>1, <2>1, <3>1, FailureIsTyped DEF TabType, TabPlaces
  <2>3. tab' = [tab EXCEPT ![b] = to1] \/ tab' = [tab EXCEPT ![b] = to2]
    BY <1>9 DEF Exchange, Answered
  <2>4. UNCHANGED <<claims, config, clock, sent, jar>> /\ tokens' \in Nat
    BY <1>1, <1>9 DEF Exchange, Answered, Accounts, Elsewhere
  <2> HIDE DEF to1, to2
  <2>5. PICK e \in TabType : tab' = [tab EXCEPT ![b] = e] /\ e.at # "verify" /\ e.seen = {}
    BY <2>2, <2>3
  <2> QED BY <1>7, <2>4, <2>5
<1>10. ASSUME NEW b \in Tabs, UserInfo(b) PROVE SessionsInv'
  <2> DEFINE env == tab[b].env
             said == fetchUserInfo(env, claims)
             sealed == SealedSession(env, tab[b].token, said)
             to1 == [Quiet EXCEPT !.at = "reply", !.sets = "session", !.new = sealed]
             to2 == SignInFails
  <2>1. tab[b] \in TabType /\ tab[b].token \in Nat /\ env \in Configs
    BY <1>3, <1>10 DEF UserInfo, TabType
  <2>2. tab' = [tab EXCEPT ![b] = to1] \/ tab' = [tab EXCEPT ![b] = to2]
    BY <1>10 DEF UserInfo, Answered
  <2>3. UNCHANGED <<claims, config, clock, sent, jar, tokens>>
    BY <1>10 DEF UserInfo, Answered, Accounts, Elsewhere
  <2>4. said \in AnswerType
    BY <1>1, <2>1, AnswerIsHonest
  <2> HIDE DEF said
  <2>5. sealed \in SessionType
    <3>1. clock + SessionAge \in Nat
      BY <1>1 DEF SessionsAssumption
    <3> QED BY <1>1, <2>1, <2>4, <3>1 DEF SealedSession, SessionType
  <2> HIDE DEF sealed
  <2>6. to1 \in TabType /\ to1.at = "reply" /\ to1.seen = {}
    BY <1>2, <2>5 DEF TabType, TabPlaces
  <2>7. to2 \in TabType /\ to2.at = "reply" /\ to2.seen = {}
    BY <1>1, FailureIsTyped
  <2> HIDE DEF to1, to2
  <2>8. PICK e \in TabType : tab' = [tab EXCEPT ![b] = e] /\ e.at # "verify" /\ e.seen = {}
    BY <2>2, <2>6, <2>7
  <2> QED BY <1>1, <1>7, <2>3, <2>8
<1>11. ASSUME NEW b \in Tabs, Logout(b) PROVE SessionsInv'
  <2> DEFINE to == [Quiet EXCEPT !.at = "reply", !.sets = "clearSession"]
  <2>1. to \in TabType /\ to.at = "reply" /\ to.seen = {}
    BY <1>2 DEF TabType, TabPlaces
  <2>2. tab' = [tab EXCEPT ![b] = to] /\ sent' = sent + 1 /\ UNCHANGED <<claims, tokens, config, clock, jar>>
    BY <1>11 DEF Logout, Send, Accounts, Elsewhere
  <2> HIDE DEF to
  <2>3. PICK e \in TabType : e = to /\ e.at = "reply" /\ e.seen = {}
    BY <2>1
  <2>4. sent + 1 \in Nat
    BY <1>1
  <2> QED BY <1>1, <1>4, <1>5, <2>2, <2>3, <2>4
<1>12. ASSUME NEW b \in Tabs, Ask(b) PROVE SessionsInv'
  <2>1. PICK bearer \in Bearers :
           /\ Send(b, [Quiet EXCEPT !.at = "verify", !.env = config, !.session = jar.session, !.bearer = bearer, !.seen = {claims}])
           /\ UNCHANGED jar
    BY <1>12 DEF Ask
  <2> DEFINE to == [Quiet EXCEPT !.at = "verify", !.env = config, !.session = jar.session, !.bearer = bearer, !.seen = {claims}]
  <2>2. jar.session \in SessionType /\ {claims} \in SUBSET ClaimSet
    BY <1>1
  <2>3. to \in TabType /\ to.at = "verify" /\ to.seen = {claims} /\ to.got = Quiet.got
    BY <1>1, <1>2, <2>2 DEF TabType, TabPlaces
  <2>4. Send(b, to)
    BY <2>1
  <2> HIDE DEF to
  <2>5. PICK e \in TabType : e = to
    BY <2>3
  <2>6. tab' = [tab EXCEPT ![b] = e] /\ sent' = sent + 1 /\ UNCHANGED <<claims, tokens, config, clock, jar>>
    BY <2>1, <2>4, <2>5 DEF Send, Accounts, Elsewhere
  <2>7. e.at = "verify" /\ claims' \in e.seen /\ e.got = Invalid
    BY <2>3, <2>5, <2>6 DEF Quiet
  <2>8. TabIsSound(e)'
    BY <2>7 DEF TabIsSound
  <2>9. sent + 1 \in Nat
    BY <1>1
  <2> QED BY <1>1, <1>4, <2>6, <2>8, <2>9
<1>13. ASSUME NEW b \in Tabs, Verify(b) PROVE SessionsInv'
  <2> DEFINE env == tab[b].env
             s == tab[b].session
             who == resolveIdentity(env, s, tab[b].bearer, readBrowserSession(env, s))
             sets == IF who.kind = "accounts_unauthorized" THEN "clearSession" ELSE "nothing"
             to1 == [tab[b] EXCEPT !.at = "reply", !.got = who, !.sets = sets]
             none == [tab[b].got EXCEPT !.kind = "accounts_unavailable"]
             to2 == [tab[b] EXCEPT !.at = "reply", !.got = none]
  <2>1. /\ tab[b] \in TabType /\ claims \in tab[b].seen /\ tab[b].got = Invalid
        /\ env \in Configs /\ s \in SessionType /\ tab[b].bearer \in Bearers
    BY <1>3, <1>13 DEF Verify, TabIsSound, TabType
  <2>2. tab' = [tab EXCEPT ![b] = to1] \/ tab' = [tab EXCEPT ![b] = to2]
    BY <1>13 DEF Verify, Answered
  <2>3. UNCHANGED <<claims, config, clock, sent, jar, tokens>>
    BY <1>13 DEF Verify, Answered, Accounts, Elsewhere
  <2>4. /\ who \in AnswerType
        /\ who.appRole # NoRole => who.appRole = AppRole(s.under, claims)
        /\ who.appRole = "owner" => s.under.capsule /\ claims.capsule = "ours"
        /\ who.kind = "anonymous" => s.form = Nothing /\ tab[b].bearer = Nothing
    BY <1>1, <2>1, IdentityIsHonest
  <2> HIDE DEF who
  <2>5. sets \in {"clearSession", "nothing"}
    OBVIOUS
  <2> HIDE DEF sets
  <2>6. to1 \in TabType /\ to1.at = "reply" /\ to1.got = who /\ to1.seen = tab[b].seen /\ to1.session = s /\ to1.bearer = tab[b].bearer
    BY <2>1, <2>4, <2>5 DEF TabType, TabPlaces
  <2>7. none \in AnswerType /\ none.kind = "accounts_unavailable" /\ none.appRole = NoRole
    BY <2>1, NobodyHasNoRole, KindsHaveNoRole DEF HasNoRole
  <2> HIDE DEF none
  <2>8. to2 \in TabType /\ to2.at = "reply" /\ to2.got = none
    BY <2>1, <2>7 DEF TabType, TabPlaces
  <2> HIDE DEF to1, to2
  <2>9. CASE tab' = [tab EXCEPT ![b] = to1]
    <3>1. PICK e \in TabType : e = to1
      BY <2>6
    <3>2. IsProven(e)
      BY <2>1, <2>4, <2>6, <3>1 DEF IsProven
    <3>3. TabIsSound(e)'
      BY <2>6, <3>1, <3>2 DEF TabIsSound, IsProven
    <3> QED BY <1>1, <1>4, <2>3, <2>9, <3>1, <3>3
  <2>10. CASE tab' = [tab EXCEPT ![b] = to2]
    <3>1. PICK e \in TabType : e = to2
      BY <2>8
    <3>2. IsProven(e)
      BY <2>7, <2>8, <3>1 DEF IsProven, NoRole
    <3>3. TabIsSound(e)'
      BY <2>8, <3>1, <3>2 DEF TabIsSound, IsProven
    <3> QED BY <1>1, <1>4, <2>3, <2>10, <3>1, <3>3
  <2> QED BY <2>2, <2>9, <2>10
<1>14. ASSUME NEW b \in Tabs, Reply(b) PROVE SessionsInv'
  <2> DEFINE state == IF tab[b].sets \in {"clearState", "session"} THEN NoState ELSE jar.state
             session == IF tab[b].sets = "session" THEN tab[b].new
                        ELSE IF tab[b].sets = "clearSession" THEN NoSession ELSE jar.session
  <2>1. tab[b].new \in SessionType /\ jar.state \in StateType /\ jar.session \in SessionType
    BY <1>1, <1>3 DEF TabType
  <2>2. state \in StateType /\ session \in SessionType
    BY <1>2, <2>1
  <2>3. jar' = [state |-> state, session |-> session] /\ tab' = [tab EXCEPT ![b] = Quiet]
        /\ UNCHANGED <<claims, config, clock, sent, tokens>>
    BY <1>14 DEF Reply, Answered, Accounts, Elsewhere
  <2> HIDE DEF state, session
  <2>4. jar' \in [state : StateType, session : SessionType]
    BY <2>2, <2>3
  <2>5. Quiet.at # "verify"
    BY DEF Quiet
  <2>6. PICK e \in TabType : e = Quiet
    BY <1>2
  <2>7. TabIsSound(e)'
    BY <1>2, <1>5, <2>5, <2>6
  <2> QED BY <1>1, <1>4, <2>3, <2>4, <2>6, <2>7
\* Accounts comes to say something else, and all that are being verified have seen it.
<1>15. CASE ChangeClaims
  <2>1. PICK c \in ClaimSet \ {claims} :
           /\ claims' = c
           /\ tab' = [b \in Tabs |-> IF tab[b].at = "verify" THEN [tab[b] EXCEPT !.seen = @ \cup {c}] ELSE tab[b]]
    BY <1>15 DEF ChangeClaims
  <2>2. UNCHANGED <<config, tokens, jar, clock, sent>>
    BY <1>15 DEF ChangeClaims
  <2>3. ASSUME NEW b \in Tabs PROVE tab'[b] \in TabType /\ TabIsSound(tab[b])'
    <3>1. tab[b] \in TabType /\ TabIsSound(tab[b])
      BY <1>3
    <3>2. CASE tab[b].at # "verify"
      <4>1. tab'[b] = tab[b]
        BY <2>1, <3>2
      <4> QED BY <3>1, <3>2, <4>1 DEF TabIsSound, IsProven
    <3>3. CASE tab[b].at = "verify"
      <4> DEFINE to == [tab[b] EXCEPT !.seen = tab[b].seen \cup {c}]
      <4>1. tab'[b] = to
        BY <2>1, <3>3
      <4>2. to \in TabType /\ to.at = "verify" /\ to.seen = tab[b].seen \cup {c} /\ to.got = tab[b].got
        BY <3>1, <3>3 DEF TabType
      <4> HIDE DEF to
      <4> QED BY <2>1, <3>1, <3>3, <4>1, <4>2 DEF TabIsSound
    <3> QED BY <3>2, <3>3
  <2>4. tab' \in [Tabs -> TabType]
    BY <2>1, <2>3
  <2> QED BY <1>1, <2>1, <2>2, <2>3, <2>4
          DEF SessionsInv, SessionsTyped, TabType, SessionType, StateType, AnswerType, TabPlaces, Bearers
\* Nothing else touches a tab.
<1>16. ASSUME UNCHANGED <<tab, claims, tokens, jar, sent>>, clock' \in Nat, config' \in Configs PROVE SessionsInv'
  <2>1. \A b \in Tabs : TabIsSound(tab[b])'
    BY <1>3, <1>16 DEF TabIsSound, IsProven
  <2> QED BY <1>1, <1>16, <2>1 DEF SessionsInv, SessionsTyped, TabType, SessionType, StateType, AnswerType, TabPlaces, Bearers
<1>17. CASE Revoke \/ Deploy \/ Tick
  BY <1>1, <1>16, <1>17 DEF Revoke, Deploy, Tick, Accounts
<1>18. CASE UNCHANGED svars
  BY <1>1, <1>16, <1>18 DEF svars
<1> QED BY <1>6, <1>8, <1>9, <1>10, <1>11, <1>12, <1>13, <1>14, <1>15, <1>17, <1>18 DEF SNext

\* browser-auth.ts, identity.ts: whoever a request is taken for was proven while it ran, however
\* sign-ins, answers, deployments and changes at Accounts fall between.
THEOREM IdentityStaysProven == SessionsAssumption => (SSpec => []IdentityIsProven)
<1> SUFFICES ASSUME SessionsAssumption PROVE SSpec => []IdentityIsProven
  OBVIOUS
<1>1. SInit => SessionsInv
  <2> SUFFICES ASSUME SInit PROVE SessionsInv
    OBVIOUS
  <2>1. config \in Configs /\ claims \in ClaimSet
    BY DEF SInit
  <2>2. NoSession \in SessionType /\ Quiet \in TabType /\ NoState \in StateType
    BY <2>1, QuietIsTyped
  <2>3. LegacySession(config) \in SessionType
    <3>1. config.workspace \in BOOLEAN /\ SessionAge \in Nat
      BY <2>1 DEF SessionsAssumption, AllConfigs
    <3>2. User(NoRole, config.workspace) \in AnswerType
      BY <3>1 DEF User, AnswerType
    <3> QED BY <2>1, <3>1, <3>2 DEF LegacySession, SessionType
  <2>4. jar \in [state : StateType, session : SessionType]
    BY <2>2, <2>3 DEF SInit
  <2>5. SessionsTyped
    BY <2>1, <2>2, <2>4 DEF SInit, SessionsTyped
  <2>6. \A b \in Tabs : TabIsSound(tab[b])
    BY DEF SInit, Quiet, TabIsSound
  <2> QED BY <2>5, <2>6 DEF SessionsInv
<1>2. SessionsInv /\ [SNext]_svars => SessionsInv'
  BY SessionsInvKept
<1>3. SessionsInv => IdentityIsProven
  BY DEF SessionsInv, TabIsSound, IsProven, IdentityIsProven
<1> QED BY <1>1, <1>2, <1>3, PTL DEF SSpec

=============================================================================
