------------------------------- MODULE Serving -------------------------------
(***************************************************************************)
(* What runs around every request (worker.ts, lifecycle.ts, ensure-schema.ts). *)
(* Isolates come and go; each brings the database up to date once, before the   *)
(* first request it serves, in one transaction a version.  A request starts      *)
(* work that its answer does not wait for: the runtime owns it where it gave a    *)
(* context, and otherwise the answer waits, because what still runs when a         *)
(* request is over and nobody owns is cancelled.                                   *)
(***************************************************************************)
EXTENDS Naturals, FiniteSets

CONSTANTS
    Isolates, Requests,
    migrations,      \* how many versions there are
    Deferred,        \* the requests that come with an ExecutionContext
    Scheduled,       \* those that are cron's
    NoIsolate,
    MaxTrouble        \* bound: D1 calls that fail, isolates that die

ServingAssumption ==
    /\ migrations \in Nat \ {0} /\ MaxTrouble \in Nat
    /\ Deferred \subseteq Requests /\ Scheduled \subseteq Requests /\ NoIsolate \notin Isolates

SchemaVersions == 1..migrations
Tasks == {"drain", "event", "further"}

VARIABLES
    altered,    \* D1: version -> how often its statements took effect
    ledger,     \* D1: schema_migrations
    isolate,    \* isolate -> what its `pending` is at, and the version
    served,     \* request -> where it is, on which isolate, and the tasks its answer awaits
    tasks,      \* request -> its tasks that run
    started,    \* request -> its tasks that were ever started
    dropped,    \* the tasks that were cut off before their end, with the request that was over or the isolate that died
    trouble

wvars == <<altered, ledger, isolate, served, tasks, started, dropped, trouble>>

Fresh == [at |-> "none", version |-> 1]
NewRequest == [at |-> "new", on |-> NoIsolate, awaits |-> {}]

WTypeOK ==
    /\ altered \in [SchemaVersions -> Nat] /\ ledger \in SUBSET SchemaVersions
    /\ isolate \in [Isolates -> [at : {"none", "lookup", "batch", "recheck", "done"}, version : SchemaVersions]]
    /\ served \in [Requests -> [at : {"new", "schema", "handle", "settle", "answered", "failed"},
                               on : Isolates \cup {NoIsolate}, awaits : SUBSET Tasks]]
    /\ tasks \in [Requests -> SUBSET Tasks] /\ started \in [Requests -> SUBSET Tasks]
    /\ dropped \in SUBSET (Requests \X Tasks \X {"request", "isolate"}) /\ trouble \in 0..MaxTrouble

WInit ==
    /\ altered = [v \in SchemaVersions |-> 0] /\ ledger = {}
    /\ isolate = [i \in Isolates |-> Fresh]
    /\ served = [r \in Requests |-> NewRequest]
    /\ tasks = [r \in Requests |-> {}] /\ started = [r \in Requests |-> {}]
    /\ dropped = {} /\ trouble = 0

Trouble == trouble < MaxTrouble /\ trouble' = trouble + 1

-----------------------------------------------------------------------------
(* ensureSchema                                                              *)

\* A request arrives at an isolate; the first one starts the migrations.
Arrive(r, i) ==
    /\ served[r].at = "new" /\ served' = [served EXCEPT ![r].at = "schema", ![r].on = i]
    /\ isolate' = [isolate EXCEPT ![i].at = IF @ = "none" THEN "lookup" ELSE @]
    /\ UNCHANGED <<altered, ledger, tasks, started, dropped, trouble>>

PlaceIsolate(i, where) == isolate' = [isolate EXCEPT ![i].at = where]
NextVersion(i) ==
    isolate' = [isolate EXCEPT ![i].at = IF isolate[i].version = migrations THEN "done" ELSE "lookup",
                               ![i].version = IF @ = migrations THEN @ ELSE @ + 1]

\* The ledger is asked; where it does not answer, and before version 1 there is none, the version
\* counts as missing.
Lookup(i) ==
    LET v == isolate[i].version
    IN /\ isolate[i].at = "lookup"
       /\ \/ v \in ledger /\ NextVersion(i) /\ UNCHANGED trouble
          \/ v \notin ledger /\ PlaceIsolate(i, "batch") /\ UNCHANGED trouble
          \/ v \in ledger /\ Trouble /\ PlaceIsolate(i, "batch")
       /\ UNCHANGED <<altered, ledger, served, tasks, started, dropped>>

\* The tables of version 1 are created if they are not there; what the later ones add must be new,
\* and the tables there.
Applies(v) == v = 1 \/ (altered[v] = 0 /\ altered[1] > 0)
Commit(v) ==
    /\ altered' = [altered EXCEPT ![v] = IF v = 1 THEN 1 ELSE @ + 1]
    /\ ledger' = ledger \cup {v}

\* Statements and ledger row commit together, or fail together; an answer may be lost.
Batch(i) ==
    LET v == isolate[i].version
    IN /\ isolate[i].at = "batch"
       /\ \/ Applies(v) /\ Commit(v) /\ NextVersion(i) /\ UNCHANGED trouble
          \/ ~Applies(v) /\ PlaceIsolate(i, "recheck") /\ UNCHANGED <<altered, ledger, trouble>>
          \/ Applies(v) /\ Trouble /\ PlaceIsolate(i, "recheck") /\ (Commit(v) \/ UNCHANGED <<altered, ledger>>)
       /\ UNCHANGED <<served, tasks, started, dropped>>

\* Mutant: the version is there unless the ledger is heard to say otherwise.
UnlessDenied(v, heard) == heard => v \in ledger
wonElsewhere(v, heard) == heard /\ v \in ledger

\* A failed batch is forgiven if the ledger now has the version; otherwise every request that
\* waits for this isolate's migrations fails, and the next one starts again.
Recheck(i) ==
    LET v == isolate[i].version
    IN /\ isolate[i].at = "recheck"
       /\ \E heard \in BOOLEAN :
            /\ IF heard THEN UNCHANGED trouble ELSE Trouble
            /\ IF wonElsewhere(v, heard) THEN NextVersion(i) /\ UNCHANGED served
               ELSE /\ isolate' = [isolate EXCEPT ![i] = Fresh]
                    /\ served' = [r \in Requests |-> IF served[r].on = i /\ served[r].at = "schema"
                                                     THEN [served[r] EXCEPT !.at = "failed"] ELSE served[r]]
       /\ UNCHANGED <<altered, ledger, tasks, started, dropped>>

-----------------------------------------------------------------------------
(* The request and what it leaves behind                                     *)

Run(r, t) == tasks' = [tasks EXCEPT ![r] = @ \cup {t}] /\ started' = [started EXCEPT ![r] = @ \cup {t}]

\* dispatchRequest, scheduledHandler: past the migrations the maintenance is started.
StartDrain(r) ==
    /\ served[r].at = "schema" /\ isolate[served[r].on].at = "done"
    /\ served' = [served EXCEPT ![r].at = "handle"] /\ Run(r, "drain")
    /\ UNCHANGED <<altered, ledger, isolate, dropped, trouble>>

\* The handler has changed something and tells of it.
Emit(r) ==
    /\ served[r].at = "handle" /\ r \notin Scheduled /\ "event" \notin started[r]
    /\ Run(r, "event") /\ UNCHANGED <<altered, ledger, isolate, served, dropped, trouble>>

\* What a task was started for starts another.
Further(r) ==
    /\ "event" \in tasks[r] /\ "further" \notin started[r]
    /\ Run(r, "further") /\ UNCHANGED <<altered, ledger, isolate, served, dropped, trouble>>

\* guarded: a task ends, well or badly, and nobody else notices.
End(r, t) ==
    /\ t \in tasks[r] /\ tasks' = [tasks EXCEPT ![r] = @ \ {t}]
    /\ UNCHANGED <<altered, ledger, isolate, served, started, dropped, trouble>>

\* A request is over: the tasks that only it kept alive are cancelled.
Over(r, how) ==
    /\ served' = [served EXCEPT ![r].at = how]
    /\ IF r \in Deferred THEN UNCHANGED <<tasks, dropped>>
       ELSE /\ dropped' = dropped \cup ({r} \X tasks[r] \X {"request"}) /\ tasks' = [tasks EXCEPT ![r] = {}]

\* The response is there, and settled() is called.
Respond(r) ==
    /\ served[r].at = "handle" /\ served' = [served EXCEPT ![r].at = "settle", ![r].awaits = tasks[r]]
    /\ UNCHANGED <<altered, ledger, isolate, tasks, started, dropped, trouble>>

Drained(r) == r \in Deferred \/ tasks[r] = {}

Settle(r) ==
    /\ served[r].at = "settle"
    /\ \/ Drained(r) /\ Over(r, "answered")
       \/ ~Drained(r) /\ served[r].awaits \cap tasks[r] = {}
          /\ served' = [served EXCEPT ![r].awaits = tasks[r]] /\ UNCHANGED <<tasks, dropped>>
    /\ UNCHANGED <<altered, ledger, isolate, started, trouble>>

\* The handler throws, and with it fetchHandler.
Throw(r) ==
    /\ served[r].at = "handle" /\ r \notin Scheduled /\ Trouble /\ Over(r, "failed")
    /\ UNCHANGED <<altered, ledger, isolate, started>>

\* An isolate dies with all it runs.
Evict(i) ==
    /\ isolate[i] # Fresh /\ Trouble /\ isolate' = [isolate EXCEPT ![i] = Fresh]
    /\ served' = [r \in Requests |-> IF served[r].on = i /\ served[r].at \notin {"answered", "failed"}
                                     THEN [served[r] EXCEPT !.at = "failed"] ELSE served[r]]
    /\ tasks' = [r \in Requests |-> IF served[r].on = i THEN {} ELSE tasks[r]]
    /\ dropped' = dropped \cup {cut \in Requests \X Tasks \X {"isolate"} :
                                  served[cut[1]].on = i /\ cut[2] \in tasks[cut[1]]}
    /\ UNCHANGED <<altered, ledger, started>>

WNext ==
    \/ \E i \in Isolates : Lookup(i) \/ Batch(i) \/ Recheck(i) \/ Evict(i) \/ \E r \in Requests : Arrive(r, i)
    \/ \E r \in Requests : \/ StartDrain(r) \/ Emit(r) \/ Further(r) \/ Respond(r) \/ Settle(r) \/ Throw(r)
                           \/ \E t \in Tasks : End(r, t)

WSpec == WInit /\ [][WNext]_wvars

-----------------------------------------------------------------------------

\* ensure-schema.ts, "an ALTER cannot be left half-applied and unrecorded": whatever isolates
\* race, and whichever calls fail, a request that is served sees every version, each
\* applied once.
SchemaIsWhole ==
    \A r \in Requests : served[r].at \in {"handle", "settle", "answered"} =>
        ledger = SchemaVersions /\ \A v \in SchemaVersions : altered[v] = 1

\* worker.ts, "the third argument controls latency, not correctness": the end of a request that
\* answered cut off none of its tasks.  One that came without a context answers when all of them,
\* and what they started, have ended, so that the death of its isolate cuts off nothing either; a
\* deferred one can still lose a task that way.
AnsweredKeepsWork ==
    \A r \in Requests : served[r].at = "answered" =>
        /\ \A t \in Tasks : <<r, t, "request">> \notin dropped
        /\ r \notin Deferred => tasks[r] = {} /\ \A t \in Tasks : <<r, t, "isolate">> \notin dropped

\* What whoever calls the Worker relies on.
ServingHolds == SchemaIsWhole /\ AnsweredKeepsWork

\* lifecycle.ts:23, of a scope without a context: "slower but never lost".
NeverLost == dropped = {}
=============================================================================
