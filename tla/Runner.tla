------------------------------- MODULE Runner -------------------------------
(***************************************************************************)
(* One job in its container (containers/runner/src, with job-runner-do.ts,     *)
(* internal-routes.ts, hmac.ts, tar.ts and policy.ts of features/actions/       *)
(* runner).  The Durable Object posts the job to the container and waits, no     *)
(* longer than the job's timeout; the container runs the steps one after the      *)
(* other and sends its log in chunks, one call at a time; the Worker appends a    *)
(* chunk by reading the stored log and writing it back longer.                    *)
(***************************************************************************)
EXTENDS Integers, Sequences, SequencesExt, FiniteSets

CONSTANTS
    Executions,   \* how often the job is posted to a container
    Plans,        \* the steps the job may have: sequences of step records
    MaxOutput,    \* bound: chunks a step's command puts out
    Cap,          \* maxStepLogBytes, in chunks
    TokenLife,    \* life of the callback token, in ticks
    MaxTicks,     \* bound: ticks
    MaxMishaps   \* bound: callbacks that fail on the way

VARIABLES
    plan,         \* the job's steps
    exec,         \* execution -> where the container is in the job
    chain,        \* execution -> the chunks of the log sink's chain, the first one under way first
    wire,         \* execution -> appends the Worker has begun: the log it has read
    log,          \* the stored log
    acked,        \* ghost: chunks the Worker has answered for, truncated ones apart
    artifacts,    \* workflow_run_artifacts: the names of its rows, one entry per row
    verdict,      \* execution -> what the Durable Object has reported
    ticks, mishaps  \* counters for the bounds

nvars == <<plan, exec, chain, wire, log, acked, artifacts, verdict, ticks, mishaps>>

StepKinds == {"run", "checkout", "upload", "download", "unsupported", "empty"}
StepRecords == [kind : StepKinds, goesOn : BOOLEAN]   \* goesOn: continue-on-error
PlansAssumption == Plans \subseteq Seq(StepRecords)

StepConclusions == {"success", "failure", "timed_out", "skipped"}
Notice == [exec |-> 0, n |-> 0]   \* the line "log truncated"; executions are not 0
NotYet == "none"
FreshExec == [at |-> "waiting", made |-> 0, reports |-> <<>>, failed |-> FALSE, broken |-> FALSE]

NTypeOK ==
    /\ plan \in Plans /\ ticks \in 0..MaxTicks
    /\ \A d \in Executions :
        /\ exec[d].at \in {"waiting", "next", "header", "step", "answered", "crashed"}
        /\ Len(exec[d].reports) <= Len(plan) /\ ToSet(exec[d].reports) \subseteq StepConclusions
        /\ verdict[d] \in {NotYet, "success", "failure", "timed_out"}

NInit ==
    /\ plan \in Plans
    /\ exec = [d \in Executions |-> FreshExec] /\ chain = [d \in Executions |-> <<>>]
    /\ wire = [d \in Executions |-> {}] /\ log = <<>> /\ acked = {} /\ artifacts = <<>>
    /\ verdict = [d \in Executions |-> NotYet] /\ ticks = 0 /\ mishaps = 0

LogStored == <<log, acked, artifacts>>
Counters == <<ticks, mishaps>>

-----------------------------------------------------------------------------
(* The step loop (executeJob).                                                 *)
JobAt(d, place) == exec[d].at = place
CurrentStep(d) == plan[Len(exec[d].reports) + 1]
Chunk(d, k, size) == [exec |-> d, n |-> k, size |-> size]
\* append: chunks are put at the end of the chain; `log` waits until the chain is through.
Say(d, count, size) == chain' = [chain EXCEPT ![d] = @ \o [i \in 1..count |-> Chunk(d, exec[d].made + i, size)]]
ChainDrained(d) == chain[d] = <<>>

Post(d) ==
    /\ JobAt(d, "waiting") /\ exec' = [exec EXCEPT ![d].at = "next"]
    /\ UNCHANGED <<plan, chain, wire, LogStored, verdict, Counters>>

\* The next step: its header is logged and waited for; after a failure it is skipped.
BeginStep(d) ==
    /\ JobAt(d, "next") /\ Len(exec[d].reports) < Len(plan)
    /\ IF exec[d].failed
       THEN exec' = [exec EXCEPT ![d].reports = Append(@, "skipped")] /\ UNCHANGED chain
       ELSE exec' = [exec EXCEPT ![d].at = "header", ![d].made = @ + 1] /\ Say(d, 1, 1)
    /\ UNCHANGED <<plan, wire, LogStored, verdict, Counters>>
HeaderLogged(d) ==
    /\ JobAt(d, "header") /\ ChainDrained(d) /\ ~exec[d].broken
    /\ exec' = [exec EXCEPT ![d].at = "step"] /\ UNCHANGED <<plan, chain, wire, LogStored, verdict, Counters>>

\* runStep.  A command's output is logged without waiting for it.  An artifact's route
\* answers POST alone, so a download fails; an unknown action fails; so may a callback.
Outcomes(kind) ==
    CASE kind = "run" -> {"success", "failure", "timed_out"}
      [] kind \in {"checkout", "upload"} -> {"success", "failure"}
      [] kind \in {"download", "unsupported"} -> {"failure"}
      [] kind = "empty" -> {"success"}
RunStep(d) ==
    /\ JobAt(d, "step")
    /\ \E outcome \in Outcomes(CurrentStep(d).kind), count \in IF CurrentStep(d).kind = "run" THEN 0..MaxOutput ELSE {0} :
        /\ Say(d, count, 2)
        /\ exec' = [exec EXCEPT ![d].at = "next", ![d].made = @ + count,
                                ![d].failed = outcome # "success" /\ ~CurrentStep(d).goesOn,
                                ![d].reports = Append(@, outcome)]
        /\ artifacts' = IF CurrentStep(d).kind = "upload" /\ outcome = "success" THEN Append(artifacts, d) ELSE artifacts
    /\ UNCHANGED <<plan, wire, log, acked, verdict, Counters>>

\* The conclusion of the step that failed the job.
JobConclusion(d) ==
    LET hard == {i \in DOMAIN exec[d].reports : exec[d].reports[i] # "success" /\ ~plan[i].goesOn} IN
    IF hard = {} THEN "success" ELSE exec[d].reports[CHOOSE i \in hard : \A j \in hard : i <= j]

AnswerJob(d) ==
    /\ JobAt(d, "next") /\ Len(exec[d].reports) = Len(plan)
    /\ exec' = [exec EXCEPT ![d].at = "answered"]
    /\ verdict' = [verdict EXCEPT ![d] = IF @ = NotYet THEN JobConclusion(d) ELSE @]
    /\ UNCHANGED <<plan, chain, wire, LogStored, Counters>>
\* A log that cannot be sent rejects the job: the container answers 500, the Durable
\* Object reports a failure.
Crash(d) ==
    /\ JobAt(d, "header") /\ exec[d].broken
    /\ exec' = [exec EXCEPT ![d].at = "crashed"]
    /\ verdict' = [verdict EXCEPT ![d] = IF @ = NotYet THEN "failure" ELSE @]
    /\ UNCHANGED <<plan, chain, wire, LogStored, Counters>>

\* executeInContainer: the Durable Object stops waiting; the container is not told.
Timeout(d) ==
    /\ exec[d].at \in {"next", "header", "step"} /\ verdict[d] = NotYet
    /\ verdict' = [verdict EXCEPT ![d] = "failure"]
    /\ UNCHANGED <<plan, exec, chain, wire, LogStored, Counters>>

-----------------------------------------------------------------------------
(* The log (makeLogSink, appendLogs).                                           *)
TokenHolds == ticks <= TokenLife

NothingUnderWay(d) == wire[d] = {}

\* The Worker reads the log for the next chunk of the chain.
SendChunk(d) ==
    /\ chain[d] # <<>> /\ ~exec[d].broken /\ TokenHolds /\ NothingUnderWay(d)
    /\ LET next == chain[d][Cardinality(wire[d]) + 1] IN
       wire' = [wire EXCEPT ![d] = @ \cup {[chunk |-> next, read |-> log]}]
    /\ UNCHANGED <<plan, exec, chain, LogStored, verdict, Counters>>

RoomLeft(read) == Cap - Len(read)

\* Then it writes it back with what there is room for; a chunk that is cut is followed by
\* the notice, and past the cap nothing is added.
Addition(read, chunk) ==
    LET units(k) == [i \in 1..k |-> [exec |-> chunk.exec, n |-> chunk.n]] IN
    IF Len(read) >= Cap THEN <<>>
    ELSE IF chunk.size > RoomLeft(read) THEN Append(units(RoomLeft(read)), Notice)
    ELSE units(chunk.size)
StoreChunk(d) ==
    \E w \in wire[d] :
        LET added == Addition(w.read, w.chunk) IN
        /\ log' = IF added = <<>> THEN log ELSE w.read \o added
        /\ acked' = IF Len(added) = w.chunk.size THEN acked \cup {[exec |-> w.chunk.exec, n |-> w.chunk.n]} ELSE acked
        /\ wire' = [wire EXCEPT ![d] = @ \ {w}]
        /\ chain' = [chain EXCEPT ![d] = SelectSeq(@, LAMBDA c : c # w.chunk)]
    /\ UNCHANGED <<plan, exec, artifacts, verdict, Counters>>

\* An answer that is no success loses the chunk; a call that fails breaks the chain.
RefuseChunk(d) ==
    /\ chain[d] # <<>> /\ ~exec[d].broken /\ (mishaps < MaxMishaps \/ ~TokenHolds)
    /\ chain' = [chain EXCEPT ![d] = Tail(@)] /\ wire' = [wire EXCEPT ![d] = {}]
    /\ mishaps' = IF TokenHolds THEN mishaps + 1 ELSE mishaps
    /\ UNCHANGED <<plan, exec, LogStored, verdict, ticks>>
Break(d) ==
    /\ chain[d] # <<>> /\ mishaps < MaxMishaps /\ ~exec[d].broken
    /\ exec' = [exec EXCEPT ![d].broken = TRUE] /\ wire' = [wire EXCEPT ![d] = {}]
    /\ mishaps' = mishaps + 1 /\ UNCHANGED <<plan, chain, LogStored, verdict, ticks>>

PassTick == ticks < MaxTicks /\ ticks' = ticks + 1 /\ UNCHANGED <<plan, exec, chain, wire, LogStored, verdict, mishaps>>

NNext ==
    \/ \E d \in Executions :
        \/ Post(d) \/ BeginStep(d) \/ HeaderLogged(d) \/ RunStep(d) \/ AnswerJob(d) \/ Crash(d) \/ Timeout(d)
        \/ SendChunk(d) \/ StoreChunk(d) \/ RefuseChunk(d) \/ Break(d)
    \/ PassTick
NSpec == NInit /\ [][NNext]_nvars

-----------------------------------------------------------------------------
(* The checkout (tar.ts): a name has room for 100 bytes.  A path is modelled as    *)
(* what fits and what does not.                                                     *)
WrittenName(path) == [path EXCEPT !.rest = ""]
writeTar(files) == {[name |-> WrittenName(f.path), blob |-> f.blob] : f \in files}
readTar(archive) == {[path |-> m.name, blob |-> m.blob] : m \in archive}

-----------------------------------------------------------------------------
(* The stored log of a job that is run once: every chunk the Worker has answered   *)
(* for is in it, in the order it was put out, no more than the cap of them, and a    *)
(* notice only at the end.                                                            *)
LogIsKept ==
    LET lines == SelectSeq(log, LAMBDA u : u # Notice) IN
    /\ acked \subseteq ToSet(lines)
    /\ \A i, j \in DOMAIN lines : i < j /\ lines[i].exec = lines[j].exec => lines[i].n <= lines[j].n
    /\ Len(lines) <= Cap
    /\ \A i \in DOMAIN log : log[i] = Notice => i = Len(log)

(* Refuted: "The container enforces it and self-times-out" (contract.ts:64): after the  *)
(* Durable Object has given the job up, its steps run on and store artifacts.            *)
NothingAfterVerdict == [][\A d \in Executions : verdict[d] # NotYet => exec'[d].reports = exec[d].reports]_nvars

(* Refuted: what a command puts out last is in the log when the job has ended.           *)
EndedMeansLogged == \A d \in Executions : JobAt(d, "answered") /\ ~exec[d].broken => ChainDrained(d)

(* Refuted: a file whose path is longer than 100 bytes is checked out under its own       *)
(* path (tar.ts:7, "exactly the entries the executor needs to reconstruct a checkout").   *)
CheckoutIsTree(files) == readTar(writeTar(files)) = files
=============================================================================
