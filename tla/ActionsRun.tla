----------------------------- MODULE ActionsRun -----------------------------
(***************************************************************************)
(* One run of a workflow: the request that creates it (createWorkflowRun),  *)
(* the queue that delivers its tick, the coordinator (a Durable Object that *)
(* handles one event at a time: a tick, a job's result, the timeout alarm), *)
(* the containers that run its jobs, and the HTTP request that cancels it   *)
(* without going through the coordinator.                                   *)
(*                                                                         *)
(* The run, its jobs, their checks and their commit statuses are rows of    *)
(* D1; the coordinator's marks, deadlines and alarm are its own storage;    *)
(* the pin of the run's commit is in R2.  Nothing spans them, so every      *)
(* await is a step, and whoever is at one may be interrupted or die there.  *)
(***************************************************************************)
EXTENDS Naturals, FiniteSets

CONSTANTS
  NumJobs,             \* the jobs, numbered in the order they are created
  Key,                 \* the key of each job: the cells of a matrix share one
  Needs,               \* the keys each job needs
  maxConcurrentJobs,   \* policy.ts
  MaxDeliveries,       \* deliveries of the tick message: one and its retries
  MaxFaults,           \* bound: handlers that stop before their end
  MayLose,             \* a dispatch, a result or an acknowledgement may be lost
  MayCancel,           \* "never", "created" (not before), "always"
  MayDelete            \* the repository may be deleted

Jobs == 1 .. NumJobs

ASSUME JobsAssumption ==
  /\ NumJobs \in Nat \ {0}
  /\ \A j \in Jobs : Needs[j] \subseteq {Key[i] : i \in Jobs}
  /\ \A i, j \in Jobs : Key[i] = Key[j] => Needs[i] = Needs[j]

ASSUME BoundsAssumption ==
  /\ maxConcurrentJobs \in Nat /\ MaxDeliveries \in Nat \ {0} /\ MaxFaults \in Nat
  /\ MayLose \in BOOLEAN /\ MayDelete \in BOOLEAN
  /\ MayCancel \in {"never", "created", "always"}

VARIABLES
  run, job,          \* D1: status and conclusion of the run and of each job
  check, post,       \* D1: each job's check run and its latest commit status
  mark, deadline,    \* storage: jobs dispatched, and when each is timed out
  alarm, clock,      \* storage: when the alarm is set for; the last deadline
  pin, active,       \* R2: the commit is pinned; D1: the repository is active
  deliveries,        \* the tick message: deliveries left, 0 when it is gone
  running, results,  \* jobs in a container; the verdicts it has not delivered
  creator,               \* the request that creates the run
  canceller, toCancel,   \* the request that cancels it, the jobs it has listed
  event, pc,         \* what the coordinator handles, and where it is
  cur, verdict, then,    \* the job completeJob is for, its verdict, what follows
  ready, skips, budget, skippedAny,   \* one pass over the jobs
  fired, due, next,  \* the alarm it handles, the deadlines passed, the next one
  faults

rows == <<run, job, check, post>>
storage == <<mark, deadline, alarm, clock>>
outside == <<deliveries, running, results>>
cancelling == <<canceller, toCancel>>
completing == <<cur, verdict, then>>
pass == <<ready, skips, budget, skippedAny>>
alarming == <<fired, due, next>>
coordinator == <<event, pc, completing, pass, alarming>>
vars == <<rows, storage, pin, active, outside, creator, cancelling,
          coordinator, faults>>

RunConclusion == {"success", "failure", "timed_out", "cancelled", "skipped"}
Status == {"none", "queued", "in_progress", "completed"}
Row(s, c) == [status |-> s, conclusion |-> c]
Rows == [status : Status, conclusion : RunConclusion \cup {"none"}]
Nothing == Row("none", "none")

Completed(j) == job[j].status = "completed"
AllCompleted == \A j \in Jobs : Completed(j)
InFlight == {j \in Jobs : job[j].status = "in_progress"}
Least(S) == CHOOSE n \in S : \A m \in S : n <= m

-----------------------------------------------------------------------------
\* Verdicts.

RUN_RANK(c) == CASE c = "failure" -> 4 [] c = "timed_out" -> 3
                 [] c = "cancelled" -> 2 [] c = "success" -> 1
                 [] OTHER -> 0

\* Mutant: the ranks are compared the other way round.
BestOf(cs) == CHOOSE c \in cs : \A d \in cs : RUN_RANK(d) >= RUN_RANK(c)

WorstOf(cs) == CHOOSE c \in cs : \A d \in cs : RUN_RANK(d) <= RUN_RANK(c)

Cells(k) == {j \in Jobs : Key[j] = k}
Settled(k) == \A j \in Cells(k) : Completed(j)
KeyConclusion(k) == WorstOf({job[j].conclusion : j \in Cells(k)})

IsReady(j) == \A k \in Needs[j] : Settled(k) /\ KeyConclusion(k) = "success"
IsSkipped(j) ==
  /\ \A k \in Needs[j] : Settled(k)
  /\ \E k \in Needs[j] : KeyConclusion(k) # "success"

QueuedJobs == {j \in Jobs : job[j].status = "queued"}

\* Mutant: a skipped job counts as a failure.
StrictCommitStatusState(c) == IF c = "success" THEN "success" ELSE "failure"

toCommitStatusState(c) == IF c \in {"success", "skipped"} THEN "success" ELSE "failure"

-----------------------------------------------------------------------------
\* The request that creates the run.

CreateRun ==
  /\ creator = [at |-> "run", job |-> 1]
  /\ run' = Row("queued", "none")
  /\ creator' = [creator EXCEPT !.at = "job"]
  /\ UNCHANGED <<job, check, post, storage, pin, active, outside,
                 cancelling, coordinator, faults>>

InsertJob ==
  /\ creator.at = "job"
  /\ job' = [job EXCEPT ![creator.job] = Row("queued", "none")]
  /\ creator' = [creator EXCEPT !.at = "check"]
  /\ UNCHANGED <<run, check, post, storage, pin, active, outside,
                 cancelling, coordinator, faults>>

InsertCheck ==
  /\ creator.at = "check"
  /\ check' = [check EXCEPT ![creator.job] = Row("queued", "none")]
  /\ creator' = [creator EXCEPT !.at = "post"]
  /\ UNCHANGED <<run, job, post, storage, pin, active, outside,
                 cancelling, coordinator, faults>>

PostPending ==
  /\ creator.at = "post"
  /\ post' = [post EXCEPT ![creator.job] = "pending"]
  /\ creator' = IF creator.job = NumJobs
                THEN [creator EXCEPT !.at = "send"]
                ELSE [at |-> "job", job |-> creator.job + 1]
  /\ UNCHANGED <<run, job, check, storage, pin, active, outside,
                 cancelling, coordinator, faults>>

\* The queue may refuse the message; the error is swallowed.
Enqueue ==
  /\ creator.at = "send"
  /\ \/ deliveries' = MaxDeliveries /\ UNCHANGED faults
     \/ faults < MaxFaults /\ faults' = faults + 1 /\ UNCHANGED deliveries
  /\ creator' = [creator EXCEPT !.at = "done"]
  /\ UNCHANGED <<rows, storage, pin, active, running, results,
                 cancelling, coordinator>>

-----------------------------------------------------------------------------
\* The request that cancels the run.

Unended == {j \in Jobs : job[j].status \in {"queued", "in_progress"}}

StartCancel ==
  /\ canceller.at = "idle"
  /\ MayCancel = "always" \/ (MayCancel = "created" /\ creator.at = "done")
  /\ run.status \in {"queued", "in_progress"}
  /\ toCancel' = Unended
  /\ canceller' = [canceller EXCEPT !.at = "jobs"]
  /\ UNCHANGED <<rows, storage, pin, active, outside, creator, coordinator, faults>>

\* Mutant: only the jobs in progress are cancelled.
CancelInFlight ==
  /\ canceller.at = "jobs"
  /\ job' = [j \in Jobs |-> IF j \in InFlight THEN Row("completed", "cancelled")
                            ELSE job[j]]
  /\ canceller' = [canceller EXCEPT !.at = "run"]
  /\ UNCHANGED <<run, check, post, storage, pin, active, outside, creator,
                 toCancel, coordinator, faults>>

CancelJobs ==
  /\ canceller.at = "jobs"
  /\ job' = [j \in Jobs |-> IF j \in Unended THEN Row("completed", "cancelled")
                            ELSE job[j]]
  /\ canceller' = [canceller EXCEPT !.at = "run"]
  /\ UNCHANGED <<run, check, post, storage, pin, active, outside, creator,
                 toCancel, coordinator, faults>>

CancelRun ==
  /\ canceller.at = "run"
  /\ run' = IF run.status # "completed" THEN Row("completed", "cancelled") ELSE run
  /\ canceller' = [canceller EXCEPT !.at = "check"]
  /\ UNCHANGED <<job, check, post, storage, pin, active, outside, creator,
                 toCancel, coordinator, faults>>

\* A job without a check has its status posted under a context of its own.
CancelCheck(j) ==
  /\ canceller.at = "check" /\ j \in toCancel
  /\ toCancel' = toCancel \ {j}
  /\ IF check[j] = Nothing
     THEN UNCHANGED <<check, canceller>>
     ELSE /\ check' = [check EXCEPT ![j] = Row("completed", "cancelled")]
          /\ canceller' = [at |-> "post", job |-> j]
  /\ UNCHANGED <<run, job, post, storage, pin, active, outside, creator,
                 coordinator, faults>>

CancelPost ==
  /\ canceller.at = "post"
  /\ post' = [post EXCEPT ![canceller.job] = toCommitStatusState("cancelled")]
  /\ canceller' = [at |-> "check", job |-> 1]
  /\ UNCHANGED <<run, job, check, storage, pin, active, outside, creator,
                 toCancel, coordinator, faults>>

EndCancel ==
  /\ canceller.at = "check" /\ toCancel = {}
  /\ canceller' = [canceller EXCEPT !.at = "done"]
  /\ UNCHANGED <<rows, storage, pin, active, outside, creator, toCancel,
                 coordinator, faults>>

-----------------------------------------------------------------------------
\* The events the coordinator handles, one at a time.

DeliverTick ==
  /\ pc = "idle" /\ deliveries > 0
  /\ deliveries' = deliveries - 1
  /\ event' = "tick" /\ pc' = "run"
  /\ UNCHANGED <<rows, storage, pin, active, running, results, creator, cancelling,
                 completing, pass, alarming, faults>>

ReceiveResult(j) ==
  /\ pc = "idle" /\ results[j] # "none"
  /\ cur' = j /\ verdict' = results[j] /\ then' = "result"
  /\ results' = [results EXCEPT ![j] = "none"]
  /\ event' = "result" /\ pc' = "complete"
  /\ UNCHANGED <<rows, storage, pin, active, deliveries, running, creator,
                 cancelling, pass, alarming, faults>>

\* The alarm fires at its time or later: t is the last deadline passed then.
FireAlarm ==
  /\ pc = "idle" /\ alarm # 0
  /\ \E t \in alarm .. clock :
       LET later == {deadline[j] : j \in Jobs} \ (0 .. t)
       IN  /\ due' = {j \in Jobs : deadline[j] \in 1 .. t}
           /\ next' = IF later = {} THEN 0 ELSE Least(later)
  /\ fired' = alarm /\ alarm' = 0
  /\ event' = "alarm" /\ pc' = "reap"
  /\ UNCHANGED <<rows, mark, deadline, clock, pin, active, outside, creator,
                 cancelling, completing, pass, faults>>

-----------------------------------------------------------------------------
\* tick: evaluate the jobs, start those that are ready, until nothing is skipped.
\* What a step of the coordinator leaves alone, beside what it names.

apart == <<deliveries, running, results, creator, cancelling, active>>

TickRun ==
  /\ pc = "run"
  /\ pc' = IF run.status = "completed" THEN "end" ELSE "start"
  /\ UNCHANGED <<rows, storage, pin, apart, event, completing, pass, alarming, faults>>

StartRun ==
  /\ pc = "start"
  /\ run' = IF run.status = "queued" THEN Row("in_progress", "none") ELSE run
  /\ pc' = "scan"
  /\ UNCHANGED <<job, check, post, storage, pin, apart, event, completing, pass,
                 alarming, faults>>

\* Mutant: every pass has the whole budget.
ScanWithFullBudget ==
  /\ pc = "scan"
  /\ ready' = {j \in QueuedJobs : IsReady(j)}
  /\ skips' = {j \in QueuedJobs : IsSkipped(j)}
  /\ budget' = maxConcurrentJobs
  /\ skippedAny' = FALSE
  /\ pc' = "next"
  /\ UNCHANGED <<rows, storage, pin, apart, event, completing, alarming, faults>>

ScanJobs ==
  /\ pc = "scan"
  /\ ready' = {j \in QueuedJobs : IsReady(j)}
  /\ skips' = {j \in QueuedJobs : IsSkipped(j)}
  /\ budget' = IF Cardinality(InFlight) < maxConcurrentJobs
               THEN maxConcurrentJobs - Cardinality(InFlight) ELSE 0
  /\ skippedAny' = FALSE
  /\ pc' = "next"
  /\ UNCHANGED <<rows, storage, pin, apart, event, completing, alarming, faults>>

\* The jobs of the pass that are still to be handled.
ToHandle == skips \cup {j \in ready : budget > 0 /\ j \notin mark}

SkipNext ==
  /\ pc = "next" /\ ToHandle # {} /\ Least(ToHandle) \in skips
  /\ cur' = Least(ToHandle) /\ verdict' = "skipped" /\ then' = "skipped"
  /\ skips' = skips \ {cur'}
  /\ pc' = "complete"
  /\ UNCHANGED <<rows, storage, pin, apart, event, ready, budget, skippedAny,
                 alarming, faults>>

DispatchNext ==
  /\ pc = "next" /\ ToHandle # {} /\ Least(ToHandle) \notin skips
  /\ cur' = Least(ToHandle)
  /\ ready' = ready \ {cur'}
  /\ IF active
     THEN pc' = "pin" /\ UNCHANGED <<verdict, then>>
     ELSE pc' = "complete" /\ verdict' = "failure" /\ then' = "unrunnable"
  /\ UNCHANGED <<rows, storage, pin, apart, event, skips, budget, skippedAny,
                 alarming, faults>>

\* Mutant: the jobs are not evaluated again after a skip.
OnePass ==
  /\ pc = "next" /\ ToHandle = {}
  /\ pc' = "rollup" /\ then' = "tick"
  /\ ready' = {} /\ skips' = {} /\ budget' = 0 /\ skippedAny' = FALSE
  /\ UNCHANGED <<rows, storage, pin, apart, event, cur, verdict, alarming, faults>>

PassDone ==
  /\ pc = "next" /\ ToHandle = {}
  /\ IF skippedAny
     THEN pc' = "scan" /\ UNCHANGED then
     ELSE pc' = "rollup" /\ then' = "tick"
  /\ ready' = {} /\ skips' = {} /\ budget' = 0 /\ skippedAny' = FALSE
  /\ UNCHANGED <<rows, storage, pin, apart, event, cur, verdict, alarming, faults>>

-----------------------------------------------------------------------------
\* dispatchOne, after the repository is found.

PinCommit ==
  /\ pc = "pin"
  /\ pin' = TRUE
  /\ pc' = "startJob"
  /\ UNCHANGED <<rows, storage, apart, event, completing, pass, alarming, faults>>

\* Mutant: a job is started whatever its status is.
StartAnyJob ==
  /\ pc = "startJob"
  /\ job' = [job EXCEPT ![cur] = Row("in_progress", "none")]
  /\ pc' = "findCheck"
  /\ UNCHANGED <<run, check, post, storage, pin, apart, event, completing, pass,
                 alarming, faults>>

\* The run has left "queued" by now: startRun, called here too, changes nothing.
StartJob ==
  /\ pc = "startJob"
  /\ job' = IF job[cur].status = "queued"
            THEN [job EXCEPT ![cur] = Row("in_progress", "none")] ELSE job
  /\ pc' = "findCheck"
  /\ UNCHANGED <<run, check, post, storage, pin, apart, event, completing, pass,
                 alarming, faults>>

FindCheck ==
  /\ pc = "findCheck"
  /\ pc' = IF check[cur].status # "completed" THEN "touch" ELSE "mark"
  /\ UNCHANGED <<rows, storage, pin, apart, event, completing, pass, alarming, faults>>

TouchCheck ==
  /\ pc = "touch"
  /\ check' = [check EXCEPT ![cur].status = "in_progress"]
  /\ pc' = "mark"
  /\ UNCHANGED <<run, job, post, storage, pin, apart, event, completing, pass,
                 alarming, faults>>

MarkDispatched ==
  /\ pc = "mark"
  /\ mark' = mark \cup {cur}
  /\ pc' = "deadline"
  /\ UNCHANGED <<rows, deadline, alarm, clock, pin, apart, event, completing, pass,
                 alarming, faults>>

SetDeadline ==
  /\ pc = "deadline"
  /\ clock' = clock + 1
  /\ deadline' = [deadline EXCEPT ![cur] = clock']
  /\ pc' = "arm"
  /\ UNCHANGED <<rows, mark, alarm, pin, apart, event, completing, pass, alarming,
                 faults>>

SetAlarm ==
  /\ pc = "arm"
  /\ alarm' = deadline[cur]
  /\ pc' = "send"
  /\ UNCHANGED <<rows, mark, deadline, clock, pin, apart, event, completing, pass,
                 alarming, faults>>

Send ==
  /\ pc = "send"
  /\ \/ running' = running \cup {cur}
     \/ MayLose /\ UNCHANGED running
  /\ budget' = budget - 1
  /\ pc' = "next"
  /\ UNCHANGED <<rows, storage, pin, active, deliveries, results, creator, cancelling,
                 event, completing, ready, skips, skippedAny, alarming, faults>>

-----------------------------------------------------------------------------
\* completeJob for cur, with verdict; finalizeRunIfComplete; what follows them.

After == CASE then \in {"skipped", "unrunnable"} -> "marked"
           [] then \in {"result", "timed_out"} -> "clear"
           [] OTHER -> "cleanup"

CompleteJob ==
  /\ pc = "complete"
  /\ IF Completed(cur)
     THEN pc' = After /\ UNCHANGED job
     ELSE /\ job' = [job EXCEPT ![cur] = Row("completed", verdict)]
          /\ pc' = "check"
  /\ UNCHANGED <<run, check, post, storage, pin, apart, event, completing, pass,
                 alarming, faults>>

ProjectCheck ==
  /\ pc = "check"
  /\ check' = [check EXCEPT ![cur] = Row("completed", verdict)]
  /\ pc' = "post"
  /\ UNCHANGED <<run, job, post, storage, pin, apart, event, completing, pass,
                 alarming, faults>>

PostStatus ==
  /\ pc = "post"
  /\ post' = [post EXCEPT ![cur] = toCommitStatusState(verdict)]
  /\ pc' = "rollup"
  /\ UNCHANGED <<run, job, check, storage, pin, apart, event, completing, pass,
                 alarming, faults>>

RollUp ==
  /\ pc = "rollup"
  /\ IF AllCompleted
     THEN verdict' = WorstOf({job[j].conclusion : j \in Jobs}) /\ pc' = "finish"
     ELSE pc' = After /\ UNCHANGED verdict
  /\ UNCHANGED <<rows, storage, pin, apart, event, cur, then, pass, alarming, faults>>

FinishRun ==
  /\ pc = "finish"
  /\ run' = IF run.status # "completed" THEN Row("completed", verdict) ELSE run
  /\ pc' = After
  /\ UNCHANGED <<job, check, post, storage, pin, apart, event, completing, pass,
                 alarming, faults>>

\* A job that was not dispatched: it is marked, and the pass goes on.
MarkHandled ==
  /\ pc = "marked"
  /\ mark' = mark \cup {cur}
  /\ IF then = "skipped"
     THEN skippedAny' = TRUE /\ UNCHANGED budget
     ELSE budget' = budget - 1 /\ UNCHANGED skippedAny
  /\ pc' = "next"
  /\ UNCHANGED <<rows, deadline, alarm, clock, pin, apart, event, completing,
                 ready, skips, alarming, faults>>

ClearDeadline ==
  /\ pc = "clear"
  /\ deadline' = [deadline EXCEPT ![cur] = 0]
  /\ pc' = IF then = "timed_out" THEN "reap" ELSE "run"
  /\ UNCHANGED <<rows, mark, alarm, clock, pin, apart, event, completing, pass,
                 alarming, faults>>

\* alarm: each job whose deadline has passed is timed out, then a tick.
ReapNext(j) ==
  /\ pc = "reap" /\ j \in due
  /\ cur' = j /\ verdict' = "timed_out" /\ then' = "timed_out"
  /\ due' = due \ {j}
  /\ pc' = "complete"
  /\ UNCHANGED <<rows, storage, pin, apart, event, pass, fired, next, faults>>

ReapDone ==
  /\ pc = "reap" /\ due = {}
  /\ pc' = "run"
  /\ UNCHANGED <<rows, storage, pin, apart, event, completing, pass, alarming, faults>>

\* Mutant: the pin is dropped after every tick.
CleanupAlways ==
  /\ pc = "cleanup"
  /\ pin' = IF active THEN FALSE ELSE pin
  /\ pc' = "end"
  /\ UNCHANGED <<rows, storage, apart, event, completing, pass, alarming, faults>>

\* maybeCleanup
Cleanup ==
  /\ pc = "cleanup"
  /\ pin' = IF run.status = "completed" /\ active THEN FALSE ELSE pin
  /\ pc' = "end"
  /\ UNCHANGED <<rows, storage, apart, event, completing, pass, alarming, faults>>

Idle ==
  /\ pc' = "idle" /\ event' = "none"
  /\ cur' = 1 /\ verdict' = "none" /\ then' = "none"
  /\ ready' = {} /\ skips' = {} /\ budget' = 0 /\ skippedAny' = FALSE
  /\ fired' = 0 /\ due' = {} /\ next' = 0

\* A tick is acknowledged, an alarm sets the next one.
EndEvent ==
  /\ pc = "end"
  /\ \/ event = "tick" /\ deliveries' = 0
     \/ (event # "tick" \/ MayLose) /\ UNCHANGED deliveries
  /\ alarm' = IF event = "alarm" /\ next # 0 THEN next ELSE alarm
  /\ Idle
  /\ UNCHANGED <<rows, mark, deadline, clock, pin, active, running, results, creator,
                 cancelling, faults>>

-----------------------------------------------------------------------------
\* The containers, the repository, and what may stop before its end.

FinishContainer(j) ==
  /\ j \in running
  /\ running' = running \ {j}
  /\ \/ \E c \in {"success", "failure"} : results' = [results EXCEPT ![j] = c]
     \/ MayLose /\ UNCHANGED results
  /\ UNCHANGED <<rows, storage, pin, active, deliveries, creator, cancelling,
                 coordinator, faults>>

DeleteRepository ==
  /\ MayDelete /\ active
  /\ active' = FALSE
  /\ UNCHANGED <<rows, storage, pin, outside, creator, cancelling, coordinator, faults>>

\* The coordinator dies, or an error makes its handler throw: the tick is
\* delivered again, the alarm fires again, the result is lost.
Crash ==
  /\ pc # "idle" /\ faults < MaxFaults
  /\ faults' = faults + 1
  /\ alarm' = IF event = "alarm" /\ alarm = 0 THEN fired ELSE alarm
  /\ Idle
  /\ UNCHANGED <<rows, mark, deadline, clock, pin, active, outside, creator, cancelling>>

CreatorDies ==
  /\ creator.at # "done" /\ faults < MaxFaults
  /\ faults' = faults + 1
  /\ creator' = [creator EXCEPT !.at = "done"]
  /\ UNCHANGED <<rows, storage, pin, active, outside, cancelling, coordinator>>

CancellerDies ==
  /\ canceller.at \notin {"idle", "done"} /\ faults < MaxFaults
  /\ faults' = faults + 1
  /\ canceller' = [at |-> "done", job |-> 1]
  /\ toCancel' = {}
  /\ UNCHANGED <<rows, storage, pin, active, outside, creator, coordinator>>

-----------------------------------------------------------------------------

Init ==
  /\ run = Nothing /\ job = [j \in Jobs |-> Nothing]
  /\ check = [j \in Jobs |-> Nothing] /\ post = [j \in Jobs |-> "none"]
  /\ mark = {} /\ deadline = [j \in Jobs |-> 0] /\ alarm = 0 /\ clock = 0
  /\ pin = FALSE /\ active = TRUE
  /\ deliveries = 0 /\ running = {} /\ results = [j \in Jobs |-> "none"]
  /\ creator = [at |-> "run", job |-> 1]
  /\ canceller = [at |-> "idle", job |-> 1] /\ toCancel = {}
  /\ event = "none" /\ pc = "idle"
  /\ cur = 1 /\ verdict = "none" /\ then = "none"
  /\ ready = {} /\ skips = {} /\ budget = 0 /\ skippedAny = FALSE
  /\ fired = 0 /\ due = {} /\ next = 0
  /\ faults = 0

Creating == CreateRun \/ InsertJob \/ InsertCheck \/ PostPending \/ Enqueue

Cancelling ==
  \/ CancelJobs \/ CancelRun \/ CancelPost \/ EndCancel
  \/ \E j \in Jobs : CancelCheck(j)

Ticking ==
  \/ TickRun \/ StartRun \/ ScanJobs \/ SkipNext \/ DispatchNext \/ PassDone
  \/ Cleanup \/ EndEvent

Dispatching ==
  \/ PinCommit \/ StartJob \/ FindCheck \/ TouchCheck \/ MarkDispatched
  \/ SetDeadline \/ SetAlarm \/ Send

Completing ==
  \/ CompleteJob \/ ProjectCheck \/ PostStatus \/ RollUp \/ FinishRun
  \/ MarkHandled \/ ClearDeadline

Reaping == ReapDone \/ \E j \in Jobs : ReapNext(j)

Coordinate == Ticking \/ Dispatching \/ Completing \/ Reaping

Failing == Crash \/ CreatorDies \/ CancellerDies

Next ==
  \/ Creating \/ StartCancel \/ Cancelling
  \/ DeliverTick \/ FireAlarm \/ \E j \in Jobs : ReceiveResult(j)
  \/ Coordinate
  \/ DeleteRepository \/ \E j \in Jobs : FinishContainer(j)
  \/ Failing

Spec == Init /\ [][Next]_vars

\* A handler that has begun goes on; the queue delivers, and the alarm fires.
\* Nothing is asked of the containers.
FairSpec ==
  /\ Spec
  /\ WF_vars(Coordinate) /\ WF_vars(Cancelling)
  /\ WF_vars(DeliverTick) /\ WF_vars(FireAlarm)

-----------------------------------------------------------------------------
Stations ==
  {"idle", "run", "start", "scan", "next", "pin", "startJob", "findCheck", "touch",
   "mark", "deadline", "arm", "send", "complete", "check", "post", "rollup",
   "finish", "marked", "clear", "reap", "cleanup", "end"}

\* What the rows, the storage and the program may hold.
RowsTypeOK ==
  /\ run \in Rows /\ job \in [Jobs -> Rows] /\ check \in [Jobs -> Rows]
  /\ post \in [Jobs -> {"none", "pending", "success", "failure"}]

StoresTypeOK ==
  /\ mark \subseteq Jobs /\ deadline \in [Jobs -> Nat] /\ alarm \in Nat /\ clock \in Nat
  /\ pin \in BOOLEAN /\ active \in BOOLEAN
  /\ deliveries \in 0 .. MaxDeliveries
  /\ running \subseteq Jobs /\ results \in [Jobs -> {"none", "success", "failure"}]
  /\ faults \in 0 .. MaxFaults

RequestsTypeOK ==
  /\ creator \in [at : {"run", "job", "check", "post", "send", "done"}, job : Jobs]
  /\ canceller \in [at : {"idle", "jobs", "run", "check", "post", "done"}, job : Jobs]
  /\ toCancel \subseteq Jobs

CoordinatorTypeOK ==
  /\ event \in {"none", "tick", "result", "alarm"} /\ pc \in Stations
  /\ cur \in Jobs /\ verdict \in RunConclusion \cup {"none"}
  /\ then \in {"none", "tick", "result", "timed_out", "skipped", "unrunnable"}
  /\ ready \subseteq Jobs /\ skips \subseteq Jobs /\ budget \in Nat
  /\ skippedAny \in BOOLEAN
  /\ fired \in Nat /\ due \subseteq Jobs /\ next \in Nat

\* Every variable holds what the rows, the storage and the program may hold.
TypeOK == RowsTypeOK /\ StoresTypeOK /\ RequestsTypeOK /\ CoordinatorTypeOK

\* A job is given to a container, and has a verdict of its own, only when every
\* cell of every job it needs has succeeded.
NeedsRespected ==
  \A j \in Jobs :
    j \in running \/ job[j].status = "in_progress"
      \/ job[j].conclusion \in {"success", "timed_out"}
    => \A i \in Jobs : Key[i] \in Needs[j] => job[i] = Row("completed", "success")

\* No more jobs are in progress than the policy allows.
ConcurrencyBounded == Cardinality(InFlight) <= maxConcurrentJobs

\* A run that has ended has no job left, and says success only when none of them
\* failed, was timed out or was cancelled.
RunVerdictHolds ==
  run.status = "completed" =>
    /\ Unended = {}
    /\ run.conclusion \in {job[j].conclusion : j \in Jobs} \cup {"cancelled"}
    /\ run.conclusion \in {"success", "skipped"} =>
         \A j \in Jobs : job[j].conclusion \in {"success", "skipped"}

\* The commit of a job in progress in a container stays pinned.
PinnedWhileRunning ==
  \A j \in running : job[j].status = "in_progress" => pin

\* The check and the commit status of a job that has ended say how it ended.
ProjectionAgrees ==
  \A j \in Jobs : Completed(j) =>
    /\ check[j] = job[j]
    /\ post[j] = "success" <=> job[j].conclusion \in {"success", "skipped"}
    /\ post[j] # "pending"

\* Nothing is left that would wake the coordinator, and nobody is cancelling.
Quiet ==
  /\ pc = "idle" /\ deliveries = 0 /\ alarm = 0
  /\ running = {} /\ \A j \in Jobs : results[j] = "none"
  /\ canceller.at \in {"idle", "done"}

\* Whenever the coordinator is between two events and nobody is cancelling, the
\* checks and the commit statuses agree with the jobs.
ChecksAgree == pc = "idle" /\ canceller.at \in {"idle", "done"} => ProjectionAgrees

\* They agree at least once nothing is left to be handled.
ChecksSettle == Quiet => ProjectionAgrees

\* Between two events, every job in progress has a deadline and an alarm.
InFlightIsArmed ==
  pc = "idle" => \A j \in InFlight : deadline[j] # 0 /\ alarm # 0

\* The pin of a run that has ended is dropped by the time nothing is left to do.
PinDropped == Quiet /\ run.status = "completed" /\ active => ~pin

Contract == INSTANCE WorkflowRun

\* The rows of the run and of its jobs, whoever writes them, are a run as
\* WorkflowRun promises it.
KeepsContract == Contract!Spec

\* Once its tick is queued, the run ends.
RunCompletes == deliveries > 0 ~> run.status = "completed"

=============================================================================
