----------------------------- MODULE RunRequests -----------------------------
(***************************************************************************)
(* The requests that make workflow runs (src/features/actions: http.ts,      *)
(* push-trigger.ts, orchestrator.ts, service.ts, read-model.ts), for one      *)
(* workflow of one branch.  A request is a sequence of statements with no      *)
(* transaction around them; the Worker may end between any two.  What becomes  *)
(* of a run once it is made is ActionsRun's.                                   *)
(***************************************************************************)
EXTENDS Integers, Sequences, SequencesExt, FiniteSets, FiniteSetsExt

CONSTANTS
    Runnable,       \* the commits whose file declares workflow_dispatch; others push alone
    RunCallers,        \* requests that run at a time
    RunLimit,          \* ?limit= of the walk
    MaxCommit,      \* bound: commits of the branch
    MaxRunRequests,    \* bound: requests begun
    MaxRunDeaths       \* bound: Workers lost

ASSUME RunAssumption == {RunLimit, MaxCommit, MaxRunRequests, MaxRunDeaths} \subseteq Nat

VARIABLES
    tip,            \* the commit of the branch
    counter,        \* repo_counters, scope 'workflow:<path>': the last number handed out
    workflowRuns,           \* workflow_runs in the order of their rows
    cached,         \* the workflows row: the commit its name and triggers are of; 0 when none
    asking,            \* caller -> its request
    reader,           \* a reader that goes from page to page of the runs
    made, lives     \* counters for the bounds

qvars == <<tip, counter, workflowRuns, cached, asking, reader, made, lives>>

NewRun(n, k, m) == [number |-> n, attempt |-> k, commit |-> m, completed |-> FALSE]
NoRequest == [pc |-> "idle", number |-> 0, attempt |-> 0, commit |-> 0, found |-> FALSE]
NoRunWalk == [on |-> FALSE, offset |-> 0, seen |-> {}, from |-> {}]
RunRows == DOMAIN workflowRuns
BranchCommits == 1..MaxCommit

QTypeOK ==
    /\ tip \in BranchCommits /\ counter \in 0..MaxRunRequests /\ cached \in 0..MaxCommit
    /\ workflowRuns \in Seq([number : 1..MaxRunRequests, attempt : 1..MaxRunRequests, commit : BranchCommits, completed : BOOLEAN])
    /\ \A c \in RunCallers : asking[c].pc \in {"idle", "allocate", "attempt", "find", "save", "insert"}

QInit ==
    /\ tip = 1 /\ counter = 0 /\ workflowRuns = <<>> /\ cached = 0
    /\ asking = [c \in RunCallers |-> NoRequest] /\ reader = NoRunWalk /\ made = 0 /\ lives = 0

-----------------------------------------------------------------------------
(* What a request starts from. *)

BeginRequest(c, pc, n, m) ==
    /\ asking[c] = NoRequest /\ made < MaxRunRequests /\ made' = made + 1
    /\ asking' = [asking EXCEPT ![c] = [NoRequest EXCEPT !.pc = pc, !.number = n, !.commit = m]]
    /\ UNCHANGED <<counter, workflowRuns, cached, reader, lives>>

\* dispatchRunHandler: the branch's commit is resolved once, and the file is that commit's.
DispatchRun(c) == tip \in Runnable /\ BeginRequest(c, "allocate", 0, tip) /\ UNCHANGED tip

\* onPushDiscoverWorkflows: after a push moved the branch, with the commit it moved to.
PushRun(c) == tip < MaxCommit /\ tip' = tip + 1 /\ BeginRequest(c, "allocate", 0, tip + 1)

\* rerunHandler: a completed run, again at the commit it is pinned to.
PinnedCommit(run) == run.commit
Rerun(c) ==
    \E i \in RunRows :
        /\ workflowRuns[i].completed
        /\ BeginRequest(c, "attempt", workflowRuns[i].number, PinnedCommit(workflowRuns[i])) /\ UNCHANGED tip

-----------------------------------------------------------------------------
(* The statements that follow. *)

Reached(c, pc) == asking[c].pc = pc /\ UNCHANGED <<tip, reader, made, lives>>
GoesTo(c, pc) == asking' = [asking EXCEPT ![c].pc = pc]
Ends(c) == asking' = [asking EXCEPT ![c] = NoRequest]     \* it answers, or an error ends it

\* allocateRunNumber: one upsert that reserves the number.
AllocateNumber(c) ==
    /\ Reached(c, "allocate") /\ counter' = counter + 1
    /\ asking' = [asking EXCEPT ![c].pc = "find", ![c].number = counter + 1, ![c].attempt = 1]
    /\ UNCHANGED <<workflowRuns, cached>>

\* nextRunAttempt: a read; nothing reserves what it returns.
AttemptsOf(n) == {workflowRuns[i].attempt : i \in {j \in RunRows : workflowRuns[j].number = n}}
NextAttempt(c) ==
    /\ Reached(c, "attempt")
    /\ asking' = [asking EXCEPT ![c].pc = "find", ![c].attempt = Max(AttemptsOf(asking[c].number) \cup {0}) + 1]
    /\ UNCHANGED <<counter, workflowRuns, cached>>

\* upsertWorkflow: a read, then an UPDATE of what it found or an INSERT that fails
\* when another request has inserted the row in between.
FindWorkflow(c) ==
    /\ Reached(c, "find") /\ asking' = [asking EXCEPT ![c].pc = "save", ![c].found = cached # 0]
    /\ UNCHANGED <<counter, workflowRuns, cached>>

SaveWorkflow(c) ==
    /\ Reached(c, "save") /\ UNCHANGED <<counter, workflowRuns>>
    /\ IF asking[c].found \/ cached = 0
       THEN cached' = asking[c].commit /\ GoesTo(c, "insert")
       ELSE Ends(c) /\ UNCHANGED cached

\* createWorkflowRun: uq_workflow_runs_number refuses a number and attempt that are taken.
\* Mutant: the rows have no unique index.
NeverTaken(n, k) == FALSE
Taken(n, k) == \E i \in RunRows : workflowRuns[i].number = n /\ workflowRuns[i].attempt = k
InsertRun(c) ==
    /\ Reached(c, "insert") /\ UNCHANGED <<counter, cached>>
    /\ IF Taken(asking[c].number, asking[c].attempt)
       THEN Ends(c) /\ UNCHANGED workflowRuns
       ELSE /\ workflowRuns' = Append(workflowRuns, NewRun(asking[c].number, asking[c].attempt, asking[c].commit))
            /\ Ends(c)

\* The coordinator ends a run, or cancelHandler one that has not ended.
CompleteRun ==
    /\ \E i \in RunRows : ~workflowRuns[i].completed /\ workflowRuns' = [workflowRuns EXCEPT ![i].completed = TRUE]
    /\ UNCHANGED <<tip, counter, cached, asking, reader, made, lives>>

RequestEnds(c) ==
    /\ asking[c] # NoRequest /\ lives < MaxRunDeaths
    /\ lives' = lives + 1 /\ Ends(c) /\ UNCHANGED <<tip, counter, workflowRuns, cached, reader, made>>

-----------------------------------------------------------------------------
(* listRunsHandler: newest first, the cursor an offset, one row more than the page read.  *)

RunPageAt(offset) == {i \in RunRows : Len(workflowRuns) - i \in offset..offset + RunLimit - 1}
NextRunOffset(offset) == offset + RunLimit

StartRunWalk ==
    /\ ~reader.on /\ reader.from = {} /\ Len(workflowRuns) > RunLimit
    /\ reader' = [NoRunWalk EXCEPT !.on = TRUE, !.from = RunRows]
    /\ UNCHANGED <<tip, counter, workflowRuns, cached, asking, made, lives>>

ReadRunPage ==
    /\ reader.on
    /\ reader' = [on |-> Len(workflowRuns) > reader.offset + RunLimit, offset |-> NextRunOffset(reader.offset),
                  seen |-> reader.seen \cup RunPageAt(reader.offset), from |-> reader.from]
    /\ UNCHANGED <<tip, counter, workflowRuns, cached, asking, made, lives>>

QNext ==
    \/ \E c \in RunCallers :
          \/ DispatchRun(c) \/ PushRun(c) \/ Rerun(c) \/ AllocateNumber(c) \/ NextAttempt(c)
          \/ FindWorkflow(c) \/ SaveWorkflow(c) \/ InsertRun(c) \/ RequestEnds(c)
    \/ CompleteRun \/ StartRunWalk \/ ReadRunPage

QSpec == QInit /\ [][QNext]_qvars

-----------------------------------------------------------------------------
(* However requests cross, the runs of one number are attempts 1, 2, ... of one commit:  *)
(* none is missing, and none runs another file (http.ts:402-464, service.ts:64-77).      *)
AttemptsHold ==
    \A i \in RunRows :
        /\ AttemptsOf(workflowRuns[i].number) = 1..Cardinality({j \in RunRows : workflowRuns[j].number = workflowRuns[i].number})
        /\ \A j \in RunRows : workflowRuns[i].number = workflowRuns[j].number => workflowRuns[i].commit = workflowRuns[j].commit

\* read-model.ts:154 "newest-first": runs made during a walk are put before what it has
\* shown, so it may show a run twice but passes none over.
RunsWalkSeesAll == ~reader.on => reader.from \subseteq reader.seen

\* http.ts, service.ts, read-model.ts: the attempts of a run are counted without a gap and
\* of one commit, and a walk shows every run.
RunsHold == AttemptsHold /\ RunsWalkSeesAll

(* Refuted, and stated in no run: *)

\* A number that was handed out has a run: a first run lost to another's INSERT of the
\* workflows row leaves a gap.
NumbersAreDense == (\A c \in RunCallers : asking[c] = NoRequest) => {workflowRuns[i].number : i \in RunRows} = 1..counter

\* A run of an earlier attempt may be repeated while a later one is still running.
OneAttemptAtATime ==
    \A i, j \in RunRows : workflowRuns[i].number = workflowRuns[j].number /\ ~workflowRuns[i].completed /\ ~workflowRuns[j].completed => i = j

\* The list of workflows shows the branch's: the rerun of an old run puts its triggers back.
CachedIsTip == (\A c \in RunCallers : asking[c] = NoRequest) => cached \in {0, tip}
=============================================================================
