-------------------------- MODULE ActionsRunProofs --------------------------
(***************************************************************************)
(* Proofs about ActionsRun, for every workflow, policy, number of           *)
(* deliveries and number of failures: the types, the order and the limit of *)
(* the jobs whatever happens; then, when the run can be cancelled only once *)
(* it has been created, that its rows keep the contract of WorkflowRun,     *)
(* that its commit stays pinned while a job is in progress, and that its    *)
(* checks agree with its jobs until something stops or somebody cancels.    *)
(***************************************************************************)
EXTENDS ActionsRun, TLAPS, WellFoundedInduction, FiniteSetTheorems

-----------------------------------------------------------------------------
(* The operators the model is built from.                                   *)

\* A set of numbers that is not empty has a least element.
LEMMA LeastExists ==
  ASSUME NEW S \in SUBSET Nat, S # {}
  PROVE  Least(S) \in S /\ \A m \in S : Least(S) <= m
  <1>1. PICK n \in S : \A m \in S : <<m, n>> \notin OpToRel(<, Nat)
    BY NatLessThanWellFounded, WFMin
  <1>2. ASSUME NEW m \in S
        PROVE  n <= m
    <2>1. <<m, n>> \notin {ss \in Nat \X Nat : ss[1] < ss[2]}
      BY <1>1 DEF OpToRel
    <2>2. <<m, n>> \in Nat \X Nat /\ m \in Nat /\ n \in Nat
      OBVIOUS
    <2>3. ~ (m < n)
      BY <2>1, <2>2
    <2> QED
      BY <2>2, <2>3
  <1> QED
    BY <1>2 DEF Least

\* Of the verdicts there are, one is the worst.
LEMMA WorstExists ==
  ASSUME NEW cs \in SUBSET (RunConclusion \cup {"none"}), cs # {}
  PROVE  WorstOf(cs) \in cs /\ \A d \in cs : RUN_RANK(d) <= RUN_RANK(WorstOf(cs))
  <1>1. \E c \in cs : \A d \in cs : RUN_RANK(d) <= RUN_RANK(c)
    <2>1. CASE "failure" \in cs
      BY <2>1 DEF RUN_RANK, RunConclusion
    <2>2. CASE "failure" \notin cs /\ "timed_out" \in cs
      BY <2>2 DEF RUN_RANK, RunConclusion
    <2>3. CASE cs \cap {"failure", "timed_out"} = {} /\ "cancelled" \in cs
      BY <2>3 DEF RUN_RANK, RunConclusion
    <2>4. CASE cs \cap {"failure", "timed_out", "cancelled"} = {} /\ "success"
       \in cs
      BY <2>4 DEF RUN_RANK, RunConclusion
    <2>5. CASE cs \cap {"failure", "timed_out", "cancelled", "success"} = {}
      BY <2>5 DEF RUN_RANK, RunConclusion
    <2> QED
      BY <2>1, <2>2, <2>3, <2>4, <2>5
  <1> QED
    BY <1>1 DEF WorstOf

-----------------------------------------------------------------------------
(* Type correctness.  The types alone are not inductive: the budget of a    *)
(* pass is spent by steps that do not look at it again.                     *)

\* A job that is being dispatched, or ended for want of a repository, has a
\* place of the budget.
BudgetLeft ==
  /\ pc \in {"pin", "startJob", "findCheck", "touch", "mark", "deadline", "arm", "send"}
       => budget > 0
  /\ /\ pc \in {"complete", "check", "post", "rollup", "finish", "marked"}
     /\ then = "unrunnable"
     => budget > 0
  /\ pc = "marked" => then \in {"skipped", "unrunnable"}

TInv == TypeOK /\ BudgetLeft

\* The jobs are numbers, finitely many, from 1.
LEMMA JobsFacts ==
  /\ 1 \in Jobs /\ Jobs \subseteq Nat /\ IsFiniteSet(Jobs)
  /\ \A j \in Jobs : j # NumJobs => j + 1 \in Jobs
  BY JobsAssumption, FS_Interval DEF Jobs

\* What rows are made of.
LEMMA RowFacts ==
  /\ Nothing \in Rows
  /\ \A s \in Status : Row(s, "none") \in Rows
  /\ \A s \in Status, c \in RunConclusion \cup {"none"} : Row(s, c) \in Rows
  /\ \A r \in Rows, s \in Status : [r EXCEPT !.status = s] \in Rows
  /\ \A r \in Rows : r.conclusion \in RunConclusion \cup {"none"}
  /\ {"none", "queued", "in_progress", "completed"} \subseteq Status
  /\ {"success", "failure", "timed_out", "cancelled", "skipped"} \subseteq RunConclusion
  BY DEF Nothing, Row, Rows, Status, RunConclusion

\* What a pass dispatches is ready, and there is a place for it.
LEMMA DispatchesReady ==
  ASSUME TInv, DispatchNext
  PROVE  cur' \in ready /\ budget > 0 /\ cur' \notin mark
  <1>1. ToHandle \in SUBSET Nat /\ ToHandle # {}
    BY JobsFacts DEF ToHandle, TInv, TypeOK, CoordinatorTypeOK, DispatchNext
  <1>2. Least(ToHandle) \in ToHandle
    BY <1>1, LeastExists
  <1> QED
    BY <1>2 DEF DispatchNext, ToHandle

\* The request that creates the run.
LEMMA CreatingTypes ==
  ASSUME TInv,
         \/ CreateRun \/ InsertJob \/ InsertCheck \/ PostPending
         \/ Enqueue
  PROVE  TInv'
  <1> USE DEF TInv
  <1>1. CASE CreateRun
    <2>1. RowsTypeOK'
      BY <1>1, JobsFacts, RowFacts DEF CreateRun, RowsTypeOK, RequestsTypeOK,
         CoordinatorTypeOK, TypeOK
    <2>2. RequestsTypeOK'
      BY <1>1, JobsFacts DEF CreateRun, RequestsTypeOK, TypeOK, Unended,
         cancelling
    <2>3. StoresTypeOK' /\ CoordinatorTypeOK' /\ BudgetLeft'
      BY <1>1 DEF CreateRun, TypeOK, StoresTypeOK, CoordinatorTypeOK,
         BudgetLeft, storage, outside, completing, pass, alarming, coordinator
    <2> QED
      BY <2>1, <2>2, <2>3 DEF TypeOK
  <1>2. CASE InsertJob
    <2>1. RowsTypeOK'
      BY <1>2, JobsFacts, RowFacts DEF InsertJob, RowsTypeOK, RequestsTypeOK,
         CoordinatorTypeOK, TypeOK
    <2>2. RequestsTypeOK'
      BY <1>2, JobsFacts DEF InsertJob, RequestsTypeOK, TypeOK, Unended,
         cancelling
    <2>3. StoresTypeOK' /\ CoordinatorTypeOK' /\ BudgetLeft'
      BY <1>2 DEF InsertJob, TypeOK, StoresTypeOK, CoordinatorTypeOK,
         BudgetLeft, storage, outside, completing, pass, alarming, coordinator
    <2> QED
      BY <2>1, <2>2, <2>3 DEF TypeOK
  <1>3. CASE InsertCheck
    <2>1. RowsTypeOK'
      BY <1>3, JobsFacts, RowFacts DEF InsertCheck, RowsTypeOK, RequestsTypeOK,
         CoordinatorTypeOK, TypeOK
    <2>2. RequestsTypeOK'
      BY <1>3, JobsFacts DEF InsertCheck, RequestsTypeOK, TypeOK, Unended,
         cancelling
    <2>3. StoresTypeOK' /\ CoordinatorTypeOK' /\ BudgetLeft'
      BY <1>3 DEF InsertCheck, TypeOK, StoresTypeOK, CoordinatorTypeOK,
         BudgetLeft, storage, outside, completing, pass, alarming, coordinator
    <2> QED
      BY <2>1, <2>2, <2>3 DEF TypeOK
  <1>4. CASE PostPending
    <2>1. RowsTypeOK'
      BY <1>4 DEF PostPending, RowsTypeOK, TypeOK, RequestsTypeOK,
         CoordinatorTypeOK, toCommitStatusState
    <2>2. RequestsTypeOK'
      BY <1>4, JobsFacts DEF PostPending, RequestsTypeOK, TypeOK, Unended,
         cancelling
    <2>3. StoresTypeOK' /\ CoordinatorTypeOK' /\ BudgetLeft'
      BY <1>4 DEF PostPending, TypeOK, StoresTypeOK, CoordinatorTypeOK,
         BudgetLeft, storage, outside, completing, pass, alarming, coordinator
    <2> QED
      BY <2>1, <2>2, <2>3 DEF TypeOK
  <1>5. CASE Enqueue
    <2>1. StoresTypeOK'
      BY <1>5, BoundsAssumption DEF Enqueue, StoresTypeOK, TypeOK,
         CoordinatorTypeOK, storage
    <2>2. RequestsTypeOK'
      BY <1>5, JobsFacts DEF Enqueue, RequestsTypeOK, TypeOK, Unended, cancelling
    <2>3. RowsTypeOK' /\ CoordinatorTypeOK' /\ BudgetLeft'
      BY <1>5 DEF Enqueue, TypeOK, RowsTypeOK, CoordinatorTypeOK, BudgetLeft,
         rows, completing, pass, alarming, coordinator
    <2> QED
      BY <2>1, <2>2, <2>3 DEF TypeOK
  <1> QED
    BY <1>1, <1>2, <1>3, <1>4, <1>5

\* The request that cancels it.
LEMMA CancellingTypes ==
  ASSUME TInv, NEW j \in Jobs,
         \/ StartCancel \/ CancelJobs \/ CancelRun \/ CancelPost
         \/ EndCancel \/ CancelCheck(j)
  PROVE  TInv'
  <1> USE DEF TInv
  <1>1. CASE StartCancel
    <2>1. RequestsTypeOK'
      BY <1>1, JobsFacts DEF StartCancel, RequestsTypeOK, TypeOK, Unended
    <2>2. RowsTypeOK' /\ StoresTypeOK' /\ CoordinatorTypeOK' /\ BudgetLeft'
      BY <1>1 DEF StartCancel, TypeOK, RowsTypeOK, StoresTypeOK,
         CoordinatorTypeOK, BudgetLeft, rows, storage, outside, completing,
         pass, alarming, coordinator
    <2> QED
      BY <2>1, <2>2 DEF TypeOK
  <1>2. CASE CancelJobs
    <2>1. RowsTypeOK'
      BY <1>2, JobsFacts, RowFacts DEF CancelJobs, RowsTypeOK, RequestsTypeOK,
         CoordinatorTypeOK, TypeOK
    <2>2. RequestsTypeOK'
      BY <1>2, JobsFacts DEF CancelJobs, RequestsTypeOK, TypeOK, Unended
    <2>3. StoresTypeOK' /\ CoordinatorTypeOK' /\ BudgetLeft'
      BY <1>2 DEF CancelJobs, TypeOK, StoresTypeOK, CoordinatorTypeOK,
         BudgetLeft, storage, outside, completing, pass, alarming, coordinator
    <2> QED
      BY <2>1, <2>2, <2>3 DEF TypeOK
  <1>3. CASE CancelRun
    <2>1. RowsTypeOK'
      BY <1>3, JobsFacts, RowFacts DEF CancelRun, RowsTypeOK, RequestsTypeOK,
         CoordinatorTypeOK, TypeOK
    <2>2. RequestsTypeOK'
      BY <1>3, JobsFacts DEF CancelRun, RequestsTypeOK, TypeOK, Unended
    <2>3. StoresTypeOK' /\ CoordinatorTypeOK' /\ BudgetLeft'
      BY <1>3 DEF CancelRun, TypeOK, StoresTypeOK, CoordinatorTypeOK,
         BudgetLeft, storage, outside, completing, pass, alarming, coordinator
    <2> QED
      BY <2>1, <2>2, <2>3 DEF TypeOK
  <1>4. CASE CancelPost
    <2>1. RowsTypeOK'
      BY <1>4 DEF CancelPost, RowsTypeOK, TypeOK, RequestsTypeOK,
         CoordinatorTypeOK, toCommitStatusState
    <2>2. RequestsTypeOK'
      BY <1>4, JobsFacts DEF CancelPost, RequestsTypeOK, TypeOK, Unended
    <2>3. StoresTypeOK' /\ CoordinatorTypeOK' /\ BudgetLeft'
      BY <1>4 DEF CancelPost, TypeOK, StoresTypeOK, CoordinatorTypeOK,
         BudgetLeft, storage, outside, completing, pass, alarming, coordinator
    <2> QED
      BY <2>1, <2>2, <2>3 DEF TypeOK
  <1>5. CASE EndCancel
    <2>1. RequestsTypeOK'
      BY <1>5, JobsFacts DEF EndCancel, RequestsTypeOK, TypeOK, Unended
    <2>2. RowsTypeOK' /\ StoresTypeOK' /\ CoordinatorTypeOK' /\ BudgetLeft'
      BY <1>5 DEF EndCancel, TypeOK, RowsTypeOK, StoresTypeOK,
         CoordinatorTypeOK, BudgetLeft, rows, storage, outside, completing,
         pass, alarming, coordinator
    <2> QED
      BY <2>1, <2>2 DEF TypeOK
  <1>6. CASE CancelCheck(j)
    <2>1. RowsTypeOK'
      BY <1>6, JobsFacts, RowFacts DEF CancelCheck, RowsTypeOK, RequestsTypeOK,
         CoordinatorTypeOK, TypeOK
    <2>2. RequestsTypeOK'
      BY <1>6, JobsFacts DEF CancelCheck, RequestsTypeOK, TypeOK, Unended
    <2>3. StoresTypeOK' /\ CoordinatorTypeOK' /\ BudgetLeft'
      BY <1>6 DEF CancelCheck, TypeOK, StoresTypeOK, CoordinatorTypeOK,
         BudgetLeft, storage, outside, completing, pass, alarming, coordinator
    <2> QED
      BY <2>1, <2>2, <2>3 DEF TypeOK
  <1> QED
    BY <1>1, <1>2, <1>3, <1>4, <1>5, <1>6

\* What the coordinator is woken by.
LEMMA EventTypes ==
  ASSUME TInv, NEW j \in Jobs,
         \/ DeliverTick \/ FireAlarm \/ ReceiveResult(j)
  PROVE  TInv'
  <1> USE DEF TInv
  <1>1. CASE DeliverTick
    <2>1. StoresTypeOK'
      BY <1>1, BoundsAssumption DEF DeliverTick, StoresTypeOK, TypeOK,
         CoordinatorTypeOK, storage
    <2>2. CoordinatorTypeOK'
      BY <1>1, JobsFacts DEF DeliverTick, CoordinatorTypeOK, TypeOK, Stations,
         RunConclusion, Idle, After, completing, pass, alarming
    <2>3. BudgetLeft'
      BY <1>1 DEF DeliverTick, BudgetLeft, TypeOK, CoordinatorTypeOK, Idle,
         After, completing, pass
    <2>4. RowsTypeOK' /\ RequestsTypeOK'
      BY <1>1 DEF DeliverTick, TypeOK, RowsTypeOK, RequestsTypeOK, rows,
         cancelling
    <2> QED
      BY <2>1, <2>2, <2>3, <2>4 DEF TypeOK
  <1>2. CASE FireAlarm
    <2>1. StoresTypeOK'
      BY <1>2, BoundsAssumption DEF FireAlarm, StoresTypeOK, TypeOK,
         CoordinatorTypeOK, outside
    <2>2. CoordinatorTypeOK'
      <3>1. PICK t \in alarm .. clock :
              LET later == {deadline[i] : i \in Jobs} \ (0 .. t)
              IN  /\ due' = {i \in Jobs : deadline[i] \in 1 .. t}
                  /\ next' = IF later = {} THEN 0 ELSE Least(later)
        BY <1>2 DEF FireAlarm
      <3>2. {deadline[i] : i \in Jobs} \ (0 .. t) \in SUBSET Nat
        BY DEF TypeOK, StoresTypeOK
      <3>3. next' \in Nat /\ due' \subseteq Jobs
        BY <3>1, <3>2, LeastExists
      <3> QED
        BY <1>2, <3>3 DEF FireAlarm, CoordinatorTypeOK, TypeOK, StoresTypeOK,
           Stations,
           completing, pass
    <2>3. BudgetLeft'
      BY <1>2 DEF FireAlarm, BudgetLeft, TypeOK, CoordinatorTypeOK, Idle, After,
         completing, pass
    <2>4. RowsTypeOK' /\ RequestsTypeOK'
      BY <1>2 DEF FireAlarm, TypeOK, RowsTypeOK, RequestsTypeOK, rows, cancelling
    <2> QED
      BY <2>1, <2>2, <2>3, <2>4 DEF TypeOK
  <1>3. CASE ReceiveResult(j)
    <2>1. StoresTypeOK'
      BY <1>3, BoundsAssumption DEF ReceiveResult, StoresTypeOK, TypeOK,
         CoordinatorTypeOK, storage
    <2>2. CoordinatorTypeOK'
      BY <1>3 DEF ReceiveResult, CoordinatorTypeOK, TypeOK, StoresTypeOK,
         Stations, RunConclusion, pass, alarming
    <2>3. BudgetLeft'
      BY <1>3 DEF ReceiveResult, BudgetLeft, TypeOK, CoordinatorTypeOK, Idle,
         After, pass
    <2>4. RowsTypeOK' /\ RequestsTypeOK'
      BY <1>3 DEF ReceiveResult, TypeOK, RowsTypeOK, RequestsTypeOK, rows,
         cancelling
    <2> QED
      BY <2>1, <2>2, <2>3, <2>4 DEF TypeOK
  <1> QED
    BY <1>1, <1>2, <1>3

\* The evaluation of the jobs.
LEMMA TickingTypes ==
  ASSUME TInv,
         \/ TickRun \/ StartRun \/ ScanJobs \/ SkipNext
         \/ DispatchNext \/ PassDone \/ Cleanup \/ EndEvent
  PROVE  TInv'
  <1> USE DEF TInv
  <1>1. CASE TickRun
    <2>1. CoordinatorTypeOK'
      BY <1>1, JobsFacts DEF TickRun, CoordinatorTypeOK, TypeOK, Stations,
         RunConclusion, Idle, After, completing, pass, alarming
    <2>2. BudgetLeft'
      BY <1>1 DEF TickRun, BudgetLeft, TypeOK, CoordinatorTypeOK, Idle, After,
         completing, pass
    <2>3. RowsTypeOK' /\ StoresTypeOK' /\ RequestsTypeOK'
      BY <1>1 DEF TickRun, TypeOK, RowsTypeOK, StoresTypeOK, RequestsTypeOK,
         apart, rows, storage, cancelling
    <2> QED
      BY <2>1, <2>2, <2>3 DEF TypeOK
  <1>2. CASE StartRun
    <2>1. RowsTypeOK'
      BY <1>2, JobsFacts, RowFacts DEF StartRun, RowsTypeOK, RequestsTypeOK,
         CoordinatorTypeOK, TypeOK
    <2>2. CoordinatorTypeOK'
      BY <1>2, JobsFacts DEF StartRun, CoordinatorTypeOK, TypeOK, Stations,
         RunConclusion, Idle, After, completing, pass, alarming
    <2>3. BudgetLeft'
      BY <1>2 DEF StartRun, BudgetLeft, TypeOK, CoordinatorTypeOK, Idle, After,
         completing, pass
    <2>4. StoresTypeOK' /\ RequestsTypeOK'
      BY <1>2 DEF StartRun, TypeOK, StoresTypeOK, RequestsTypeOK, apart,
         storage, cancelling
    <2> QED
      BY <2>1, <2>2, <2>3, <2>4 DEF TypeOK
  <1>3. CASE ScanJobs
    <2>1. CoordinatorTypeOK'
      <3>1. Cardinality(InFlight) \in Nat
        BY JobsFacts, FS_Subset, FS_CardinalityType DEF InFlight
      <3>2. budget' \in Nat
        BY <1>3, <3>1, BoundsAssumption DEF ScanJobs
      <3> QED
        BY <1>3, <3>2 DEF ScanJobs, CoordinatorTypeOK, TypeOK, Stations,
           QueuedJobs,
           completing, alarming
    <2>2. BudgetLeft'
      BY <1>3 DEF ScanJobs, BudgetLeft, TypeOK, CoordinatorTypeOK, Idle, After,
         completing
    <2>3. RowsTypeOK' /\ StoresTypeOK' /\ RequestsTypeOK'
      BY <1>3 DEF ScanJobs, TypeOK, RowsTypeOK, StoresTypeOK, RequestsTypeOK,
         apart, rows, storage, cancelling
    <2> QED
      BY <2>1, <2>2, <2>3 DEF TypeOK
  <1>4. CASE SkipNext
    <2>1. CoordinatorTypeOK'
      <3>1. cur' \in Jobs
        BY <1>4 DEF SkipNext, CoordinatorTypeOK, TypeOK
      <3> QED
        BY <1>4, <3>1 DEF SkipNext, CoordinatorTypeOK, TypeOK, Stations,
           RunConclusion, alarming
    <2>2. BudgetLeft'
      BY <1>4 DEF SkipNext, BudgetLeft, TypeOK, CoordinatorTypeOK, Idle, After
    <2>3. RowsTypeOK' /\ StoresTypeOK' /\ RequestsTypeOK'
      BY <1>4 DEF SkipNext, TypeOK, RowsTypeOK, StoresTypeOK, RequestsTypeOK,
         apart, rows, storage, cancelling
    <2> QED
      BY <2>1, <2>2, <2>3 DEF TypeOK
  <1>5. CASE DispatchNext
    <2>1. CoordinatorTypeOK'
      <3>1. cur' \in Jobs
        BY <1>5, DispatchesReady DEF DispatchNext, CoordinatorTypeOK, TypeOK
      <3> QED
        BY <1>5, <3>1 DEF DispatchNext, CoordinatorTypeOK, TypeOK, Stations,
           RunConclusion, completing, pass, alarming
    <2>2. BudgetLeft'
      BY <1>5, DispatchesReady DEF DispatchNext, BudgetLeft, TypeOK,
         CoordinatorTypeOK, pass
    <2>3. RowsTypeOK' /\ StoresTypeOK' /\ RequestsTypeOK'
      BY <1>5 DEF DispatchNext, TypeOK, RowsTypeOK, StoresTypeOK,
         RequestsTypeOK, apart, rows, storage, cancelling
    <2> QED
      BY <2>1, <2>2, <2>3 DEF TypeOK
  <1>6. CASE PassDone
    <2>1. CoordinatorTypeOK'
      BY <1>6, JobsFacts DEF PassDone, CoordinatorTypeOK, TypeOK, Stations,
         RunConclusion, Idle, After, alarming
    <2>2. BudgetLeft'
      BY <1>6 DEF PassDone, BudgetLeft, TypeOK, CoordinatorTypeOK, Idle, After
    <2>3. RowsTypeOK' /\ StoresTypeOK' /\ RequestsTypeOK'
      BY <1>6 DEF PassDone, TypeOK, RowsTypeOK, StoresTypeOK, RequestsTypeOK,
         apart, rows, storage, cancelling
    <2> QED
      BY <2>1, <2>2, <2>3 DEF TypeOK
  <1>7. CASE Cleanup
    <2>1. StoresTypeOK'
      BY <1>7, BoundsAssumption DEF Cleanup, StoresTypeOK, TypeOK,
         CoordinatorTypeOK, apart, storage
    <2>2. CoordinatorTypeOK'
      BY <1>7, JobsFacts DEF Cleanup, CoordinatorTypeOK, TypeOK, Stations,
         RunConclusion, Idle, After, completing, pass, alarming
    <2>3. BudgetLeft'
      BY <1>7 DEF Cleanup, BudgetLeft, TypeOK, CoordinatorTypeOK, Idle, After,
         completing, pass
    <2>4. RowsTypeOK' /\ RequestsTypeOK'
      BY <1>7 DEF Cleanup, TypeOK, RowsTypeOK, RequestsTypeOK, apart, rows,
         cancelling
    <2> QED
      BY <2>1, <2>2, <2>3, <2>4 DEF TypeOK
  <1>8. CASE EndEvent
    <2>1. StoresTypeOK'
      BY <1>8, BoundsAssumption DEF EndEvent, StoresTypeOK, TypeOK,
         CoordinatorTypeOK
    <2>2. CoordinatorTypeOK'
      BY <1>8, JobsFacts DEF EndEvent, CoordinatorTypeOK, TypeOK, Stations,
         RunConclusion, Idle, After
    <2>3. BudgetLeft'
      BY <1>8 DEF EndEvent, BudgetLeft, TypeOK, CoordinatorTypeOK, Idle, After
    <2>4. RowsTypeOK' /\ RequestsTypeOK'
      BY <1>8 DEF EndEvent, TypeOK, RowsTypeOK, RequestsTypeOK, rows, cancelling
    <2> QED
      BY <2>1, <2>2, <2>3, <2>4 DEF TypeOK
  <1> QED
    BY <1>1, <1>2, <1>3, <1>4, <1>5, <1>6, <1>7, <1>8

\* The dispatch of a job.
LEMMA DispatchingTypes ==
  ASSUME TInv,
         \/ PinCommit \/ StartJob \/ FindCheck \/ TouchCheck
         \/ MarkDispatched \/ SetDeadline \/ SetAlarm \/ Send
  PROVE  TInv'
  <1> USE DEF TInv
  <1>1. CASE PinCommit
    <2>1. StoresTypeOK'
      BY <1>1, BoundsAssumption DEF PinCommit, StoresTypeOK, TypeOK,
         CoordinatorTypeOK, apart, storage
    <2>2. CoordinatorTypeOK'
      BY <1>1, JobsFacts DEF PinCommit, CoordinatorTypeOK, TypeOK, Stations,
         RunConclusion, Idle, After, completing, pass, alarming
    <2>3. BudgetLeft'
      BY <1>1 DEF PinCommit, BudgetLeft, TypeOK, CoordinatorTypeOK, Idle, After,
         completing, pass
    <2>4. RowsTypeOK' /\ RequestsTypeOK'
      BY <1>1 DEF PinCommit, TypeOK, RowsTypeOK, RequestsTypeOK, apart, rows,
         cancelling
    <2> QED
      BY <2>1, <2>2, <2>3, <2>4 DEF TypeOK
  <1>2. CASE StartJob
    <2>1. RowsTypeOK'
      BY <1>2, JobsFacts, RowFacts DEF StartJob, RowsTypeOK, RequestsTypeOK,
         CoordinatorTypeOK, TypeOK
    <2>2. CoordinatorTypeOK'
      BY <1>2, JobsFacts DEF StartJob, CoordinatorTypeOK, TypeOK, Stations,
         RunConclusion, Idle, After, completing, pass, alarming
    <2>3. BudgetLeft'
      BY <1>2 DEF StartJob, BudgetLeft, TypeOK, CoordinatorTypeOK, Idle, After,
         completing, pass
    <2>4. StoresTypeOK' /\ RequestsTypeOK'
      BY <1>2 DEF StartJob, TypeOK, StoresTypeOK, RequestsTypeOK, apart,
         storage, cancelling
    <2> QED
      BY <2>1, <2>2, <2>3, <2>4 DEF TypeOK
  <1>3. CASE FindCheck
    <2>1. CoordinatorTypeOK'
      BY <1>3, JobsFacts DEF FindCheck, CoordinatorTypeOK, TypeOK, Stations,
         RunConclusion, Idle, After, completing, pass, alarming
    <2>2. BudgetLeft'
      BY <1>3 DEF FindCheck, BudgetLeft, TypeOK, CoordinatorTypeOK, Idle, After,
         completing, pass
    <2>3. RowsTypeOK' /\ StoresTypeOK' /\ RequestsTypeOK'
      BY <1>3 DEF FindCheck, TypeOK, RowsTypeOK, StoresTypeOK, RequestsTypeOK,
         apart, rows, storage, cancelling
    <2> QED
      BY <2>1, <2>2, <2>3 DEF TypeOK
  <1>4. CASE TouchCheck
    <2>1. RowsTypeOK'
      BY <1>4, JobsFacts, RowFacts DEF TouchCheck, RowsTypeOK, RequestsTypeOK,
         CoordinatorTypeOK, TypeOK
    <2>2. CoordinatorTypeOK'
      BY <1>4, JobsFacts DEF TouchCheck, CoordinatorTypeOK, TypeOK, Stations,
         RunConclusion, Idle, After, completing, pass, alarming
    <2>3. BudgetLeft'
      BY <1>4 DEF TouchCheck, BudgetLeft, TypeOK, CoordinatorTypeOK, Idle,
         After, completing, pass
    <2>4. StoresTypeOK' /\ RequestsTypeOK'
      BY <1>4 DEF TouchCheck, TypeOK, StoresTypeOK, RequestsTypeOK, apart,
         storage, cancelling
    <2> QED
      BY <2>1, <2>2, <2>3, <2>4 DEF TypeOK
  <1>5. CASE MarkDispatched
    <2>1. StoresTypeOK'
      BY <1>5, BoundsAssumption DEF MarkDispatched, StoresTypeOK, TypeOK,
         CoordinatorTypeOK, apart
    <2>2. CoordinatorTypeOK'
      BY <1>5, JobsFacts DEF MarkDispatched, CoordinatorTypeOK, TypeOK,
         Stations, RunConclusion, Idle, After, completing, pass, alarming
    <2>3. BudgetLeft'
      BY <1>5 DEF MarkDispatched, BudgetLeft, TypeOK, CoordinatorTypeOK, Idle,
         After, completing, pass
    <2>4. RowsTypeOK' /\ RequestsTypeOK'
      BY <1>5 DEF MarkDispatched, TypeOK, RowsTypeOK, RequestsTypeOK, apart,
         rows, cancelling
    <2> QED
      BY <2>1, <2>2, <2>3, <2>4 DEF TypeOK
  <1>6. CASE SetDeadline
    <2>1. StoresTypeOK'
      BY <1>6, BoundsAssumption DEF SetDeadline, StoresTypeOK, TypeOK,
         CoordinatorTypeOK, apart
    <2>2. CoordinatorTypeOK'
      BY <1>6, JobsFacts DEF SetDeadline, CoordinatorTypeOK, TypeOK, Stations,
         RunConclusion, Idle, After, completing, pass, alarming
    <2>3. BudgetLeft'
      BY <1>6 DEF SetDeadline, BudgetLeft, TypeOK, CoordinatorTypeOK, Idle,
         After, completing, pass
    <2>4. RowsTypeOK' /\ RequestsTypeOK'
      BY <1>6 DEF SetDeadline, TypeOK, RowsTypeOK, RequestsTypeOK, apart, rows,
         cancelling
    <2> QED
      BY <2>1, <2>2, <2>3, <2>4 DEF TypeOK
  <1>7. CASE SetAlarm
    <2>1. StoresTypeOK'
      BY <1>7, BoundsAssumption DEF SetAlarm, StoresTypeOK, TypeOK,
         CoordinatorTypeOK, apart
    <2>2. CoordinatorTypeOK'
      BY <1>7, JobsFacts DEF SetAlarm, CoordinatorTypeOK, TypeOK, Stations,
         RunConclusion, Idle, After, completing, pass, alarming
    <2>3. BudgetLeft'
      BY <1>7 DEF SetAlarm, BudgetLeft, TypeOK, CoordinatorTypeOK, Idle, After,
         completing, pass
    <2>4. RowsTypeOK' /\ RequestsTypeOK'
      BY <1>7 DEF SetAlarm, TypeOK, RowsTypeOK, RequestsTypeOK, apart, rows,
         cancelling
    <2> QED
      BY <2>1, <2>2, <2>3, <2>4 DEF TypeOK
  <1>8. CASE Send
    <2>1. StoresTypeOK'
      BY <1>8, BoundsAssumption DEF Send, StoresTypeOK, TypeOK,
         CoordinatorTypeOK, storage
    <2>2. CoordinatorTypeOK'
      BY <1>8 DEF Send, CoordinatorTypeOK, TypeOK, Stations, BudgetLeft,
         completing, alarming
    <2>3. BudgetLeft'
      BY <1>8 DEF Send, BudgetLeft, TypeOK, CoordinatorTypeOK, Idle, After,
         completing
    <2>4. RowsTypeOK' /\ RequestsTypeOK'
      BY <1>8 DEF Send, TypeOK, RowsTypeOK, RequestsTypeOK, rows, cancelling
    <2> QED
      BY <2>1, <2>2, <2>3, <2>4 DEF TypeOK
  <1> QED
    BY <1>1, <1>2, <1>3, <1>4, <1>5, <1>6, <1>7, <1>8

\* The end of a job, and of the run.
LEMMA CompletingTypes ==
  ASSUME TInv,
         \/ CompleteJob \/ ProjectCheck \/ PostStatus \/ RollUp
         \/ FinishRun \/ MarkHandled \/ ClearDeadline
  PROVE  TInv'
  <1> USE DEF TInv
  <1>1. CASE CompleteJob
    <2>1. RowsTypeOK'
      BY <1>1, JobsFacts, RowFacts DEF CompleteJob, RowsTypeOK, RequestsTypeOK,
         CoordinatorTypeOK, TypeOK
    <2>2. CoordinatorTypeOK'
      BY <1>1, JobsFacts DEF CompleteJob, CoordinatorTypeOK, TypeOK, Stations,
         RunConclusion, Idle, After, completing, pass, alarming
    <2>3. BudgetLeft'
      BY <1>1 DEF CompleteJob, BudgetLeft, TypeOK, CoordinatorTypeOK, Idle,
         After, completing, pass
    <2>4. StoresTypeOK' /\ RequestsTypeOK'
      BY <1>1 DEF CompleteJob, TypeOK, StoresTypeOK, RequestsTypeOK, apart,
         storage, cancelling
    <2> QED
      BY <2>1, <2>2, <2>3, <2>4 DEF TypeOK
  <1>2. CASE ProjectCheck
    <2>1. RowsTypeOK'
      BY <1>2, JobsFacts, RowFacts DEF ProjectCheck, RowsTypeOK, RequestsTypeOK,
         CoordinatorTypeOK, TypeOK
    <2>2. CoordinatorTypeOK'
      BY <1>2, JobsFacts DEF ProjectCheck, CoordinatorTypeOK, TypeOK, Stations,
         RunConclusion, Idle, After, completing, pass, alarming
    <2>3. BudgetLeft'
      BY <1>2 DEF ProjectCheck, BudgetLeft, TypeOK, CoordinatorTypeOK, Idle,
         After, completing, pass
    <2>4. StoresTypeOK' /\ RequestsTypeOK'
      BY <1>2 DEF ProjectCheck, TypeOK, StoresTypeOK, RequestsTypeOK, apart,
         storage, cancelling
    <2> QED
      BY <2>1, <2>2, <2>3, <2>4 DEF TypeOK
  <1>3. CASE PostStatus
    <2>1. RowsTypeOK'
      BY <1>3 DEF PostStatus, RowsTypeOK, TypeOK, RequestsTypeOK,
         CoordinatorTypeOK, toCommitStatusState
    <2>2. CoordinatorTypeOK'
      BY <1>3, JobsFacts DEF PostStatus, CoordinatorTypeOK, TypeOK, Stations,
         RunConclusion, Idle, After, completing, pass, alarming
    <2>3. BudgetLeft'
      BY <1>3 DEF PostStatus, BudgetLeft, TypeOK, CoordinatorTypeOK, Idle,
         After, completing, pass
    <2>4. StoresTypeOK' /\ RequestsTypeOK'
      BY <1>3 DEF PostStatus, TypeOK, StoresTypeOK, RequestsTypeOK, apart,
         storage, cancelling
    <2> QED
      BY <2>1, <2>2, <2>3, <2>4 DEF TypeOK
  <1>4. CASE RollUp
    <2>1. CoordinatorTypeOK'
      <3>1. {job[i].conclusion : i \in Jobs} \in SUBSET (RunConclusion \cup {"none"})
        BY RowFacts DEF TypeOK, RowsTypeOK
      <3>2. {job[i].conclusion : i \in Jobs} # {}
        BY JobsFacts
      <3>3. WorstOf({job[i].conclusion : i \in Jobs}) \in RunConclusion \cup {"none"}
        BY <3>1, <3>2, WorstExists
      <3>4. verdict' \in RunConclusion \cup {"none"}
        BY <1>4, <3>3 DEF RollUp, CoordinatorTypeOK, TypeOK
      <3> QED
        BY <1>4, <3>4 DEF RollUp, After, CoordinatorTypeOK, TypeOK, Stations,
           pass, alarming
    <2>2. BudgetLeft'
      BY <1>4 DEF RollUp, BudgetLeft, TypeOK, CoordinatorTypeOK, Idle, After, pass
    <2>3. RowsTypeOK' /\ StoresTypeOK' /\ RequestsTypeOK'
      BY <1>4 DEF RollUp, TypeOK, RowsTypeOK, StoresTypeOK, RequestsTypeOK,
         apart, rows, storage, cancelling
    <2> QED
      BY <2>1, <2>2, <2>3 DEF TypeOK
  <1>5. CASE FinishRun
    <2>1. RowsTypeOK'
      BY <1>5, JobsFacts, RowFacts DEF FinishRun, RowsTypeOK, RequestsTypeOK,
         CoordinatorTypeOK, TypeOK
    <2>2. CoordinatorTypeOK'
      BY <1>5, JobsFacts DEF FinishRun, CoordinatorTypeOK, TypeOK, Stations,
         RunConclusion, Idle, After, completing, pass, alarming
    <2>3. BudgetLeft'
      BY <1>5 DEF FinishRun, BudgetLeft, TypeOK, CoordinatorTypeOK, Idle, After,
         completing, pass
    <2>4. StoresTypeOK' /\ RequestsTypeOK'
      BY <1>5 DEF FinishRun, TypeOK, StoresTypeOK, RequestsTypeOK, apart,
         storage, cancelling
    <2> QED
      BY <2>1, <2>2, <2>3, <2>4 DEF TypeOK
  <1>6. CASE MarkHandled
    <2>1. StoresTypeOK'
      BY <1>6, BoundsAssumption DEF MarkHandled, StoresTypeOK, TypeOK,
         CoordinatorTypeOK, apart
    <2>2. CoordinatorTypeOK'
      <3>1. then # "skipped" => budget > 0
        BY <1>6 DEF MarkHandled, BudgetLeft
      <3>2. budget' \in Nat
        BY <1>6, <3>1 DEF MarkHandled, TypeOK, CoordinatorTypeOK
      <3>3. skippedAny' \in BOOLEAN
        BY <1>6 DEF MarkHandled, TypeOK, CoordinatorTypeOK
      <3> QED
        BY <1>6, <3>2, <3>3 DEF MarkHandled, TypeOK, CoordinatorTypeOK,
           Stations, completing,
           alarming
    <2>3. BudgetLeft'
      BY <1>6 DEF MarkHandled, BudgetLeft, TypeOK, CoordinatorTypeOK, Idle,
         After, completing
    <2>4. RowsTypeOK' /\ RequestsTypeOK'
      BY <1>6 DEF MarkHandled, TypeOK, RowsTypeOK, RequestsTypeOK, apart, rows,
         cancelling
    <2> QED
      BY <2>1, <2>2, <2>3, <2>4 DEF TypeOK
  <1>7. CASE ClearDeadline
    <2>1. StoresTypeOK'
      BY <1>7, BoundsAssumption DEF ClearDeadline, StoresTypeOK, TypeOK,
         CoordinatorTypeOK, apart
    <2>2. CoordinatorTypeOK'
      BY <1>7, JobsFacts DEF ClearDeadline, CoordinatorTypeOK, TypeOK, Stations,
         RunConclusion, Idle, After, completing, pass, alarming
    <2>3. BudgetLeft'
      BY <1>7 DEF ClearDeadline, BudgetLeft, TypeOK, CoordinatorTypeOK, Idle,
         After, completing, pass
    <2>4. RowsTypeOK' /\ RequestsTypeOK'
      BY <1>7 DEF ClearDeadline, TypeOK, RowsTypeOK, RequestsTypeOK, apart,
         rows, cancelling
    <2> QED
      BY <2>1, <2>2, <2>3, <2>4 DEF TypeOK
  <1> QED
    BY <1>1, <1>2, <1>3, <1>4, <1>5, <1>6, <1>7

\* The jobs that are timed out.
LEMMA ReapingTypes ==
  ASSUME TInv, NEW j \in Jobs,
         \/ ReapDone \/ ReapNext(j)
  PROVE  TInv'
  <1> USE DEF TInv
  <1>1. CASE ReapDone
    <2>1. CoordinatorTypeOK'
      BY <1>1, JobsFacts DEF ReapDone, CoordinatorTypeOK, TypeOK, Stations,
         RunConclusion, Idle, After, completing, pass, alarming
    <2>2. BudgetLeft'
      BY <1>1 DEF ReapDone, BudgetLeft, TypeOK, CoordinatorTypeOK, Idle, After,
         completing, pass
    <2>3. RowsTypeOK' /\ StoresTypeOK' /\ RequestsTypeOK'
      BY <1>1 DEF ReapDone, TypeOK, RowsTypeOK, StoresTypeOK, RequestsTypeOK,
         apart, rows, storage, cancelling
    <2> QED
      BY <2>1, <2>2, <2>3 DEF TypeOK
  <1>2. CASE ReapNext(j)
    <2>1. CoordinatorTypeOK'
      BY <1>2, JobsFacts DEF ReapNext, CoordinatorTypeOK, TypeOK, Stations,
         RunConclusion, Idle, After, pass
    <2>2. BudgetLeft'
      BY <1>2 DEF ReapNext, BudgetLeft, TypeOK, CoordinatorTypeOK, Idle, After,
         pass
    <2>3. RowsTypeOK' /\ StoresTypeOK' /\ RequestsTypeOK'
      BY <1>2 DEF ReapNext, TypeOK, RowsTypeOK, StoresTypeOK, RequestsTypeOK,
         apart, rows, storage, cancelling
    <2> QED
      BY <2>1, <2>2, <2>3 DEF TypeOK
  <1> QED
    BY <1>1, <1>2

\* The containers, the repository, and what stops before its end.
LEMMA OutsideTypes ==
  ASSUME TInv, NEW j \in Jobs,
         \/ FinishContainer(j) \/ DeleteRepository \/ Crash \/ CreatorDies
         \/ CancellerDies
  PROVE  TInv'
  <1> USE DEF TInv
  <1>1. CASE FinishContainer(j)
    <2>1. StoresTypeOK'
      BY <1>1, BoundsAssumption DEF FinishContainer, StoresTypeOK, TypeOK,
         CoordinatorTypeOK, storage
    <2>2. RowsTypeOK' /\ RequestsTypeOK' /\ CoordinatorTypeOK' /\ BudgetLeft'
      BY <1>1 DEF FinishContainer, TypeOK, RowsTypeOK, RequestsTypeOK,
         CoordinatorTypeOK, BudgetLeft, rows, cancelling, completing, pass,
         alarming, coordinator
    <2> QED
      BY <2>1, <2>2 DEF TypeOK
  <1>2. CASE DeleteRepository
    <2>1. StoresTypeOK'
      BY <1>2, BoundsAssumption DEF DeleteRepository, StoresTypeOK, TypeOK,
         CoordinatorTypeOK, storage, outside
    <2>2. RowsTypeOK' /\ RequestsTypeOK' /\ CoordinatorTypeOK' /\ BudgetLeft'
      BY <1>2 DEF DeleteRepository, TypeOK, RowsTypeOK, RequestsTypeOK,
         CoordinatorTypeOK, BudgetLeft, rows, cancelling, completing, pass,
         alarming, coordinator
    <2> QED
      BY <2>1, <2>2 DEF TypeOK
  <1>3. CASE Crash
    <2>1. StoresTypeOK'
      BY <1>3, BoundsAssumption DEF Crash, StoresTypeOK, TypeOK,
         CoordinatorTypeOK, outside
    <2>2. CoordinatorTypeOK'
      BY <1>3, JobsFacts DEF Crash, CoordinatorTypeOK, TypeOK, Stations,
         RunConclusion, Idle, After
    <2>3. BudgetLeft'
      BY <1>3 DEF Crash, BudgetLeft, TypeOK, CoordinatorTypeOK, Idle, After
    <2>4. RowsTypeOK' /\ RequestsTypeOK'
      BY <1>3 DEF Crash, TypeOK, RowsTypeOK, RequestsTypeOK, rows, cancelling
    <2> QED
      BY <2>1, <2>2, <2>3, <2>4 DEF TypeOK
  <1>4. CASE CreatorDies
    <2>1. StoresTypeOK'
      BY <1>4, BoundsAssumption DEF CreatorDies, StoresTypeOK, TypeOK,
         CoordinatorTypeOK, storage, outside
    <2>2. RequestsTypeOK'
      BY <1>4, JobsFacts DEF CreatorDies, RequestsTypeOK, TypeOK, Unended,
         cancelling
    <2>3. RowsTypeOK' /\ CoordinatorTypeOK' /\ BudgetLeft'
      BY <1>4 DEF CreatorDies, TypeOK, RowsTypeOK, CoordinatorTypeOK,
         BudgetLeft, rows, completing, pass, alarming, coordinator
    <2> QED
      BY <2>1, <2>2, <2>3 DEF TypeOK
  <1>5. CASE CancellerDies
    <2>1. StoresTypeOK'
      BY <1>5, BoundsAssumption DEF CancellerDies, StoresTypeOK, TypeOK,
         CoordinatorTypeOK, storage, outside
    <2>2. RequestsTypeOK'
      BY <1>5, JobsFacts DEF CancellerDies, RequestsTypeOK, TypeOK, Unended
    <2>3. RowsTypeOK' /\ CoordinatorTypeOK' /\ BudgetLeft'
      BY <1>5 DEF CancellerDies, TypeOK, RowsTypeOK, CoordinatorTypeOK,
         BudgetLeft, rows, completing, pass, alarming, coordinator
    <2> QED
      BY <2>1, <2>2, <2>3 DEF TypeOK
  <1> QED
    BY <1>1, <1>2, <1>3, <1>4, <1>5

\* The initial state, and every step.
LEMMA InitTypes == Init => TInv
  <1> SUFFICES ASSUME Init PROVE TInv
    OBVIOUS
  <1>1. RowsTypeOK
    BY RowFacts DEF Init, RowsTypeOK
  <1>2. StoresTypeOK
    <2>1. deliveries \in 0 .. MaxDeliveries /\ faults \in 0 .. MaxFaults
      BY BoundsAssumption DEF Init
    <2>2. deadline \in [Jobs -> Nat] /\ results \in [Jobs -> {"none", "success",
       "failure"}]
      BY DEF Init
    <2>3. pin \in BOOLEAN /\ active \in BOOLEAN
      BY DEF Init
    <2> QED
      BY <2>1, <2>2, <2>3 DEF Init, StoresTypeOK
  <1>3. RequestsTypeOK
    BY JobsFacts DEF Init, RequestsTypeOK
  <1>4. CoordinatorTypeOK /\ BudgetLeft
    BY JobsFacts DEF Init, CoordinatorTypeOK, BudgetLeft, Stations
  <1> QED
    BY <1>1, <1>2, <1>3, <1>4 DEF TInv, TypeOK

LEMMA NextTypes == TInv /\ [Next]_vars => TInv'
  <1> SUFFICES ASSUME TInv, [Next]_vars PROVE TInv'
    OBVIOUS
  <1>1. CASE Creating
    BY <1>1, CreatingTypes DEF Creating
  <1>2. CASE StartCancel \/ Cancelling
    BY <1>2, CancellingTypes, JobsFacts DEF Cancelling
  <1>3. CASE DeliverTick \/ FireAlarm \/ \E j \in Jobs : ReceiveResult(j)
    BY <1>3, EventTypes, JobsFacts
  <1>4. CASE Ticking
    BY <1>4, TickingTypes DEF Ticking
  <1>5. CASE Dispatching
    BY <1>5, DispatchingTypes DEF Dispatching
  <1>6. CASE Completing
    BY <1>6, CompletingTypes DEF Completing
  <1>7. CASE Reaping
    BY <1>7, ReapingTypes, JobsFacts DEF Reaping
  <1>8. CASE DeleteRepository \/ Failing \/ \E j \in Jobs : FinishContainer(j)
    BY <1>8, OutsideTypes, JobsFacts DEF Failing
  <1>9. CASE UNCHANGED vars
    <2>1. TypeOK'
      BY <1>9 DEF TInv, TypeOK, RowsTypeOK, StoresTypeOK, RequestsTypeOK,
         CoordinatorTypeOK, vars, rows, storage, outside, cancelling, coordinator,
         completing, pass, alarming
    <2>2. BudgetLeft'
      BY <1>9 DEF TInv, BudgetLeft, vars, coordinator, completing, pass
    <2> QED
      BY <2>1, <2>2 DEF TInv
  <1> QED
    BY <1>1, <1>2, <1>3, <1>4, <1>5, <1>6, <1>7, <1>8, <1>9 DEF Next, Coordinate

\* Every variable keeps its type.
THEOREM TypeCorrect == Spec => []TypeOK
  <1>1. TInv => TypeOK
    BY DEF TInv
  <1> QED
    BY <1>1, InitTypes, NextTypes, PTL DEF Spec

-----------------------------------------------------------------------------
(* The order of the jobs: one starts once all it needs has succeeded.       *)

Dispatch == {"pin", "startJob", "findCheck", "touch", "mark", "deadline", "arm", "send"}

\* Everything job j needs has succeeded; all has ended and something otherwise.
\* Neither changes once it holds.
NeedsMet(j) ==
  \A i \in Jobs : Key[i] \in Needs[j] => job[i] = Row("completed", "success")
NeedsFailed(j) ==
  /\ \A i \in Jobs : Key[i] \in Needs[j] => Completed(i)
  /\ \E i \in Jobs : Key[i] \in Needs[j] /\ job[i].conclusion # "success"

Born(j) == job[j].status # "none"

\* What the verdict of a job says of those it needs.
RowsOrdered ==
  \A j \in Jobs :
    /\ Completed(j) <=> job[j].conclusion # "none"
    /\ job[j].status = "in_progress" \/ job[j].conclusion \in {"success", "timed_out"}
         => NeedsMet(j)
    /\ job[j].conclusion = "skipped" => NeedsFailed(j)

\* So it is for the jobs that somebody is about to start, to end or to skip.
WorkOrdered ==
  \A j \in Jobs :
    /\ \/ j \in running \/ results[j] # "none" \/ deadline[j] # 0
       \/ j \in due \/ j \in ready
       => Born(j) /\ NeedsMet(j)
    /\ j \in skips => Born(j) /\ NeedsFailed(j)

CurOrdered ==
  /\ pc \in Dispatch => Born(cur) /\ NeedsMet(cur)
  /\ pc = "complete" =>
       /\ Born(cur) /\ verdict # "none"
       /\ verdict = "skipped" => NeedsFailed(cur)
       /\ verdict # "skipped" => NeedsMet(cur)

\* The jobs the request has not come to are not there.
Unborn ==
  \A j \in Jobs :
    \/ creator.at \in {"run", "job"} /\ j >= creator.job
    \/ creator.at \in {"check", "post"} /\ j > creator.job
    => job[j] = Nothing

OInv == RowsOrdered /\ WorkOrdered /\ CurOrdered /\ Unborn


\* A verdict is final, and a job that is there stays.
RowsGrow ==
  \A i \in Jobs :
    /\ Completed(i) => job'[i] = job[i]
    /\ Born(i) => Born(i)'

LEMMA NeedsStay ==
  ASSUME RowsGrow
  PROVE  /\ \A j \in Jobs : NeedsMet(j) => NeedsMet(j)'
         /\ \A j \in Jobs : NeedsFailed(j) => NeedsFailed(j)'
  <1>1. \A j \in Jobs : NeedsMet(j) => NeedsMet(j)'
    BY DEF RowsGrow, NeedsMet, Completed, Row
  <1>2. \A j \in Jobs : NeedsFailed(j) => NeedsFailed(j)'
    BY DEF RowsGrow, NeedsFailed, Completed
  <1> QED
    BY <1>1, <1>2

\* The steps that write the run, and those that write a job.
LEMMA RowWriters ==
  ASSUME Next
  PROVE  \/ CreateRun \/ StartRun \/ CancelRun \/ FinishRun
         \/ InsertJob \/ CancelJobs \/ StartJob \/ CompleteJob
         \/ UNCHANGED <<run, job>>
  <1>1. CASE Creating
    BY <1>1 DEF Creating, InsertCheck, PostPending, Enqueue, rows
  <1>2. CASE StartCancel \/ Cancelling
    BY <1>2 DEF Cancelling, StartCancel, CancelPost, EndCancel, CancelCheck, rows
  <1>3. CASE DeliverTick \/ FireAlarm \/ \E j \in Jobs : ReceiveResult(j)
    BY <1>3 DEF DeliverTick, FireAlarm, ReceiveResult, rows
  <1>4. CASE Ticking \/ Reaping
    BY <1>4 DEF Ticking, TickRun, ScanJobs, SkipNext, DispatchNext, PassDone,
       Cleanup,
       EndEvent, Reaping, ReapNext, ReapDone, rows
  <1>5. CASE Dispatching
    BY <1>5 DEF Dispatching, PinCommit, FindCheck, TouchCheck, MarkDispatched,
       SetDeadline, SetAlarm, Send, rows
  <1>6. CASE Completing
    BY <1>6 DEF Completing, ProjectCheck, PostStatus, RollUp, MarkHandled,
       ClearDeadline, rows
  <1>7. CASE DeleteRepository \/ Failing \/ \E j \in Jobs : FinishContainer(j)
    BY <1>7 DEF DeleteRepository, Failing, Crash, CreatorDies, CancellerDies,
       FinishContainer, rows
  <1> QED
    BY <1>1, <1>2, <1>3, <1>4, <1>5, <1>6, <1>7 DEF Next, Coordinate

LEMMA RowsGrowStep ==
  ASSUME TInv, OInv, Next
  PROVE  RowsGrow
  <1> USE DEF TInv, TypeOK
  <1>1. CASE InsertJob
    <2>1. creator.job \in Jobs /\ job[creator.job] = Nothing
      BY <1>1, JobsFacts DEF InsertJob, RequestsTypeOK, OInv, Unborn
    <2> QED
      BY <1>1, <2>1 DEF InsertJob, RowsTypeOK, RowsGrow, Completed, Born, Row,
         Nothing
  <1>2. CASE CancelJobs
    BY <1>2 DEF CancelJobs, Unended, RowsTypeOK, RowsGrow, Completed, Born, Row
  <1>3. CASE StartJob
    BY <1>3 DEF StartJob, RowsTypeOK, CoordinatorTypeOK, RowsGrow, Completed,
       Born, Row
  <1>4. CASE CompleteJob
    BY <1>4 DEF CompleteJob, RowsTypeOK, CoordinatorTypeOK, RowsGrow, Completed,
       Born, Row
  <1>5. CASE UNCHANGED job
    BY <1>5 DEF RowsGrow, Born
  <1>6. CASE CreateRun \/ StartRun \/ CancelRun \/ FinishRun
    BY <1>5, <1>6 DEF CreateRun, StartRun, CancelRun, FinishRun
  <1> QED
    BY <1>1, <1>2, <1>3, <1>4, <1>5, <1>6, RowWriters

\* What a pass finds ready has everything it needs: the cells of a matrix have the
\* same needs, so when one has succeeded none was skipped.
LEMMA ReadyMet ==
  ASSUME TInv, RowsOrdered, NEW j \in Jobs, IsReady(j)
  PROVE  NeedsMet(j)
  <1> USE DEF TInv, TypeOK
  <1> SUFFICES ASSUME NEW i \in Jobs, Key[i] \in Needs[j]
               PROVE  job[i] = Row("completed", "success")
    BY DEF NeedsMet
  <1> DEFINE C == {job[l].conclusion : l \in Cells(Key[i])}
  <1>1. Settled(Key[i]) /\ WorstOf(C) = "success" /\ i \in Cells(Key[i])
    BY DEF IsReady, KeyConclusion, Cells
  <1>2. C \in SUBSET (RunConclusion \cup {"none"}) /\ C # {} /\ job[i].conclusion \in C
    BY <1>1, RowFacts DEF RowsTypeOK, Cells
  <1>3. "success" \in C /\ \A d \in C : RUN_RANK(d) <= RUN_RANK("success")
    BY <1>1, <1>2, WorstExists
  <1>4. PICK l \in Jobs : Key[l] = Key[i] /\ job[l].conclusion = "success"
    BY <1>3 DEF Cells
  <1>5. Completed(i) /\ job[i].conclusion \in RunConclusion
    BY <1>1, RowFacts DEF Settled, RowsOrdered, RowsTypeOK
  <1>6. job[i].conclusion \in {"success", "skipped"}
    BY <1>2, <1>3, <1>5 DEF RUN_RANK, RunConclusion
  <1>7. job[i].conclusion # "skipped"
    <2>1. SUFFICES ASSUME NeedsFailed(i) PROVE FALSE
      BY DEF RowsOrdered
    <2>2. PICK m \in Jobs : Key[m] \in Needs[i] /\ job[m].conclusion # "success"
      BY <2>1 DEF NeedsFailed
    <2>3. Needs[i] = Needs[l] /\ NeedsMet(l)
      BY <1>4, JobsAssumption DEF RowsOrdered
    <2> QED
      BY <2>2, <2>3 DEF NeedsMet, Row
  <1> QED
    BY <1>5, <1>6, <1>7 DEF Completed, RowsTypeOK, Rows, Row

\* What it finds skipped needs something that has ended otherwise.
LEMMA SkippedFailed ==
  ASSUME TInv, NEW j \in Jobs, IsSkipped(j)
  PROVE  NeedsFailed(j)
  <1> USE DEF TInv, TypeOK
  <1>1. PICK k \in Needs[j] : Settled(k) /\ KeyConclusion(k) # "success"
    BY DEF IsSkipped
  <1> DEFINE C == {job[l].conclusion : l \in Cells(k)}
  <1>2. C \in SUBSET (RunConclusion \cup {"none"})
    BY RowFacts DEF RowsTypeOK, Cells
  <1>3. C # {}
    BY JobsAssumption DEF Cells
  <1>4. WorstOf(C) \in C
    BY <1>2, <1>3, WorstExists
  <1>5. PICK l \in Cells(k) : job[l].conclusion = WorstOf(C)
    BY <1>4
  <1>6. \A i \in Jobs : Key[i] \in Needs[j] => Completed(i)
    BY DEF IsSkipped, Settled, Cells
  <1> QED
    BY <1>1, <1>5, <1>6 DEF NeedsFailed, KeyConclusion, Cells

\* The request that creates the run.
LEMMA CreatingOrder ==
  ASSUME TInv, OInv, RowsGrow,
         \/ CreateRun \/ InsertJob \/ InsertCheck \/ PostPending
         \/ Enqueue
  PROVE  OInv'
  <1>0. /\ \A i \in Jobs : NeedsMet(i) => NeedsMet(i)'
        /\ \A i \in Jobs : NeedsFailed(i) => NeedsFailed(i)'
        /\ \A i \in Jobs : Born(i) => Born(i)'
    BY NeedsStay DEF RowsGrow
  <1> USE DEF OInv, Born, Completed
  <1>1. CASE CreateRun
    <2>1. Unborn'
      BY <1>1, JobsFacts DEF CreateRun, Unborn, TInv, TypeOK, RequestsTypeOK
    <2>2. RowsOrdered' /\ WorkOrdered' /\ CurOrdered'
      BY <1>1, <1>0 DEF CreateRun, RowsOrdered, WorkOrdered, CurOrdered, TInv,
         TypeOK, CoordinatorTypeOK, storage, outside, completing, pass,
         alarming, coordinator
    <2> QED
      BY <2>1, <2>2 DEF OInv
  <1>2. CASE InsertJob
    <2>1. RowsOrdered'
      BY <1>2, <1>0 DEF InsertJob, RowsOrdered, TInv, TypeOK, RowsTypeOK,
         RequestsTypeOK, Row
    <2>2. WorkOrdered'
      BY <1>2, <1>0 DEF InsertJob, WorkOrdered, TInv, TypeOK, CoordinatorTypeOK,
         storage, outside, pass, alarming, coordinator
    <2>3. CurOrdered'
      BY <1>2, <1>0 DEF InsertJob, CurOrdered, TInv, TypeOK, CoordinatorTypeOK,
         Dispatch, completing, coordinator
    <2>4. Unborn'
      BY <1>2, JobsFacts DEF InsertJob, Unborn, TInv, TypeOK, RowsTypeOK,
         RequestsTypeOK
    <2> QED
      BY <2>1, <2>2, <2>3, <2>4 DEF OInv
  <1>3. CASE InsertCheck
    <2>1. Unborn'
      BY <1>3, JobsFacts DEF InsertCheck, Unborn, TInv, TypeOK, RequestsTypeOK
    <2>2. RowsOrdered' /\ WorkOrdered' /\ CurOrdered'
      BY <1>3, <1>0 DEF InsertCheck, RowsOrdered, WorkOrdered, CurOrdered, TInv,
         TypeOK, CoordinatorTypeOK, storage, outside, completing, pass,
         alarming, coordinator
    <2> QED
      BY <2>1, <2>2 DEF OInv
  <1>4. CASE PostPending
    <2>1. Unborn'
      BY <1>4, JobsFacts DEF PostPending, Unborn, TInv, TypeOK, RequestsTypeOK
    <2>2. RowsOrdered' /\ WorkOrdered' /\ CurOrdered'
      BY <1>4, <1>0 DEF PostPending, RowsOrdered, WorkOrdered, CurOrdered, TInv,
         TypeOK, CoordinatorTypeOK, storage, outside, completing, pass,
         alarming, coordinator
    <2> QED
      BY <2>1, <2>2 DEF OInv
  <1>5. CASE Enqueue
    <2>1. Unborn'
      BY <1>5, JobsFacts DEF Enqueue, Unborn, TInv, TypeOK, RequestsTypeOK, rows
    <2>2. RowsOrdered' /\ WorkOrdered' /\ CurOrdered'
      BY <1>5, <1>0 DEF Enqueue, RowsOrdered, WorkOrdered, CurOrdered, TInv,
         TypeOK, CoordinatorTypeOK, rows, storage, completing, pass, alarming,
         coordinator
    <2> QED
      BY <2>1, <2>2 DEF OInv
  <1> QED
    BY <1>1, <1>2, <1>3, <1>4, <1>5

\* The request that cancels it.
LEMMA CancellingOrder ==
  ASSUME TInv, OInv, RowsGrow, NEW j \in Jobs,
         \/ StartCancel \/ CancelJobs \/ CancelRun \/ CancelPost
         \/ EndCancel \/ CancelCheck(j)
  PROVE  OInv'
  <1>0. /\ \A i \in Jobs : NeedsMet(i) => NeedsMet(i)'
        /\ \A i \in Jobs : NeedsFailed(i) => NeedsFailed(i)'
        /\ \A i \in Jobs : Born(i) => Born(i)'
    BY NeedsStay DEF RowsGrow
  <1> USE DEF OInv, Born, Completed
  <1>1. CASE StartCancel
    <2>1. RowsOrdered' /\ WorkOrdered' /\ CurOrdered' /\ Unborn'
      BY <1>1, <1>0 DEF StartCancel, RowsOrdered, WorkOrdered, CurOrdered,
         Unborn, TInv, TypeOK, CoordinatorTypeOK, rows, storage, outside,
         completing, pass, alarming, coordinator
    <2> QED
      BY <2>1 DEF OInv
  <1>2. CASE CancelJobs
    <2>1. RowsOrdered'
      BY <1>2, <1>0 DEF CancelJobs, RowsOrdered, TInv, TypeOK, RowsTypeOK,
         Unended, Row
    <2>2. WorkOrdered'
      BY <1>2, <1>0 DEF CancelJobs, WorkOrdered, TInv, TypeOK,
         CoordinatorTypeOK, storage, outside, pass, alarming, coordinator
    <2>3. CurOrdered'
      BY <1>2, <1>0 DEF CancelJobs, CurOrdered, TInv, TypeOK, CoordinatorTypeOK,
         Dispatch, completing, coordinator
    <2>4. Unborn'
      BY <1>2 DEF CancelJobs, Unborn, TInv, TypeOK, RowsTypeOK, Unended, Row,
         Nothing
    <2> QED
      BY <2>1, <2>2, <2>3, <2>4 DEF OInv
  <1>3. CASE CancelRun
    <2>1. RowsOrdered' /\ WorkOrdered' /\ CurOrdered' /\ Unborn'
      BY <1>3, <1>0 DEF CancelRun, RowsOrdered, WorkOrdered, CurOrdered, Unborn,
         TInv, TypeOK, CoordinatorTypeOK, storage, outside, completing, pass,
         alarming, coordinator
    <2> QED
      BY <2>1 DEF OInv
  <1>4. CASE CancelPost
    <2>1. RowsOrdered' /\ WorkOrdered' /\ CurOrdered' /\ Unborn'
      BY <1>4, <1>0 DEF CancelPost, RowsOrdered, WorkOrdered, CurOrdered,
         Unborn, TInv, TypeOK, CoordinatorTypeOK, storage, outside, completing,
         pass, alarming, coordinator
    <2> QED
      BY <2>1 DEF OInv
  <1>5. CASE EndCancel
    <2>1. RowsOrdered' /\ WorkOrdered' /\ CurOrdered' /\ Unborn'
      BY <1>5, <1>0 DEF EndCancel, RowsOrdered, WorkOrdered, CurOrdered, Unborn,
         TInv, TypeOK, CoordinatorTypeOK, rows, storage, outside, completing,
         pass, alarming, coordinator
    <2> QED
      BY <2>1 DEF OInv
  <1>6. CASE CancelCheck(j)
    <2>1. RowsOrdered' /\ WorkOrdered' /\ CurOrdered' /\ Unborn'
      BY <1>6, <1>0 DEF CancelCheck, RowsOrdered, WorkOrdered, CurOrdered,
         Unborn, TInv, TypeOK, CoordinatorTypeOK, storage, outside, completing,
         pass, alarming, coordinator
    <2> QED
      BY <2>1 DEF OInv
  <1> QED
    BY <1>1, <1>2, <1>3, <1>4, <1>5, <1>6

\* What the coordinator is woken by.
LEMMA EventOrder ==
  ASSUME TInv, OInv, RowsGrow, NEW j \in Jobs,
         \/ DeliverTick \/ FireAlarm \/ ReceiveResult(j)
  PROVE  OInv'
  <1>0. /\ \A i \in Jobs : NeedsMet(i) => NeedsMet(i)'
        /\ \A i \in Jobs : NeedsFailed(i) => NeedsFailed(i)'
        /\ \A i \in Jobs : Born(i) => Born(i)'
    BY NeedsStay DEF RowsGrow
  <1> USE DEF OInv, Born, Completed
  <1>1. CASE DeliverTick
    <2>1. CurOrdered'
      BY <1>1, <1>0 DEF DeliverTick, CurOrdered, TInv, TypeOK,
         CoordinatorTypeOK, Dispatch, rows, completing
    <2>2. RowsOrdered' /\ WorkOrdered' /\ Unborn'
      BY <1>1, <1>0 DEF DeliverTick, RowsOrdered, WorkOrdered, Unborn, TInv,
         TypeOK, CoordinatorTypeOK, rows, storage, pass, alarming
    <2> QED
      BY <2>1, <2>2 DEF OInv
  <1>2. CASE FireAlarm
    <2>1. WorkOrdered'
      BY <1>2, <1>0 DEF FireAlarm, WorkOrdered, TInv, TypeOK, StoresTypeOK,
         rows, outside, pass
    <2>2. CurOrdered'
      BY <1>2, <1>0 DEF FireAlarm, CurOrdered, TInv, TypeOK, CoordinatorTypeOK,
         Dispatch, rows, completing
    <2>3. RowsOrdered' /\ Unborn'
      BY <1>2, <1>0 DEF FireAlarm, RowsOrdered, Unborn, TInv, TypeOK,
         CoordinatorTypeOK, rows
    <2> QED
      BY <2>1, <2>2, <2>3 DEF OInv
  <1>3. CASE ReceiveResult(j)
    <2>1. WorkOrdered'
      BY <1>3, <1>0 DEF ReceiveResult, WorkOrdered, TInv, TypeOK, StoresTypeOK,
         rows, storage, pass, alarming
    <2>2. CurOrdered'
      BY <1>3, <1>0 DEF ReceiveResult, CurOrdered, TInv, TypeOK, StoresTypeOK,
         WorkOrdered, Dispatch, rows
    <2>3. RowsOrdered' /\ Unborn'
      BY <1>3, <1>0 DEF ReceiveResult, RowsOrdered, Unborn, TInv, TypeOK,
         CoordinatorTypeOK, rows
    <2> QED
      BY <2>1, <2>2, <2>3 DEF OInv
  <1> QED
    BY <1>1, <1>2, <1>3

\* The evaluation of the jobs.
LEMMA TickingOrder ==
  ASSUME TInv, OInv, RowsGrow,
         \/ TickRun \/ StartRun \/ ScanJobs \/ SkipNext
         \/ DispatchNext \/ PassDone \/ Cleanup \/ EndEvent
  PROVE  OInv'
  <1>0. /\ \A i \in Jobs : NeedsMet(i) => NeedsMet(i)'
        /\ \A i \in Jobs : NeedsFailed(i) => NeedsFailed(i)'
        /\ \A i \in Jobs : Born(i) => Born(i)'
    BY NeedsStay DEF RowsGrow
  <1> USE DEF OInv, Born, Completed
  <1>1. CASE TickRun
    <2>1. CurOrdered'
      BY <1>1, <1>0 DEF TickRun, CurOrdered, TInv, TypeOK, CoordinatorTypeOK,
         Dispatch, rows, completing
    <2>2. RowsOrdered' /\ WorkOrdered' /\ Unborn'
      BY <1>1, <1>0 DEF TickRun, RowsOrdered, WorkOrdered, Unborn, TInv, TypeOK,
         CoordinatorTypeOK, apart, rows, storage, pass, alarming
    <2> QED
      BY <2>1, <2>2 DEF OInv
  <1>2. CASE StartRun
    <2>1. CurOrdered'
      BY <1>2, <1>0 DEF StartRun, CurOrdered, TInv, TypeOK, CoordinatorTypeOK,
         Dispatch, completing
    <2>2. RowsOrdered' /\ WorkOrdered' /\ Unborn'
      BY <1>2, <1>0 DEF StartRun, RowsOrdered, WorkOrdered, Unborn, TInv,
         TypeOK, CoordinatorTypeOK, apart, storage, pass, alarming
    <2> QED
      BY <2>1, <2>2 DEF OInv
  <1>3. CASE ScanJobs
    <2>1. WorkOrdered'
      BY <1>3, <1>0, ReadyMet, SkippedFailed DEF ScanJobs, WorkOrdered,
         QueuedJobs, apart, rows, storage, alarming
    <2>2. CurOrdered'
      BY <1>3, <1>0 DEF ScanJobs, CurOrdered, TInv, TypeOK, CoordinatorTypeOK,
         Dispatch, rows, completing
    <2>3. RowsOrdered' /\ Unborn'
      BY <1>3, <1>0 DEF ScanJobs, RowsOrdered, Unborn, TInv, TypeOK,
         CoordinatorTypeOK, apart, rows
    <2> QED
      BY <2>1, <2>2, <2>3 DEF OInv
  <1>4. CASE SkipNext
    <2>1. WorkOrdered'
      BY <1>4, <1>0 DEF SkipNext, WorkOrdered, TInv, TypeOK, CoordinatorTypeOK,
         apart, rows, storage, alarming
    <2>2. CurOrdered'
      BY <1>4, <1>0 DEF SkipNext, CurOrdered, TInv, TypeOK, CoordinatorTypeOK,
         WorkOrdered, Dispatch, rows
    <2>3. RowsOrdered' /\ Unborn'
      BY <1>4, <1>0 DEF SkipNext, RowsOrdered, Unborn, TInv, TypeOK,
         CoordinatorTypeOK, apart, rows
    <2> QED
      BY <2>1, <2>2, <2>3 DEF OInv
  <1>5. CASE DispatchNext
    <2>1. WorkOrdered'
      BY <1>5, <1>0 DEF DispatchNext, WorkOrdered, TInv, TypeOK,
         CoordinatorTypeOK, apart, rows, storage, alarming
    <2>2. CurOrdered'
      BY <1>5, <1>0, DispatchesReady DEF DispatchNext, CurOrdered, TInv, TypeOK,
         CoordinatorTypeOK, WorkOrdered, Dispatch, rows
    <2>3. RowsOrdered' /\ Unborn'
      BY <1>5, <1>0 DEF DispatchNext, RowsOrdered, Unborn, TInv, TypeOK,
         CoordinatorTypeOK, apart, rows
    <2> QED
      BY <2>1, <2>2, <2>3 DEF OInv
  <1>6. CASE PassDone
    <2>1. WorkOrdered'
      BY <1>6, <1>0 DEF PassDone, WorkOrdered, TInv, TypeOK, CoordinatorTypeOK,
         apart, rows, storage, alarming
    <2>2. CurOrdered'
      BY <1>6, <1>0 DEF PassDone, CurOrdered, TInv, TypeOK, CoordinatorTypeOK,
         Dispatch, rows
    <2>3. RowsOrdered' /\ Unborn'
      BY <1>6, <1>0 DEF PassDone, RowsOrdered, Unborn, TInv, TypeOK,
         CoordinatorTypeOK, apart, rows
    <2> QED
      BY <2>1, <2>2, <2>3 DEF OInv
  <1>7. CASE Cleanup
    <2>1. CurOrdered'
      BY <1>7, <1>0 DEF Cleanup, CurOrdered, TInv, TypeOK, CoordinatorTypeOK,
         Dispatch, rows, completing
    <2>2. RowsOrdered' /\ WorkOrdered' /\ Unborn'
      BY <1>7, <1>0 DEF Cleanup, RowsOrdered, WorkOrdered, Unborn, TInv, TypeOK,
         CoordinatorTypeOK, apart, rows, storage, pass, alarming
    <2> QED
      BY <2>1, <2>2 DEF OInv
  <1>8. CASE EndEvent
    <2>1. WorkOrdered'
      BY <1>8, <1>0 DEF EndEvent, WorkOrdered, Idle, rows
    <2>2. CurOrdered'
      BY <1>8, <1>0 DEF EndEvent, CurOrdered, Idle, Dispatch, rows
    <2>3. RowsOrdered' /\ Unborn'
      BY <1>8, <1>0 DEF EndEvent, RowsOrdered, Unborn, TInv, TypeOK,
         CoordinatorTypeOK, rows
    <2> QED
      BY <2>1, <2>2, <2>3 DEF OInv
  <1> QED
    BY <1>1, <1>2, <1>3, <1>4, <1>5, <1>6, <1>7, <1>8

\* The dispatch of a job.
LEMMA DispatchingOrder ==
  ASSUME TInv, OInv, RowsGrow,
         \/ PinCommit \/ StartJob \/ FindCheck \/ TouchCheck
         \/ MarkDispatched \/ SetDeadline \/ SetAlarm \/ Send
  PROVE  OInv'
  <1>0. /\ \A i \in Jobs : NeedsMet(i) => NeedsMet(i)'
        /\ \A i \in Jobs : NeedsFailed(i) => NeedsFailed(i)'
        /\ \A i \in Jobs : Born(i) => Born(i)'
    BY NeedsStay DEF RowsGrow
  <1> USE DEF OInv, Born, Completed
  <1>1. CASE PinCommit
    <2>1. CurOrdered'
      BY <1>1, <1>0 DEF PinCommit, CurOrdered, TInv, TypeOK, CoordinatorTypeOK,
         Dispatch, rows, completing
    <2>2. RowsOrdered' /\ WorkOrdered' /\ Unborn'
      BY <1>1, <1>0 DEF PinCommit, RowsOrdered, WorkOrdered, Unborn, TInv,
         TypeOK, CoordinatorTypeOK, apart, rows, storage, pass, alarming
    <2> QED
      BY <2>1, <2>2 DEF OInv
  <1>2. CASE StartJob
    <2>1. RowsOrdered'
      BY <1>2, <1>0 DEF StartJob, RowsOrdered, TInv, TypeOK, CoordinatorTypeOK,
         RowsTypeOK, CurOrdered, Row, Dispatch
    <2>2. WorkOrdered'
      BY <1>2, <1>0 DEF StartJob, WorkOrdered, TInv, TypeOK, CoordinatorTypeOK,
         apart, storage, pass, alarming
    <2>3. CurOrdered'
      BY <1>2, <1>0 DEF StartJob, CurOrdered, TInv, TypeOK, CoordinatorTypeOK,
         Dispatch, completing
    <2>4. Unborn'
      BY <1>2 DEF StartJob, Unborn, TInv, TypeOK, CoordinatorTypeOK, RowsTypeOK,
         CurOrdered, Row, Nothing, Dispatch, apart
    <2> QED
      BY <2>1, <2>2, <2>3, <2>4 DEF OInv
  <1>3. CASE FindCheck
    <2>1. CurOrdered'
      BY <1>3, <1>0 DEF FindCheck, CurOrdered, TInv, TypeOK, CoordinatorTypeOK,
         Dispatch, rows, completing
    <2>2. RowsOrdered' /\ WorkOrdered' /\ Unborn'
      BY <1>3, <1>0 DEF FindCheck, RowsOrdered, WorkOrdered, Unborn, TInv,
         TypeOK, CoordinatorTypeOK, apart, rows, storage, pass, alarming
    <2> QED
      BY <2>1, <2>2 DEF OInv
  <1>4. CASE TouchCheck
    <2>1. CurOrdered'
      BY <1>4, <1>0 DEF TouchCheck, CurOrdered, TInv, TypeOK, CoordinatorTypeOK,
         Dispatch, completing
    <2>2. RowsOrdered' /\ WorkOrdered' /\ Unborn'
      BY <1>4, <1>0 DEF TouchCheck, RowsOrdered, WorkOrdered, Unborn, TInv,
         TypeOK, CoordinatorTypeOK, apart, storage, pass, alarming
    <2> QED
      BY <2>1, <2>2 DEF OInv
  <1>5. CASE MarkDispatched
    <2>1. CurOrdered'
      BY <1>5, <1>0 DEF MarkDispatched, CurOrdered, TInv, TypeOK,
         CoordinatorTypeOK, Dispatch, rows, completing
    <2>2. RowsOrdered' /\ WorkOrdered' /\ Unborn'
      BY <1>5, <1>0 DEF MarkDispatched, RowsOrdered, WorkOrdered, Unborn, TInv,
         TypeOK, CoordinatorTypeOK, apart, rows, pass, alarming
    <2> QED
      BY <2>1, <2>2 DEF OInv
  <1>6. CASE SetDeadline
    <2>1. WorkOrdered'
      BY <1>6, <1>0 DEF SetDeadline, WorkOrdered, TInv, TypeOK,
         CoordinatorTypeOK, StoresTypeOK, CurOrdered, Dispatch, apart, rows,
         pass, alarming
    <2>2. CurOrdered'
      BY <1>6, <1>0 DEF SetDeadline, CurOrdered, TInv, TypeOK,
         CoordinatorTypeOK, Dispatch, rows, completing
    <2>3. RowsOrdered' /\ Unborn'
      BY <1>6, <1>0 DEF SetDeadline, RowsOrdered, Unborn, TInv, TypeOK,
         CoordinatorTypeOK, apart, rows
    <2> QED
      BY <2>1, <2>2, <2>3 DEF OInv
  <1>7. CASE SetAlarm
    <2>1. CurOrdered'
      BY <1>7, <1>0 DEF SetAlarm, CurOrdered, TInv, TypeOK, CoordinatorTypeOK,
         Dispatch, rows, completing
    <2>2. RowsOrdered' /\ WorkOrdered' /\ Unborn'
      BY <1>7, <1>0 DEF SetAlarm, RowsOrdered, WorkOrdered, Unborn, TInv,
         TypeOK, CoordinatorTypeOK, apart, rows, pass, alarming
    <2> QED
      BY <2>1, <2>2 DEF OInv
  <1>8. CASE Send
    <2>1. WorkOrdered'
      BY <1>8, <1>0 DEF Send, WorkOrdered, TInv, TypeOK, CoordinatorTypeOK,
         StoresTypeOK, CurOrdered, Dispatch, rows, storage, alarming
    <2>2. CurOrdered'
      BY <1>8, <1>0 DEF Send, CurOrdered, TInv, TypeOK, CoordinatorTypeOK,
         Dispatch, rows, completing
    <2>3. RowsOrdered' /\ Unborn'
      BY <1>8, <1>0 DEF Send, RowsOrdered, Unborn, TInv, TypeOK,
         CoordinatorTypeOK, rows
    <2> QED
      BY <2>1, <2>2, <2>3 DEF OInv
  <1> QED
    BY <1>1, <1>2, <1>3, <1>4, <1>5, <1>6, <1>7, <1>8

\* The end of a job, and of the run.
LEMMA CompletingOrder ==
  ASSUME TInv, OInv, RowsGrow,
         \/ CompleteJob \/ ProjectCheck \/ PostStatus \/ RollUp
         \/ FinishRun \/ MarkHandled \/ ClearDeadline
  PROVE  OInv'
  <1>0. /\ \A i \in Jobs : NeedsMet(i) => NeedsMet(i)'
        /\ \A i \in Jobs : NeedsFailed(i) => NeedsFailed(i)'
        /\ \A i \in Jobs : Born(i) => Born(i)'
    BY NeedsStay DEF RowsGrow
  <1> USE DEF OInv, Born, Completed
  <1>1. CASE CompleteJob
    <2>1. RowsOrdered'
      BY <1>1, <1>0 DEF CompleteJob, RowsOrdered, TInv, TypeOK,
         CoordinatorTypeOK, RowsTypeOK, CurOrdered, Row, RunConclusion
    <2>2. WorkOrdered'
      BY <1>1, <1>0 DEF CompleteJob, WorkOrdered, TInv, TypeOK,
         CoordinatorTypeOK, apart, storage, pass, alarming
    <2>3. CurOrdered'
      BY <1>1, <1>0 DEF CompleteJob, CurOrdered, TInv, TypeOK,
         CoordinatorTypeOK, Dispatch, After, completing
    <2>4. Unborn'
      BY <1>1 DEF CompleteJob, Unborn, TInv, TypeOK, CoordinatorTypeOK,
         RowsTypeOK, CurOrdered, Row, Nothing, apart
    <2> QED
      BY <2>1, <2>2, <2>3, <2>4 DEF OInv
  <1>2. CASE ProjectCheck
    <2>1. CurOrdered'
      BY <1>2, <1>0 DEF ProjectCheck, CurOrdered, TInv, TypeOK,
         CoordinatorTypeOK, Dispatch, completing
    <2>2. RowsOrdered' /\ WorkOrdered' /\ Unborn'
      BY <1>2, <1>0 DEF ProjectCheck, RowsOrdered, WorkOrdered, Unborn, TInv,
         TypeOK, CoordinatorTypeOK, apart, storage, pass, alarming
    <2> QED
      BY <2>1, <2>2 DEF OInv
  <1>3. CASE PostStatus
    <2>1. CurOrdered'
      BY <1>3, <1>0 DEF PostStatus, CurOrdered, TInv, TypeOK, CoordinatorTypeOK,
         Dispatch, After, completing
    <2>2. RowsOrdered' /\ WorkOrdered' /\ Unborn'
      BY <1>3, <1>0 DEF PostStatus, RowsOrdered, WorkOrdered, Unborn, TInv,
         TypeOK, CoordinatorTypeOK, apart, storage, pass, alarming
    <2> QED
      BY <2>1, <2>2 DEF OInv
  <1>4. CASE RollUp
    <2>1. CurOrdered'
      BY <1>4, <1>0 DEF RollUp, CurOrdered, TInv, TypeOK, CoordinatorTypeOK,
         Dispatch, After, rows
    <2>2. RowsOrdered' /\ WorkOrdered' /\ Unborn'
      BY <1>4, <1>0 DEF RollUp, RowsOrdered, WorkOrdered, Unborn, TInv, TypeOK,
         CoordinatorTypeOK, apart, rows, storage, pass, alarming
    <2> QED
      BY <2>1, <2>2 DEF OInv
  <1>5. CASE FinishRun
    <2>1. CurOrdered'
      BY <1>5, <1>0 DEF FinishRun, CurOrdered, TInv, TypeOK, CoordinatorTypeOK,
         Dispatch, After, completing
    <2>2. RowsOrdered' /\ WorkOrdered' /\ Unborn'
      BY <1>5, <1>0 DEF FinishRun, RowsOrdered, WorkOrdered, Unborn, TInv,
         TypeOK, CoordinatorTypeOK, apart, storage, pass, alarming
    <2> QED
      BY <2>1, <2>2 DEF OInv
  <1>6. CASE MarkHandled
    <2>1. CurOrdered'
      BY <1>6, <1>0 DEF MarkHandled, CurOrdered, TInv, TypeOK,
         CoordinatorTypeOK, Dispatch, rows, completing
    <2>2. RowsOrdered' /\ WorkOrdered' /\ Unborn'
      BY <1>6, <1>0 DEF MarkHandled, RowsOrdered, WorkOrdered, Unborn, TInv,
         TypeOK, CoordinatorTypeOK, apart, rows, alarming
    <2> QED
      BY <2>1, <2>2 DEF OInv
  <1>7. CASE ClearDeadline
    <2>1. WorkOrdered'
      BY <1>7, <1>0 DEF ClearDeadline, WorkOrdered, TInv, TypeOK,
         CoordinatorTypeOK, StoresTypeOK, apart, rows, pass, alarming
    <2>2. CurOrdered'
      BY <1>7, <1>0 DEF ClearDeadline, CurOrdered, TInv, TypeOK,
         CoordinatorTypeOK, Dispatch, rows, completing
    <2>3. RowsOrdered' /\ Unborn'
      BY <1>7, <1>0 DEF ClearDeadline, RowsOrdered, Unborn, TInv, TypeOK,
         CoordinatorTypeOK, apart, rows
    <2> QED
      BY <2>1, <2>2, <2>3 DEF OInv
  <1> QED
    BY <1>1, <1>2, <1>3, <1>4, <1>5, <1>6, <1>7

\* The jobs that are timed out.
LEMMA ReapingOrder ==
  ASSUME TInv, OInv, RowsGrow, NEW j \in Jobs,
         \/ ReapDone \/ ReapNext(j)
  PROVE  OInv'
  <1>0. /\ \A i \in Jobs : NeedsMet(i) => NeedsMet(i)'
        /\ \A i \in Jobs : NeedsFailed(i) => NeedsFailed(i)'
        /\ \A i \in Jobs : Born(i) => Born(i)'
    BY NeedsStay DEF RowsGrow
  <1> USE DEF OInv, Born, Completed
  <1>1. CASE ReapDone
    <2>1. CurOrdered'
      BY <1>1, <1>0 DEF ReapDone, CurOrdered, TInv, TypeOK, CoordinatorTypeOK,
         Dispatch, rows, completing
    <2>2. RowsOrdered' /\ WorkOrdered' /\ Unborn'
      BY <1>1, <1>0 DEF ReapDone, RowsOrdered, WorkOrdered, Unborn, TInv,
         TypeOK, CoordinatorTypeOK, apart, rows, storage, pass, alarming
    <2> QED
      BY <2>1, <2>2 DEF OInv
  <1>2. CASE ReapNext(j)
    <2>1. WorkOrdered'
      BY <1>2, <1>0 DEF ReapNext, WorkOrdered, TInv, TypeOK, CoordinatorTypeOK,
         apart, rows, storage, pass
    <2>2. CurOrdered'
      BY <1>2, <1>0 DEF ReapNext, CurOrdered, TInv, TypeOK, CoordinatorTypeOK,
         WorkOrdered, Dispatch, rows
    <2>3. RowsOrdered' /\ Unborn'
      BY <1>2, <1>0 DEF ReapNext, RowsOrdered, Unborn, TInv, TypeOK,
         CoordinatorTypeOK, apart, rows
    <2> QED
      BY <2>1, <2>2, <2>3 DEF OInv
  <1> QED
    BY <1>1, <1>2

\* The containers, the repository, and what stops before its end.
LEMMA OutsideOrder ==
  ASSUME TInv, OInv, RowsGrow, NEW j \in Jobs,
         \/ FinishContainer(j) \/ DeleteRepository \/ Crash \/ CreatorDies
         \/ CancellerDies
  PROVE  OInv'
  <1>0. /\ \A i \in Jobs : NeedsMet(i) => NeedsMet(i)'
        /\ \A i \in Jobs : NeedsFailed(i) => NeedsFailed(i)'
        /\ \A i \in Jobs : Born(i) => Born(i)'
    BY NeedsStay DEF RowsGrow
  <1> USE DEF OInv, Born, Completed
  <1>1. CASE FinishContainer(j)
    <2>1. WorkOrdered'
      BY <1>1, <1>0 DEF FinishContainer, WorkOrdered, TInv, TypeOK,
         StoresTypeOK, rows, storage, pass, alarming, coordinator
    <2>2. RowsOrdered' /\ CurOrdered' /\ Unborn'
      BY <1>1, <1>0 DEF FinishContainer, RowsOrdered, CurOrdered, Unborn, TInv,
         TypeOK, CoordinatorTypeOK, rows, completing, coordinator
    <2> QED
      BY <2>1, <2>2 DEF OInv
  <1>2. CASE DeleteRepository
    <2>1. RowsOrdered' /\ WorkOrdered' /\ CurOrdered' /\ Unborn'
      BY <1>2, <1>0 DEF DeleteRepository, RowsOrdered, WorkOrdered, CurOrdered,
         Unborn, TInv, TypeOK, CoordinatorTypeOK, rows, storage, outside,
         completing, pass, alarming, coordinator
    <2> QED
      BY <2>1 DEF OInv
  <1>3. CASE Crash
    <2>1. WorkOrdered'
      BY <1>3, <1>0 DEF Crash, WorkOrdered, Idle, rows, outside
    <2>2. CurOrdered'
      BY <1>3, <1>0 DEF Crash, CurOrdered, Idle, Dispatch, rows
    <2>3. RowsOrdered' /\ Unborn'
      BY <1>3, <1>0 DEF Crash, RowsOrdered, Unborn, TInv, TypeOK,
         CoordinatorTypeOK, rows
    <2> QED
      BY <2>1, <2>2, <2>3 DEF OInv
  <1>4. CASE CreatorDies
    <2>1. Unborn'
      BY <1>4, JobsFacts DEF CreatorDies, Unborn, TInv, TypeOK, RequestsTypeOK,
         rows
    <2>2. RowsOrdered' /\ WorkOrdered' /\ CurOrdered'
      BY <1>4, <1>0 DEF CreatorDies, RowsOrdered, WorkOrdered, CurOrdered, TInv,
         TypeOK, CoordinatorTypeOK, rows, storage, outside, completing, pass,
         alarming, coordinator
    <2> QED
      BY <2>1, <2>2 DEF OInv
  <1>5. CASE CancellerDies
    <2>1. RowsOrdered' /\ WorkOrdered' /\ CurOrdered' /\ Unborn'
      BY <1>5, <1>0 DEF CancellerDies, RowsOrdered, WorkOrdered, CurOrdered,
         Unborn, TInv, TypeOK, CoordinatorTypeOK, rows, storage, outside,
         completing, pass, alarming, coordinator
    <2> QED
      BY <2>1 DEF OInv
  <1> QED
    BY <1>1, <1>2, <1>3, <1>4, <1>5

LEMMA InitOrder == Init => OInv
  <1> SUFFICES ASSUME Init PROVE OInv
    OBVIOUS
  <1>1. RowsOrdered /\ Unborn
    BY DEF Init, RowsOrdered, Unborn, Completed, Nothing, Row
  <1>2. WorkOrdered /\ CurOrdered
    BY DEF Init, WorkOrdered, CurOrdered, Dispatch
  <1> QED
    BY <1>1, <1>2 DEF OInv

LEMMA NextOrder == TInv /\ OInv /\ [Next]_vars => OInv'
  <1> SUFFICES ASSUME TInv, OInv, [Next]_vars PROVE OInv'
    OBVIOUS
  <1>1. ASSUME Next PROVE OInv'
    <2>1. RowsGrow
      BY <1>1, RowsGrowStep
    <2>2. CASE Creating
      BY <2>1, <2>2, CreatingOrder DEF Creating
    <2>3. CASE StartCancel \/ Cancelling
      BY <2>1, <2>3, CancellingOrder, JobsFacts DEF Cancelling
    <2>4. CASE DeliverTick \/ FireAlarm \/ \E j \in Jobs : ReceiveResult(j)
      BY <2>1, <2>4, EventOrder, JobsFacts
    <2>5. CASE Ticking
      BY <2>1, <2>5, TickingOrder DEF Ticking
    <2>6. CASE Dispatching
      BY <2>1, <2>6, DispatchingOrder DEF Dispatching
    <2>7. CASE Completing
      BY <2>1, <2>7, CompletingOrder DEF Completing
    <2>8. CASE Reaping
      BY <2>1, <2>8, ReapingOrder, JobsFacts DEF Reaping
    <2>9. CASE DeleteRepository \/ Failing \/ \E j \in Jobs : FinishContainer(j)
      BY <2>1, <2>9, OutsideOrder, JobsFacts DEF Failing
    <2> QED
      BY <1>1, <2>2, <2>3, <2>4, <2>5, <2>6, <2>7, <2>8, <2>9 DEF Next, Coordinate
  <1>2. CASE UNCHANGED vars
    BY <1>2 DEF OInv, RowsOrdered, WorkOrdered, CurOrdered, Unborn, NeedsMet,
       NeedsFailed, Born, Completed, vars, rows, storage, outside, coordinator,
       completing, pass, alarming
  <1> QED
    BY <1>1, <1>2

\* No job is given to a container, or has a verdict of its own, before every cell
\* of every job it needs has succeeded: not after a crash, a verdict that comes
\* late, a cancellation, or a deadline that passes while the job is queued again.
THEOREM NeedsAreRespected == Spec => []NeedsRespected
  <1>1. OInv => NeedsRespected
    BY DEF OInv, RowsOrdered, WorkOrdered, NeedsMet, NeedsRespected
  <1> QED
    BY <1>1, InitTypes, NextTypes, InitOrder, NextOrder, PTL DEF Spec

-----------------------------------------------------------------------------
(* The policy's limit.                                                      *)

\* The budget of a pass is room that is left, until the job it is spent on is
\* in progress.
Passing ==
  \/ pc \in {"next", "pin", "startJob"}
  \/ pc \in {"complete", "check", "post", "rollup", "finish", "marked"}
     /\ then \in {"skipped", "unrunnable"}

RoomLeft ==
  /\ Cardinality(InFlight) <= maxConcurrentJobs
  /\ Passing => Cardinality(InFlight) + budget <= maxConcurrentJobs
  /\ pc \in Dispatch \ {"pin", "startJob"}
       => Cardinality(InFlight) + budget <= maxConcurrentJobs + 1

\* The jobs in progress are as many as they were, fewer, or one more.
LEMMA InFlightSize ==
  ASSUME TInv, TInv'
  PROVE  /\ Cardinality(InFlight) \in Nat /\ Cardinality(InFlight)' \in Nat
         /\ budget \in Nat /\ budget' \in Nat /\ maxConcurrentJobs \in Nat
         /\ UNCHANGED job => Cardinality(InFlight)' = Cardinality(InFlight)
         /\ InFlight' \subseteq InFlight
              => Cardinality(InFlight)' <= Cardinality(InFlight)
         /\ InFlight' \subseteq InFlight \cup {cur}
              => Cardinality(InFlight)' <= Cardinality(InFlight) + 1
  <1>1. IsFiniteSet(InFlight) /\ IsFiniteSet(InFlight')
    BY JobsFacts, FS_Subset DEF InFlight
  <1>2. Cardinality(InFlight) \in Nat /\ Cardinality(InFlight') \in Nat
    BY <1>1, FS_CardinalityType
  <1>3. budget \in Nat /\ budget' \in Nat /\ maxConcurrentJobs \in Nat
    BY BoundsAssumption DEF TInv, TypeOK, CoordinatorTypeOK
  <1>4. UNCHANGED job => InFlight' = InFlight
    BY DEF InFlight
  <1>5. InFlight' \subseteq InFlight => Cardinality(InFlight') <= Cardinality(InFlight)
    BY <1>1, FS_Subset
  <1>6. /\ IsFiniteSet(InFlight \cup {cur})
        /\ Cardinality(InFlight \cup {cur}) \in Nat
        /\ Cardinality(InFlight \cup {cur}) <= Cardinality(InFlight) + 1
    BY <1>1, <1>2, FS_AddElement, FS_CardinalityType
  <1>7. InFlight' \subseteq InFlight \cup {cur}
          => Cardinality(InFlight') <= Cardinality(InFlight \cup {cur})
    BY <1>6, FS_Subset
  <1> QED
    BY <1>2, <1>3, <1>4, <1>5, <1>6, <1>7

\* The request that creates the run.
LEMMA CreatingRoom ==
  ASSUME TInv, TInv', RoomLeft,
         \/ CreateRun \/ InsertJob \/ InsertCheck \/ PostPending
         \/ Enqueue
  PROVE  RoomLeft'
  <1>1. CASE CreateRun
    BY <1>1, InFlightSize DEF CreateRun, completing, pass, coordinator,
       RoomLeft, Passing, Dispatch
  <1>2. CASE InsertJob
    <2>1. InFlight' \subseteq InFlight
      BY <1>2 DEF InsertJob, InFlight, TInv, TypeOK, RowsTypeOK, RequestsTypeOK,
         Row
    <2> QED
      BY <1>2, <2>1, InFlightSize DEF InsertJob, completing, pass, coordinator,
         RoomLeft, Passing, Dispatch
  <1>3. CASE InsertCheck
    BY <1>3, InFlightSize DEF InsertCheck, completing, pass, coordinator,
       RoomLeft, Passing, Dispatch
  <1>4. CASE PostPending
    BY <1>4, InFlightSize DEF PostPending, completing, pass, coordinator,
       RoomLeft, Passing, Dispatch
  <1>5. CASE Enqueue
    BY <1>5, InFlightSize DEF Enqueue, rows, completing, pass, coordinator,
       RoomLeft, Passing, Dispatch
  <1> QED
    BY <1>1, <1>2, <1>3, <1>4, <1>5

\* The request that cancels it.
LEMMA CancellingRoom ==
  ASSUME TInv, TInv', RoomLeft, NEW j \in Jobs,
         \/ StartCancel \/ CancelJobs \/ CancelRun \/ CancelPost
         \/ EndCancel \/ CancelCheck(j)
  PROVE  RoomLeft'
  <1>1. CASE StartCancel
    BY <1>1, InFlightSize DEF StartCancel, rows, completing, pass, coordinator,
       RoomLeft, Passing, Dispatch
  <1>2. CASE CancelJobs
    <2>1. InFlight' \subseteq InFlight
      BY <1>2 DEF CancelJobs, InFlight, TInv, TypeOK, RowsTypeOK, Unended, Row
    <2> QED
      BY <1>2, <2>1, InFlightSize DEF CancelJobs, completing, pass, coordinator,
         RoomLeft, Passing, Dispatch
  <1>3. CASE CancelRun
    BY <1>3, InFlightSize DEF CancelRun, completing, pass, coordinator,
       RoomLeft, Passing, Dispatch
  <1>4. CASE CancelPost
    BY <1>4, InFlightSize DEF CancelPost, completing, pass, coordinator,
       RoomLeft, Passing, Dispatch
  <1>5. CASE EndCancel
    BY <1>5, InFlightSize DEF EndCancel, rows, completing, pass, coordinator,
       RoomLeft, Passing, Dispatch
  <1>6. CASE CancelCheck(j)
    BY <1>6, InFlightSize DEF CancelCheck, completing, pass, coordinator,
       RoomLeft, Passing, Dispatch
  <1> QED
    BY <1>1, <1>2, <1>3, <1>4, <1>5, <1>6

\* What the coordinator is woken by.
LEMMA EventRoom ==
  ASSUME TInv, TInv', RoomLeft, NEW j \in Jobs,
         \/ DeliverTick \/ FireAlarm \/ ReceiveResult(j)
  PROVE  RoomLeft'
  <1>1. CASE DeliverTick
    BY <1>1, InFlightSize DEF DeliverTick, rows, completing, pass, RoomLeft,
       Passing, Dispatch
  <1>2. CASE FireAlarm
    BY <1>2, InFlightSize DEF FireAlarm, rows, completing, pass, RoomLeft,
       Passing, Dispatch
  <1>3. CASE ReceiveResult(j)
    BY <1>3, InFlightSize DEF ReceiveResult, rows, pass, RoomLeft, Passing,
       Dispatch
  <1> QED
    BY <1>1, <1>2, <1>3

\* The evaluation of the jobs.
LEMMA TickingRoom ==
  ASSUME TInv, TInv', RoomLeft,
         \/ TickRun \/ StartRun \/ ScanJobs \/ SkipNext
         \/ DispatchNext \/ PassDone \/ Cleanup \/ EndEvent
  PROVE  RoomLeft'
  <1>1. CASE TickRun
    BY <1>1, InFlightSize DEF TickRun, rows, completing, pass, RoomLeft,
       Passing, Dispatch
  <1>2. CASE StartRun
    BY <1>2, InFlightSize DEF StartRun, completing, pass, RoomLeft, Passing,
       Dispatch
  <1>3. CASE ScanJobs
    BY <1>3, InFlightSize DEF ScanJobs, rows, completing, RoomLeft, Passing,
       Dispatch
  <1>4. CASE SkipNext
    BY <1>4, InFlightSize DEF SkipNext, rows, RoomLeft, Passing, Dispatch
  <1>5. CASE DispatchNext
    BY <1>5, InFlightSize, DispatchesReady DEF DispatchNext, rows, RoomLeft,
       Passing, Dispatch
  <1>6. CASE PassDone
    BY <1>6, InFlightSize DEF PassDone, rows, RoomLeft, Passing, Dispatch
  <1>7. CASE Cleanup
    BY <1>7, InFlightSize DEF Cleanup, rows, completing, pass, RoomLeft,
       Passing, Dispatch
  <1>8. CASE EndEvent
    BY <1>8, InFlightSize DEF EndEvent, rows, Idle, RoomLeft, Passing, Dispatch
  <1> QED
    BY <1>1, <1>2, <1>3, <1>4, <1>5, <1>6, <1>7, <1>8

\* The dispatch of a job.
LEMMA DispatchingRoom ==
  ASSUME TInv, TInv', RoomLeft,
         \/ PinCommit \/ StartJob \/ FindCheck \/ TouchCheck
         \/ MarkDispatched \/ SetDeadline \/ SetAlarm \/ Send
  PROVE  RoomLeft'
  <1>1. CASE PinCommit
    BY <1>1, InFlightSize DEF PinCommit, rows, completing, pass, RoomLeft,
       Passing, Dispatch
  <1>2. CASE StartJob
    <2>1. InFlight' \subseteq InFlight \cup {cur}
      BY <1>2 DEF StartJob, InFlight, TInv, TypeOK, RowsTypeOK,
         CoordinatorTypeOK, Row
    <2> QED
      BY <1>2, <2>1, InFlightSize DEF StartJob, completing, pass, RoomLeft,
         Passing, Dispatch, TInv, BudgetLeft
  <1>3. CASE FindCheck
    BY <1>3, InFlightSize DEF FindCheck, rows, completing, pass, RoomLeft,
       Passing, Dispatch
  <1>4. CASE TouchCheck
    BY <1>4, InFlightSize DEF TouchCheck, completing, pass, RoomLeft, Passing,
       Dispatch
  <1>5. CASE MarkDispatched
    BY <1>5, InFlightSize DEF MarkDispatched, rows, completing, pass, RoomLeft,
       Passing, Dispatch
  <1>6. CASE SetDeadline
    BY <1>6, InFlightSize DEF SetDeadline, rows, completing, pass, RoomLeft,
       Passing, Dispatch
  <1>7. CASE SetAlarm
    BY <1>7, InFlightSize DEF SetAlarm, rows, completing, pass, RoomLeft,
       Passing, Dispatch
  <1>8. CASE Send
    BY <1>8, InFlightSize DEF Send, rows, completing, RoomLeft, Passing,
       Dispatch, TInv, BudgetLeft
  <1> QED
    BY <1>1, <1>2, <1>3, <1>4, <1>5, <1>6, <1>7, <1>8

\* The end of a job, and of the run.
LEMMA CompletingRoom ==
  ASSUME TInv, TInv', RoomLeft,
         \/ CompleteJob \/ ProjectCheck \/ PostStatus \/ RollUp
         \/ FinishRun \/ MarkHandled \/ ClearDeadline
  PROVE  RoomLeft'
  <1>1. CASE CompleteJob
    <2>1. InFlight' \subseteq InFlight
      BY <1>1 DEF CompleteJob, InFlight, TInv, TypeOK, RowsTypeOK,
         CoordinatorTypeOK, Row
    <2> QED
      BY <1>1, <2>1, InFlightSize DEF CompleteJob, completing, pass, After,
         RoomLeft, Passing, Dispatch
  <1>2. CASE ProjectCheck
    BY <1>2, InFlightSize DEF ProjectCheck, completing, pass, RoomLeft, Passing,
       Dispatch
  <1>3. CASE PostStatus
    BY <1>3, InFlightSize DEF PostStatus, completing, pass, After, RoomLeft,
       Passing, Dispatch
  <1>4. CASE RollUp
    BY <1>4, InFlightSize DEF RollUp, rows, pass, After, RoomLeft, Passing,
       Dispatch
  <1>5. CASE FinishRun
    BY <1>5, InFlightSize DEF FinishRun, completing, pass, After, RoomLeft,
       Passing, Dispatch
  <1>6. CASE MarkHandled
    BY <1>6, InFlightSize DEF MarkHandled, rows, completing, RoomLeft, Passing,
       Dispatch, TInv, BudgetLeft
  <1>7. CASE ClearDeadline
    BY <1>7, InFlightSize DEF ClearDeadline, rows, completing, pass, RoomLeft,
       Passing, Dispatch
  <1> QED
    BY <1>1, <1>2, <1>3, <1>4, <1>5, <1>6, <1>7

\* The jobs that are timed out.
LEMMA ReapingRoom ==
  ASSUME TInv, TInv', RoomLeft, NEW j \in Jobs,
         \/ ReapDone \/ ReapNext(j)
  PROVE  RoomLeft'
  <1>1. CASE ReapDone
    BY <1>1, InFlightSize DEF ReapDone, rows, completing, pass, RoomLeft,
       Passing, Dispatch
  <1>2. CASE ReapNext(j)
    BY <1>2, InFlightSize DEF ReapNext, rows, pass, RoomLeft, Passing, Dispatch
  <1> QED
    BY <1>1, <1>2

\* The containers, the repository, and what stops before its end.
LEMMA OutsideRoom ==
  ASSUME TInv, TInv', RoomLeft, NEW j \in Jobs,
         \/ FinishContainer(j) \/ DeleteRepository \/ Crash \/ CreatorDies
         \/ CancellerDies
  PROVE  RoomLeft'
  <1>1. CASE FinishContainer(j)
    BY <1>1, InFlightSize DEF FinishContainer, rows, completing, pass,
       coordinator, RoomLeft, Passing, Dispatch
  <1>2. CASE DeleteRepository
    BY <1>2, InFlightSize DEF DeleteRepository, rows, completing, pass,
       coordinator, RoomLeft, Passing, Dispatch
  <1>3. CASE Crash
    BY <1>3, InFlightSize DEF Crash, rows, Idle, RoomLeft, Passing, Dispatch
  <1>4. CASE CreatorDies
    BY <1>4, InFlightSize DEF CreatorDies, rows, completing, pass, coordinator,
       RoomLeft, Passing, Dispatch
  <1>5. CASE CancellerDies
    BY <1>5, InFlightSize DEF CancellerDies, rows, completing, pass,
       coordinator, RoomLeft, Passing, Dispatch
  <1> QED
    BY <1>1, <1>2, <1>3, <1>4, <1>5

LEMMA InitRoom == Init => RoomLeft
  <1> SUFFICES ASSUME Init PROVE RoomLeft
    OBVIOUS
  <1>1. InFlight = {}
    BY DEF Init, InFlight, Nothing, Row
  <1>2. Cardinality(InFlight) = 0
    BY <1>1, FS_EmptySet
  <1> QED
    BY <1>2, BoundsAssumption DEF Init, RoomLeft, Passing, Dispatch

LEMMA NextRoom == TInv /\ TInv' /\ RoomLeft /\ [Next]_vars => RoomLeft'
  <1> SUFFICES ASSUME TInv, TInv', RoomLeft, [Next]_vars PROVE RoomLeft'
    OBVIOUS
  <1>1. CASE Creating
    BY <1>1, CreatingRoom DEF Creating
  <1>2. CASE StartCancel \/ Cancelling
    BY <1>2, CancellingRoom, JobsFacts DEF Cancelling
  <1>3. CASE DeliverTick \/ FireAlarm \/ \E j \in Jobs : ReceiveResult(j)
    BY <1>3, EventRoom, JobsFacts
  <1>4. CASE Ticking
    BY <1>4, TickingRoom DEF Ticking
  <1>5. CASE Dispatching
    BY <1>5, DispatchingRoom DEF Dispatching
  <1>6. CASE Completing
    BY <1>6, CompletingRoom DEF Completing
  <1>7. CASE Reaping
    BY <1>7, ReapingRoom, JobsFacts DEF Reaping
  <1>8. CASE DeleteRepository \/ Failing \/ \E j \in Jobs : FinishContainer(j)
    BY <1>8, OutsideRoom, JobsFacts DEF Failing
  <1>9. CASE UNCHANGED vars
    BY <1>9, InFlightSize DEF RoomLeft, Passing, Dispatch, vars, rows,
       coordinator,
       completing, pass
  <1> QED
    BY <1>1, <1>2, <1>3, <1>4, <1>5, <1>6, <1>7, <1>8, <1>9 DEF Next, Coordinate

\* No more jobs are in progress than the policy allows, whatever a pass that was
\* cut short, a dispatch that was lost or a cancellation leave behind.
THEOREM ConcurrencyIsBounded == Spec => []ConcurrencyBounded
  <1>1. RoomLeft => ConcurrencyBounded
    BY DEF RoomLeft, ConcurrencyBounded
  <1> QED
    BY <1>1, InitTypes, NextTypes, InitRoom, NextRoom, PTL DEF Spec

-----------------------------------------------------------------------------
(* The rows, and who is at work on them.                                    *)

Begun(j) == job[j].status \in {"in_progress", "completed"}
RunBegun == run.status \in {"in_progress", "completed"}

JobVerdicts == {job[j].conclusion : j \in Jobs}

\* The rows are rows of the contract; a run that has ended has no job left, and
\* was cancelled or has the worst of the verdicts.
RowsShaped ==
  /\ run \in Contract!Rows
  /\ \A j \in Jobs : job[j] \in Contract!Rows
  /\ run.status = "completed" =>
       /\ Unended = {}
       /\ \/ run.conclusion = "cancelled"
          \/ AllCompleted /\ run.conclusion = WorstOf(JobVerdicts)

\* Something may wake the coordinator.
Woken ==
  \/ pc # "idle" \/ deliveries > 0 \/ alarm # 0 \/ running # {}
  \/ \E j \in Jobs : results[j] # "none"

\* Until it ends, the request that creates the run is alone with its rows; when it
\* has queued the tick, they are all there.
CreationAlone ==
  /\ creator.at = "run" => run = Contract!Nothing
  /\ creator.at \in {"job", "check", "post", "send"} => run = Contract!Queued
  /\ creator.at \in {"job", "check", "post"} =>
       \A j \in Jobs : j < creator.job => Born(j)
  /\ creator.at \in {"check", "post"} => Born(creator.job)
  /\ creator.at = "send" => \A j \in Jobs : Born(j)
  /\ Woken \/ canceller.at # "idle" => creator.at = "done"
  /\ Woken => \A j \in Jobs : Born(j)
  /\ Woken \/ canceller.at # "idle" => run.status # "none"

\* Once its jobs are cancelled, the request that cancels the run has none left.
CancelledAll == canceller.at = "run" => Unended = {}

\* What was given to a container, or has a deadline, has begun, and so has the run.
WorkBegun ==
  \A j \in Jobs :
    j \in running \/ results[j] # "none" \/ deadline[j] # 0 \/ j \in due
    => Begun(j) /\ RunBegun

\* So it is where the coordinator is at.
CurBegun ==
  /\ pc \in {"scan", "next"} \cup Dispatch \cup {"complete"} => RunBegun
  /\ pc \in Dispatch \ {"pin", "startJob"} => Begun(cur)
  /\ pc = "complete" =>
       /\ verdict \in {"success", "failure", "timed_out", "skipped"}
       /\ verdict \in {"success", "timed_out"} => Begun(cur)
  /\ pc \in {"check", "post", "rollup", "finish", "marked"} => RunBegun
  /\ pc = "finish" =>
       AllCompleted /\ verdict = WorstOf(JobVerdicts)

CInv == RowsShaped /\ CreationAlone /\ CancelledAll /\ WorkBegun /\ CurBegun

\* The rows as the contract writes them.
LEMMA Shapes ==
  /\ Nothing = Contract!Nothing /\ Row("queued", "none") = Contract!Queued
  /\ Row("in_progress", "none") = Contract!Running
  /\ \A c \in RunConclusion : Row("completed", c) = Contract!Ended(c)
  /\ {Contract!Nothing, Contract!Queued, Contract!Running} \subseteq Contract!Rows
  /\ \A c \in RunConclusion : Contract!Ended(c) \in Contract!Rows
  /\ Contract!Nothing.status = "none" /\ Contract!Queued.status = "queued"
  /\ Contract!Running.status = "in_progress"
  /\ \A c \in RunConclusion : /\ Contract!Ended(c).status = "completed"
                              /\ Contract!Ended(c).conclusion = c
  /\ \A r \in Contract!Rows :
       /\ r.status \in Status
       /\ r.status = "none" <=> r = Contract!Nothing
       /\ r.status = "queued" <=> r = Contract!Queued
       /\ r.status = "in_progress" <=> r = Contract!Running
       /\ r.status = "completed" =>
            r.conclusion \in RunConclusion /\ r = Contract!Ended(r.conclusion)
  BY DEF Nothing, Row, Status, RunConclusion, Contract!Nothing, Contract!Queued,
     Contract!Running, Contract!Ended, Contract!Rows, Contract!RunConclusion

\* A run that has begun stays so, and what has ended is final.
Grow ==
  /\ run.status # "none" => run'.status # "none"
  /\ RunBegun => RunBegun'
  /\ run.status = "completed" => run' = run
  /\ \A j \in Jobs : Begun(j) => Begun(j)'
  /\ \A j \in Jobs : Born(j) => Born(j)'
  /\ AllCompleted => UNCHANGED job
  /\ UNCHANGED job => UNCHANGED <<JobVerdicts, AllCompleted, Unended>>
  /\ creator.at = "done" /\ Unended = {} => Unended' = {}

LEMMA GrowStep ==
  ASSUME TInv, TInv', OInv, CInv, Next
  PROVE  Grow
  <1> USE DEF TInv, TypeOK
  <1>1. RowsGrow
    BY RowsGrowStep
  <1>2. \A j \in Jobs : Born(j) => Born(j)'
    BY <1>1 DEF RowsGrow
  <1>3. AllCompleted => UNCHANGED job
    BY <1>1 DEF RowsGrow, AllCompleted, RowsTypeOK
  <1>4. \A j \in Jobs : Begun(j) => Begun(j)'
    <2>1. CASE InsertJob
      BY <2>1, JobsFacts
         DEF InsertJob, OInv, Unborn, RequestsTypeOK, RowsTypeOK, Begun, Nothing, Row
    <2>2. CASE CancelJobs
      BY <2>2 DEF CancelJobs, RowsTypeOK, Begun, Row
    <2>3. CASE StartJob \/ CompleteJob
      BY <2>3 DEF StartJob, CompleteJob, RowsTypeOK, CoordinatorTypeOK, Begun, Row
    <2>4. CASE CreateRun \/ StartRun \/ CancelRun \/ FinishRun \/ UNCHANGED <<run, job>>
      BY <2>4 DEF CreateRun, StartRun, CancelRun, FinishRun, Begun
    <2> QED
      BY <2>1, <2>2, <2>3, <2>4, RowWriters
  <1>5. creator.at = "done" /\ Unended = {} => Unended' = {}
    <2>1. CASE CancelJobs
      BY <2>1 DEF CancelJobs, RowsTypeOK, Unended, Row
    <2>2. CASE StartJob
      BY <2>2 DEF StartJob, RowsTypeOK, CoordinatorTypeOK, Unended, Row
    <2>3. CASE CompleteJob
      BY <2>3 DEF CompleteJob, RowsTypeOK, CoordinatorTypeOK, Unended, Row
    <2>4. CASE InsertJob
      BY <2>4 DEF InsertJob
    <2>5. CASE CreateRun \/ StartRun \/ CancelRun \/ FinishRun \/ UNCHANGED <<run, job>>
      BY <2>5 DEF CreateRun, StartRun, CancelRun, FinishRun, Unended
    <2> QED
      BY <2>1, <2>2, <2>3, <2>4, <2>5, RowWriters
  <1>6. /\ run.status # "none" => run'.status # "none"
        /\ RunBegun => RunBegun'
        /\ run.status = "completed" => run' = run
    <2>1. CASE CreateRun
      BY <2>1, Shapes DEF CreateRun, CInv, CreationAlone, RunBegun
    <2>2. CASE StartRun
      BY <2>2 DEF StartRun, RowsTypeOK, RunBegun, Row
    <2>3. CASE CancelRun \/ FinishRun
      BY <2>3 DEF CancelRun, FinishRun, RunBegun, Row
    <2>4. CASE \/ InsertJob \/ CancelJobs \/ StartJob \/ CompleteJob
               \/ UNCHANGED <<run, job>>
      BY <2>4 DEF InsertJob, CancelJobs, StartJob, CompleteJob, RunBegun
    <2> QED
      BY <2>1, <2>2, <2>3, <2>4, RowWriters
  <1>7. UNCHANGED job => UNCHANGED <<JobVerdicts, AllCompleted, Unended>>
    BY DEF JobVerdicts, AllCompleted, Completed, Unended
  <1> QED
    BY <1>2, <1>3, <1>4, <1>5, <1>6, <1>7 DEF Grow

\* The verdict of the run is one of those of its jobs.
LEMMA EndedVerdict ==
  ASSUME TInv, CInv, AllCompleted
  PROVE  WorstOf(JobVerdicts) \in RunConclusion
  <1>1. JobVerdicts \in SUBSET RunConclusion /\ JobVerdicts # {}
    BY Shapes, JobsFacts DEF JobVerdicts, CInv, RowsShaped, AllCompleted,
       Completed
  <1> QED
    BY <1>1, WorstExists

\* The request that creates the run.
LEMMA CreatingContract ==
  ASSUME TInv, TInv', OInv, CInv, Grow, MayCancel # "always",
         \/ CreateRun \/ InsertJob \/ InsertCheck \/ PostPending
         \/ Enqueue
  PROVE  CInv'
  <1>0. /\ run.status # "none" => run'.status # "none"
        /\ RunBegun => RunBegun'
        /\ \A i \in Jobs : Begun(i) => Begun(i)'
        /\ \A i \in Jobs : Born(i) => Born(i)'
        /\ AllCompleted => UNCHANGED job
        /\ UNCHANGED job => UNCHANGED <<JobVerdicts, AllCompleted, Unended>>
        /\ creator.at = "done" /\ Unended = {} => Unended' = {}
    BY DEF Grow
  <1> USE DEF CInv
  <1>1. CASE CreateRun
    <2>1. RowsShaped'
      BY <1>1, <1>0, Shapes DEF CreateRun, RowsShaped, TInv, TypeOK, CreationAlone
    <2>2. CreationAlone'
      <3>1. run' = Contract!Queued /\ creator'.at = "job" /\ creator'.job = 1
        BY <1>1, Shapes DEF CreateRun
      <3>2. ~Woken' /\ canceller'.at = "idle"
        BY <1>1 DEF CreateRun, CreationAlone, Woken, storage, outside, cancelling,
           coordinator
      <3> QED
        BY <3>1, <3>2 DEF CreationAlone, Jobs
    <2>3. WorkBegun'
      BY <1>1, <1>0 DEF CreateRun, WorkBegun, Begun, storage, outside, alarming,
         coordinator
    <2>4. CurBegun'
      BY <1>1, <1>0, Shapes DEF CreateRun, CurBegun, TInv, TypeOK, RowsTypeOK,
         RunBegun, Dispatch, completing, coordinator
    <2>5. CancelledAll'
      BY <1>1, <1>0 DEF CreateRun, CancelledAll, TInv, TypeOK,
         CoordinatorTypeOK, Woken, CreationAlone, RunBegun, cancelling
    <2> QED
      BY <2>1, <2>2, <2>3, <2>4, <2>5
  <1>2. CASE InsertJob
    <2>1. RowsShaped'
      BY <1>2, <1>0, Shapes DEF InsertJob, RowsShaped, TInv, TypeOK, RowsTypeOK,
         CreationAlone, RequestsTypeOK
    <2>2. CreationAlone'
      <3>1. creator'.at = "check" /\ creator'.job = creator.job /\ creator.job \in Jobs
        BY <1>2 DEF InsertJob, TInv, TypeOK, RequestsTypeOK
      <3>2. ~Woken' /\ canceller'.at = "idle" /\ run' = Contract!Queued
        BY <1>2 DEF InsertJob, CreationAlone, Woken, storage, outside, cancelling,
           coordinator
      <3>3. job'[creator.job].status = "queued"
        BY <1>2, <3>1, Shapes DEF InsertJob, TInv, TypeOK, RowsTypeOK
      <3>4. \A i \in Jobs : i < creator.job => job'[i].status # "none"
        BY <1>2, <1>0 DEF InsertJob, CreationAlone, Born
      <3> QED
        BY <3>1, <3>2, <3>3, <3>4 DEF CreationAlone, Born
    <2>3. CancelledAll'
      BY <1>2, <1>0 DEF InsertJob, CancelledAll, CreationAlone, cancelling
    <2>4. WorkBegun'
      BY <1>2, <1>0 DEF InsertJob, WorkBegun, TInv, TypeOK, CoordinatorTypeOK,
         StoresTypeOK, storage, outside, alarming, coordinator
    <2>5. CurBegun'
      BY <1>2, <1>0 DEF InsertJob, CurBegun, CreationAlone, Woken, Dispatch,
         completing, coordinator
    <2> QED
      BY <2>1, <2>2, <2>3, <2>4, <2>5
  <1>3. CASE InsertCheck
    <2>1. CreationAlone'
      BY <1>3, <1>0, JobsFacts, Shapes DEF InsertCheck, CreationAlone, Woken,
         TInv, TypeOK, RequestsTypeOK, StoresTypeOK, CoordinatorTypeOK, storage,
         outside, cancelling, coordinator
    <2>2. RowsShaped' /\ CancelledAll' /\ WorkBegun' /\ CurBegun'
      BY <1>3, <1>0 DEF InsertCheck, RowsShaped, CancelledAll, WorkBegun,
         CurBegun, TInv, TypeOK, CoordinatorTypeOK, Woken, CreationAlone,
         RunBegun, storage, outside, cancelling, completing, alarming,
         coordinator
    <2> QED
      BY <2>1, <2>2
  <1>4. CASE PostPending
    <2>1. CreationAlone'
      <3>1. ~Woken' /\ canceller'.at = "idle" /\ run' = Contract!Queued /\ job' = job
        BY <1>4 DEF PostPending, CreationAlone, Woken, storage, outside,
           cancelling,
           coordinator
      <3>2. \A i \in Jobs : i <= creator.job => Born(i)
        BY <1>4, JobsFacts DEF PostPending, CreationAlone, TInv, TypeOK,
           RequestsTypeOK
      <3>3. CASE creator.job = NumJobs
        <4>1. creator' = [creator EXCEPT !.at = "send"] /\ \A i \in Jobs : Born(i)'
          BY <1>4, <1>0, <3>2, <3>3 DEF PostPending, Jobs
        <4> QED
          BY <3>1, <4>1 DEF CreationAlone, TInv, TypeOK, RequestsTypeOK
      <3>4. CASE creator.job # NumJobs
        <4>1. /\ creator'.at = "job" /\ creator'.job = creator.job + 1
              /\ \A i \in Jobs : i <= creator.job => Born(i)'
          BY <1>4, <1>0, <3>2, <3>4 DEF PostPending
        <4>2. \A i \in Jobs : i < creator'.job => Born(i)'
          <5>1. creator.job \in Nat /\ Jobs \subseteq Nat
            BY JobsFacts DEF TInv, TypeOK, RequestsTypeOK
          <5> QED
            BY <4>1, <5>1
        <4> QED
          BY <3>1, <4>1, <4>2 DEF CreationAlone
      <3> QED
        BY <3>3, <3>4
    <2>2. RowsShaped' /\ CancelledAll' /\ WorkBegun' /\ CurBegun'
      BY <1>4, <1>0 DEF PostPending, RowsShaped, CancelledAll, WorkBegun,
         CurBegun, TInv, TypeOK, CoordinatorTypeOK, Woken, CreationAlone,
         RunBegun, storage, outside, cancelling, completing, alarming,
         coordinator
    <2> QED
      BY <2>1, <2>2
  <1>5. CASE Enqueue
    <2>1. CreationAlone'
      BY <1>5, <1>0, JobsFacts, Shapes DEF Enqueue, CreationAlone, Woken, TInv,
         TypeOK, RequestsTypeOK, StoresTypeOK, CoordinatorTypeOK, rows, storage,
         cancelling, coordinator
    <2>2. RowsShaped' /\ CancelledAll' /\ WorkBegun' /\ CurBegun'
      BY <1>5, <1>0 DEF Enqueue, RowsShaped, CancelledAll, WorkBegun, CurBegun,
         TInv, TypeOK, CoordinatorTypeOK, Woken, CreationAlone, RunBegun, rows,
         storage, cancelling, completing, alarming, coordinator
    <2> QED
      BY <2>1, <2>2
  <1> QED
    BY <1>1, <1>2, <1>3, <1>4, <1>5

\* The request that cancels it.
LEMMA CancellingContract ==
  ASSUME TInv, TInv', OInv, CInv, Grow, MayCancel # "always", NEW j \in Jobs,
         \/ StartCancel \/ CancelJobs \/ CancelRun \/ CancelPost
         \/ EndCancel \/ CancelCheck(j)
  PROVE  CInv'
  <1>0. /\ run.status # "none" => run'.status # "none"
        /\ RunBegun => RunBegun'
        /\ \A i \in Jobs : Begun(i) => Begun(i)'
        /\ \A i \in Jobs : Born(i) => Born(i)'
        /\ AllCompleted => UNCHANGED job
        /\ UNCHANGED job => UNCHANGED <<JobVerdicts, AllCompleted, Unended>>
        /\ creator.at = "done" /\ Unended = {} => Unended' = {}
    BY DEF Grow
  <1> USE DEF CInv
  <1>1. CASE StartCancel
    <2>1. CreationAlone'
      BY <1>1, <1>0, JobsFacts, Shapes DEF StartCancel, CreationAlone, Woken,
         TInv, TypeOK, RequestsTypeOK, StoresTypeOK, CoordinatorTypeOK, rows,
         storage, outside, coordinator
    <2>2. CancelledAll'
      BY <1>1, <1>0 DEF StartCancel, CancelledAll, CreationAlone, Woken, rows
    <2>3. RowsShaped' /\ WorkBegun' /\ CurBegun'
      BY <1>1, <1>0 DEF StartCancel, RowsShaped, WorkBegun, CurBegun, TInv,
         TypeOK, CoordinatorTypeOK, Woken, CreationAlone, RunBegun, rows,
         storage, outside, completing, alarming, coordinator
    <2> QED
      BY <2>1, <2>2, <2>3
  <1>2. CASE CancelJobs
    <2>1. RowsShaped'
      BY <1>2, <1>0, Shapes DEF CancelJobs, RowsShaped, TInv, TypeOK,
         RowsTypeOK, Unended, AllCompleted, Completed, RunConclusion
    <2>2. CreationAlone'
      BY <1>2, <1>0, JobsFacts, Shapes DEF CancelJobs, CreationAlone, Woken,
         TInv, TypeOK, RequestsTypeOK, StoresTypeOK, CoordinatorTypeOK, storage,
         outside, coordinator
    <2>3. CancelledAll'
      BY <1>2 DEF CancelJobs, CancelledAll, Unended, Row, TInv, TypeOK, RowsTypeOK
    <2>4. WorkBegun'
      BY <1>2, <1>0 DEF CancelJobs, WorkBegun, TInv, TypeOK, CoordinatorTypeOK,
         StoresTypeOK, storage, outside, alarming, coordinator
    <2>5. CurBegun'
      BY <1>2, <1>0 DEF CancelJobs, CurBegun, TInv, TypeOK, CoordinatorTypeOK,
         Dispatch, RunBegun, completing, coordinator
    <2> QED
      BY <2>1, <2>2, <2>3, <2>4, <2>5
  <1>3. CASE CancelRun
    <2>1. RowsShaped'
      BY <1>3, <1>0, Shapes DEF CancelRun, RowsShaped, TInv, TypeOK, RowsTypeOK,
         CancelledAll, Unended, RunConclusion, Row, AllCompleted, Completed
    <2>2. CreationAlone'
      BY <1>3, <1>0, JobsFacts, Shapes DEF CancelRun, CreationAlone, Woken,
         TInv, TypeOK, RequestsTypeOK, StoresTypeOK, CoordinatorTypeOK, storage,
         outside, coordinator
    <2>3. CancelledAll'
      BY <1>3, <1>0 DEF CancelRun, CancelledAll, CreationAlone, Woken
    <2>4. WorkBegun'
      BY <1>3, <1>0 DEF CancelRun, WorkBegun, TInv, TypeOK, CoordinatorTypeOK,
         StoresTypeOK, storage, outside, alarming, coordinator
    <2>5. CurBegun'
      BY <1>3, <1>0 DEF CancelRun, CurBegun, TInv, TypeOK, CoordinatorTypeOK,
         Dispatch, completing, coordinator
    <2> QED
      BY <2>1, <2>2, <2>3, <2>4, <2>5
  <1>4. CASE CancelPost
    <2>1. CreationAlone'
      BY <1>4, <1>0, JobsFacts, Shapes DEF CancelPost, CreationAlone, Woken,
         TInv, TypeOK, RequestsTypeOK, StoresTypeOK, CoordinatorTypeOK, storage,
         outside, coordinator
    <2>2. CancelledAll'
      BY <1>4, <1>0 DEF CancelPost, CancelledAll, CreationAlone, Woken
    <2>3. RowsShaped' /\ WorkBegun' /\ CurBegun'
      BY <1>4, <1>0 DEF CancelPost, RowsShaped, WorkBegun, CurBegun, TInv,
         TypeOK, CoordinatorTypeOK, Woken, CreationAlone, RunBegun, storage,
         outside, completing, alarming, coordinator
    <2> QED
      BY <2>1, <2>2, <2>3
  <1>5. CASE EndCancel
    <2>1. CreationAlone'
      BY <1>5, <1>0, JobsFacts, Shapes DEF EndCancel, CreationAlone, Woken,
         TInv, TypeOK, RequestsTypeOK, StoresTypeOK, CoordinatorTypeOK, rows,
         storage, outside, coordinator
    <2>2. CancelledAll'
      BY <1>5, <1>0 DEF EndCancel, CancelledAll, CreationAlone, Woken, rows
    <2>3. RowsShaped' /\ WorkBegun' /\ CurBegun'
      BY <1>5, <1>0 DEF EndCancel, RowsShaped, WorkBegun, CurBegun, TInv,
         TypeOK, CoordinatorTypeOK, Woken, CreationAlone, RunBegun, rows,
         storage, outside, completing, alarming, coordinator
    <2> QED
      BY <2>1, <2>2, <2>3
  <1>6. CASE CancelCheck(j)
    <2>1. CreationAlone'
      BY <1>6, <1>0, JobsFacts, Shapes DEF CancelCheck, CreationAlone, Woken,
         TInv, TypeOK, RequestsTypeOK, StoresTypeOK, CoordinatorTypeOK, storage,
         outside, coordinator
    <2>2. CancelledAll'
      BY <1>6, <1>0 DEF CancelCheck, CancelledAll, CreationAlone, Woken
    <2>3. RowsShaped' /\ WorkBegun' /\ CurBegun'
      BY <1>6, <1>0 DEF CancelCheck, RowsShaped, WorkBegun, CurBegun, TInv,
         TypeOK, CoordinatorTypeOK, Woken, CreationAlone, RunBegun, storage,
         outside, completing, alarming, coordinator
    <2> QED
      BY <2>1, <2>2, <2>3
  <1> QED
    BY <1>1, <1>2, <1>3, <1>4, <1>5, <1>6

\* What the coordinator is woken by.
LEMMA EventContract ==
  ASSUME TInv, TInv', OInv, CInv, Grow, MayCancel # "always", NEW j \in Jobs,
         \/ DeliverTick \/ FireAlarm \/ ReceiveResult(j)
  PROVE  CInv'
  <1>0. /\ run.status # "none" => run'.status # "none"
        /\ RunBegun => RunBegun'
        /\ \A i \in Jobs : Begun(i) => Begun(i)'
        /\ \A i \in Jobs : Born(i) => Born(i)'
        /\ AllCompleted => UNCHANGED job
        /\ UNCHANGED job => UNCHANGED <<JobVerdicts, AllCompleted, Unended>>
        /\ creator.at = "done" /\ Unended = {} => Unended' = {}
    BY DEF Grow
  <1> USE DEF CInv
  <1>1. CASE DeliverTick
    <2>1. CreationAlone'
      BY <1>1, <1>0, JobsFacts, Shapes DEF DeliverTick, CreationAlone, Woken,
         TInv, TypeOK, RequestsTypeOK, StoresTypeOK, CoordinatorTypeOK, rows,
         storage, cancelling
    <2>2. CurBegun'
      BY <1>1, <1>0 DEF DeliverTick, CurBegun, TInv, TypeOK, CoordinatorTypeOK,
         Dispatch, rows, completing
    <2>3. RowsShaped' /\ CancelledAll' /\ WorkBegun'
      BY <1>1, <1>0 DEF DeliverTick, RowsShaped, CancelledAll, WorkBegun, TInv,
         TypeOK, CoordinatorTypeOK, Woken, CreationAlone, RunBegun, rows,
         storage, cancelling, alarming
    <2> QED
      BY <2>1, <2>2, <2>3
  <1>2. CASE FireAlarm
    <2>1. CreationAlone'
      BY <1>2, <1>0, JobsFacts, Shapes DEF FireAlarm, CreationAlone, Woken,
         TInv, TypeOK, RequestsTypeOK, StoresTypeOK, CoordinatorTypeOK, rows,
         outside, cancelling
    <2>2. WorkBegun'
      BY <1>2, <1>0 DEF FireAlarm, WorkBegun, TInv, TypeOK, CoordinatorTypeOK,
         StoresTypeOK, rows, outside
    <2>3. CurBegun'
      BY <1>2, <1>0 DEF FireAlarm, CurBegun, TInv, TypeOK, CoordinatorTypeOK,
         Dispatch, rows, completing
    <2>4. RowsShaped' /\ CancelledAll'
      BY <1>2, <1>0 DEF FireAlarm, RowsShaped, CancelledAll, TInv, TypeOK,
         CoordinatorTypeOK, Woken, CreationAlone, RunBegun, rows, cancelling
    <2> QED
      BY <2>1, <2>2, <2>3, <2>4
  <1>3. CASE ReceiveResult(j)
    <2>1. CreationAlone'
      BY <1>3, <1>0, JobsFacts, Shapes DEF ReceiveResult, CreationAlone, Woken,
         TInv, TypeOK, RequestsTypeOK, StoresTypeOK, CoordinatorTypeOK, rows,
         storage, cancelling
    <2>2. WorkBegun'
      BY <1>3, <1>0 DEF ReceiveResult, WorkBegun, TInv, TypeOK,
         CoordinatorTypeOK, StoresTypeOK, rows, storage, alarming
    <2>3. CurBegun'
      BY <1>3, <1>0 DEF ReceiveResult, CurBegun, TInv, TypeOK, StoresTypeOK,
         WorkBegun, Dispatch, rows
    <2>4. RowsShaped' /\ CancelledAll'
      BY <1>3, <1>0 DEF ReceiveResult, RowsShaped, CancelledAll, TInv, TypeOK,
         CoordinatorTypeOK, Woken, CreationAlone, RunBegun, rows, cancelling
    <2> QED
      BY <2>1, <2>2, <2>3, <2>4
  <1> QED
    BY <1>1, <1>2, <1>3

\* The evaluation of the jobs.
LEMMA TickingContract ==
  ASSUME TInv, TInv', OInv, CInv, Grow, MayCancel # "always",
         \/ TickRun \/ StartRun \/ ScanJobs \/ SkipNext
         \/ DispatchNext \/ PassDone \/ Cleanup \/ EndEvent
  PROVE  CInv'
  <1>0. /\ run.status # "none" => run'.status # "none"
        /\ RunBegun => RunBegun'
        /\ \A i \in Jobs : Begun(i) => Begun(i)'
        /\ \A i \in Jobs : Born(i) => Born(i)'
        /\ AllCompleted => UNCHANGED job
        /\ UNCHANGED job => UNCHANGED <<JobVerdicts, AllCompleted, Unended>>
        /\ creator.at = "done" /\ Unended = {} => Unended' = {}
    BY DEF Grow
  <1> USE DEF CInv
  <1>1. CASE TickRun
    <2>1. CreationAlone'
      BY <1>1, <1>0, JobsFacts, Shapes DEF TickRun, CreationAlone, Woken, TInv,
         TypeOK, RequestsTypeOK, StoresTypeOK, CoordinatorTypeOK, apart, rows,
         storage, cancelling
    <2>2. CurBegun'
      BY <1>1, <1>0 DEF TickRun, CurBegun, Dispatch, rows, completing
    <2>3. RowsShaped' /\ CancelledAll' /\ WorkBegun'
      BY <1>1, <1>0 DEF TickRun, RowsShaped, CancelledAll, WorkBegun, TInv,
         TypeOK, CoordinatorTypeOK, Woken, CreationAlone, RunBegun, apart, rows,
         storage, cancelling, alarming
    <2> QED
      BY <2>1, <2>2, <2>3
  <1>2. CASE StartRun
    <2>1. RowsShaped'
      BY <1>2, <1>0, Shapes DEF StartRun, RowsShaped, TInv, TypeOK, RowsTypeOK
    <2>2. CreationAlone'
      BY <1>2, <1>0, JobsFacts, Shapes DEF StartRun, CreationAlone, Woken, TInv,
         TypeOK, RequestsTypeOK, StoresTypeOK, CoordinatorTypeOK, apart,
         storage, cancelling
    <2>3. WorkBegun'
      BY <1>2, <1>0 DEF StartRun, WorkBegun, TInv, TypeOK, CoordinatorTypeOK,
         StoresTypeOK, apart, storage, alarming
    <2>4. CurBegun'
      BY <1>2, <1>0, Shapes DEF StartRun, CurBegun, TInv, TypeOK, RowsTypeOK,
         Row, RunBegun, CreationAlone, Woken, RowsShaped, Status, Dispatch,
         completing
    <2>5. CancelledAll'
      BY <1>2, <1>0 DEF StartRun, CancelledAll, TInv, TypeOK, CoordinatorTypeOK,
         Woken, CreationAlone, RunBegun, apart, cancelling
    <2> QED
      BY <2>1, <2>2, <2>3, <2>4, <2>5
  <1>3. CASE ScanJobs
    <2>1. CreationAlone'
      BY <1>3, <1>0, JobsFacts, Shapes DEF ScanJobs, CreationAlone, Woken, TInv,
         TypeOK, RequestsTypeOK, StoresTypeOK, CoordinatorTypeOK, apart, rows,
         storage, cancelling
    <2>2. CurBegun'
      BY <1>3, <1>0 DEF ScanJobs, CurBegun, TInv, TypeOK, CoordinatorTypeOK,
         Dispatch, rows, completing
    <2>3. RowsShaped' /\ CancelledAll' /\ WorkBegun'
      BY <1>3, <1>0 DEF ScanJobs, RowsShaped, CancelledAll, WorkBegun, TInv,
         TypeOK, CoordinatorTypeOK, Woken, CreationAlone, RunBegun, apart, rows,
         storage, cancelling, alarming
    <2> QED
      BY <2>1, <2>2, <2>3
  <1>4. CASE SkipNext
    <2>1. CreationAlone'
      BY <1>4, <1>0, JobsFacts, Shapes DEF SkipNext, CreationAlone, Woken, TInv,
         TypeOK, RequestsTypeOK, StoresTypeOK, CoordinatorTypeOK, apart, rows,
         storage, cancelling
    <2>2. CurBegun'
      BY <1>4, <1>0 DEF SkipNext, CurBegun, TInv, TypeOK, CoordinatorTypeOK,
         Dispatch, rows
    <2>3. RowsShaped' /\ CancelledAll' /\ WorkBegun'
      BY <1>4, <1>0 DEF SkipNext, RowsShaped, CancelledAll, WorkBegun, TInv,
         TypeOK, CoordinatorTypeOK, Woken, CreationAlone, RunBegun, apart, rows,
         storage, cancelling, alarming
    <2> QED
      BY <2>1, <2>2, <2>3
  <1>5. CASE DispatchNext
    <2>1. CreationAlone'
      BY <1>5, <1>0, JobsFacts, Shapes DEF DispatchNext, CreationAlone, Woken,
         TInv, TypeOK, RequestsTypeOK, StoresTypeOK, CoordinatorTypeOK, apart,
         rows, storage, cancelling
    <2>2. CurBegun'
      BY <1>5, <1>0 DEF DispatchNext, CurBegun, TInv, TypeOK, CoordinatorTypeOK,
         Dispatch, rows
    <2>3. RowsShaped' /\ CancelledAll' /\ WorkBegun'
      BY <1>5, <1>0 DEF DispatchNext, RowsShaped, CancelledAll, WorkBegun, TInv,
         TypeOK, CoordinatorTypeOK, Woken, CreationAlone, RunBegun, apart, rows,
         storage, cancelling, alarming
    <2> QED
      BY <2>1, <2>2, <2>3
  <1>6. CASE PassDone
    <2>1. CreationAlone'
      BY <1>6, <1>0, JobsFacts, Shapes DEF PassDone, CreationAlone, Woken, TInv,
         TypeOK, RequestsTypeOK, StoresTypeOK, CoordinatorTypeOK, apart, rows,
         storage, cancelling
    <2>2. CurBegun'
      BY <1>6, <1>0 DEF PassDone, CurBegun, TInv, TypeOK, CoordinatorTypeOK,
         Dispatch, rows
    <2>3. RowsShaped' /\ CancelledAll' /\ WorkBegun'
      BY <1>6, <1>0 DEF PassDone, RowsShaped, CancelledAll, WorkBegun, TInv,
         TypeOK, CoordinatorTypeOK, Woken, CreationAlone, RunBegun, apart, rows,
         storage, cancelling, alarming
    <2> QED
      BY <2>1, <2>2, <2>3
  <1>7. CASE Cleanup
    <2>1. CreationAlone'
      BY <1>7, <1>0, JobsFacts, Shapes DEF Cleanup, CreationAlone, Woken, TInv,
         TypeOK, RequestsTypeOK, StoresTypeOK, CoordinatorTypeOK, apart, rows,
         storage, cancelling
    <2>2. CurBegun'
      BY <1>7, <1>0 DEF Cleanup, CurBegun, TInv, TypeOK, CoordinatorTypeOK,
         Dispatch, rows, completing
    <2>3. RowsShaped' /\ CancelledAll' /\ WorkBegun'
      BY <1>7, <1>0 DEF Cleanup, RowsShaped, CancelledAll, WorkBegun, TInv,
         TypeOK, CoordinatorTypeOK, Woken, CreationAlone, RunBegun, apart, rows,
         storage, cancelling, alarming
    <2> QED
      BY <2>1, <2>2, <2>3
  <1>8. CASE EndEvent
    <2>1. CreationAlone'
      BY <1>8, <1>0 DEF EndEvent, CreationAlone, Idle, Woken, TInv, TypeOK,
         StoresTypeOK, rows, cancelling
    <2>2. WorkBegun'
      BY <1>8, <1>0 DEF EndEvent, WorkBegun, Idle, rows
    <2>3. CurBegun'
      BY <1>8, <1>0 DEF EndEvent, CurBegun, Idle, Dispatch, rows
    <2>4. RowsShaped' /\ CancelledAll'
      BY <1>8, <1>0 DEF EndEvent, RowsShaped, CancelledAll, TInv, TypeOK,
         CoordinatorTypeOK, Woken, CreationAlone, RunBegun, rows, cancelling
    <2> QED
      BY <2>1, <2>2, <2>3, <2>4
  <1> QED
    BY <1>1, <1>2, <1>3, <1>4, <1>5, <1>6, <1>7, <1>8

\* The dispatch of a job.
LEMMA DispatchingContract ==
  ASSUME TInv, TInv', OInv, CInv, Grow, MayCancel # "always",
         \/ PinCommit \/ StartJob \/ FindCheck \/ TouchCheck
         \/ MarkDispatched \/ SetDeadline \/ SetAlarm \/ Send
  PROVE  CInv'
  <1>0. /\ run.status # "none" => run'.status # "none"
        /\ RunBegun => RunBegun'
        /\ \A i \in Jobs : Begun(i) => Begun(i)'
        /\ \A i \in Jobs : Born(i) => Born(i)'
        /\ AllCompleted => UNCHANGED job
        /\ UNCHANGED job => UNCHANGED <<JobVerdicts, AllCompleted, Unended>>
        /\ creator.at = "done" /\ Unended = {} => Unended' = {}
    BY DEF Grow
  <1> USE DEF CInv
  <1>1. CASE PinCommit
    <2>1. CreationAlone'
      BY <1>1, <1>0, JobsFacts, Shapes DEF PinCommit, CreationAlone, Woken,
         TInv, TypeOK, RequestsTypeOK, StoresTypeOK, CoordinatorTypeOK, apart,
         rows, storage, cancelling
    <2>2. CurBegun'
      BY <1>1, <1>0 DEF PinCommit, CurBegun, TInv, TypeOK, CoordinatorTypeOK,
         Dispatch, rows, completing
    <2>3. RowsShaped' /\ CancelledAll' /\ WorkBegun'
      BY <1>1, <1>0 DEF PinCommit, RowsShaped, CancelledAll, WorkBegun, TInv,
         TypeOK, CoordinatorTypeOK, Woken, CreationAlone, RunBegun, apart, rows,
         storage, cancelling, alarming
    <2> QED
      BY <2>1, <2>2, <2>3
  <1>2. CASE StartJob
    <2>1. RowsShaped'
      BY <1>2, <1>0, Shapes DEF StartJob, RowsShaped, TInv, TypeOK,
         CoordinatorTypeOK, RowsTypeOK, Unended, AllCompleted, Completed
    <2>2. CreationAlone'
      BY <1>2, <1>0, JobsFacts, Shapes DEF StartJob, CreationAlone, Woken, TInv,
         TypeOK, RequestsTypeOK, StoresTypeOK, CoordinatorTypeOK, apart,
         storage, cancelling
    <2>3. CancelledAll'
      BY <1>2, <1>0 DEF StartJob, CancelledAll, CreationAlone, Woken, apart,
         cancelling
    <2>4. WorkBegun'
      BY <1>2, <1>0 DEF StartJob, WorkBegun, TInv, TypeOK, CoordinatorTypeOK,
         StoresTypeOK, apart, storage, alarming
    <2>5. CurBegun'
      <3>1. run' = run /\ cur' = cur /\ pc' = "findCheck" /\ RunBegun /\ cur \in Jobs
        BY <1>2 DEF StartJob, CurBegun, Dispatch, completing, TInv, TypeOK,
           CoordinatorTypeOK
      <3>2. Born(cur) /\ job[cur] \in Contract!Rows
        BY <1>2, <3>1 DEF StartJob, OInv, CurOrdered, Dispatch, RowsShaped
      <3>3. job'[cur].status \in {"in_progress", "completed"}
        BY <1>2, <3>1, <3>2, Shapes DEF StartJob, Born, Status, TInv, TypeOK,
           RowsTypeOK
      <3> QED
        BY <1>0, <3>1, <3>3 DEF CurBegun, Begun
    <2> QED
      BY <2>1, <2>2, <2>3, <2>4, <2>5
  <1>3. CASE FindCheck
    <2>1. CreationAlone'
      BY <1>3, <1>0, JobsFacts, Shapes DEF FindCheck, CreationAlone, Woken,
         TInv, TypeOK, RequestsTypeOK, StoresTypeOK, CoordinatorTypeOK, apart,
         rows, storage, cancelling
    <2>2. CurBegun'
      BY <1>3, <1>0 DEF FindCheck, CurBegun, TInv, TypeOK, CoordinatorTypeOK,
         Dispatch, rows, completing
    <2>3. RowsShaped' /\ CancelledAll' /\ WorkBegun'
      BY <1>3, <1>0 DEF FindCheck, RowsShaped, CancelledAll, WorkBegun, TInv,
         TypeOK, CoordinatorTypeOK, Woken, CreationAlone, RunBegun, apart, rows,
         storage, cancelling, alarming
    <2> QED
      BY <2>1, <2>2, <2>3
  <1>4. CASE TouchCheck
    <2>1. CreationAlone'
      BY <1>4, <1>0, JobsFacts, Shapes DEF TouchCheck, CreationAlone, Woken,
         TInv, TypeOK, RequestsTypeOK, StoresTypeOK, CoordinatorTypeOK, apart,
         storage, cancelling
    <2>2. CurBegun'
      BY <1>4, <1>0 DEF TouchCheck, CurBegun, TInv, TypeOK, CoordinatorTypeOK,
         Dispatch, completing
    <2>3. RowsShaped' /\ CancelledAll' /\ WorkBegun'
      BY <1>4, <1>0 DEF TouchCheck, RowsShaped, CancelledAll, WorkBegun, TInv,
         TypeOK, CoordinatorTypeOK, Woken, CreationAlone, RunBegun, apart,
         storage, cancelling, alarming
    <2> QED
      BY <2>1, <2>2, <2>3
  <1>5. CASE MarkDispatched
    <2>1. CreationAlone'
      BY <1>5, <1>0, JobsFacts, Shapes DEF MarkDispatched, CreationAlone, Woken,
         TInv, TypeOK, RequestsTypeOK, StoresTypeOK, CoordinatorTypeOK, apart,
         rows, cancelling
    <2>2. CurBegun'
      BY <1>5, <1>0 DEF MarkDispatched, CurBegun, TInv, TypeOK,
         CoordinatorTypeOK, Dispatch, rows, completing
    <2>3. RowsShaped' /\ CancelledAll' /\ WorkBegun'
      BY <1>5, <1>0 DEF MarkDispatched, RowsShaped, CancelledAll, WorkBegun,
         TInv, TypeOK, CoordinatorTypeOK, Woken, CreationAlone, RunBegun, apart,
         rows, cancelling, alarming
    <2> QED
      BY <2>1, <2>2, <2>3
  <1>6. CASE SetDeadline
    <2>1. CreationAlone'
      BY <1>6, <1>0, JobsFacts, Shapes DEF SetDeadline, CreationAlone, Woken,
         TInv, TypeOK, RequestsTypeOK, StoresTypeOK, CoordinatorTypeOK, apart,
         rows, cancelling
    <2>2. WorkBegun'
      BY <1>6, <1>0 DEF SetDeadline, WorkBegun, TInv, TypeOK, CoordinatorTypeOK,
         StoresTypeOK, CurBegun, Dispatch, apart, rows, alarming
    <2>3. CurBegun'
      BY <1>6, <1>0 DEF SetDeadline, CurBegun, TInv, TypeOK, CoordinatorTypeOK,
         Dispatch, rows, completing
    <2>4. RowsShaped' /\ CancelledAll'
      BY <1>6, <1>0 DEF SetDeadline, RowsShaped, CancelledAll, TInv, TypeOK,
         CoordinatorTypeOK, Woken, CreationAlone, RunBegun, apart, rows,
         cancelling
    <2> QED
      BY <2>1, <2>2, <2>3, <2>4
  <1>7. CASE SetAlarm
    <2>1. CreationAlone'
      BY <1>7, <1>0, JobsFacts, Shapes DEF SetAlarm, CreationAlone, Woken, TInv,
         TypeOK, RequestsTypeOK, StoresTypeOK, CoordinatorTypeOK, apart, rows,
         cancelling
    <2>2. CurBegun'
      BY <1>7, <1>0 DEF SetAlarm, CurBegun, TInv, TypeOK, CoordinatorTypeOK,
         Dispatch, rows, completing
    <2>3. RowsShaped' /\ CancelledAll' /\ WorkBegun'
      BY <1>7, <1>0 DEF SetAlarm, RowsShaped, CancelledAll, WorkBegun, TInv,
         TypeOK, CoordinatorTypeOK, Woken, CreationAlone, RunBegun, apart, rows,
         cancelling, alarming
    <2> QED
      BY <2>1, <2>2, <2>3
  <1>8. CASE Send
    <2>1. CreationAlone'
      BY <1>8, <1>0, JobsFacts, Shapes DEF Send, CreationAlone, Woken, TInv,
         TypeOK, RequestsTypeOK, StoresTypeOK, CoordinatorTypeOK, rows, storage,
         cancelling
    <2>2. WorkBegun'
      BY <1>8, <1>0 DEF Send, WorkBegun, TInv, TypeOK, CoordinatorTypeOK,
         StoresTypeOK, CurBegun, Dispatch, rows, storage, alarming
    <2>3. CurBegun'
      BY <1>8, <1>0 DEF Send, CurBegun, TInv, TypeOK, CoordinatorTypeOK,
         Dispatch, rows, completing
    <2>4. RowsShaped' /\ CancelledAll'
      BY <1>8, <1>0 DEF Send, RowsShaped, CancelledAll, TInv, TypeOK,
         CoordinatorTypeOK, Woken, CreationAlone, RunBegun, rows, cancelling
    <2> QED
      BY <2>1, <2>2, <2>3, <2>4
  <1> QED
    BY <1>1, <1>2, <1>3, <1>4, <1>5, <1>6, <1>7, <1>8

\* The end of a job, and of the run.
LEMMA CompletingContract ==
  ASSUME TInv, TInv', OInv, CInv, Grow, MayCancel # "always",
         \/ CompleteJob \/ ProjectCheck \/ PostStatus \/ RollUp
         \/ FinishRun \/ MarkHandled \/ ClearDeadline
  PROVE  CInv'
  <1>0. /\ run.status # "none" => run'.status # "none"
        /\ RunBegun => RunBegun'
        /\ \A i \in Jobs : Begun(i) => Begun(i)'
        /\ \A i \in Jobs : Born(i) => Born(i)'
        /\ AllCompleted => UNCHANGED job
        /\ UNCHANGED job => UNCHANGED <<JobVerdicts, AllCompleted, Unended>>
        /\ creator.at = "done" /\ Unended = {} => Unended' = {}
    BY DEF Grow
  <1> USE DEF CInv
  <1>1. CASE CompleteJob
    <2>1. RowsShaped'
      BY <1>1, <1>0, Shapes DEF CompleteJob, RowsShaped, TInv, TypeOK,
         CoordinatorTypeOK, RowsTypeOK, Unended, OInv, CurOrdered, CurBegun,
         Born, AllCompleted, Completed, RunConclusion
    <2>2. CreationAlone'
      BY <1>1, <1>0, JobsFacts, Shapes DEF CompleteJob, CreationAlone, Woken,
         TInv, TypeOK, RequestsTypeOK, StoresTypeOK, CoordinatorTypeOK, apart,
         storage, cancelling
    <2>3. CancelledAll'
      BY <1>1, <1>0 DEF CompleteJob, CancelledAll, CreationAlone, Woken, apart,
         cancelling
    <2>4. WorkBegun'
      BY <1>1, <1>0 DEF CompleteJob, WorkBegun, TInv, TypeOK, CoordinatorTypeOK,
         StoresTypeOK, apart, storage, alarming
    <2>5. CurBegun'
      BY <1>1, <1>0 DEF CompleteJob, CurBegun, TInv, TypeOK, CoordinatorTypeOK,
         Dispatch, After, AllCompleted, Completed, completing
    <2> QED
      BY <2>1, <2>2, <2>3, <2>4, <2>5
  <1>2. CASE ProjectCheck
    <2>1. CreationAlone'
      BY <1>2, <1>0, JobsFacts, Shapes DEF ProjectCheck, CreationAlone, Woken,
         TInv, TypeOK, RequestsTypeOK, StoresTypeOK, CoordinatorTypeOK, apart,
         storage, cancelling
    <2>2. CurBegun'
      BY <1>2, <1>0 DEF ProjectCheck, CurBegun, TInv, TypeOK, CoordinatorTypeOK,
         Dispatch, completing
    <2>3. RowsShaped' /\ CancelledAll' /\ WorkBegun'
      BY <1>2, <1>0 DEF ProjectCheck, RowsShaped, CancelledAll, WorkBegun, TInv,
         TypeOK, CoordinatorTypeOK, Woken, CreationAlone, RunBegun, apart,
         storage, cancelling, alarming
    <2> QED
      BY <2>1, <2>2, <2>3
  <1>3. CASE PostStatus
    <2>1. CreationAlone'
      BY <1>3, <1>0, JobsFacts, Shapes DEF PostStatus, CreationAlone, Woken,
         TInv, TypeOK, RequestsTypeOK, StoresTypeOK, CoordinatorTypeOK, apart,
         storage, cancelling
    <2>2. CurBegun'
      BY <1>3, <1>0 DEF PostStatus, CurBegun, TInv, TypeOK, CoordinatorTypeOK,
         Dispatch, After, AllCompleted, Completed, completing
    <2>3. RowsShaped' /\ CancelledAll' /\ WorkBegun'
      BY <1>3, <1>0 DEF PostStatus, RowsShaped, CancelledAll, WorkBegun, TInv,
         TypeOK, CoordinatorTypeOK, Woken, CreationAlone, RunBegun, apart,
         storage, cancelling, alarming
    <2> QED
      BY <2>1, <2>2, <2>3
  <1>4. CASE RollUp
    <2>1. CreationAlone'
      BY <1>4, <1>0, JobsFacts, Shapes DEF RollUp, CreationAlone, Woken, TInv,
         TypeOK, RequestsTypeOK, StoresTypeOK, CoordinatorTypeOK, apart, rows,
         storage, cancelling
    <2>2. CurBegun'
      BY <1>4, <1>0 DEF RollUp, CurBegun, TInv, TypeOK, CoordinatorTypeOK,
         Dispatch, After, RunBegun, JobVerdicts, rows
    <2>3. RowsShaped' /\ CancelledAll' /\ WorkBegun'
      BY <1>4, <1>0 DEF RollUp, RowsShaped, CancelledAll, WorkBegun, TInv,
         TypeOK, CoordinatorTypeOK, Woken, CreationAlone, RunBegun, apart, rows,
         storage, cancelling, alarming
    <2> QED
      BY <2>1, <2>2, <2>3
  <1>5. CASE FinishRun
    <2>1. RowsShaped'
      BY <1>5, <1>0, Shapes, EndedVerdict DEF FinishRun, RowsShaped, TInv,
         TypeOK, RowsTypeOK, CurBegun, Unended, AllCompleted, Completed, Row
    <2>2. CreationAlone'
      BY <1>5, <1>0, JobsFacts, Shapes DEF FinishRun, CreationAlone, Woken,
         TInv, TypeOK, RequestsTypeOK, StoresTypeOK, CoordinatorTypeOK, apart,
         storage, cancelling
    <2>3. WorkBegun'
      BY <1>5, <1>0 DEF FinishRun, WorkBegun, TInv, TypeOK, CoordinatorTypeOK,
         StoresTypeOK, apart, storage, alarming
    <2>4. CurBegun'
      BY <1>5, <1>0 DEF FinishRun, CurBegun, TInv, TypeOK, CoordinatorTypeOK,
         Dispatch, After, AllCompleted, Completed, completing
    <2>5. CancelledAll'
      BY <1>5, <1>0 DEF FinishRun, CancelledAll, TInv, TypeOK,
         CoordinatorTypeOK, Woken, CreationAlone, RunBegun, apart, cancelling
    <2> QED
      BY <2>1, <2>2, <2>3, <2>4, <2>5
  <1>6. CASE MarkHandled
    <2>1. CreationAlone'
      BY <1>6, <1>0, JobsFacts, Shapes DEF MarkHandled, CreationAlone, Woken,
         TInv, TypeOK, RequestsTypeOK, StoresTypeOK, CoordinatorTypeOK, apart,
         rows, cancelling
    <2>2. CurBegun'
      BY <1>6, <1>0 DEF MarkHandled, CurBegun, TInv, TypeOK, CoordinatorTypeOK,
         Dispatch, rows, completing
    <2>3. RowsShaped' /\ CancelledAll' /\ WorkBegun'
      BY <1>6, <1>0 DEF MarkHandled, RowsShaped, CancelledAll, WorkBegun, TInv,
         TypeOK, CoordinatorTypeOK, Woken, CreationAlone, RunBegun, apart, rows,
         cancelling, alarming
    <2> QED
      BY <2>1, <2>2, <2>3
  <1>7. CASE ClearDeadline
    <2>1. CreationAlone'
      BY <1>7, <1>0, JobsFacts, Shapes DEF ClearDeadline, CreationAlone, Woken,
         TInv, TypeOK, RequestsTypeOK, StoresTypeOK, CoordinatorTypeOK, apart,
         rows, cancelling
    <2>2. WorkBegun'
      BY <1>7, <1>0 DEF ClearDeadline, WorkBegun, TInv, TypeOK,
         CoordinatorTypeOK, StoresTypeOK, apart, rows, alarming
    <2>3. CurBegun'
      BY <1>7, <1>0 DEF ClearDeadline, CurBegun, TInv, TypeOK,
         CoordinatorTypeOK, Dispatch, rows, completing
    <2>4. RowsShaped' /\ CancelledAll'
      BY <1>7, <1>0 DEF ClearDeadline, RowsShaped, CancelledAll, TInv, TypeOK,
         CoordinatorTypeOK, Woken, CreationAlone, RunBegun, apart, rows,
         cancelling
    <2> QED
      BY <2>1, <2>2, <2>3, <2>4
  <1> QED
    BY <1>1, <1>2, <1>3, <1>4, <1>5, <1>6, <1>7

\* The jobs that are timed out.
LEMMA ReapingContract ==
  ASSUME TInv, TInv', OInv, CInv, Grow, MayCancel # "always", NEW j \in Jobs,
         \/ ReapDone \/ ReapNext(j)
  PROVE  CInv'
  <1>0. /\ run.status # "none" => run'.status # "none"
        /\ RunBegun => RunBegun'
        /\ \A i \in Jobs : Begun(i) => Begun(i)'
        /\ \A i \in Jobs : Born(i) => Born(i)'
        /\ AllCompleted => UNCHANGED job
        /\ UNCHANGED job => UNCHANGED <<JobVerdicts, AllCompleted, Unended>>
        /\ creator.at = "done" /\ Unended = {} => Unended' = {}
    BY DEF Grow
  <1> USE DEF CInv
  <1>1. CASE ReapDone
    <2>1. CreationAlone'
      BY <1>1, <1>0, JobsFacts, Shapes DEF ReapDone, CreationAlone, Woken, TInv,
         TypeOK, RequestsTypeOK, StoresTypeOK, CoordinatorTypeOK, apart, rows,
         storage, cancelling
    <2>2. CurBegun'
      BY <1>1, <1>0 DEF ReapDone, CurBegun, TInv, TypeOK, CoordinatorTypeOK,
         Dispatch, rows, completing
    <2>3. RowsShaped' /\ CancelledAll' /\ WorkBegun'
      BY <1>1, <1>0 DEF ReapDone, RowsShaped, CancelledAll, WorkBegun, TInv,
         TypeOK, CoordinatorTypeOK, Woken, CreationAlone, RunBegun, apart, rows,
         storage, cancelling, alarming
    <2> QED
      BY <2>1, <2>2, <2>3
  <1>2. CASE ReapNext(j)
    <2>1. CreationAlone'
      BY <1>2, <1>0, JobsFacts, Shapes DEF ReapNext, CreationAlone, Woken, TInv,
         TypeOK, RequestsTypeOK, StoresTypeOK, CoordinatorTypeOK, apart, rows,
         storage, cancelling
    <2>2. WorkBegun'
      BY <1>2, <1>0 DEF ReapNext, WorkBegun, TInv, TypeOK, CoordinatorTypeOK,
         StoresTypeOK, apart, rows, storage
    <2>3. CurBegun'
      BY <1>2, <1>0 DEF ReapNext, CurBegun, TInv, TypeOK, StoresTypeOK,
         WorkBegun, Dispatch, rows
    <2>4. RowsShaped' /\ CancelledAll'
      BY <1>2, <1>0 DEF ReapNext, RowsShaped, CancelledAll, TInv, TypeOK,
         CoordinatorTypeOK, Woken, CreationAlone, RunBegun, apart, rows,
         cancelling
    <2> QED
      BY <2>1, <2>2, <2>3, <2>4
  <1> QED
    BY <1>1, <1>2

\* The containers, the repository, and what stops before its end.
LEMMA OutsideContract ==
  ASSUME TInv, TInv', OInv, CInv, Grow, MayCancel # "always", NEW j \in Jobs,
         \/ FinishContainer(j) \/ DeleteRepository \/ Crash \/ CreatorDies
         \/ CancellerDies
  PROVE  CInv'
  <1>0. /\ run.status # "none" => run'.status # "none"
        /\ RunBegun => RunBegun'
        /\ \A i \in Jobs : Begun(i) => Begun(i)'
        /\ \A i \in Jobs : Born(i) => Born(i)'
        /\ AllCompleted => UNCHANGED job
        /\ UNCHANGED job => UNCHANGED <<JobVerdicts, AllCompleted, Unended>>
        /\ creator.at = "done" /\ Unended = {} => Unended' = {}
    BY DEF Grow
  <1> USE DEF CInv
  <1>1. CASE FinishContainer(j)
    <2>1. CreationAlone'
      BY <1>1, <1>0, JobsFacts, Shapes DEF FinishContainer, CreationAlone,
         Woken, TInv, TypeOK, RequestsTypeOK, StoresTypeOK, CoordinatorTypeOK,
         rows, storage, cancelling, coordinator
    <2>2. WorkBegun'
      BY <1>1, <1>0 DEF FinishContainer, WorkBegun, TInv, TypeOK,
         CoordinatorTypeOK, StoresTypeOK, rows, storage, alarming, coordinator
    <2>3. RowsShaped' /\ CancelledAll' /\ CurBegun'
      BY <1>1, <1>0 DEF FinishContainer, RowsShaped, CancelledAll, CurBegun,
         TInv, TypeOK, CoordinatorTypeOK, Woken, CreationAlone, RunBegun, rows,
         cancelling, completing, coordinator
    <2> QED
      BY <2>1, <2>2, <2>3
  <1>2. CASE DeleteRepository
    <2>1. UNCHANGED <<run, job, creator, canceller, pc, deliveries, alarm, running,
                      results>>
      BY <1>2 DEF DeleteRepository, rows, storage, outside, cancelling,
         coordinator
    <2>2. RowsShaped'
      BY <1>2, <1>0 DEF DeleteRepository, RowsShaped, TInv, TypeOK,
         CoordinatorTypeOK, Woken, CreationAlone, RunBegun, rows
    <2>3. CreationAlone'
      BY <2>1 DEF CreationAlone, Woken, Born
    <2>4. CancelledAll'
      BY <1>2, <1>0 DEF DeleteRepository, CancelledAll, TInv, TypeOK,
         CoordinatorTypeOK, Woken, CreationAlone, RunBegun, rows, cancelling
    <2>5. WorkBegun'
      BY <1>2, <1>0 DEF DeleteRepository, WorkBegun, TInv, TypeOK,
         CoordinatorTypeOK, Woken, CreationAlone, RunBegun, rows, storage,
         outside, alarming, coordinator
    <2>6. CurBegun'
      BY <1>2, <1>0 DEF DeleteRepository, CurBegun, TInv, TypeOK,
         CoordinatorTypeOK, Woken, CreationAlone, RunBegun, rows, completing,
         coordinator
    <2> QED
      BY <2>1, <2>2, <2>3, <2>4, <2>5, <2>6
  <1>3. CASE Crash
    <2>1. CreationAlone'
      BY <1>3, <1>0 DEF Crash, CreationAlone, Idle, Woken, TInv, TypeOK,
         StoresTypeOK, rows, outside, cancelling
    <2>2. WorkBegun'
      BY <1>3, <1>0 DEF Crash, WorkBegun, Idle, rows, outside
    <2>3. CurBegun'
      BY <1>3, <1>0 DEF Crash, CurBegun, Idle, Dispatch, rows
    <2>4. RowsShaped' /\ CancelledAll'
      BY <1>3, <1>0 DEF Crash, RowsShaped, CancelledAll, TInv, TypeOK,
         CoordinatorTypeOK, Woken, CreationAlone, RunBegun, rows, cancelling
    <2> QED
      BY <2>1, <2>2, <2>3, <2>4
  <1>4. CASE CreatorDies
    <2>1. CreationAlone'
      BY <1>4, <1>0, JobsFacts, Shapes DEF CreatorDies, CreationAlone, Woken,
         TInv, TypeOK, RequestsTypeOK, StoresTypeOK, CoordinatorTypeOK, rows,
         storage, outside, cancelling, coordinator
    <2>2. RowsShaped' /\ CancelledAll' /\ WorkBegun' /\ CurBegun'
      BY <1>4, <1>0 DEF CreatorDies, RowsShaped, CancelledAll, WorkBegun,
         CurBegun, TInv, TypeOK, CoordinatorTypeOK, Woken, CreationAlone,
         RunBegun, rows, storage, outside, cancelling, completing, alarming,
         coordinator
    <2> QED
      BY <2>1, <2>2
  <1>5. CASE CancellerDies
    <2>1. CreationAlone'
      BY <1>5, <1>0, JobsFacts, Shapes DEF CancellerDies, CreationAlone, Woken,
         TInv, TypeOK, RequestsTypeOK, StoresTypeOK, CoordinatorTypeOK, rows,
         storage, outside, coordinator
    <2>2. CancelledAll'
      BY <1>5, <1>0 DEF CancellerDies, CancelledAll, CreationAlone, Woken, rows
    <2>3. RowsShaped' /\ WorkBegun' /\ CurBegun'
      BY <1>5, <1>0 DEF CancellerDies, RowsShaped, WorkBegun, CurBegun, TInv,
         TypeOK, CoordinatorTypeOK, Woken, CreationAlone, RunBegun, rows,
         storage, outside, completing, alarming, coordinator
    <2> QED
      BY <2>1, <2>2, <2>3
  <1> QED
    BY <1>1, <1>2, <1>3, <1>4, <1>5

LEMMA InitContract == Init => CInv
  <1> SUFFICES ASSUME Init PROVE CInv
    OBVIOUS
  <1>1. RowsShaped
    BY Shapes DEF Init, RowsShaped
  <1>2. CreationAlone
    BY Shapes DEF Init, CreationAlone, Woken, Jobs
  <1>3. CancelledAll /\ WorkBegun /\ CurBegun
    BY DEF Init, CancelledAll, WorkBegun, CurBegun, Dispatch
  <1> QED
    BY <1>1, <1>2, <1>3 DEF CInv

LEMMA NextContract ==
  ASSUME MayCancel # "always", TInv, TInv', OInv, CInv, [Next]_vars
  PROVE  CInv'
  <1>1. ASSUME Next PROVE CInv'
    <2>1. Grow
      BY <1>1, GrowStep
    <2>2. CASE Creating
      BY <2>1, <2>2, CreatingContract DEF Creating
    <2>3. CASE StartCancel \/ Cancelling
      BY <2>1, <2>3, CancellingContract, JobsFacts DEF Cancelling
    <2>4. CASE DeliverTick \/ FireAlarm \/ \E j \in Jobs : ReceiveResult(j)
      BY <2>1, <2>4, EventContract, JobsFacts
    <2>5. CASE Ticking
      BY <2>1, <2>5, TickingContract DEF Ticking
    <2>6. CASE Dispatching
      BY <2>1, <2>6, DispatchingContract DEF Dispatching
    <2>7. CASE Completing
      BY <2>1, <2>7, CompletingContract DEF Completing
    <2>8. CASE Reaping
      BY <2>1, <2>8, ReapingContract, JobsFacts DEF Reaping
    <2>9. CASE DeleteRepository \/ Failing \/ \E j \in Jobs : FinishContainer(j)
      BY <2>1, <2>9, OutsideContract, JobsFacts DEF Failing
    <2> QED
      BY <1>1, <2>2, <2>3, <2>4, <2>5, <2>6, <2>7, <2>8, <2>9 DEF Next, Coordinate
  <1>2. CASE UNCHANGED vars
    <2>1. /\ UNCHANGED <<run, job, running, results, deadline, due>>
          /\ UNCHANGED <<creator, canceller, pc, deliveries, alarm, cur, verdict>>
      BY <1>2 DEF vars, rows, storage, outside, cancelling, coordinator,
         completing,
         alarming
    <2>2. UNCHANGED <<JobVerdicts, AllCompleted, Unended>>
      BY <2>1 DEF JobVerdicts, AllCompleted, Completed, Unended
    <2>3. CreationAlone'
      BY <2>1 DEF CInv, CreationAlone, Woken, Born
    <2>4. RowsShaped' /\ CancelledAll' /\ WorkBegun' /\ CurBegun'
      BY <2>1, <2>2 DEF CInv, RowsShaped, CancelledAll, WorkBegun, CurBegun,
         Begun,
         RunBegun
    <2> QED
      BY <2>3, <2>4 DEF CInv
  <1> QED
    BY <1>1, <1>2

-----------------------------------------------------------------------------
(* Every step of the rows is a step of the contract, or none.               *)

\* The worst of the verdicts is the one the contract gives.
LEMMA VerdictIsWorst ==
  ASSUME NEW C \in SUBSET RunConclusion, C # {}
  PROVE  WorstOf(C) = Contract!Verdict(C)
  <1> DEFINE n == CHOOSE m \in 1 .. 5 :
                    /\ Contract!Severity[m] \in C
                    /\ \A i \in 1 .. m - 1 : Contract!Severity[i] \notin C
  <1>1. WorstOf(C) \in C /\ \A d \in C : RUN_RANK(d) <= RUN_RANK(WorstOf(C))
    BY WorstExists
  <1>2. \E m \in 1 .. 5 : /\ Contract!Severity[m] \in C
                          /\ \A i \in 1 .. m - 1 : Contract!Severity[i] \notin C
    <2>1. CASE "failure" \in C
      <3>1. Contract!Severity[1] = "failure" /\ 1 \in 1 .. 5 /\ 1 .. 1 - 1 = {}
        BY DEF Contract!Severity
      <3> QED
        BY <2>1, <3>1
    <2>2. CASE "failure" \notin C /\ "timed_out" \in C
      BY <2>2 DEF Contract!Severity
    <2>3. CASE C \cap {"failure", "timed_out"} = {} /\ "cancelled" \in C
      BY <2>3 DEF Contract!Severity
    <2>4. CASE C \cap {"failure", "timed_out", "cancelled"} = {} /\ "success"
       \in C
      BY <2>4 DEF Contract!Severity
    <2>5. CASE C = {"skipped"}
      BY <2>5 DEF Contract!Severity
    <2> QED
      BY <2>1, <2>2, <2>3, <2>4, <2>5 DEF RunConclusion
  <1>3. /\ n \in 1 .. 5 /\ Contract!Severity[n] \in C
        /\ \A i \in 1 .. n - 1 : Contract!Severity[i] \notin C
    BY <1>2
  <1>4. \A d \in C : RUN_RANK(d) <= RUN_RANK(Contract!Severity[n])
    BY <1>3 DEF Contract!Severity, RUN_RANK, RunConclusion
  <1>5. \A c, d \in RunConclusion :
          RUN_RANK(c) <= RUN_RANK(d) /\ RUN_RANK(d) <= RUN_RANK(c) => c = d
    BY DEF RUN_RANK, RunConclusion
  <1>6. WorstOf(C) = Contract!Severity[n]
    BY <1>1, <1>3, <1>4, <1>5
  <1> QED
    BY <1>6 DEF Contract!Verdict

LEMMA InitRefines == Init => Contract!Init
  BY Shapes DEF Init, Contract!Init

LEMMA StepRefines ==
  ASSUME MayCancel # "always", TInv, OInv, CInv, RoomLeft, Next
  PROVE  [Contract!Next]_Contract!vars
  <1> USE DEF TInv, TypeOK, Contract!vars
  <1>1. CASE CreateRun
    <2>1. Contract!Create
      BY <1>1, Shapes DEF CreateRun, CInv, CreationAlone, Contract!Create
    <2> QED
      BY <2>1 DEF Contract!Next
  <1>2. CASE InsertJob
    <2>1. creator.job \in Jobs /\ job[creator.job] = Contract!Nothing /\ run =
       Contract!Queued
      BY <1>2, Shapes, JobsFacts DEF InsertJob, OInv, Unborn, CInv,
         CreationAlone, RequestsTypeOK
    <2>2. Contract!Insert(creator.job)
      BY <1>2, <2>1, Shapes DEF InsertJob, Contract!Insert
    <2> QED
      BY <2>1, <2>2 DEF Contract!Next
  <1>3. CASE StartRun
    <2>1. CASE run.status = "queued"
      <3>1. run = Contract!Queued /\ run' = Contract!Running /\ job' = job
        BY <1>3, <2>1, Shapes DEF StartRun, CInv, RowsShaped
      <3>2. \A j \in Jobs : job[j] # Contract!Nothing
        BY <1>3, Shapes DEF StartRun, CInv, CreationAlone, Woken, Born
      <3>3. Contract!Begin
        BY <3>1, <3>2 DEF Contract!Begin
      <3> QED
        BY <3>3 DEF Contract!Next
    <2>2. CASE run.status # "queued"
      BY <1>3, <2>2 DEF StartRun
    <2> QED
      BY <2>1, <2>2
  <1>4. CASE CancelRun
    <2>1. CASE run.status # "completed"
      <3>1. run' = Contract!Ended("cancelled") /\ job' = job
        BY <1>4, <2>1, Shapes DEF CancelRun, RunConclusion
      <3>2. run \in {Contract!Queued, Contract!Running}
        BY <1>4, <2>1, Shapes DEF CancelRun, CInv, RowsShaped, CreationAlone,
           Status
      <3>3. \A j \in Jobs : ~Contract!Active(j)
        BY <1>4 DEF CancelRun, CInv, CancelledAll, Unended, Contract!Active
      <3>4. Contract!CancelRun
        BY <3>1, <3>2, <3>3 DEF Contract!CancelRun
      <3> QED
        BY <3>4 DEF Contract!Next
    <2>2. CASE run.status = "completed"
      BY <1>4, <2>2 DEF CancelRun
    <2> QED
      BY <2>1, <2>2
  <1>5. CASE FinishRun
    <2>1. CASE run.status # "completed"
      <3>1. run' = Contract!Ended(Contract!Verdict(JobVerdicts)) /\ job' = job
        <4>1. AllCompleted /\ verdict = WorstOf(JobVerdicts)
          BY <1>5 DEF FinishRun, CInv, CurBegun
        <4>2. JobVerdicts \in SUBSET RunConclusion /\ JobVerdicts # {}
          BY <4>1, Shapes, JobsFacts
             DEF CInv, RowsShaped, AllCompleted, Completed, JobVerdicts
        <4>3. verdict = Contract!Verdict(JobVerdicts) /\ verdict \in RunConclusion
          BY <4>1, <4>2, VerdictIsWorst, EndedVerdict
        <4> QED
          BY <1>5, <2>1, <4>3, Shapes DEF FinishRun
      <3>2. run = Contract!Running
        BY <1>5, <2>1, Shapes DEF FinishRun, CInv, RowsShaped, CurBegun, RunBegun
      <3>3. \A j \in Jobs : Contract!HasEnded(j)
        BY <1>5 DEF FinishRun, CInv, CurBegun, AllCompleted, Completed,
           Contract!HasEnded
      <3>4. Contract!Settle
        BY <3>1, <3>2, <3>3 DEF Contract!Settle, JobVerdicts
      <3> QED
        BY <3>4 DEF Contract!Next
    <2>2. CASE run.status = "completed"
      BY <1>5, <2>2 DEF FinishRun
    <2> QED
      BY <2>1, <2>2
  <1>6. CASE CancelJobs
    <2>1. CASE run.status = "completed"
      BY <1>6, <2>1 DEF CancelJobs, CInv, RowsShaped, RowsTypeOK
    <2>2. CASE run.status # "completed"
      <3>1. run \in {Contract!Queued, Contract!Running} /\ run' = run
        BY <1>6, <2>2, Shapes DEF CancelJobs, CInv, RowsShaped, CreationAlone,
           Status
      <3>2. \A j \in Jobs : j \in Unended <=> Contract!Active(j)
        BY DEF Unended, Contract!Active
      <3>3. Row("completed", "cancelled") = Contract!Ended("cancelled")
        BY Shapes DEF RunConclusion
      <3>4. Contract!CancelJobs
        BY <1>6, <3>1, <3>2, <3>3 DEF CancelJobs, Contract!CancelJobs
      <3> QED
        BY <3>4 DEF Contract!Next
    <2> QED
      BY <2>1, <2>2
  <1>7. CASE StartJob
    <2>1. CASE job[cur].status = "queued"
      <3>1. cur \in Jobs /\ job[cur] = Contract!Queued /\ run' = run
        BY <1>7, <2>1, Shapes DEF StartJob, CInv, RowsShaped, CoordinatorTypeOK
      <3>2. run = Contract!Running
        BY <1>7, <2>1, <3>1, Shapes
           DEF StartJob, CInv, RowsShaped, CurBegun, RunBegun, Dispatch, Unended
      <3>3. Contract!MayStart(cur)
        BY <1>7, <3>1, Shapes DEF StartJob, OInv, CurOrdered, NeedsMet, Dispatch,
           RunConclusion, Contract!MayStart, Contract!Prerequisites
      <3>4. Contract!Cardinality(Contract!InFlight) < maxConcurrentJobs
        <4>1. Contract!InFlight = InFlight
          BY DEF InFlight, Contract!InFlight
        <4>2. Cardinality(InFlight) \in Nat /\ budget \in Nat /\ maxConcurrentJobs \in Nat
          BY JobsFacts, FS_Subset, FS_CardinalityType, BoundsAssumption
             DEF InFlight, CoordinatorTypeOK
        <4>3. budget > 0 /\ Cardinality(InFlight) + budget <= maxConcurrentJobs
          BY <1>7 DEF StartJob, BudgetLeft, RoomLeft, Passing
        <4>4. Contract!Cardinality(InFlight) = Cardinality(InFlight)
          BY Zenon DEF Cardinality, Contract!Cardinality
        <4> QED
          BY <4>1, <4>2, <4>3, <4>4
      <3>5. job' = [job EXCEPT ![cur] = Contract!Running]
        BY <1>7, <2>1, Shapes DEF StartJob
      <3>6. Contract!Start(cur)
        BY <3>1, <3>2, <3>3, <3>4, <3>5 DEF Contract!Start
      <3> QED
        BY <3>1, <3>6 DEF Contract!Next
    <2>2. CASE job[cur].status # "queued"
      BY <1>7, <2>2 DEF StartJob
    <2> QED
      BY <2>1, <2>2
  <1>8. CASE CompleteJob
    <2>1. CASE Completed(cur)
      BY <1>8, <2>1 DEF CompleteJob
    <2>2. CASE ~Completed(cur)
      <3>1. cur \in Jobs /\ job[cur] \in {Contract!Queued, Contract!Running} /\ run' = run
        BY <1>8, <2>2, Shapes DEF CompleteJob, CInv, RowsShaped,
           CoordinatorTypeOK,
           OInv, CurOrdered, Born, Completed, Status
      <3>2. run = Contract!Running
        BY <1>8, <2>2, <3>1, Shapes
           DEF CompleteJob, CInv, RowsShaped, CurBegun, RunBegun, Unended
      <3>3. job' = [job EXCEPT ![cur] = Contract!Ended(verdict)]
        BY <1>8, <2>2, Shapes DEF CompleteJob, CInv, CurBegun, RunConclusion
      <3>4. CASE verdict = "skipped"
        <4>1. NeedsFailed(cur)
          BY <1>8, <3>4 DEF CompleteJob, OInv, CurOrdered
        <4>2. Contract!MustSkip(cur)
          BY <4>1, Shapes DEF NeedsFailed, Completed, Contract!MustSkip,
             Contract!Prerequisites, Contract!HasEnded, RunConclusion
        <4>3. ~NeedsMet(cur)
          BY <4>1 DEF NeedsFailed, NeedsMet, Row
        <4>4. job[cur] = Contract!Queued
          BY <3>1, <4>3, Shapes DEF OInv, RowsOrdered
        <4>5. Contract!Skip(cur)
          BY <3>1, <3>2, <3>3, <3>4, <4>2, <4>4 DEF Contract!Skip
        <4> QED
          BY <3>1, <4>5 DEF Contract!Next
      <3>5. CASE verdict # "skipped"
        <4>1. verdict \in {"success", "failure", "timed_out"}
          BY <1>8, <3>5 DEF CompleteJob, CInv, CurBegun
        <4>2. Contract!MayStart(cur)
          BY <1>8, <3>5, Shapes DEF CompleteJob, OInv, CurOrdered, NeedsMet,
             RunConclusion, Contract!MayStart, Contract!Prerequisites
        <4>3. \/ job[cur] = Contract!Running
              \/ job[cur] = Contract!Queued /\ verdict = "failure"
          BY <1>8, <2>2, <3>1, <4>1, Shapes DEF CompleteJob, CInv, CurBegun,
             Begun, Completed
        <4>4. Contract!Finish(cur, verdict)
          BY <3>1, <3>2, <3>3, <4>2, <4>3 DEF Contract!Finish
        <4> QED
          BY <3>1, <4>1, <4>4 DEF Contract!Next
      <3> QED
        BY <3>4, <3>5
    <2> QED
      BY <2>1, <2>2
  <1>9. CASE UNCHANGED <<run, job>>
    BY <1>9
  <1> QED
    BY <1>1, <1>2, <1>3, <1>4, <1>5, <1>6, <1>7, <1>8, <1>9, RowWriters

\* The rows of the run and of its jobs are a run as WorkflowRun promises it: jobs
\* start and are skipped in the order of their needs and within the limit, no
\* verdict is given twice, and the run ends after its jobs with the worst of their
\* verdicts.
THEOREM RowsKeepContract ==
  ASSUME MayCancel # "always"
  PROVE  Spec => KeepsContract
  <1> DEFINE I == TInv /\ OInv /\ CInv /\ RoomLeft
  <1>1. Init => I
    BY InitTypes, InitOrder, InitContract, InitRoom
  <1>2. I /\ [Next]_vars => I'
    BY NextTypes, NextOrder, NextContract, NextRoom
  <1>3. I /\ [Next]_vars => [Contract!Next]_Contract!vars
    <2>1. CASE UNCHANGED vars
      BY <2>1 DEF vars, rows, Contract!vars
    <2> QED
      BY <2>1, StepRefines
  <1> QED
    BY <1>1, <1>2, <1>3, InitRefines, PTL DEF Spec, KeepsContract, Contract!Spec

\* A run that has ended has no job left, and says success only when none of them
\* failed, was timed out or was cancelled.
THEOREM VerdictHolds ==
  ASSUME MayCancel # "always"
  PROVE  Spec => []RunVerdictHolds
  <1> DEFINE I == TInv /\ OInv /\ CInv
  <1>1. Init => I
    BY InitTypes, InitOrder, InitContract
  <1>2. I /\ [Next]_vars => I'
    BY NextTypes, NextOrder, NextContract
  <1>3. I => RunVerdictHolds
    <2> SUFFICES ASSUME I, run.status = "completed" PROVE RunVerdictHolds
      BY DEF RunVerdictHolds
    <2>1. /\ Unended = {}
          /\ \/ run.conclusion = "cancelled"
             \/ AllCompleted /\ run.conclusion = WorstOf(JobVerdicts)
      BY DEF CInv, RowsShaped
    <2>2. CASE run.conclusion = "cancelled"
      BY <2>1, <2>2 DEF RunVerdictHolds
    <2>3. CASE AllCompleted /\ run.conclusion = WorstOf(JobVerdicts)
      <3>1. JobVerdicts \in SUBSET RunConclusion /\ JobVerdicts # {}
        BY <2>3, Shapes, JobsFacts DEF CInv, RowsShaped, AllCompleted,
           Completed, JobVerdicts
      <3>2. /\ run.conclusion \in JobVerdicts
            /\ \A d \in JobVerdicts : RUN_RANK(d) <= RUN_RANK(run.conclusion)
        BY <2>3, <3>1, WorstExists
      <3>3. run.conclusion \in {"success", "skipped"}
              => JobVerdicts \subseteq {"success", "skipped"}
        BY <3>1, <3>2 DEF RUN_RANK, RunConclusion
      <3> QED
        BY <2>1, <3>2, <3>3 DEF RunVerdictHolds, JobVerdicts
    <2> QED
      BY <2>1, <2>2, <2>3
  <1> QED
    BY <1>1, <1>2, <1>3, PTL DEF Spec


-----------------------------------------------------------------------------
(* The pin of the commit.                                                   *)

\* From the moment the commit is pinned for a job, and as long as one is in
\* progress, in a container or not, it stays pinned.
PinHeld ==
  /\ pc \in Dispatch \ {"pin"} => pin
  /\ \A j \in Jobs : job[j].status = "in_progress" => pin

LEMMA InitPinned == Init => PinHeld
  BY DEF Init, PinHeld, Dispatch, Nothing, Row

\* Only a dispatch puts a job in progress.
LEMMA InProgressOnlyStarts ==
  ASSUME TInv, Next, ~StartJob, NEW j \in Jobs, job'[j].status = "in_progress"
  PROVE  job[j].status = "in_progress"
  <1> USE DEF TInv, TypeOK, RowsTypeOK
  <1>1. CASE InsertJob
    BY <1>1 DEF InsertJob, Row
  <1>2. CASE CancelJobs
    BY <1>2 DEF CancelJobs, Row
  <1>3. CASE CompleteJob
    BY <1>3 DEF CompleteJob, Row
  <1>4. CASE CreateRun \/ StartRun \/ CancelRun \/ FinishRun \/ UNCHANGED <<run, job>>
    BY <1>4 DEF CreateRun, StartRun, CancelRun, FinishRun
  <1> QED
    BY <1>1, <1>2, <1>3, <1>4, RowWriters

\* Only PinCommit and Cleanup write the pin, and only a dispatch leads from one
\* station of a dispatch to the next.
LEMMA PinWriters ==
  ASSUME TInv, Next, ~PinCommit, ~Cleanup
  PROVE  /\ pin' = pin
         /\ pc' \in Dispatch \ {"pin"} => pc \in Dispatch \ {"pin"}
  <1>1. CASE Creating
    BY <1>1 DEF Creating, CreateRun, InsertJob, InsertCheck, PostPending, Enqueue,
       coordinator
  <1>2. CASE StartCancel \/ Cancelling
    BY <1>2 DEF StartCancel, Cancelling, CancelJobs, CancelRun, CancelPost, EndCancel,
       CancelCheck, coordinator
  <1>3. CASE DeliverTick \/ FireAlarm \/ \E j \in Jobs : ReceiveResult(j)
    BY <1>3 DEF DeliverTick, FireAlarm, ReceiveResult, Dispatch
  <1>4. CASE Ticking
    BY <1>4 DEF Ticking, TickRun, StartRun, ScanJobs, SkipNext, DispatchNext, PassDone,
       EndEvent, Idle, Dispatch
  <1>5. CASE Dispatching
    BY <1>5 DEF Dispatching, StartJob, FindCheck, TouchCheck, MarkDispatched,
       SetDeadline, SetAlarm, Send, Dispatch
  <1>6. CASE Completing
    BY <1>6 DEF Completing, CompleteJob, ProjectCheck, PostStatus, RollUp, FinishRun,
       MarkHandled, ClearDeadline, After, Dispatch
  <1>7. CASE Reaping
    BY <1>7 DEF Reaping, ReapDone, ReapNext, Dispatch
  <1>8. CASE DeleteRepository \/ Failing \/ \E j \in Jobs : FinishContainer(j)
    BY <1>8 DEF DeleteRepository, Failing, Crash, CreatorDies, CancellerDies,
       FinishContainer, Idle, coordinator, Dispatch
  <1> QED
    BY <1>1, <1>2, <1>3, <1>4, <1>5, <1>6, <1>7, <1>8 DEF Next, Coordinate

LEMMA NextPinned ==
  ASSUME TInv, CInv, PinHeld, [Next]_vars
  PROVE  PinHeld'
  <1>1. CASE PinCommit
    BY <1>1 DEF PinCommit, PinHeld
  <1>2. CASE Cleanup
    <2>1. pc' \notin Dispatch /\ job' = job
      BY <1>2 DEF Cleanup, Dispatch, rows
    <2>2. run.status = "completed" => \A j \in Jobs : job[j].status # "in_progress"
      BY DEF CInv, RowsShaped, Unended
    <2> QED
      BY <1>2, <2>1, <2>2 DEF Cleanup, PinHeld
  <1>3. CASE StartJob
    BY <1>3 DEF StartJob, PinHeld, Dispatch
  <1>4. CASE Next /\ ~PinCommit /\ ~Cleanup /\ ~StartJob
    BY <1>4, PinWriters, InProgressOnlyStarts DEF PinHeld
  <1>5. CASE UNCHANGED vars
    BY <1>5 DEF vars, rows, coordinator, PinHeld
  <1> QED
    BY <1>1, <1>2, <1>3, <1>4, <1>5

\* The commit of a job in progress in a container stays pinned, whatever is
\* delivered twice, lost, cancelled or cut short: the pin is dropped only after the
\* run has ended, and no job is left then.
THEOREM RunningStaysPinned ==
  ASSUME MayCancel # "always"
  PROVE  Spec => []PinnedWhileRunning
  <1> DEFINE I == TInv /\ OInv /\ CInv /\ PinHeld
  <1>1. Init => I
    BY InitTypes, InitOrder, InitContract, InitPinned
  <1>2. I /\ [Next]_vars => I'
    BY NextTypes, NextOrder, NextContract, NextPinned
  <1>3. I => PinnedWhileRunning
    BY DEF PinHeld, PinnedWhileRunning, TInv, TypeOK, StoresTypeOK
  <1> QED
    BY <1>1, <1>2, <1>3, PTL DEF Spec

-----------------------------------------------------------------------------
(* The checks and the commit statuses.                                      *)

Projected(j) ==
  /\ check[j] = job[j]
  /\ post[j] = "success" <=> job[j].conclusion \in {"success", "skipped"}
  /\ post[j] # "pending"

\* Of the jobs that have ended, only the one the coordinator is projecting may
\* differ from its check or its status; it touches no check that has ended; and none
\* has ended before the run is all there.
Projecting ==
  /\ \A j \in Jobs : Completed(j) /\ (pc \in {"check", "post"} => j # cur) => Projected(j)
  /\ pc \in {"check", "post"} =>
       verdict \in RunConclusion /\ job[cur] = Row("completed", verdict)
  /\ pc = "post" => check[cur] = job[cur]
  /\ pc = "touch" => check[cur].status # "completed"
  /\ creator.at # "done" => \A j \in Jobs : ~Completed(j)

\* As long as nothing has stopped before its end and nobody has begun to cancel.
Undisturbed == faults = 0 /\ canceller.at = "idle"

AInv == Undisturbed => Projecting

LEMMA InitProjects == Init => Projecting
  BY DEF Init, Projecting, Completed, Nothing, Row

\* Only a cancellation moves the request that cancels the run, and what has stopped
\* is counted.
LEMMA CancellerWriters ==
  ASSUME Next, ~StartCancel, ~Cancelling, ~Failing
  PROVE  canceller' = canceller /\ faults' \in {faults, faults + 1}
  <1>1. CASE Creating
    BY <1>1 DEF Creating, CreateRun, InsertJob, InsertCheck, PostPending, Enqueue,
       cancelling
  <1>2. CASE DeliverTick \/ FireAlarm \/ \E j \in Jobs : ReceiveResult(j)
    BY <1>2 DEF DeliverTick, FireAlarm, ReceiveResult, cancelling
  <1>3. CASE Ticking
    BY <1>3 DEF Ticking, TickRun, StartRun, ScanJobs, SkipNext, DispatchNext, PassDone,
       Cleanup, EndEvent, apart, cancelling
  <1>4. CASE Dispatching
    BY <1>4 DEF Dispatching, PinCommit, StartJob, FindCheck, TouchCheck, MarkDispatched,
       SetDeadline, SetAlarm, Send, apart, cancelling
  <1>5. CASE Completing
    BY <1>5 DEF Completing, CompleteJob, ProjectCheck, PostStatus, RollUp, FinishRun,
       MarkHandled, ClearDeadline, apart, cancelling
  <1>6. CASE Reaping
    BY <1>6 DEF Reaping, ReapDone, ReapNext, apart, cancelling
  <1>7. CASE DeleteRepository \/ \E j \in Jobs : FinishContainer(j)
    BY <1>7 DEF DeleteRepository, FinishContainer, cancelling
  <1> QED
    BY <1>1, <1>2, <1>3, <1>4, <1>5, <1>6, <1>7 DEF Next, Coordinate

\* What has stopped or has been cancelled stays so.
LEMMA DisturbedStays ==
  ASSUME TInv, Next, Undisturbed'
  PROVE  Undisturbed /\ ~Failing /\ ~StartCancel /\ ~Cancelling
  <1> USE DEF TInv, TypeOK, StoresTypeOK, RequestsTypeOK, Undisturbed
  <1>1. ~Failing
    BY DEF Failing, Crash, CreatorDies, CancellerDies
  <1>2. ~StartCancel /\ ~Cancelling
    BY DEF StartCancel, Cancelling, CancelJobs, CancelRun, CancelPost, EndCancel,
       CancelCheck
  <1> QED
    BY <1>1, <1>2, CancellerWriters

\* The request that creates the run writes the rows of jobs that have not ended.
LEMMA CreatingProjects ==
  ASSUME TInv, OInv, CInv, Projecting, Creating
  PROVE  Projecting'
  <1> USE DEF TInv, TypeOK, RowsTypeOK, RequestsTypeOK
  <1>1. pc = "idle" /\ pc' = "idle" /\ creator.at # "done"
    BY DEF Creating, CreateRun, InsertJob, InsertCheck, PostPending, Enqueue,
       coordinator, CInv, CreationAlone, Woken
  <1>2. \A j \in Jobs : ~Completed(j)'
    BY <1>1 DEF Creating, CreateRun, InsertJob, InsertCheck, PostPending, Enqueue,
       rows, Projecting, Completed, Row
  <1> QED
    BY <1>1, <1>2 DEF Projecting

\* The steps of the coordinator that write the rows.
LEMMA WritingProjects ==
  ASSUME TInv, CInv, Projecting,
         StartJob \/ TouchCheck \/ CompleteJob \/ ProjectCheck \/ PostStatus
  PROVE  Projecting'
  <1> USE DEF TInv, TypeOK, RowsTypeOK, CoordinatorTypeOK
  <1>1. creator.at = "done" /\ creator' = creator
    BY DEF StartJob, TouchCheck, CompleteJob, ProjectCheck, PostStatus, apart,
       CInv, CreationAlone, Woken
  <1>2. CASE StartJob
    BY <1>1, <1>2 DEF StartJob, Projecting, Projected, Completed, completing, Row
  <1>3. CASE TouchCheck
    <2>1. ~Completed(cur)
      BY <1>3 DEF TouchCheck, Projecting, Projected, Completed
    <2> QED
      BY <1>1, <1>3, <2>1 DEF TouchCheck, Projecting, Projected, Completed, completing
  <1>4. CASE CompleteJob
    <2>1. CASE Completed(cur)
      BY <1>1, <1>4, <2>1 DEF CompleteJob, Projecting, Projected, Completed, completing,
         After
    <2>2. CASE ~Completed(cur)
      BY <1>1, <1>4, <2>2 DEF CompleteJob, Projecting, Projected, Completed, completing,
         CInv, CurBegun, RunConclusion
    <2> QED
      BY <2>1, <2>2
  <1>5. CASE ProjectCheck
    BY <1>1, <1>5 DEF ProjectCheck, Projecting, Projected, Completed, completing
  <1>6. CASE PostStatus
    <2>1. Projected(cur)'
      BY <1>6 DEF PostStatus, Projecting, Projected, completing, toCommitStatusState,
         Row
    <2> QED
      BY <1>1, <1>6, <2>1 DEF PostStatus, Projecting, Projected, Completed, completing
  <1> QED
    BY <1>2, <1>3, <1>4, <1>5, <1>6

\* The others leave them alone, and come to none of the stations Projecting names
\* but from FindCheck.
LEMMA RestProjects ==
  ASSUME UNCHANGED <<job, check, post>>, Projecting,
         \/ UNCHANGED <<creator, pc, cur, verdict>>
         \/ pc' \notin {"check", "post", "touch"} /\ pc \notin {"check", "post"}
              /\ creator' = creator
         \/ pc' = "touch" /\ check[cur].status # "completed" /\ cur' = cur
              /\ pc \notin {"check", "post"} /\ creator' = creator
  PROVE  Projecting'
  BY DEF Projecting, Projected, Completed

LEMMA NextProjects ==
  ASSUME TInv, OInv, CInv, AInv, [Next]_vars
  PROVE  AInv'
  <1> SUFFICES ASSUME Undisturbed' PROVE Projecting'
    BY DEF AInv
  <1>1. CASE UNCHANGED vars
    <2>1. Projecting
      BY <1>1 DEF AInv, Undisturbed, vars, cancelling
    <2> QED
      BY <1>1, <2>1, RestProjects DEF vars, rows, coordinator, completing
  <1>2. CASE Next
    <2>1. Projecting /\ ~Failing /\ ~StartCancel /\ ~Cancelling
      BY <1>2, DisturbedStays DEF AInv
    <2>2. CASE Creating
      BY <2>1, <2>2, CreatingProjects
    <2>3. CASE DeliverTick \/ FireAlarm \/ \E j \in Jobs : ReceiveResult(j)
      BY <2>1, <2>3, RestProjects DEF DeliverTick, FireAlarm, ReceiveResult, rows
    <2>4. CASE Ticking
      BY <2>1, <2>4, RestProjects DEF Ticking, TickRun, StartRun, ScanJobs, SkipNext,
         DispatchNext, PassDone, Cleanup, EndEvent, Idle, apart, rows
    <2>5. CASE Dispatching
      <3>1. CASE StartJob \/ TouchCheck
        BY <2>1, <3>1, WritingProjects
      <3>2. CASE \/ PinCommit \/ FindCheck \/ MarkDispatched \/ SetDeadline
                 \/ SetAlarm \/ Send
        BY <2>1, <3>2, RestProjects DEF PinCommit, FindCheck, MarkDispatched,
           SetDeadline, SetAlarm, Send, apart, rows, completing
      <3> QED
        BY <2>5, <3>1, <3>2 DEF Dispatching
    <2>6. CASE Completing
      <3>1. CASE CompleteJob \/ ProjectCheck \/ PostStatus
        BY <2>1, <3>1, WritingProjects
      <3>2. CASE RollUp \/ FinishRun \/ MarkHandled \/ ClearDeadline
        BY <2>1, <3>2, RestProjects DEF RollUp, FinishRun, MarkHandled, ClearDeadline,
           After, apart, rows
      <3> QED
        BY <2>6, <3>1, <3>2 DEF Completing
    <2>7. CASE Reaping
      BY <2>1, <2>7, RestProjects DEF Reaping, ReapDone, ReapNext, apart, rows
    <2>8. CASE DeleteRepository \/ \E j \in Jobs : FinishContainer(j)
      BY <2>1, <2>8, RestProjects DEF DeleteRepository, FinishContainer, rows,
         coordinator, completing
    <2> QED
      BY <1>2, <2>1, <2>2, <2>3, <2>4, <2>5, <2>6, <2>7, <2>8 DEF Next, Coordinate
  <1> QED
    BY <1>1, <1>2

\* Until something stops before its end or somebody begins to cancel, the checks and
\* the commit statuses agree with the jobs whenever the coordinator is between two
\* events.
THEOREM ProjectionsKeepUp ==
  ASSUME MayCancel # "always"
  PROVE  Spec => [](Undisturbed => ChecksAgree)
  <1> DEFINE I == TInv /\ OInv /\ CInv /\ AInv
  <1>1. Init => I
    BY InitTypes, InitOrder, InitContract, InitProjects DEF AInv
  <1>2. I /\ [Next]_vars => I'
    BY NextTypes, NextOrder, NextContract, NextProjects
  <1>3. I => (Undisturbed => ChecksAgree)
    BY DEF AInv, Projecting, Projected, ChecksAgree, ProjectionAgrees
  <1> QED
    BY <1>1, <1>2, <1>3, PTL DEF Spec

=============================================================================
