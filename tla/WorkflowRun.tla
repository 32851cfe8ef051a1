---------------------------- MODULE WorkflowRun ----------------------------
(***************************************************************************)
(* What a workflow run promises to those who watch it.                      *)
(*                                                                         *)
(* A run is a row with a verdict and a table of jobs.  A job starts once    *)
(* every cell of every job it needs has succeeded and a place is free; it   *)
(* is skipped once they have all ended and one has not; a verdict, once     *)
(* given, is final; and the run ends after its last job, with the worst of  *)
(* their verdicts, or as cancelled by a request that ended what was left.   *)
(***************************************************************************)
EXTENDS Naturals, FiniteSets

CONSTANTS Jobs, Key, Needs,     \* the jobs, the key of each, the keys it needs
          maxConcurrentJobs

VARIABLES run,   \* the run's status and conclusion
          job    \* the status and conclusion of each job

vars == <<run, job>>

RunConclusion == {"success", "failure", "timed_out", "cancelled", "skipped"}
Nothing == [status |-> "none", conclusion |-> "none"]
Queued == [status |-> "queued", conclusion |-> "none"]
Running == [status |-> "in_progress", conclusion |-> "none"]
Ended(c) == [status |-> "completed", conclusion |-> c]
Rows == {Nothing, Queued, Running} \cup {Ended(c) : c \in RunConclusion}

HasEnded(j) == job[j].status = "completed"
Active(j) == job[j].status \in {"queued", "in_progress"}
InFlight == {j \in Jobs : job[j].status = "in_progress"}

\* The cells of the jobs that j waits for.
Prerequisites(j) == {i \in Jobs : Key[i] \in Needs[j]}
MayStart(j) == \A i \in Prerequisites(j) : job[i] = Ended("success")
MustSkip(j) ==
  /\ \A i \in Prerequisites(j) : HasEnded(i)
  /\ \E i \in Prerequisites(j) : job[i] # Ended("success")

\* The verdict of a run whose jobs have these: the first of this list that
\* one of them has.
Severity == <<"failure", "timed_out", "cancelled", "success", "skipped">>
Verdict(cs) ==
  Severity[CHOOSE n \in 1 .. 5 :
             Severity[n] \in cs /\ \A m \in 1 .. n - 1 : Severity[m] \notin cs]

Init ==
  /\ run = Nothing
  /\ job = [j \in Jobs |-> Nothing]

Create == run = Nothing /\ run' = Queued /\ UNCHANGED job

Insert(j) ==
  /\ run = Queued /\ job[j] = Nothing
  /\ job' = [job EXCEPT ![j] = Queued]
  /\ UNCHANGED run

Begin ==
  /\ run = Queued /\ \A j \in Jobs : job[j] # Nothing
  /\ run' = Running
  /\ UNCHANGED job

Start(j) ==
  /\ run = Running /\ job[j] = Queued /\ MayStart(j)
  /\ Cardinality(InFlight) < maxConcurrentJobs
  /\ job' = [job EXCEPT ![j] = Running]
  /\ UNCHANGED run

\* A queued job can only fail: when it cannot be given to a container.
Finish(j, c) ==
  /\ run = Running /\ MayStart(j)
  /\ job[j] = Running \/ (job[j] = Queued /\ c = "failure")
  /\ job' = [job EXCEPT ![j] = Ended(c)]
  /\ UNCHANGED run

Skip(j) ==
  /\ run = Running /\ job[j] = Queued /\ MustSkip(j)
  /\ job' = [job EXCEPT ![j] = Ended("skipped")]
  /\ UNCHANGED run

Settle ==
  /\ run = Running /\ \A j \in Jobs : HasEnded(j)
  /\ run' = Ended(Verdict({job[j].conclusion : j \in Jobs}))
  /\ UNCHANGED job

CancelJobs ==
  /\ run \in {Queued, Running}
  /\ job' = [j \in Jobs |-> IF Active(j) THEN Ended("cancelled") ELSE job[j]]
  /\ UNCHANGED run

CancelRun ==
  /\ run \in {Queued, Running} /\ \A j \in Jobs : ~Active(j)
  /\ run' = Ended("cancelled")
  /\ UNCHANGED job

Next ==
  \/ Create \/ Begin \/ Settle \/ CancelJobs \/ CancelRun
  \/ \E j \in Jobs :
       \/ Insert(j) \/ Start(j) \/ Skip(j)
       \/ \E c \in {"success", "failure", "timed_out"} : Finish(j, c)

Spec == Init /\ [][Next]_vars

=============================================================================
