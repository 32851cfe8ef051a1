------------------------- MODULE WorkflowExpansion -------------------------
(***************************************************************************)
(* From a workflow file to the jobs of a run (src/features/actions:         *)
(* engine/parser/validator.ts, engine/scheduler/matrix.ts, job-expansion.ts *)
(* and dependency.ts, discovery.ts, expansion.ts, triggers.ts,               *)
(* engine/glob-match.ts).  A workflow is the sequence of its jobs, each with *)
(* its id, what it needs, its matrix and its number of steps.                *)
(***************************************************************************)
EXTENDS Integers, Sequences, SequencesExt, FiniteSetsExt, Functions, TLC

CONSTANTS
    Serialized(_),        \* a matrix value as it shows in an id: two values may look alike
    MaxCombinations,      \* MAX_MATRIX_COMBINATIONS
    MaxExpandedJobs,      \* MAX_EXPANDED_JOBS_PER_WORKFLOW
    MaxExpandedSteps,     \* MAX_EXPANDED_STEPS_PER_WORKFLOW
    MaxJobs,              \* MAX_JOBS_PER_WORKFLOW
    MaxSteps              \* MAX_STEPS_PER_JOB

Cell == [k \in {} |-> 0]                  \* a combination: from some keys to values
NoMatrix == [keys |-> <<>>, values |-> Cell, exclude |-> {}, include |-> <<>>]
TooMany == [ok |-> FALSE, cells |-> <<>>]
Cells(cells) == IF Len(cells) <= MaxCombinations THEN [ok |-> TRUE, cells |-> cells] ELSE TooMany
Agree(cell, entry, keys) == \A k \in keys : k \in DOMAIN cell /\ cell[k] = entry[k]
With(cell, entry) == [k \in DOMAIN cell \cup DOMAIN entry |-> IF k \in DOMAIN cell THEN cell[k] ELSE entry[k]]

(***************************************************************************)
(* matrix.ts                                                                 *)
(***************************************************************************)
\* Every cell with every value of the key, in order; a key without values is passed over.
Extend(cells, key, values) ==
    IF values = <<>> THEN cells
    ELSE FlattenSeq([i \in DOMAIN cells |->
            [j \in DOMAIN values |-> With(cells[i], [k \in {key} |-> values[j]])]])

buildCartesianProduct(matrix) ==
    IF matrix.keys = <<>> THEN Cells(<<>>)
    ELSE FoldLeft(LAMBDA made, key : IF made.ok THEN Cells(Extend(made.cells, key, matrix.values[key])) ELSE made,
                  Cells(<<Cell>>), matrix.keys)

matchesExcludeEntry(cell, entry) == Agree(cell, entry, DOMAIN entry)

\* An entry is added to every cell that has its values of the matrix's keys, without
\* changing what the cell has; where there is none it is a cell of its own.
applyInclude(made, entry, baseKeys) ==
    LET base == DOMAIN entry \cap baseKeys
        matched == {i \in DOMAIN made.cells : Agree(made.cells[i], entry, base)}
        extra == Restrict(entry, DOMAIN entry \ baseKeys)
    IN CASE ~made.ok -> made
         [] made.ok /\ (base = {} \/ matched = {}) -> Cells(Append(made.cells, entry))
         [] OTHER -> [made EXCEPT !.cells = [i \in DOMAIN @ |-> IF i \in matched THEN With(@[i], extra) ELSE @[i]]]

expandMatrix(matrix) ==
    LET product == buildCartesianProduct(matrix)
        kept == SelectSeq(product.cells, LAMBDA c : \A x \in matrix.exclude : ~matchesExcludeEntry(c, x))
        baseKeys == ToSet(matrix.keys)
    IN IF ~product.ok \/ Len(matrix.include) > MaxCombinations THEN TooMany
       ELSE FoldLeft(LAMBDA made, entry : applyInclude(made, entry, baseKeys), Cells(kept), matrix.include)

\* hashMatrixCombination: what a cell looks like.
Looks(cell) == [k \in DOMAIN cell |-> Serialized(cell[k])]
PlainId(name) == [name |-> name, cells |-> <<>>]
JobId(id, cell) == [id EXCEPT !.cells = Append(@, [looks |-> Looks(cell), again |-> 0])]

(***************************************************************************)
(* job-expansion.ts.  A job's id in the file is an id: that of a plain job,  *)
(* or one that reads like the cell of a matrix.                              *)
(***************************************************************************)
uniqueId(jobs, id) ==
    LET taken == {jobs[i].id : i \in DOMAIN jobs}
        Again(n) == [id EXCEPT !.cells[Len(id.cells)].again = n]
    IN Again(Min({n \in 0..Len(jobs) : Again(n) \notin taken}))

\* Map.set: an id that is there already keeps its place and gets the new job.
SetJob(jobs, job) ==
    LET at == {i \in DOMAIN jobs : jobs[i].id = job.id}
    IN IF at = {} THEN Append(jobs, job) ELSE [jobs EXCEPT ![Min(at)] = job]

\* charge: the budgets, as the jobs are added.
Charge(made, jobs, steps) ==
    [ok |-> made.ok /\ Len(jobs) <= MaxExpandedJobs /\ made.steps + steps <= MaxExpandedSteps,
     jobs |-> jobs, steps |-> made.steps + steps]

AddCell(made, job, cell) ==
    LET id == uniqueId(made.jobs, JobId(job.id, cell))
    IN IF ~made.ok THEN made
       ELSE Charge(made, SetJob(made.jobs, [id |-> id, baseId |-> job.id, cell |-> cell, needs |-> job.needs]), job.steps)

AddJob(made, job) ==
    LET expansion == expandMatrix(job.matrix)
    IN CASE ~made.ok \/ ~expansion.ok -> [made EXCEPT !.ok = FALSE]
         [] made.ok /\ expansion.ok /\ expansion.cells = <<>> ->
               Charge(made, SetJob(made.jobs, [id |-> job.id, baseId |-> job.id, cell |-> Cell, needs |-> job.needs]),
                      job.steps)
         [] OTHER -> FoldLeft(LAMBDA m, cell : AddCell(m, job, cell), made, expansion.cells)

buildExpandedJobs(workflow) == FoldLeft(AddJob, [ok |-> TRUE, jobs |-> <<>>, steps |-> 0], workflow)

\* The rows of a run (expansion.ts): one for each expanded job, under the key of its job.
expandRunJobs(workflow) ==
    LET jobs == buildExpandedJobs(workflow).jobs
    IN [i \in DOMAIN jobs |-> [jobKey |-> jobs[i].baseId, matrix |-> jobs[i].cell, needs |-> jobs[i].needs]]

\* The environment of a step: step over job over workflow, and the run's context over all.
stepEnv(workflowEnv, jobEnv, env, context) == With(With(With(context, env), jobEnv), workflowEnv)

(***************************************************************************)
(* dependency.ts and validator.ts                                            *)
(***************************************************************************)
JobIds(workflow) == {workflow[i].id : i \in DOMAIN workflow}
JobOf(workflow, id) == CHOOSE j \in ToSet(workflow) : j.id = id

RECURSIVE Visit(_, _, _)
\* dfs: what has been visited, what is on the path, and whether a cycle was met.
Visit(workflow, node, was) ==
    LET Next(s, dep) ==
            CASE s.cycle -> s
              [] ~s.cycle /\ dep \notin s.visited -> Visit(workflow, dep, s)
              [] OTHER -> [s EXCEPT !.cycle = dep \in s.path]
        entered == [was EXCEPT !.visited = @ \cup {node}, !.path = @ \cup {node}]
        left == FoldLeft(Next, entered, JobOf(workflow, node).needs)
    IN [left EXCEPT !.path = IF left.cycle THEN @ ELSE @ \ {node}]

detectCycle(workflow) ==
    FoldLeft(LAMBDA s, j : IF s.cycle \/ j.id \in s.visited THEN s ELSE Visit(workflow, j.id, s),
             [visited |-> {}, path |-> {}, cycle |-> FALSE], workflow).cycle

validateWorkflow(workflow) ==
    /\ Len(workflow) \in 1..MaxJobs
    /\ \A j \in ToSet(workflow) : j.steps \in 1..MaxSteps
    /\ \A j \in ToSet(workflow) : ToSet(j.needs) \subseteq JobIds(workflow) \ {j.id}
    /\ ~detectCycle(workflow)

loadAndValidateWorkflow(workflow) == validateWorkflow(workflow) /\ buildExpandedJobs(workflow).ok

\* groupIntoPhases, on the rows of a run: the rows that can start once others are done.
Ready(rows, done) ==
    {i \in DOMAIN rows : \A need \in ToSet(rows[i].needs) :
        LET cells == {k \in DOMAIN rows : rows[k].jobKey = need} IN cells # {} /\ cells \subseteq done}
Done(rows) ==
    LET after[n \in 0..Len(rows)] == IF n = 0 THEN {} ELSE after[n - 1] \cup Ready(rows, after[n - 1])
    IN after[Len(rows)]

(***************************************************************************)
(* glob-match.ts: a pattern is a sequence of "**", "*", "?" and characters.   *)
(***************************************************************************)
Consumes(token, char) == token = "**" \/ (token = "*" /\ char # "/")

globMatch(pattern, value) ==
    LET n == Len(pattern) m == Len(value)
        match[p \in (1..n + 1) \X (1..m + 1)] ==
            LET i == p[1] j == p[2]
            IN CASE i = n + 1 -> j = m + 1
                 [] i <= n /\ pattern[i] \in {"*", "**"} ->
                      match[<<i + 1, j>>] \/ (j <= m /\ Consumes(pattern[i], value[j]) /\ match[<<i, j + 1>>])
                 [] i <= n /\ pattern[i] = "?" -> j <= m /\ value[j] # "/" /\ match[<<i + 1, j + 1>>]
                 [] OTHER -> j <= m /\ value[j] = pattern[i] /\ match[<<i + 1, j + 1>>]
    IN match[<<1, 1>>]

(***************************************************************************)
(* triggers.ts: a trigger is bare, or has lists of patterns.                  *)
(***************************************************************************)
matchesAnyPattern(value, patterns) == \E p \in patterns : globMatch(p, value)

matchesBranchFilters(branch, t) ==
    /\ t.branches # {} => matchesAnyPattern(branch, t.branches)
    /\ ~matchesAnyPattern(branch, t.branchesIgnore)

matchesPathFilters(changed, t) ==
    IF changed = {} THEN t.paths = {} /\ t.pathsIgnore = {}
    ELSE /\ t.paths # {} => \E f \in changed : matchesAnyPattern(f, t.paths)
         /\ t.pathsIgnore # {} => \E f \in changed : ~matchesAnyPattern(f, t.pathsIgnore)

matchesPushTrigger(t, branch, changed) ==
    /\ t.event = "push"
    /\ \/ t.bare
       \/ /\ ~t.bare /\ ~(t.branches = {} /\ t.tags # {})
          /\ matchesBranchFilters(branch, t) /\ matchesPathFilters(changed, t)

\* Trees by their files' blobs; a branch that is new has no tree before.
computeChangedFiles(after, before) ==
    {f \in DOMAIN after : f \notin DOMAIN before \/ before[f] # after[f]} \cup (DOMAIN before \ DOMAIN after)

discoverWorkflows(files) == {f \in DOMAIN files : loadAndValidateWorkflow(files[f].jobs)}

\* The runs of one push (push-trigger.ts): for each branch it moved, the files there that
\* load and are triggered; other refs and deleted branches start none.
onPushDiscoverWorkflows(updates) ==
    UNION {{<<u.branch, f>> : f \in {g \in discoverWorkflows(u.files) :
                matchesPushTrigger(u.files[g].trigger, u.branch, computeChangedFiles(u.after, u.before))}} :
           u \in {v \in updates : v.isBranch /\ ~v.deletes}}

(***************************************************************************)
(* What they promise.                                                        *)
(***************************************************************************)
\* A plain job, listed after a matrix, whose id reads like a cell of it.
Replaced(workflow) == \E i, k \in DOMAIN workflow :
    /\ i < k /\ workflow[k].id.cells # <<>>
    /\ workflow[i].id = [workflow[k].id EXCEPT !.cells = Front(@)]

\* A workflow that is accepted (discovery.ts, validator.ts) and replaces no cell becomes a
\* run that can end: every cell of every matrix has one row of its own, no more rows than
\* the budget, and the rows can all be started in some order of their needs.
AcceptedCanRun(workflow) ==
    LET rows == expandRunJobs(workflow)
        Expected(j) == LET cells == expandMatrix(j.matrix).cells IN IF cells = <<>> THEN <<Cell>> ELSE cells
        Given(j) == SelectSeq(rows, LAMBDA r : r.jobKey = j.id)
    IN loadAndValidateWorkflow(workflow) /\ ~Replaced(workflow) =>
         /\ Len(rows) <= MaxExpandedJobs
         /\ \A j \in ToSet(workflow) : [i \in DOMAIN Given(j) |-> Given(j)[i].matrix] = Expected(j)
         /\ Done(rows) = DOMAIN rows

\* Reference: the values a pattern describes, piece by piece.
RECURSIVE Describes(_, _)
Describes(pattern, value) ==
    IF pattern = <<>> THEN value = <<>>
    ELSE \E n \in 0..Len(value) :
           LET piece == SubSeq(value, 1, n)
           IN /\ CASE Head(pattern) = "**" -> TRUE
                   [] Head(pattern) = "*" -> "/" \notin ToSet(piece)
                   [] Head(pattern) = "?" -> n = 1 /\ piece # <<"/">>
                   [] OTHER -> piece = <<Head(pattern)>>
              /\ Describes(Tail(pattern), SubSeq(value, n + 1, Len(value)))

\* The table of glob-match.ts finds what the pattern describes, across stars of both kinds.
GlobIsExact(pattern, value) == globMatch(pattern, value) <=> Describes(pattern, value)

\* A push starts the run of a workflow with filters exactly when its branch is described and
\* a file it added, changed or removed is one the workflow asks for: for a trigger with
\* either paths or paths to ignore.
PushStartsRun(u, t, jobs) ==
    LET Described(v, patterns) == \E p \in patterns : Describes(p, v)
        Differs(f) == ~(f \in DOMAIN u.before /\ f \in DOMAIN u.after /\ u.before[f] = u.after[f])
        asked == {f \in DOMAIN u.before \cup DOMAIN u.after : Differs(f)
                    /\ (t.paths # {} => Described(f, t.paths)) /\ ~Described(f, t.pathsIgnore)}
        files == "w" :> [trigger |-> t, jobs |-> jobs]
    IN onPushDiscoverWorkflows({[u EXCEPT !.files = files]}) # {} <=>
         /\ u.isBranch /\ ~u.deletes /\ validateWorkflow(jobs)
         /\ t.branches # {} => Described(u.branch, t.branches)
         /\ ~Described(u.branch, t.branchesIgnore)
         /\ (t.paths \cup t.pathsIgnore # {}) => asked # {}
=============================================================================
