------------------------------- MODULE Checks -------------------------------
(***************************************************************************)
(* Check runs and commit statuses posted by a bot (src/features/checks).       *)
(* Rows live in D1, the long text of a check run in the repository's part of     *)
(* R2, the refs document elsewhere in R2.  A handler reads the row it patches,     *)
(* writes the text, then runs its UPDATE, which sets the columns it was given       *)
(* and no other.                                                                    *)
(***************************************************************************)
EXTENDS Integers, Sequences, SequencesExt, FiniteSets

CONSTANTS
    Checks,         \* check runs that may be created
    Contexts,       \* contexts a status is posted under
    Bots,           \* requests that run at a time
    MaxPosts,       \* bound: statuses posted
    MaxAsked,       \* bound: requests begun
    MaxKilled       \* bound: Workers lost

VARIABLES
    check,      \* check run -> its row, NoCheck when there is none
    text,       \* check runs with a text in R2
    posts,      \* the statuses of the commit, oldest first
    branch,     \* refs document: whether the branch is there, at this commit
    bot,        \* what each request has still to do
    asks, killed  \* counters for the bounds

cvars == <<check, text, posts, branch, bot, asks, killed>>

Statuses == {"queued", "in_progress", "completed"}
Conclusions == {"success", "failure"}
Null == "null"
States == {"success", "failure", "error", "pending"}
NoCheck == [status |-> Null, conclusion |-> Null, started |-> FALSE, completed |-> FALSE, spill |-> FALSE]
Waiting == [todo |-> <<>>, id |-> CHOOSE k \in Checks : TRUE, patch |-> NoCheck, sets |-> {}]

CTypeOK ==
    /\ \A k \in Checks : check[k].status \in Statuses \cup {Null} /\ check[k].conclusion \in Conclusions \cup {Null}
    /\ text \subseteq Checks /\ Len(posts) <= MaxPosts /\ branch \in BOOLEAN
    /\ \A b \in Bots : ToSet(bot[b].todo) \subseteq {"text", "update"}

CInit ==
    /\ check = [k \in Checks |-> NoCheck] /\ text = {} /\ posts = <<>> /\ branch = TRUE
    /\ bot = [b \in Bots |-> Waiting] /\ asks = 0 /\ killed = 0

AskBot(b, to) == bot[b] = Waiting /\ asks < MaxAsked /\ asks' = asks + 1 /\ bot' = [bot EXCEPT ![b] = to] /\ UNCHANGED killed
Then(b, to) == bot' = [bot EXCEPT ![b] = to] /\ UNCHANGED <<asks, killed>>

-----------------------------------------------------------------------------
(* Check runs.                                                                *)
\* Mutant: the row is pointed at the text before the text is written.
PointedFirst(long) == IF long THEN <<"update", "text">> ELSE <<"update">>
Writes(long) == IF long THEN <<"text", "update">> ELSE <<"update">>

\* createCheckRunHandler: a completed run needs its conclusion; the text, when there is
\* one, is written after the row, and a second statement points the row at it.
CreateCheckRun(b) ==
    \E k \in {j \in Checks : check[j] = NoCheck}, status \in Statuses, conclusion \in Conclusions \cup {Null}, long \in BOOLEAN :
        /\ status = "completed" => conclusion # Null
        /\ check' = [check EXCEPT ![k] = [status |-> status, conclusion |-> conclusion, started |-> status # "queued",
                                          completed |-> status = "completed", spill |-> FALSE]]
        /\ AskBot(b, IF long THEN [todo |-> Writes(TRUE), id |-> k, patch |-> [NoCheck EXCEPT !.spill = TRUE], sets |-> {"spill"}] ELSE Waiting)
        /\ UNCHANGED <<text, posts, branch>>

\* updateCheckRunHandler up to its first write.  What is not in the body keeps the value
\* that was read, in the check for a conclusion; the time stamps follow from the row read.
PatchesRow(b, k, given, output, status, conclusion) ==
    LET reached == {f \in {"started", "completed"} : IF f = "started" THEN status # "queued" ELSE status = "completed"}
        touched == IF "status" \in given THEN {f \in reached : ~check[k][f]} ELSE {}
    IN /\ AskBot(b, [todo |-> Writes(output = "long"), id |-> k,
                     patch |-> [status |-> status, conclusion |-> conclusion, started |-> TRUE, completed |-> TRUE, spill |-> output = "long"],
                     sets |-> given \cup touched \cup (IF output = Null THEN {} ELSE {"spill"})])
       /\ UNCHANGED <<check, text, posts, branch>>
UpdateCheckRun(b) ==
    \E k \in {j \in Checks : check[j] # NoCheck}, given \in SUBSET {"status", "conclusion"}, output \in {Null, "short", "long"} :
      \E status \in IF "status" \in given THEN Statuses ELSE {check[k].status},
         conclusion \in IF "conclusion" \in given THEN Conclusions \cup {Null} ELSE {check[k].conclusion} :
        (status = "completed" => conclusion # Null) /\ PatchesRow(b, k, given, output, status, conclusion)

WentOn(b) == Then(b, IF Len(bot[b].todo) = 1 THEN Waiting ELSE [bot[b] EXCEPT !.todo = Tail(@)])
PutText(b) ==
    /\ bot[b].todo # <<>> /\ Head(bot[b].todo) = "text" /\ text' = text \cup {bot[b].id}
    /\ WentOn(b) /\ UNCHANGED <<check, posts, branch>>
UpdateRow(b) ==
    /\ bot[b].todo # <<>> /\ Head(bot[b].todo) = "update"
    /\ check' = [check EXCEPT ![bot[b].id] =
                   [f \in DOMAIN NoCheck |-> IF f \in bot[b].sets THEN bot[b].patch[f] ELSE @[f]]]
    /\ WentOn(b) /\ UNCHANGED <<text, posts, branch>>
KillBot(b) ==
    /\ bot[b] # Waiting /\ killed < MaxKilled /\ killed' = killed + 1
    /\ bot' = [bot EXCEPT ![b] = Waiting] /\ UNCHANGED <<check, text, posts, branch, asks>>

-----------------------------------------------------------------------------
(* Commit statuses: every post is a row, the newest of a context counts.        *)
CreateCommitStatus(b) ==
    \E c \in Contexts, s \in States :
        /\ Len(posts) < MaxPosts /\ posts' = Append(posts, [context |-> c, state |-> s])
        /\ AskBot(b, Waiting) /\ UNCHANGED <<check, text, branch>>

listCommitStatuses == Reverse(posts)
WithStatus(latest, status) ==
    IF \E i \in DOMAIN latest : latest[i].context = status.context THEN latest ELSE Append(latest, status)
LatestOf(newestFirst) ==
    LET latest[n \in 0..Len(newestFirst)] ==
            IF n = 0 THEN <<>> ELSE WithStatus(latest[n - 1], newestFirst[n])
    IN latest
latestPerContext(newestFirst) == LatestOf(newestFirst)[Len(newestFirst)]
rollup(latest) ==
    LET said == {latest[i].state : i \in DOMAIN latest} IN
    IF said \cap {"failure", "error"} # {} THEN "failure"
    ELSE IF "pending" \in said \/ said = {} THEN "pending" ELSE "success"
combinedStatus == rollup(latestPerContext(listCommitStatuses))

-----------------------------------------------------------------------------
(* Lists by ref (listCheckRunsHandler, listCommitStatusesHandler,                *)
(* combinedStatusHandler).                                                       *)
\* A push deletes the branch, or brings it back.
MoveBranch == asks < MaxAsked /\ asks' = asks + 1 /\ branch' = ~branch /\ UNCHANGED <<check, text, posts, bot, killed>>

\* readRepoRefs: the document is under its own prefix of the bucket; a store that keeps
\* to the repository's prefix looks for it there, and finds none.
readRefsOf(store) == IF store = "bucket" /\ branch THEN {"branch"} ELSE {}
\* A full object id passes; a name is looked up through the store the handler has made
\* for the repository's objects.
resolveRefOrSha(name) == IF name = "sha" THEN {"commit"} ELSE {"commit" : r \in readRefsOf("repository") \cap {name}}

CNext ==
    \/ \E b \in Bots : CreateCheckRun(b) \/ UpdateCheckRun(b) \/ PutText(b) \/ UpdateRow(b) \/ KillBot(b) \/ CreateCommitStatus(b)
    \/ MoveBranch
CSpec == CInit /\ [][CNext]_cvars

-----------------------------------------------------------------------------
(* A check run that points at a text has one, whichever of two patches and a        *)
(* death came when.                                                                  *)
SpillHasText == \A k \in Checks : check[k].spill => k \in text

(* The combined status of a commit is a success only when every context that has      *)
(* reported says so now, and a failure as soon as one says so now, whatever was         *)
(* posted before.                                                                       *)
CombinedIsNow ==
    LET now(c) == CHOOSE i \in DOMAIN posts : posts[i].context = c /\ \A j \in i + 1..Len(posts) : posts[j].context # c
        reported == {c \in Contexts : \E i \in DOMAIN posts : posts[i].context = c} IN
    /\ combinedStatus = "success" <=> reported # {} /\ \A c \in reported : posts[now(c)].state = "success"
    /\ combinedStatus = "failure" <=> \E c \in reported : posts[now(c)].state \in {"failure", "error"}

(* checks/http.ts, service.ts: a spilled text is there, and the combined status is of   *)
(* now.                                                                                   *)
ChecksHold == SpillHasText /\ CombinedIsNow

(* Refuted: "A completed check run requires a `conclusion`" (http.ts:212, 291): one     *)
(* patch completes the run, another that read it as it was before clears the             *)
(* conclusion.                                                                            *)
CompletedHasConclusion == \A k \in Checks : check[k].status = "completed" => check[k].conclusion # Null

(* Refuted: "True SHA passes through; a ref name resolves against R2; else null"          *)
(* (http.ts:84): the name of a branch that is there does not resolve.                      *)
RefNameResolves == branch => resolveRefOrSha("branch") # {}
=============================================================================
