---------------------------- MODULE IssueTracker ----------------------------
(***************************************************************************)
(* Issues, their labels, milestone and comments, and the numbers they share   *)
(* with pull requests (src/features/issues: store.ts and its handlers;        *)
(* handleOpen of pulls/pull-crud.ts).  A handler reads, decides, and then     *)
(* runs one SQL statement after the other with no transaction around them:     *)
(* `todo` is what it has still to run.  A statement that a foreign key or a     *)
(* unique index refuses ends the handler, and so may the Worker at any time.    *)
(***************************************************************************)
EXTENDS Integers, Sequences, SequencesExt, FiniteSets, FiniteSetsExt

CONSTANTS
    LabelIds, MilestoneIds,
    IssueCallers,        \* requests that run at a time
    Limit,          \* ?limit= of the walk
    MaxNumber,      \* bound: numbers handed out
    MaxComments,    \* bound: comments made
    MaxIssueRequests,    \* bound: requests begun
    MaxIssueDeaths       \* bound: Workers lost

ASSUME IssueAssumption ==
    {Limit, MaxNumber, MaxComments, MaxIssueRequests, MaxIssueDeaths} \subseteq Nat /\ IsFiniteSet(LabelIds)

VARIABLES
    issues,         \* number -> the rows with it
    nextValue,      \* repo_counters, scope 'issue': the next number
    labels,         \* the labels there are
    milestones,     \* the milestones there are
    comments,       \* comment -> the number of its issue, 0 when there is none
    todo,           \* caller -> the statements it has still to run
    number,         \* caller -> the number it has drawn, 0 before
    walk,           \* a reader that goes from page to page
    begun, dead     \* counters for the bounds

ivars == <<issues, nextValue, labels, milestones, comments, todo, number, walk, begun, dead>>

NoMilestone == "none"
Row(pr, ms) == [pr |-> pr, pull |-> FALSE, state |-> "open", labels |-> {}, milestone |-> ms, count |-> 0]
Numbers == 1..MaxNumber
Comments == 1..MaxComments
There == {n \in Numbers : issues[n] # {}}
The(n) == CHOOSE r \in issues[n] : TRUE
Stmt(op, n, arg) == [op |-> op, n |-> n, arg |-> arg]
ThisOne == 0     \* in a statement: the number the request has drawn

ITypeOK ==
    /\ nextValue \in 1..MaxNumber + 1 /\ labels \subseteq LabelIds /\ milestones \subseteq MilestoneIds
    /\ \A n \in Numbers : \A r \in issues[n] : r.labels \subseteq LabelIds /\ r.count \in 0..MaxComments
    /\ comments \in [Comments -> 0..MaxNumber] /\ number \in [IssueCallers -> 0..MaxNumber]

NoWalk == [on |-> FALSE, offset |-> 0, seen |-> {}, from |-> {}]

IInit ==
    /\ issues = [n \in Numbers |-> {}] /\ nextValue = 1
    /\ labels = LabelIds /\ milestones = MilestoneIds
    /\ comments = [k \in Comments |-> 0]
    /\ todo = [c \in IssueCallers |-> <<>>] /\ number = [c \in IssueCallers |-> 0]
    /\ walk = NoWalk /\ begun = 0 /\ dead = 0

Stored == <<issues, nextValue, labels, milestones, comments>>

-----------------------------------------------------------------------------
(* The handlers: what each checks, and the statements it goes on to run.       *)
Intend(c, statements) ==
    /\ todo[c] = <<>> /\ begun < MaxIssueRequests
    /\ todo' = [todo EXCEPT ![c] = statements] /\ begun' = begun + 1
    /\ number' = [number EXCEPT ![c] = 0]
    /\ UNCHANGED <<Stored, walk, dead>>

AddAll(n, ids) == SetToSeq({Stmt("addLabel", n, l) : l \in ids})

\* openIssueHandler: milestone and labels are resolved, then the row is made.
OpenIssue(c) ==
    \E ms \in milestones \cup {NoMilestone}, ls \in SUBSET labels :
        /\ Cardinality(ls) <= 1
        /\ Intend(c, <<Stmt("allocate", ThisOne, ""), Stmt("insertIssue", ThisOne, ms)>> \o AddAll(ThisOne, ls))

OpenPull(c) == Intend(c, <<Stmt("allocate", ThisOne, ""), Stmt("insertPullIssue", ThisOne, ""), Stmt("insertPull", ThisOne, "")>>)

\* patchIssueHandler: fields, then labels, then state, each written before the next is
\* looked at; a label nobody knows refuses the request when the fields are written already.
PatchIssue(c) ==
    \E n \in {k \in There : ~The(k).pr}, ms \in milestones, state \in {"open", "closed"}, known \in BOOLEAN :
        Intend(c, <<Stmt("setMilestone", n, ms)>> \o IF known THEN <<Stmt("setState", n, state)>> ELSE <<>>)

SetState(c) == \E n \in {k \in There : ~The(k).pr}, state \in {"open", "closed"} : Intend(c, <<Stmt("setState", n, state)>>)

\* setIssueLabels and addIssueLabels, resolved names in hand.
PutLabels(c) == \E n \in There, ls \in SUBSET labels : Intend(c, <<Stmt("clearLabels", n, "")>> \o AddAll(n, ls))
AddLabels(c) == \E n \in There, ls \in SUBSET labels : ls # {} /\ Intend(c, AddAll(n, ls))
RemoveLabel(c) == \E n \in There, l \in labels : Intend(c, <<Stmt("removeLabel", n, l)>>)

CreateLabel(c) == \E l \in LabelIds \ labels : Intend(c, <<Stmt("insertLabel", ThisOne, l)>>)
DeleteLabel(c) == \E l \in labels : Intend(c, <<Stmt("deleteLabel", ThisOne, l)>>)
DeleteMilestone(c) == \E m \in milestones : Intend(c, <<Stmt("deleteMilestone", ThisOne, m)>>)

CreateComment(c) ==
    \E n \in There, k \in Comments :
        /\ comments[k] = 0 /\ \A d \in IssueCallers : \A i \in DOMAIN todo[d] : todo[d][i].op = "insertComment" => todo[d][i].arg # k
        /\ Intend(c, <<Stmt("insertComment", n, k), Stmt("countUp", n, "")>>)
DeleteComment(c) ==
    \E k \in {j \in Comments : comments[j] # 0} :
        Intend(c, <<Stmt("deleteComment", comments[k], k), Stmt("countDown", comments[k], "")>>)

IssueHandler(c) ==
    \/ OpenIssue(c) \/ OpenPull(c) \/ PatchIssue(c) \/ SetState(c)
    \/ PutLabels(c) \/ AddLabels(c) \/ RemoveLabel(c)
    \/ CreateLabel(c) \/ DeleteLabel(c) \/ DeleteMilestone(c)
    \/ CreateComment(c) \/ DeleteComment(c)

-----------------------------------------------------------------------------
(* The statements.                                                            *)
\* Mutant: the number after the highest there is.
AfterHighest(next) == IF There = {} THEN 1 ELSE Max(There) + 1
Allocated(next) == next

Has(c, op) == todo[c] # <<>> /\ Head(todo[c]).op = op
Numbered(c) == IF Head(todo[c]).n = ThisOne THEN number[c] ELSE Head(todo[c]).n
Went(c) == todo' = [todo EXCEPT ![c] = Tail(@)]
Failed(c) == todo' = [todo EXCEPT ![c] = <<>>]
Same == <<walk, begun, dead>>
Update(n, f(_)) == issues' = [issues EXCEPT ![n] = {f(r) : r \in @}]

Allocate(c) ==
    /\ Has(c, "allocate") /\ Allocated(nextValue) <= MaxNumber
    /\ number' = [number EXCEPT ![c] = Allocated(nextValue)] /\ nextValue' = nextValue + 1
    /\ Went(c) /\ UNCHANGED <<issues, labels, milestones, comments, Same>>

\* The unique index on the number, and the milestone's foreign key.
InsertIssue(c) ==
    /\ Has(c, "insertIssue") \/ Has(c, "insertPullIssue")
    /\ LET ms == Head(todo[c]).arg
           row == IF Has(c, "insertIssue") THEN Row(FALSE, ms) ELSE Row(TRUE, NoMilestone)
       IN IF issues[number[c]] = {} /\ row.milestone \in milestones \cup {NoMilestone}
          THEN issues' = [issues EXCEPT ![number[c]] = {row}] /\ Went(c)
          ELSE UNCHANGED issues /\ Failed(c)
    /\ UNCHANGED <<nextValue, labels, milestones, comments, number, Same>>

InsertPull(c) ==
    /\ Has(c, "insertPull") /\ Update(number[c], LAMBDA r : [r EXCEPT !.pull = TRUE])
    /\ Went(c) /\ UNCHANGED <<nextValue, labels, milestones, comments, number, Same>>

WriteIssue(c) ==
    LET n == Numbered(c) arg == Head(todo[c]).arg
    IN /\ \/ Has(c, "setState") /\ Update(n, LAMBDA r : [r EXCEPT !.state = arg]) /\ Went(c)
          \/ /\ Has(c, "setMilestone")
             /\ IF arg \in milestones THEN Update(n, LAMBDA r : [r EXCEPT !.milestone = arg]) /\ Went(c)
                ELSE UNCHANGED issues /\ Failed(c)
          \/ Has(c, "clearLabels") /\ Update(n, LAMBDA r : [r EXCEPT !.labels = {}]) /\ Went(c)
          \/ /\ Has(c, "addLabel")
             /\ IF arg \in labels THEN Update(n, LAMBDA r : [r EXCEPT !.labels = @ \cup {arg}]) /\ Went(c)
                ELSE UNCHANGED issues /\ Failed(c)
          \/ Has(c, "removeLabel") /\ Update(n, LAMBDA r : [r EXCEPT !.labels = @ \ {arg}]) /\ Went(c)
          \/ Has(c, "countUp") /\ Update(n, LAMBDA r : [r EXCEPT !.count = @ + 1]) /\ Went(c)
          \/ Has(c, "countDown") /\ Update(n, LAMBDA r : [r EXCEPT !.count = Max({0, @ - 1})]) /\ Went(c)
       /\ UNCHANGED <<nextValue, labels, milestones, comments, number, Same>>

\* A label takes its issues' labels with it; a milestone leaves its issues without one.
WriteLabel(c) ==
    LET l == Head(todo[c]).arg
    IN /\ \/ /\ Has(c, "insertLabel")
             /\ labels' = labels \cup {l} /\ UNCHANGED issues
          \/ /\ Has(c, "deleteLabel") /\ labels' = labels \ {l}
             /\ issues' = [n \in Numbers |-> {[r EXCEPT !.labels = @ \ {l}] : r \in issues[n]}]
       /\ Went(c) /\ UNCHANGED <<nextValue, milestones, comments, number, Same>>

WriteMilestone(c) ==
    /\ Has(c, "deleteMilestone")
    /\ LET m == Head(todo[c]).arg
       IN /\ milestones' = milestones \ {m}
          /\ issues' = [n \in Numbers |-> {[r EXCEPT !.milestone = IF @ = m THEN NoMilestone ELSE @] : r \in issues[n]}]
    /\ Went(c) /\ UNCHANGED <<nextValue, labels, comments, number, Same>>

WriteComment(c) ==
    LET k == Head(todo[c]).arg
    IN /\ \/ Has(c, "insertComment") /\ comments' = [comments EXCEPT ![k] = Numbered(c)]
          \/ Has(c, "deleteComment") /\ comments' = [comments EXCEPT ![k] = 0]
       /\ Went(c) /\ UNCHANGED <<issues, nextValue, labels, milestones, number, Same>>

Dies(c) ==
    /\ todo[c] # <<>> /\ dead < MaxIssueDeaths
    /\ Failed(c) /\ dead' = dead + 1 /\ UNCHANGED <<Stored, number, walk, begun>>

-----------------------------------------------------------------------------
(* listIssuesHandler with state=all, newest first, page after page: the cursor is an   *)
(* offset, and one row more than the page is read.                                  *)
Shown == {n \in There : ~The(n).pr}
Position(n) == Cardinality({m \in Shown : m > n})
PageAt(offset) == {n \in Shown : Position(n) \in offset..offset + Limit - 1}
HasMore(offset) == \E n \in Shown : Position(n) >= offset + Limit

NextOffset(offset) == offset + Limit

StartWalk ==
    /\ ~walk.on /\ walk.from = {} /\ HasMore(0)
    /\ walk' = [on |-> TRUE, offset |-> 0, seen |-> {}, from |-> Shown]
    /\ UNCHANGED <<Stored, todo, number, begun, dead>>

ReadPage ==
    /\ walk.on
    /\ walk' = [on |-> HasMore(walk.offset), offset |-> NextOffset(walk.offset),
                seen |-> walk.seen \cup PageAt(walk.offset), from |-> walk.from]
    /\ UNCHANGED <<Stored, todo, number, begun, dead>>

INext ==
    \/ \E c \in IssueCallers :
          \/ IssueHandler(c)
          \/ Allocate(c) \/ InsertIssue(c) \/ InsertPull(c) \/ WriteIssue(c)
          \/ WriteLabel(c) \/ WriteMilestone(c) \/ WriteComment(c) \/ Dies(c)
    \/ StartWalk \/ ReadPage

ISpec == IInit /\ [][INext]_ivars

-----------------------------------------------------------------------------
\* Issues and pull requests draw from one counter: no two that exist or are being made have
\* the same number, so no insert is refused for its number.
NumbersAreOwn ==
    /\ \A c \in IssueCallers : (Has(c, "insertIssue") \/ Has(c, "insertPullIssue")) => issues[number[c]] = {}
    /\ \A c, d \in IssueCallers : c # d /\ (Has(c, "insertIssue") \/ Has(c, "insertPullIssue"))
                                   /\ (Has(d, "insertIssue") \/ Has(d, "insertPullIssue")) => number[c] # number[d]

\* Whoever follows the cursors from the first page to the last sees every issue that was
\* there when they began, whatever is opened in between.
WalkSeesAll == ~walk.on => walk.from \subseteq walk.seen

\* issues/store.ts, issues.ts: issues and pull requests share one sequence of numbers, and
\* following the cursors shows every issue there was.
IssuesHold == NumbersAreOwn /\ WalkSeesAll

\* Not so (store.ts:724): the count an issue shows is the number of its comments.
CountIsComments ==
    (\A c \in IssueCallers : todo[c] = <<>>) =>
        \A n \in There : The(n).count = Cardinality({k \in Comments : comments[k] = n})
=============================================================================
