----------------------------- MODULE IssueScreen -----------------------------
(***************************************************************************)
(* The page of an issue in the browser (web/src/views/issues: IssueDetail,    *)
(* pickers; api/client.ts).  Its requests overlap and may be answered in any   *)
(* order, fail, or succeed without an answer; the user may go on to another     *)
(* issue, which the router shows in the same component, before they are          *)
(* answered.  Each request is sent, then done by the server or failed, then its   *)
(* answer is taken by the page.  Texts are drafts 1, 2, ..., 0 being empty; a      *)
(* comment is the draft it was and the number of its request.                      *)
(***************************************************************************)
EXTENDS Naturals, Sequences, SequencesExt, FiniteSets

CONSTANTS
    Issues,        \* the numbers of issues, from 1 on
    LabelNames,
    CommentsPerPage,      \* comments of a page
    MaxDrafts,     \* bound: texts typed
    MaxPageRequests,   \* bound: requests of the page
    MaxUpsets      \* bound: requests that fail and changes that others make

ASSUME ScreenAssumption == {CommentsPerPage, MaxDrafts, MaxPageRequests, MaxUpsets} \subseteq Nat

VARIABLES
    server,     \* issue -> its state, labels and comments
    at,         \* the issue in the address
    shown,      \* the issue the resource holds, and which one it is
    loading,    \* the request the resource waits for, 0 when it has one
    timeline, cursor, fetching,    \* the comments, where the next page starts, whether one is fetched
    draft,      \* the text in the composer
    busy,       \* the buttons are disabled
    picked,     \* what the label picker, when open, has ticked
    pickers,    \* whether it is open
    requests,   \* those under way
    typed, issued, refused, others,    \* counters for the bounds
    posted,     \* draft -> how often it was stored as a comment
    missed,     \* draft -> how often the page was told that posting it failed
    crossed     \* drafts during whose posting another write of the page ended

screenVars == <<server, at, shown, loading, timeline, cursor, fetching, draft, busy, picked, pickers,
           requests, typed, issued, refused, others, posted, missed, crossed>>
pageVars == <<at, shown, loading, timeline, cursor, fetching, draft, busy, picked, pickers>>
historyVars == <<typed, others, posted>>

NoIssue == [of |-> 0, state |-> "none", labels |-> {}]
Broken == [of |-> 0, state |-> "error", labels |-> {}]
Drafts == 1..MaxDrafts
Flipped(state) == IF state = "open" THEN "closed" ELSE "open"

PageRequest(kind, of) ==
    [n |-> issued + 1, kind |-> kind, of |-> of, stage |-> "sent", state |-> "", labels |-> {}, relabels |-> FALSE,
     text |-> 0, comment |-> <<0, 0>>, then |-> "", from |-> 0, reset |-> FALSE, reply |-> NoIssue, items |-> <<>>, more |-> FALSE]
Get(i) == PageRequest("get", i)
FirstPage(i) == [PageRequest("page", i) EXCEPT !.reset = TRUE]
NumberedAs(q, k) == [q EXCEPT !.n = issued + k]

\* Two comments were there before.
Earlier(i) == <<<<0, 10 * i>>, <<0, 10 * i + 1>>>>

Replies == [of : Issues \cup {0}, state : {"none", "error", "open", "closed"}, labels : SUBSET LabelNames]
ScreenTypeOK ==
    /\ \A i \in Issues : server[i].state \in {"open", "closed"} /\ server[i].labels \subseteq LabelNames
    /\ at \in Issues /\ shown \in Replies /\ loading \in 0..MaxPageRequests
    /\ cursor \in Nat /\ fetching \in BOOLEAN /\ busy \in BOOLEAN /\ pickers \in BOOLEAN
    /\ draft \in 0..MaxDrafts /\ picked \subseteq LabelNames /\ crossed \subseteq Drafts
    /\ \A q \in requests : q.n \in 1..issued /\ q.of \in Issues /\ q.stage \in {"sent", "done", "failed"} /\ q.reply \in Replies
    /\ typed \in 0..MaxDrafts /\ issued \in 0..MaxPageRequests /\ refused \in 0..MaxUpsets /\ others \in 0..MaxUpsets
    /\ posted \in [Drafts -> Nat] /\ missed \in [Drafts -> Nat]

ScreenInit ==
    /\ server = [i \in Issues |-> [state |-> "open", labels |-> {}, comments |-> Earlier(i)]]
    /\ at = 1 /\ shown = NoIssue /\ loading = 1 /\ timeline = <<>> /\ cursor = 0 /\ fetching = TRUE
    /\ draft = 0 /\ busy = FALSE /\ picked = {} /\ pickers = FALSE
    /\ issued = 2 /\ typed = 0 /\ refused = 0 /\ others = 0
    /\ requests = {[Get(1) EXCEPT !.n = 1], [FirstPage(1) EXCEPT !.n = 2]}
    /\ posted = [d \in Drafts |-> 0] /\ missed = [d \in Drafts |-> 0] /\ crossed = {}

-----------------------------------------------------------------------------
(* The user.  While the resource loads, Suspense shows a spinner and no buttons. *)

Interactive == shown.of # 0 /\ loading = 0
Room(k) == issued + k <= MaxPageRequests
SendRequest(q) == Room(1) /\ requests' = requests \cup {q} /\ issued' = issued + 1

\* Mutant: the buttons stay enabled.
Pressed == Interactive
Enabled == Interactive /\ ~busy

Type ==
    /\ Interactive /\ typed < MaxDrafts /\ typed' = typed + 1 /\ draft' = typed + 1
    /\ UNCHANGED <<server, at, shown, loading, timeline, cursor, fetching, busy, picked, pickers, requests, issued, refused,
                   others, posted, missed, crossed>>

Patch(i, state) == [PageRequest("patch", i) EXCEPT !.state = state]

\* submitComment: the comment first, and with its answer the closing or reopening.
Submit(then) ==
    /\ Enabled /\ then \in {"", Flipped(shown.state)} /\ (draft = 0 => then # "")
    /\ SendRequest(IF draft = 0 THEN Patch(at, then) ELSE [PageRequest("post", at) EXCEPT !.text = draft, !.then = then])
    /\ busy' = TRUE
    /\ UNCHANGED <<server, at, shown, loading, timeline, cursor, fetching, draft, picked, pickers, refused, historyVars, missed, crossed>>

\* The label picker: opened at any time, ticked unless busy, applied when it is closed, which any
\* click elsewhere does.
OpenPicker ==
    /\ Interactive /\ ~pickers /\ pickers' = TRUE
    /\ UNCHANGED <<server, at, shown, loading, timeline, cursor, fetching, draft, busy, picked, requests, issued, refused,
                   historyVars, missed, crossed>>
Toggle(l) ==
    /\ Enabled /\ pickers /\ picked' = (picked \cup {l}) \ (picked \cap {l})
    /\ UNCHANGED <<server, at, shown, loading, timeline, cursor, fetching, draft, busy, pickers, requests, issued, refused,
                   historyVars, missed, crossed>>
Flush ==
    /\ pickers /\ pickers' = FALSE
    /\ IF picked = shown.labels THEN UNCHANGED <<busy, requests, issued>>
       ELSE SendRequest([PageRequest("patch", at) EXCEPT !.labels = picked, !.relabels = TRUE]) /\ busy' = TRUE
    /\ UNCHANGED <<server, at, shown, loading, timeline, cursor, fetching, draft, picked, refused, historyVars, missed, crossed>>

LoadMore ==
    /\ Interactive /\ cursor # 0 /\ ~fetching /\ fetching' = TRUE
    /\ SendRequest([PageRequest("page", at) EXCEPT !.from = cursor])
    /\ UNCHANGED <<server, at, shown, loading, timeline, cursor, draft, busy, picked, pickers, refused, historyVars, missed, crossed>>

\* CommentItem: its own busy flag keeps it from being asked for twice.
RemoveComment(c) ==
    /\ Interactive /\ \A q \in requests : q.kind = "delete" => q.comment # c
    /\ SendRequest([PageRequest("delete", at) EXCEPT !.comment = c])
    /\ UNCHANGED <<server, pageVars, refused, historyVars, missed, crossed>>

\* Another issue in the same component, by a link or the browser's back button: the resource is keyed
\* by it, the comments are cleared and fetched, and the rest stays as it is.
Navigate(i) ==
    /\ shown # Broken /\ i # at /\ at' = i /\ Room(2) /\ issued' = issued + 2
    /\ requests' = requests \cup {Get(i), NumberedAs(FirstPage(i), 2)}
    /\ loading' = issued + 1 /\ timeline' = <<>> /\ cursor' = 0 /\ fetching' = TRUE
    /\ UNCHANGED <<server, shown, draft, busy, picked, pickers, refused, historyVars, missed, crossed>>

-----------------------------------------------------------------------------
(* The server, and whoever else uses it                                      *)

Becomes(q, done) == requests' = (requests \ {q}) \cup {done}
Seen(i, issue) == [of |-> i, state |-> issue.state, labels |-> issue.labels]
Patched(issue, q) ==
    [issue EXCEPT !.state = IF q.state = "" THEN @ ELSE q.state, !.labels = IF q.relabels THEN q.labels ELSE @]
Effect(q) ==
    LET old == server[q.of]
    IN CASE q.kind = "patch" -> Patched(old, q)
         [] q.kind = "post" -> [old EXCEPT !.comments = Append(@, <<q.text, q.n>>)]
         [] q.kind = "delete" -> [old EXCEPT !.comments = SelectSeq(@, LAMBDA c : c # q.comment)]
         [] OTHER -> old
PageOf(issue, from) ==
    LET last == from + CommentsPerPage
    IN SubSeq(issue.comments, from + 1, IF last < Len(issue.comments) THEN last ELSE Len(issue.comments))
AnsweredWith(q, issue) ==
    [q EXCEPT !.stage = "done", !.reply = Seen(q.of, issue), !.comment = IF q.kind = "post" THEN <<q.text, q.n>> ELSE @,
              !.items = IF q.kind = "page" THEN PageOf(issue, q.from) ELSE <<>>,
              !.more = q.kind = "page" /\ Len(issue.comments) > q.from + CommentsPerPage]

Take(q) ==
    /\ server' = [server EXCEPT ![q.of] = Effect(q)]
    /\ posted' = IF q.kind = "post" THEN [posted EXCEPT ![q.text] = @ + 1] ELSE posted

Serve(q) ==
    /\ q.stage = "sent" /\ Take(q) /\ Becomes(q, AnsweredWith(q, Effect(q)))
    /\ UNCHANGED <<pageVars, typed, issued, refused, others, missed, crossed>>

\* Refused, or given up after API_TIMEOUT_MS: the server may have done it all the same.
RequestFails(q) ==
    /\ q.stage = "sent" /\ refused + others < MaxUpsets /\ refused' = refused + 1
    /\ Becomes(q, [q EXCEPT !.stage = "failed"])
    /\ \/ UNCHANGED <<server, posted>>
       \/ Take(q)
    /\ missed' = IF q.kind = "post" THEN [missed EXCEPT ![q.text] = @ + 1] ELSE missed
    /\ UNCHANGED <<pageVars, typed, issued, others, crossed>>

\* Somebody else adds a label or takes it off.
Other(i, l) ==
    /\ refused + others < MaxUpsets /\ others' = others + 1
    /\ server' = [server EXCEPT ![i].labels = (@ \cup {l}) \ (@ \cap {l})]
    /\ UNCHANGED <<pageVars, requests, typed, issued, refused, posted, missed, crossed>>

-----------------------------------------------------------------------------
(* The answers                                                               *)

Gone(q, more) == requests' = (requests \ {q}) \cup more /\ issued' = issued + Cardinality(more)
\* The pickers' drafts are seeded again whenever the issue is set.
Show(issue) == shown' = issue /\ picked' = issue.labels
Refetch(q) == Gone(q, {Get(at)}) /\ Room(1) /\ loading' = issued + 1
Crossing(q) == crossed' = crossed \cup {p.text : p \in {r \in requests : r.kind = "post" /\ r # q}}

\* createResource takes the answer it waits for and no other; a failure is the boundary's, for good.
TakeIssue(q) ==
    /\ q.kind = "get" /\ q.stage # "sent" /\ Gone(q, {})
    /\ IF q.n # loading THEN UNCHANGED <<shown, picked, loading>>
       ELSE loading' = 0 /\ Show(IF q.stage = "done" THEN q.reply ELSE Broken)
    /\ UNCHANGED <<server, at, timeline, cursor, fetching, draft, busy, pickers, refused, historyVars, missed, crossed>>

\* loadComments takes whatever page is answered.
TakePage(q) ==
    /\ q.kind = "page" /\ q.stage # "sent" /\ Gone(q, {}) /\ fetching' = FALSE
    /\ IF q.stage = "failed" THEN UNCHANGED <<timeline, cursor>>
       ELSE /\ timeline' = IF q.reset THEN q.items ELSE timeline \o q.items
            /\ cursor' = IF q.more THEN q.from + CommentsPerPage ELSE 0
    /\ UNCHANGED <<server, at, shown, loading, draft, busy, picked, pickers, refused, historyVars, missed, crossed>>

\* patchIssue: the answer is shown, a failure is made good by fetching, and the buttons are enabled.
TakePatch(q) ==
    /\ q.kind = "patch" /\ q.stage # "sent" /\ busy' = FALSE /\ Crossing(q)
    /\ IF q.stage = "done" THEN Show(q.reply) /\ Gone(q, {}) /\ UNCHANGED loading
       ELSE Refetch(q) /\ UNCHANGED <<shown, picked>>
    /\ UNCHANGED <<server, at, timeline, cursor, fetching, draft, pickers, refused, historyVars, missed>>

\* submitComment goes on, in the issue that is in the address by now.
TakePost(q) ==
    /\ q.kind = "post" /\ q.stage # "sent"
    /\ IF q.stage = "failed" THEN busy' = FALSE /\ Crossing(q) /\ Gone(q, {}) /\ UNCHANGED <<timeline, draft, loading>>
       ELSE /\ timeline' = Append(timeline, q.comment) /\ draft' = 0 /\ UNCHANGED crossed
            /\ IF q.then = "" THEN busy' = FALSE /\ Refetch(q)
               ELSE busy' = TRUE /\ Room(1) /\ Gone(q, {Patch(at, q.then)}) /\ UNCHANGED loading
    /\ UNCHANGED <<server, at, shown, cursor, fetching, picked, pickers, refused, historyVars, missed>>

TakeRemoval(q) ==
    /\ q.kind = "delete" /\ q.stage # "sent"
    /\ IF q.stage = "done" THEN Refetch(q) /\ timeline' = SelectSeq(timeline, LAMBDA c : c # q.comment)
       ELSE Gone(q, {}) /\ UNCHANGED <<timeline, loading>>
    /\ UNCHANGED <<server, at, shown, cursor, fetching, draft, busy, picked, pickers, refused, historyVars, missed, crossed>>

ScreenNext ==
    \/ Type \/ OpenPicker \/ Flush \/ LoadMore
    \/ \E then \in {"", "open", "closed"} : Submit(then)
    \/ \E l \in LabelNames : Toggle(l)
    \/ \E i \in Issues : Navigate(i) \/ \E l \in LabelNames : Other(i, l)
    \/ \E c \in ToSet(timeline) : RemoveComment(c)
    \/ \E q \in requests : Serve(q) \/ RequestFails(q) \/ TakeIssue(q) \/ TakePage(q) \/ TakePatch(q) \/ TakePost(q) \/ TakeRemoval(q)

ScreenSpec == ScreenInit /\ [][ScreenNext]_screenVars
-----------------------------------------------------------------------------

\* IssueDetail.tsx submitComment, "disabled={busy()}": however often its button is pressed, a text
\* becomes one comment, unless the page was told that it had failed, or another write of
\* the page ended meanwhile and enabled the buttons.
CommentedOnce == \A d \in Drafts \ crossed : posted[d] <= 1 + missed[d]

\* One comment of each text: not so where the label picker's answer enables the buttons.
AlwaysCommentedOnce == \A d \in Drafts : posted[d] <= 1 + missed[d]

\* What is shown is the issue in the address.
ShownIsAddressed == Interactive => shown.of = at

\* IssueDetail.tsx "Reload the timeline whenever the issue identity changes": once nothing is under
\* way the comments shown are of this issue, each once.
TimelineIsAddressed ==
    (requests = {} /\ Interactive) =>
        \A j, k \in DOMAIN timeline : timeline[j] \in ToSet(server[at].comments) /\ (timeline[j] = timeline[k] => j = k)

\* IssueDetail.tsx "so the UI reflects the server": once nothing is under way, and nobody else
\* wrote, what is shown is what is.
ShownIsServer == (requests = {} /\ Interactive /\ others = 0) => shown = Seen(shown.of, server[shown.of])

\* Closing with a comment closes the issue that has the comment.
ClosesCommented ==
    \A q \in requests : q.kind = "post" /\ q.stage = "done" /\ q.then # "" => q.of = at
=============================================================================
