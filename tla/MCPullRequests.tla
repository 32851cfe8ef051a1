--------------------------- MODULE MCPullRequests ---------------------------
(***************************************************************************)
(* Small instances of PullRequests.                                         *)
(***************************************************************************)
EXTENDS PullRequests

CONSTANTS m1, m2, r1, r2, au

OneOwner == [status |-> "read", list |-> <<[matches |-> {"src"}, owners |-> {r1}]>>]

\* An approval of this very head, and a check; or a code owner's, and an up-to-date branch.  The
\* other branch asks for a check, or for nothing.
Approval ==
    [requiredReviews |-> 1, dismissStale |-> TRUE, requireCodeOwner |-> FALSE, contexts |-> {"ci"},
     strict |-> FALSE, enforceAdmins |-> TRUE, restrictPush |-> FALSE, allowlist |-> <<>>]
Owner ==
    [requiredReviews |-> 0, dismissStale |-> FALSE, requireCodeOwner |-> TRUE, contexts |-> {},
     strict |-> TRUE, enforceAdmins |-> TRUE, restrictPush |-> TRUE, allowlist |-> <<"merger">>]

Free == "main" :> <<>> @@ "next" :> <<>>
Approved == "main" :> <<Approval>> @@ "next" :> <<[Approval EXCEPT !.requiredReviews = 0]>>
Owned == "main" :> <<Owner>> @@ "next" :> <<>>

SomeRules == {Free, Approved, Owned}

UpTo(moves, reviewed, stated, edited, installed, died) ==
    [work |-> moves, reviews |-> reviewed, statuses |-> stated, edits |-> edited, installs |-> installed,
     faults |-> died]

\* With nothing to clear: one move of the branches, a PATCH and a death; or two moves.  With
\* approvals: two reviews of whatever head, or a PATCH.  With an owner: behind and brought up to date.
SomeBounds ==
    Free :> {UpTo(2, 0, 0, 1, 2, 1), UpTo(3, 0, 0, 0, 2, 0)}
    @@ Approved :> {UpTo(2, 2, 1, 0, 1, 0), UpTo(2, 1, 1, 1, 1, 0)}
    @@ Owned :> {UpTo(3, 1, 0, 0, 1, 0)}

SquashOrResolve == (m1 :> {"merge", "squash"}) @@ (m2 :> {"merge", "resolve"})
=============================================================================
