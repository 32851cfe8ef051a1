-------------------------- MODULE MergeProtection --------------------------
(***************************************************************************)
(* What protection.ts makes of the rules of the base branch when a pull      *)
(* request is to be merged.  Rules, reviews, statuses and identities are     *)
(* parameters, as they are rows that were read.  Patterns and principals are  *)
(* given by what they match; a path is given by its name.                    *)
(***************************************************************************)
EXTENDS Authorization

-----------------------------------------------------------------------------
\* Mutant: a review counts whatever head it was of.
CountedThoughStale(reviews, headSha, dismissStale, author) ==
    {i \in DOMAIN reviews :
        /\ reviews[i].by # "nobody" /\ reviews[i].by # author
        /\ reviews[i].state \in {"approved", "changes_requested", "dismissed"}}

\* The reviews that count: by someone, not the author, and of this head where stale ones
\* are dismissed.
Counted(reviews, headSha, dismissStale, author) ==
    {i \in DOMAIN reviews :
        /\ reviews[i].by # "nobody" /\ reviews[i].by # author
        /\ dismissStale => reviews[i].sha = headSha
        /\ reviews[i].state \in {"approved", "changes_requested", "dismissed"}}

\* Each reviewer's latest verdict; a dismissal leaves none.
latestReviewVerdicts(reviews, headSha, dismissStale, author) ==
    LET counted == Counted(reviews, headSha, dismissStale, author)
        latest == {i \in counted : \A j \in counted : reviews[j].by = reviews[i].by => j <= i}
    IN [approvedReviewerIds |-> {reviews[i].by : i \in {j \in latest : reviews[j].state = "approved"}},
        changesRequested |-> \E i \in latest : reviews[i].state = "changes_requested"]

\* A principal is on the list, or one of its first hundred entries is a team of theirs.
principalOrTeamAllowed(principal, teamsOf, allowlist) ==
    \/ Contains(allowlist, principal)
    \/ \E i \in 1..Min({Len(allowlist), 100}) : allowlist[i] \in teamsOf

-----------------------------------------------------------------------------
\* CODEOWNERS: the last rule that matches a path names its owners; rules without owners were
\* left out when the file was read.
ownersForPath(rules, path) ==
    LET hits == {i \in DOMAIN rules : path \in rules[i].matches}
    IN IF hits = {} THEN {} ELSE rules[Max(hits)].owners

\* `file`: the base's CODEOWNERS, "read", "missing", or "unreadable" for every way it can be
\* refused; `aliases`: the subjects, logins and teams of those who approved.
evaluateCodeOwners(file, paths, aliases) ==
    CASE file.status = "unreadable" -> "codeowners_unreadable"
      [] file.status = "missing" -> "codeowners_missing"
      [] file.status = "read" ->
           IF \A p \in paths : LET owners == ownersForPath(file.list, p)
                               IN owners = {} \/ owners \cap aliases # {}
           THEN "ok" ELSE "code_owner_review_required"

-----------------------------------------------------------------------------
\* The contexts whose latest status is not success; `statuses` maps a context to its latest
\* state for the head, "none" when there is none.
unsatisfiedContexts(statuses, contexts) == {c \in contexts : statuses[c] # "success"}

\* What one rule says of the reviews: the part of the loop up to the code owners.
ReviewsVerdict(rule, role, actor, teamsOf, reviews, headSha, author, codeOwners) ==
    LET verdicts == latestReviewVerdicts(reviews, headSha, rule.dismissStale, author)
    IN CASE ~roleAtLeast(role, "maintainer") -> "protected_ref"
         [] roleAtLeast(role, "maintainer") /\ rule.restrictPush
               /\ ~principalOrTeamAllowed(actor, teamsOf, rule.allowlist) -> "protected_ref"
         [] OTHER ->
              IF rule.requiredReviews = 0 /\ ~rule.requireCodeOwner THEN "ok"
              ELSE IF verdicts.changesRequested THEN "changes_requested"
              ELSE IF Cardinality(verdicts.approvedReviewerIds) < rule.requiredReviews THEN "review_required"
              ELSE IF rule.requireCodeOwner THEN codeOwners[verdicts.approvedReviewerIds]
              ELSE "ok"

\* What it says of the statuses and of the base: the rest of the loop.
ChecksVerdict(rule, statuses, behindBy) ==
    CASE unsatisfiedContexts(statuses, rule.contexts) # {} -> "required_checks_failing"
      [] unsatisfiedContexts(statuses, rule.contexts) = {} /\ rule.strict /\ behindBy > 0 -> "branch_not_up_to_date"
      [] OTHER -> "ok"

adminBypass(rule, role) == ~rule.enforceAdmins /\ roleAtLeast(role, "maintainer")

\* The rules that match the base and are not bypassed, in order; the first objection wins.
evaluateMergeProtection(rules, role, Verdict(_)) ==
    LET objections == {i \in DOMAIN rules : ~adminBypass(rules[i], role) /\ Verdict(rules[i]) # "ok"}
    IN IF objections = {} THEN "ok" ELSE Verdict(rules[Min(objections)])
=============================================================================
