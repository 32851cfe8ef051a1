--------------------------- MODULE Authorization ---------------------------
(***************************************************************************)
(* The decision on one request (src/auth/acl.ts, contract/v1.ts): from the   *)
(* rows that were read to allow or deny.  A principal is a record of what is  *)
(* told of it by its credential; a repository holds its visibility, its       *)
(* owner, and for each principal the roles its rows give.  A rule's pattern   *)
(* is the set of the branches it matches.                                    *)
(***************************************************************************)
EXTENDS Integers, Sequences, SequencesExt, FiniteSets, FiniteSetsExt

ROLE_ORDER == <<"reader", "writer", "maintainer", "owner">>
Rank(role) == IF role = "none" THEN 0 ELSE CHOOSE i \in DOMAIN ROLE_ORDER : ROLE_ORDER[i] = role

roleAtLeast(role, floor) == Rank(role) >= Rank(floor)
maxRole(roles) == CHOOSE r \in roles : \A s \in roles : roleAtLeast(r, s)

ACTION_REQUIRED_ROLE ==
    [a \in {"contents.read", "contents.write", "issues.write", "pulls.write", "pulls.merge", "releases.write", "repo.admin"} |->
        CASE a \in {"contents.read", "pulls.write"} -> "reader"
          [] a = "repo.admin" -> "maintainer"
          [] OTHER -> "writer"]

ACTION_REQUIRED_SCOPE ==
    [a \in DOMAIN ACTION_REQUIRED_ROLE |->
        CASE a = "contents.read" -> "hosting.read"
          [] a = "contents.write" -> "smart_http.write"
          [] a = "repo.admin" -> "hosting.admin"
          [] OTHER -> "hosting.write"]

hasAppMembership(principal) ==
    \/ principal.kind = "service_account"
    \/ principal.kind = "user" /\ principal.member

(***************************************************************************)
(* Roles.  repo: [visibility, ownerType, ownerPrincipal, orgRoles,           *)
(* collaborators, teamRoles], the last three functions of principals' ids.    *)
(***************************************************************************)
orgRole(repo, principal) ==
    IF repo.ownerType = "org" /\ repo.orgRoles[principal.id] = "admin" THEN "owner" ELSE "none"

visibilityFloor(repo, principal) ==
    IF repo.visibility = "public" \/ (repo.visibility = "internal" /\ hasAppMembership(principal))
    THEN "reader" ELSE "none"

effectiveRole(repo, principal) ==
    CASE repo.visibility = "internal" /\ ~hasAppMembership(principal) -> "none"
      [] principal.kind = "anonymous" -> visibilityFloor(repo, principal)
      [] repo.ownerType = "user" /\ repo.ownerPrincipal = principal.id -> "owner"
      [] OTHER -> maxRole({orgRole(repo, principal), repo.collaborators[principal.id],
                           repo.teamRoles[principal.id], visibilityFloor(repo, principal)})

(***************************************************************************)
(* Branch protection, before a push or a merge.                              *)
(***************************************************************************)
Denied == [allow |-> FALSE, nonFastForward |-> FALSE]

\* The list names the principal, or among its first hundred names a team of theirs.
principalIsPushAllowed(rule, principal) ==
    \/ principal.id \in ToSet(rule.allowlist)
    \/ \E i \in DOMAIN rule.allowlist : i <= 100 /\ rule.allowlist[i] \in principal.teams

MayPush(rules, rule, principal) == rule.restrictPush => principalIsPushAllowed(rule, principal)

\* The rules that bind this role on this branch.
Binding(rules, role, branch) ==
    {r \in rules : branch \in r.matches /\ ~(~r.enforceAdmins /\ roleAtLeast(role, "maintainer"))}

checkBranchProtection(rules, principal, role, action, branch, deleting) ==
    LET binding == Binding(rules, role, branch)
        Passes(r) == /\ deleting => r.allowDeletions
                     /\ MayPush(rules, r, principal)
                     /\ (action = "contents.write" /\ ~deleting) => r.requiredReviews = 0
                     /\ (action = "pulls.merge") => roleAtLeast(role, "maintainer")
    IN IF \E r \in binding : ~Passes(r) THEN Denied
       ELSE [allow |-> TRUE, nonFastForward |-> binding # {} /\ ~deleting /\ \A r \in binding : r.allowForcePush]

\* What a deny says: private repositories do not show that they exist.
Deny(status, reason) == [allow |-> FALSE, status |-> status, reason |-> reason, role |-> "none", nonFastForward |-> FALSE]

\* repo "none": no active row under that name.  branch "*": no ref is known yet.
authorizeRepo(found, repo, rules, principal, channel, scopes, action, branch, deleting) ==
    LET role == effectiveRole(repo, principal)
        writes == action \in {"contents.write", "pulls.merge"} /\ branch # "*"
        protection == IF writes THEN checkBranchProtection(rules, principal, role, action, branch, deleting)
                      ELSE [allow |-> TRUE, nonFastForward |-> FALSE]
    IN IF ~found \/ role = "none" THEN Deny(404, "not_found")
       ELSE IF ~roleAtLeast(role, ACTION_REQUIRED_ROLE[action])
       THEN IF repo.visibility = "private" THEN Deny(404, "not_found") ELSE Deny(403, "forbidden")
       ELSE IF channel = "interface" /\ ACTION_REQUIRED_SCOPE[action] \notin scopes THEN Deny(403, "scope_insufficient")
       ELSE IF ~protection.allow THEN Deny(403, "protected_ref")
       ELSE [allow |-> TRUE, status |-> 200, reason |-> "", role |-> role, nonFastForward |-> protection.nonFastForward]

(***************************************************************************)
(* What the decisions promise.                                               *)
(***************************************************************************)
\* acl.ts, "it only ever ADDS denials, never grants access": what is refused under some rules is
\* refused under more; and a private repository answers a principal without a role of it as
\* one that does not exist does.
DecisionsHold(repo, rules, more, principal, channel, scopes, action, branch, deleting) ==
    LET Decision(found, some) == authorizeRepo(found, repo, some, principal, channel, scopes, action, branch, deleting)
    IN /\ Decision(TRUE, rules \cup more).allow => Decision(TRUE, rules).allow
       /\ (repo.visibility = "private" /\ effectiveRole(repo, principal) = "none")
            => Decision(TRUE, rules) = Decision(FALSE, rules)

\* acl.ts, "Admins (role >= maintainer) bypass a rule unless it sets enforce_admins": what a
\* writer may do on a branch, a maintainer may do.
AdminsMayDoMore(rules, principal, action, branch, deleting) ==
    LET As(role) == checkBranchProtection(rules, principal, role, action, branch, deleting)
    IN /\ As("writer").allow => As("maintainer").allow
       /\ As("writer").nonFastForward => As("maintainer").nonFastForward
=============================================================================
