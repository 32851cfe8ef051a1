------------------------------ MODULE Surfaces ------------------------------
(***************************************************************************)
(* The doors to a repository: the HTTP API, git's smart HTTP and the MCP tools *)
(* (src/worker.ts, router.ts, mcp.ts, repos/repo-admin.ts).  Each has a          *)
(* credential of its own and its own way to the same decision (Authorization).    *)
(* An installation is what is configured; a repository is told by whether its       *)
(* row and its refs are there.                                                       *)
(***************************************************************************)
EXTENDS Authorization

\* installation: [db, oauth, secret: BOOLEAN].  A credential: [kind, scope, surface].
NoCredential == [kind |-> "none", scope |-> "", surface |-> ""]
Secret == [kind |-> "secret", scope |-> "", surface |-> ""]
Bearer(scope, surface) == [kind |-> "bearer", scope |-> scope, surface |-> surface]

\* verifyInterfaceOAuthCredential: exactly this permission, for exactly this audience.
proves(credential, permission, surface) == credential = Bearer(permission, surface)

Open == [allow |-> TRUE, status |-> 200]
Shut(status) == [allow |-> FALSE, status |-> status]
Of(decision) == IF decision.allow THEN Open ELSE Shut(decision.status)

NoRules == {}
Anonymous == [id |-> "p", kind |-> "anonymous", member |-> FALSE, teams |-> {}]
Decide(found, repo, principal, channel, scopes, action) ==
    authorizeRepo(found, repo, NoRules, principal, channel, scopes, action, "*", FALSE)

-----------------------------------------------------------------------------
(* The HTTP API, by bearer                                                   *)

\* resolveIdentity without a browser session: 503 and 401, or who asks.
Identified(installation, credential, scope) ==
    CASE ~installation.db -> Shut(503)
      [] installation.db /\ credential.kind # "none" /\ ~installation.oauth -> Shut(503)
      [] installation.db /\ credential.kind # "none" /\ installation.oauth /\ ~proves(credential, scope, "/api/v1") -> Shut(401)
      [] OTHER -> Open

\* requireRepoAccess.
ApiDecision(found, repo, principal, credential, action, scope) ==
    IF credential.kind = "none" THEN Decide(found, repo, Anonymous, "anonymous", {}, action)
    ELSE Decide(found, repo, principal, "interface", {scope}, action)

ApiAccess(installation, found, repo, principal, credential, action, scope) ==
    LET identity == Identified(installation, credential, scope)
    IN CASE ~identity.allow -> identity
         [] identity.allow /\ credential.kind = "none" /\ action # "contents.read" -> Shut(401)
         [] OTHER -> Of(ApiDecision(found, repo, principal, credential, action, scope))

ApiRead(installation, found, repo, principal, credential) ==
    ApiAccess(installation, found, repo, principal, credential, "contents.read", "hosting.read")

\* deleteRepoHandler asks for more than the action does.
ApiDelete(installation, found, repo, principal, credential) ==
    LET access == ApiAccess(installation, found, repo, principal, credential, "repo.admin", "hosting.admin")
        role == ApiDecision(found, repo, principal, credential, "repo.admin", "hosting.admin").role
    IN IF access.allow /\ ~roleAtLeast(role, "owner") THEN Shut(403) ELSE access

\* authorizeOwnerForCreate: one's own name, an organization one administers, or a name nobody has.
OwnerAllows(repo, principal) ==
    CASE repo.ownerType = "user" -> repo.ownerPrincipal = principal.id
      [] repo.ownerType = "org" -> repo.orgRoles[principal.id] = "admin"
      [] OTHER -> TRUE

ApiCreate(installation, repo, principal, credential) ==
    LET identity == Identified(installation, credential, "hosting.write")
    IN CASE ~identity.allow -> identity
         [] identity.allow /\ credential.kind = "none" -> Shut(401)
         [] OTHER -> IF hasAppMembership(principal) /\ OwnerAllows(repo, principal) THEN Open ELSE Shut(403)

-----------------------------------------------------------------------------
(* git                                                                       *)

GitPermission(service) ==
    IF service = "git-receive-pack" THEN "source.git.smart_http.write" ELSE "source.git.smart_http.read"

GitAction(service) == IF service = "git-receive-pack" THEN "contents.write" ELSE "contents.read"

\* authorizeSmartHttpRepo: the scope was proven at the door, so that what the action asks for is granted.
GitAccess(installation, found, stored, repo, principal, credential, service) ==
    LET action == GitAction(service)
        decision == Decide(found, repo, principal, "interface", {credential.scope, ACTION_REQUIRED_SCOPE[action]}, action)
    IN CASE credential.kind = "none" -> Shut(401)
         [] credential.kind # "none" /\ ~installation.oauth -> Shut(503)
         [] credential.kind # "none" /\ installation.oauth /\ ~proves(credential, GitPermission(service), "/git") -> Shut(401)
         [] OTHER -> IF installation.db /\ ~decision.allow THEN Of(decision) ELSE IF stored THEN Open ELSE Shut(404)

-----------------------------------------------------------------------------
(* MCP                                                                       *)

\* authorize: the installation's secret, or the bearer that proves mcp.invoke.
McpAuth(installation, credential) ==
    CASE credential.kind = "none" -> Shut(401)
      [] installation.secret /\ credential.kind = "secret" -> [Open EXCEPT !.status = 201]
      [] credential.kind # "none" /\ ~installation.secret /\ ~installation.oauth -> Shut(503)
      [] OTHER -> IF installation.oauth /\ proves(credential, "mcp.invoke", "/mcp") THEN Open ELSE Shut(401)
IsCapsule(auth) == auth.status = 201

\* interfaceContext, and the tools' calls: the secret passes by the decision, and so does every
\* caller where there is no database.
McpDecision(installation, auth, found, repo, principal, action) ==
    IF IsCapsule(auth) \/ ~installation.db THEN Open
    ELSE Of(Decide(found, repo, principal, "interface", {"mcp.invoke", ACTION_REQUIRED_SCOPE[action]}, action))

\* git_repo_info
McpInfo(installation, found, stored, repo, principal, credential) ==
    LET auth == McpAuth(installation, credential)
        decision == McpDecision(installation, auth, found, repo, principal, "contents.read")
    IN IF ~auth.allow THEN auth ELSE IF ~decision.allow THEN decision ELSE IF stored THEN Open ELSE Shut(404)

\* git_repo_delete
McpDelete(installation, found, stored, repo, principal, credential) ==
    LET auth == McpAuth(installation, credential)
        decision == McpDecision(installation, auth, found, repo, principal, "repo.admin")
        there == IF installation.db THEN found ELSE stored
    IN IF ~auth.allow THEN auth ELSE IF ~decision.allow THEN decision ELSE IF there THEN Open ELSE Shut(404)

\* git_repo_create: the secret may use every name.
McpCreate(installation, repo, principal, credential) ==
    LET auth == McpAuth(installation, credential)
    IN CASE ~auth.allow -> auth
         [] auth.allow /\ (IsCapsule(auth) \/ ~installation.db) -> Open
         [] OTHER -> IF OwnerAllows(repo, principal) THEN Open ELSE Shut(403)

-----------------------------------------------------------------------------
(* Which handler: the registry of routes                                     *)

\* A route: [method, auth, role, action, scope], "none" where it declares none.
Declared(x) == x # "none"
routeScope(route) == IF Declared(route.scope) THEN route.scope ELSE IF Declared(route.action) THEN ACTION_REQUIRED_SCOPE[route.action] ELSE "none"

\* register: throws on a declaration that would leave a door open.
register(route) ==
    /\ route.auth \in {"public", "browser", "interface"}
    /\ route.auth # "public" => Declared(route.role)
    /\ route.auth = "interface" => Declared(routeScope(route))

\* authenticate: the one mechanism the route declares; `session` says whether a browser is signed in.
Authenticated(route, installation, credential, session) ==
    CASE route.auth = "public" -> Open
      [] route.auth = "browser" -> IF ~session THEN Shut(401) ELSE IF installation.db THEN Open ELSE Shut(503)
      [] route.auth = "interface" /\ credential.kind = "none" -> Shut(401)
      [] route.auth = "interface" /\ credential.kind # "none" /\ ~installation.oauth -> Shut(503)
      [] OTHER -> IF ~proves(credential, routeScope(route), "/api/v1") THEN Shut(401)
                  ELSE IF installation.db THEN Open ELSE Shut(503)

ChannelOf(route) == IF route.auth = "public" THEN "anonymous" ELSE route.auth
\* handle, of a route whose path names a repository.
handle(route, installation, found, repo, principal, credential, session) ==
    LET authenticated == Authenticated(route, installation, credential, session)
        decision == Decide(found, repo, IF route.auth = "public" THEN Anonymous ELSE principal, ChannelOf(route),
                           {routeScope(route)}, route.action)
    IN CASE ~authenticated.allow -> authenticated
         [] authenticated.allow /\ ~Declared(route.action) -> Open
         [] OTHER -> IF ~installation.db THEN Shut(503)
                     ELSE IF ~decision.allow THEN Of(decision)
                     ELSE IF Declared(route.role) /\ ~roleAtLeast(decision.role, route.role) THEN Shut(403) ELSE Open

-----------------------------------------------------------------------------
(* The list of repositories                                                  *)

\* listReadableRepos: rows from an offset, until the page is full or too many were looked at.
listReadableRepos(rows, readable, limit, offset, MAX_LIST_SCAN) ==
    LET left == Len(rows) - offset
        scan == IF left < MAX_LIST_SCAN THEN left ELSE MAX_LIST_SCAN
        Seen(n) == SelectSeq(SubSeq(rows, offset + 1, offset + n), LAMBDA r : r \in readable)
        full == {n \in 1..scan : Len(Seen(n)) = limit}
    IN IF full = {} THEN [repos |-> Seen(scan), cursor |-> -1]
       ELSE [repos |-> Seen(Min(full)), cursor |-> offset + Min(full)]

\* The pages a caller sees who follows the cursors.
Walked(rows, readable, limit, MAX_LIST_SCAN) ==
    LET pages[n \in 0..(Len(rows) + 1)] ==
            IF n = 0 THEN [repos |-> <<>>, cursor |-> 0]
            ELSE LET w == pages[n - 1]
                     page == listReadableRepos(rows, readable, limit, w.cursor, MAX_LIST_SCAN)
                 IN IF w.cursor = -1 THEN w ELSE [repos |-> w.repos \o page.repos, cursor |-> page.cursor]
    IN pages[Len(rows) + 1].repos

-----------------------------------------------------------------------------
(* What the doors promise.                                                   *)

\* acl.ts, worker.ts "resolves the interface credential's subject into an app-local service_account":
\* the same automation with each door's own credential may clone what it may read through the API
\* and as a tool; it may push what it has written rights on, and a tool deletes only what the API
\* would let it administer; and what it has no role on answers as what is not there.
DoorsAgree(found, repo, principal) ==
    LET all == [db |-> TRUE, oauth |-> TRUE, secret |-> FALSE]
        Git(f, service) == GitAccess(all, f, TRUE, repo, principal, Bearer(GitPermission(service), "/git"), service)
        Read(f) == ApiRead(all, f, repo, principal, Bearer("hosting.read", "/api/v1"))
        Info(f) == McpInfo(all, f, TRUE, repo, principal, Bearer("mcp.invoke", "/mcp"))
        Delete(f) == McpDelete(all, f, TRUE, repo, principal, Bearer("mcp.invoke", "/mcp"))
        role == IF found THEN effectiveRole(repo, principal) ELSE "none"
    IN /\ Git(found, "git-upload-pack") = Read(found) /\ Info(found) = Read(found)
       /\ Git(found, "git-receive-pack").allow <=> roleAtLeast(role, "writer")
       /\ Delete(found).allow <=> roleAtLeast(role, "maintainer")
       /\ (role = "none") => /\ Git(found, "git-receive-pack") = Git(FALSE, "git-receive-pack")
                             /\ Delete(found) = Delete(FALSE) /\ Read(found) = Read(FALSE)
       /\ ApiCreate(all, repo, principal, Bearer("hosting.write", "/api/v1"))
             = McpCreate(all, repo, principal, Bearer("mcp.invoke", "/mcp"))

\* interface-oauth-auth.ts, "mechanisms stay UNMIXED": whatever credential is shown, it opens at most
\* one door, and none that is not configured.
OneDoor(installation, found, stored, repo, principal, credential) ==
    LET doors == {<<"api", ApiDelete(installation, found, repo, principal, credential)>>,
                  <<"create", ApiCreate(installation, repo, principal, credential)>>,
                  <<"clone", GitAccess(installation, found, stored, repo, principal, credential, "git-upload-pack")>>,
                  <<"push", GitAccess(installation, found, stored, repo, principal, credential, "git-receive-pack")>>,
                  <<"mcp", McpInfo(installation, found, stored, repo, principal, credential)>>}
        opened == {d \in doors : d[2].allow}
    IN Cardinality(opened) <= 1 /\ (opened # {} => installation.oauth \/ (installation.secret /\ credential = Secret))

\* repositories.ts, "List repos the principal can read": following the cursors shows each of them once.
ListIsComplete(rows, readable, limit, scan) == Walked(rows, readable, limit, scan) = SelectSeq(rows, LAMBDA r : r \in readable)

\* repo-admin.ts:225 "Owner role required to delete": by any door.
DeletersAgree(found, repo, principal) ==
    LET all == [db |-> TRUE, oauth |-> TRUE, secret |-> FALSE]
    IN McpDelete(all, found, TRUE, repo, principal, Bearer("mcp.invoke", "/mcp")).allow
         => ApiDelete(all, found, repo, principal, Bearer("hosting.admin", "/api/v1")).allow

\* router.ts, "a matched route always passes through the auth mechanism it declared": whoever a
\* registered route with an action is opened to has the role it declares, and a bearer has the scope.
RouteIsGuarded(route, found, repo, principal, credential, session) ==
    LET all == [db |-> TRUE, oauth |-> TRUE, secret |-> FALSE]
        who == IF route.auth = "public" THEN Anonymous ELSE principal
    IN (register(route) /\ handle(route, all, found, repo, principal, credential, session).allow) =>
         /\ route.auth = "interface" => Declared(routeScope(route)) /\ credential = Bearer(routeScope(route), "/api/v1")
         /\ Declared(route.action) =>
              /\ found /\ roleAtLeast(effectiveRole(repo, who), ACTION_REQUIRED_ROLE[route.action])
              /\ Declared(route.role) => roleAtLeast(effectiveRole(repo, who), route.role)

\* router.ts:9 "forgot the auth check is a build failure": a route that is registered with a role asks
\* for it.
DeclaredRoleIsAsked(route, found, repo, principal, credential, session) ==
    LET all == [db |-> TRUE, oauth |-> TRUE, secret |-> FALSE]
    IN (register(route) /\ Declared(route.role) /\ handle(route, all, found, repo, principal, credential, session).allow)
         => found /\ roleAtLeast(effectiveRole(repo, principal), route.role)
=============================================================================
