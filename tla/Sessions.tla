------------------------------ MODULE Sessions ------------------------------
(***************************************************************************)
(* Who a request comes from (src/browser-auth.ts, src/interface-oauth-auth.ts, *)
(* resolveIdentity of features/repos/identity.ts).  The Worker keeps nothing:   *)
(* the sign-in state and the session are sealed cookies in the browser, which    *)
(* every tab shares; Accounts, outside, keeps the access token and what the       *)
(* person may do.  A tab's request carries the cookies of the moment it is sent,  *)
(* waits for Accounts, and its answer sets cookies when it arrives.               *)
(***************************************************************************)
EXTENDS Integers, FiniteSets

CONSTANTS
    Tabs,
    ClaimSet,        \* what Accounts may come to say of the person
    Configs,         \* the installations the Worker may be deployed as
    SessionAge, StateAge,  \* lives of the two cookies, in ticks
    MaxClock,        \* bound: ticks
    MaxSends,        \* bound: requests sent
    MaxChanges       \* bound: changes at Accounts, and deployments

VARIABLES
    config,      \* the deployed configuration
    claims,      \* Accounts: the person's claims
    live,        \* Accounts: the access tokens that are not revoked
    jar,         \* the browser's two cookies
    tab,         \* what each tab waits for
    clock, sent, changed, tokens  \* counters for the bounds

svars == <<config, claims, live, jar, tab, clock, sent, changed, tokens>>

(* The claims of UserInfo: whether the Workspace of this installation is among the    *)
(* memberships, and the nested evidence ("absent" when the claim is not there).       *)
Evidence == {"absent", "ours", "other"}
Claims ==
    [member : BOOLEAN, nested : BOOLEAN, capsule : Evidence, appRole : {"absent", "owner", "member", "bad"},
     workspace : Evidence, role : {"absent", "member", "viewer", "bad"}]
AllConfigs == [capsule : BOOLEAN, workspace : BOOLEAN, secret : 1..2]
SessionsAssumption == ClaimSet \subseteq Claims /\ Configs \subseteq AllConfigs /\ {SessionAge, StateAge} \subseteq Nat

Nothing == "none"
NoRole == "null"
Invalid == [kind |-> "invalid", appRole |-> NoRole, member |-> FALSE]
User(role, member) == [kind |-> "session", appRole |-> role, member |-> member]

\* browserAuthMissing: a secret, and the Capsule or the Workspace.
Configured(f) == f.capsule \/ f.workspace

-----------------------------------------------------------------------------
(* fetchUserInfo's reading of the claims.                                      *)
Refused(f, c) ==
    /\ c.nested
    /\ \/ c.capsule = "other" /\ f.capsule
       \/ c.appRole = "bad" \/ (c.appRole # "absent" /\ c.capsule = "absent")
       \/ c.workspace = "other" /\ f.workspace
       \/ c.role = "bad"

AppRole(f, c) ==
    IF ~c.nested THEN NoRole
    ELSE IF c.appRole # "absent" THEN (IF f.capsule THEN c.appRole ELSE NoRole)
    ELSE IF c.role = "member" /\ f.workspace /\ c.workspace = "ours" THEN "member" ELSE NoRole

\* With a Capsule in the evidence and no app_role, membership of the Workspace needs
\* the exact Workspace and a second proof.
LegacyMember(f, c) ==
    /\ f.workspace
    /\ IF c.nested /\ f.capsule /\ c.capsule = "ours" /\ c.appRole = "absent"
       THEN c.workspace = "ours" /\ (c.member \/ c.role # "absent")
       ELSE c.member \/ (c.nested /\ c.workspace = "ours")

fetchUserInfo(f, c) == IF Refused(f, c) THEN Invalid ELSE User(AppRole(f, c), LegacyMember(f, c))

-----------------------------------------------------------------------------
(* The cookies.                                                               *)
\* sealSession and openSession: the key and the installation the cookie was sealed under.
SealedSession(f, t, said) == [form |-> "v2", under |-> f, token |-> t, until |-> clock + SessionAge, said |-> said]
\* A cookie from before: signed, with the Workspace it was admitted by and no token.
LegacySession(f) == [form |-> "v1", under |-> f, token |-> 0, until |-> SessionAge, said |-> User(NoRole, f.workspace)]
NoSession == [form |-> Nothing, under |-> CHOOSE f \in Configs : TRUE, token |-> 0, until |-> 0, said |-> Invalid]
opens(f, s) ==
    \/ s.form = "v2" /\ s.under = f
    \/ s.form = "v1" /\ s.under.secret = f.secret
NoState == [form |-> Nothing, nonce |-> 0, secret |-> 0, until |-> 0]

\* `env`: the configuration its request was begun under, which a deployment leaves it.
Quiet == [at |-> "idle", env |-> CHOOSE f \in Configs : TRUE, nonce |-> 0, session |-> NoSession, bearer |-> Nothing, token |-> 0, got |-> Invalid,
          sets |-> "nothing", new |-> NoSession, seen |-> {}]
TabPlaces == {"idle", "authorize", "exchange", "userinfo", "verify", "reply"}

STypeOK ==
    /\ config \in Configs /\ claims \in ClaimSet /\ live \subseteq 1..tokens
    /\ jar.state.nonce \in 0..MaxSends /\ jar.session.token \in 0..tokens
    /\ \A b \in Tabs : tab[b].at \in TabPlaces /\ tab[b].seen \subseteq ClaimSet

SInit ==
    /\ config \in Configs /\ claims \in ClaimSet /\ live = {}
    /\ \E s \in {NoSession, LegacySession(config)} : jar = [state |-> NoState, session |-> s]
    /\ tab = [b \in Tabs |-> Quiet] /\ clock = 0 /\ sent = 0 /\ changed = 0 /\ tokens = 0

Accounts == <<claims, live, tokens>>
Elsewhere == <<config, clock, changed>>

Send(b, to) ==
    /\ tab[b].at = "idle" /\ sent < MaxSends /\ sent' = sent + 1
    /\ tab' = [tab EXCEPT ![b] = to] /\ UNCHANGED <<Accounts, Elsewhere>>
Answered(b, to) == tab' = [tab EXCEPT ![b] = to] /\ UNCHANGED <<sent, Elsewhere>>

-----------------------------------------------------------------------------
(* handleBrowserAuth: login, callback, logout.                                 *)
Login(b) ==
    /\ Configured(config)
    /\ jar' = [jar EXCEPT !.state = [form |-> "state", nonce |-> sent + 1, secret |-> config.secret, until |-> clock + StateAge]]
    /\ Send(b, [Quiet EXCEPT !.at = "authorize", !.nonce = sent + 1])

\* The person comes back from Accounts with a code and the state of this tab's login.
StateHolds(b) ==
    /\ jar.state.form # Nothing /\ jar.state.secret = config.secret
    /\ jar.state.nonce = tab[b].nonce /\ clock < jar.state.until
SignInFails == [Quiet EXCEPT !.at = "reply", !.sets = "clearState"]
Callback(b) ==
    /\ tab[b].at = "authorize"
    /\ Answered(b, IF StateHolds(b) /\ Configured(config)
                 THEN [Quiet EXCEPT !.at = "exchange", !.env = config] ELSE SignInFails)
    /\ UNCHANGED <<jar, Accounts>>
\* exchangeCode: Accounts gives a token, or does not.
Exchange(b) ==
    /\ tab[b].at = "exchange"
    /\ \/ /\ tokens' = tokens + 1 /\ live' = live \cup {tokens + 1} /\ UNCHANGED claims
          /\ Answered(b, [tab[b] EXCEPT !.at = "userinfo", !.token = tokens + 1])
       \/ /\ Answered(b, SignInFails) /\ UNCHANGED Accounts
    /\ UNCHANGED jar
\* Admitted whatever the claims say, as long as they are well formed.
UserInfo(b) ==
    /\ tab[b].at = "userinfo"
    /\ LET env == tab[b].env
           said == fetchUserInfo(env, claims)
           admitted == tab[b].token \in live /\ said.kind = "session" IN
       \/ /\ admitted
          /\ Answered(b, [Quiet EXCEPT !.at = "reply", !.sets = "session", !.new = SealedSession(env, tab[b].token, said)])
       \/ Answered(b, SignInFails)      \* not admitted, or Accounts is unavailable
    /\ UNCHANGED <<jar, Accounts>>
Logout(b) == Send(b, [Quiet EXCEPT !.at = "reply", !.sets = "clearSession"]) /\ UNCHANGED jar

-----------------------------------------------------------------------------
(* Any other request: it carries the session cookie, a bearer, both or neither.  *)
\* A bearer for another scope is refused as one for another Capsule is where there is one.
Bearers == {Nothing, "proven", "otherCapsule"}
Ask(b) ==
    \E bearer \in Bearers :
        /\ Send(b, [Quiet EXCEPT !.at = "verify", !.env = config, !.session = jar.session, !.bearer = bearer, !.seen = {claims}])
        /\ UNCHANGED jar

\* Mutant: what Accounts said when the session was made.
saidAtSignIn(env, s) == s.said
saidNow(env, s) == fetchUserInfo(env, claims)

\* readBrowserSessionResult, Accounts answering.
readBrowserSession(env, s) ==
    IF ~Configured(env) \/ s.form = Nothing \/ ~opens(env, s) \/ s.until <= clock THEN Invalid
    ELSE IF s.form = "v1" THEN (IF s.said.member /\ env.workspace THEN User(NoRole, TRUE) ELSE Invalid)
    ELSE IF s.token \notin live THEN [Invalid EXCEPT !.kind = "accounts_unauthorized"]
    ELSE saidNow(env, s)

\* verifyInterfaceOAuthCredential: exactly this scope, audience and Capsule (or Workspace).
proves(env, bearer) == bearer = "proven" \/ (bearer = "otherCapsule" /\ ~env.capsule)

\* resolveIdentity: the session; a cookie that is no session is refused; then the bearer;
\* then nobody.
Anonymous == [kind |-> "anonymous", appRole |-> NoRole, member |-> FALSE]
resolveIdentity(env, s, bearer, read) ==
    IF read.kind # "invalid" THEN read
    ELSE IF s.form # Nothing THEN [Invalid EXCEPT !.kind = "session_expired"]
    ELSE IF bearer = Nothing THEN Anonymous
    ELSE IF proves(env, bearer) THEN [Anonymous EXCEPT !.kind = "interface"] ELSE [Invalid EXCEPT !.kind = "refused"]

Verify(b) ==
    /\ tab[b].at = "verify"
    /\ LET env == tab[b].env
           s == tab[b].session
           asks == s.form = "v2" /\ opens(env, s) /\ clock < s.until IN
       \/ LET who == resolveIdentity(env, s, tab[b].bearer, readBrowserSession(env, s)) IN
          Answered(b, [tab[b] EXCEPT !.at = "reply", !.got = who,
                                   !.sets = IF who.kind = "accounts_unauthorized" THEN "clearSession" ELSE "nothing"])
       \/ asks /\ Answered(b, [tab[b] EXCEPT !.at = "reply", !.got.kind = "accounts_unavailable"])
    /\ UNCHANGED <<jar, Accounts>>

\* The answer arrives, and with it its cookies.
Reply(b) ==
    /\ tab[b].at = "reply"
    /\ jar' = [state |-> IF tab[b].sets \in {"clearState", "session"} THEN NoState ELSE jar.state,
               session |-> IF tab[b].sets = "session" THEN tab[b].new
                           ELSE IF tab[b].sets = "clearSession" THEN NoSession ELSE jar.session]
    /\ Answered(b, Quiet) /\ UNCHANGED Accounts

-----------------------------------------------------------------------------
(* Accounts, time, and deployments.                                            *)
ChangeClaims ==
    /\ changed < MaxChanges /\ changed' = changed + 1
    /\ \E c \in ClaimSet \ {claims} :
        /\ claims' = c
        /\ tab' = [b \in Tabs |-> IF tab[b].at = "verify" THEN [tab[b] EXCEPT !.seen = @ \cup {c}] ELSE tab[b]]
    /\ UNCHANGED <<config, live, tokens, jar, clock, sent>>
Revoke ==
    /\ changed < MaxChanges /\ changed' = changed + 1
    /\ \E k \in live : live' = live \ {k}
    /\ UNCHANGED <<config, claims, tokens, jar, tab, clock, sent>>
Deploy ==
    /\ changed < MaxChanges /\ changed' = changed + 1 /\ config' \in Configs \ {config}
    /\ UNCHANGED <<Accounts, jar, tab, clock, sent>>
Tick == clock < MaxClock /\ clock' = clock + 1 /\ UNCHANGED <<config, Accounts, jar, tab, sent, changed>>

SNext ==
    \/ \E b \in Tabs :
        \/ Login(b) \/ Callback(b) \/ Exchange(b) \/ UserInfo(b) \/ Logout(b)
        \/ Ask(b) \/ Verify(b) \/ Reply(b)
    \/ ChangeClaims \/ Revoke \/ Deploy \/ Tick
SSpec == SInit /\ [][SNext]_svars

-----------------------------------------------------------------------------
(* Whoever a request is taken for was proven while it ran: a role is one that      *)
(* Accounts gave this person in this installation after the request was sent,       *)
(* whatever it said at sign-in; an owner is an owner of this very Capsule; and       *)
(* nobody who presented a credential that did not hold is served as nobody.           *)
IdentityIsProven ==
    \A b \in Tabs :
        LET t == tab[b] IN
        t.at = "reply" /\ t.seen # {} =>
            /\ t.got.appRole # NoRole => \E c \in t.seen : AppRole(t.session.under, c) = t.got.appRole
            /\ t.got.appRole = "owner" => t.session.under.capsule /\ \E c \in t.seen : c.capsule = "ours"
            /\ t.got.kind = "anonymous" => t.session.form = Nothing /\ t.bearer = Nothing

(* Refuted: a session that has just been made outlives the answers still under way: *)
(* the answer to a request sent with the old cookie clears the new one.              *)
NewSessionStays ==
    [][\A b \in Tabs : jar.session.form = "v2" /\ jar.session.token \in live /\ jar'.session.form = Nothing
         => \E d \in Tabs : tab[d].at = "reply" /\ tab[d].sets = "clearSession" /\ tab[d].session \in {NoSession, jar.session}]_svars
=============================================================================
