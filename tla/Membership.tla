----------------------------- MODULE Membership -----------------------------
(***************************************************************************)
(* Who may administer an organization and its repository: the rows of         *)
(* principals, of one owner name, of its members, of a team and of a         *)
(* repository's grants (src/features/repos/owners.ts, collaborators.ts,      *)
(* repo-admin.ts, identity.ts, and upsertPrincipal of src/auth/acl.ts).      *)
(*                                                                         *)
(* A request reads who its caller is, reads whether they may, and writes:     *)
(* each statement is a step, and requests interleave.  An identity is a       *)
(* subject with the binding of an automation, or with "" for a person; rows   *)
(* of the first schema have neither issuer nor binding and are adopted.       *)
(***************************************************************************)
EXTENDS Integers, FiniteSets

CONSTANTS
    Identities,     \* pairs of a subject and a binding
    Members,        \* the identities with app membership
    Ids,            \* the ids of the rows of principals, 1..n
    LegacyRows,     \* from some ids to the subject and kind of a row of the first schema
    GivenRoles, GivenVisibilities,  \* what a request may make of a collaborator, of the repository
    Callers,        \* requests that run at a time
    MaxRequests,    \* bound: requests in all
    LastOps         \* bound: what the last of them may ask for

VARIABLES
    prow,       \* id -> the row of a principal
    owner,      \* the row of the owner's name
    member,     \* id -> role in the organization, "none" without a row
    team,       \* [made, members]: the organization's team
    grant,      \* id -> role of a collaborator of the repository
    teamGrant,  \* the team's role on it
    visible,    \* its visibility
    asked,      \* requests begun
    req         \* caller -> its request

mvars == <<prow, owner, member, team, grant, teamGrant, visible, asked, req>>

A == INSTANCE Authorization

Roles == {"reader", "writer", "maintainer", "owner"}
Visibilities == {"public", "internal", "private"}

\* Nobody is no row; a row of the first schema is of a subject that may ask.
MembershipAssumption ==
    /\ Ids \subseteq Nat \ {0} /\ MaxRequests \in Nat
    /\ GivenRoles \subseteq Roles /\ GivenVisibilities \subseteq Visibilities
    /\ \A p \in Identities : p = <<p[1], p[2]>>
    /\ DOMAIN LegacyRows \subseteq Ids
    /\ \A i \in DOMAIN LegacyRows :
          LegacyRows[i][1] \in {p[1] : p \in Identities} /\ LegacyRows[i][2] \in {"user", "service_account"}

FreeRow == [state |-> "free", subject |-> "", binding |-> "", kind |-> "user"]
Kind(identity) == IF identity[2] = "" THEN "user" ELSE "service_account"
Bound(identity) == [state |-> "bound", subject |-> identity[1], binding |-> identity[2], kind |-> Kind(identity)]
RowOf(identity) == {i \in Ids : prow[i] = Bound(identity)}
Subject(s) == {i \in Ids : prow[i].state = "bound" /\ prow[i].subject = s}
Nobody == 0

OrgOps == {"putMember", "removeMember", "createTeam", "putTeamMember", "removeTeamMember"}
RepoOps == {"putCollaborator", "removeCollaborator", "putTeamAccess", "removeTeamAccess", "patchRepo"}
OwnerOps == {"claim", "createOrg", "namespace"}
NamesTarget == {"putMember", "putTeamMember", "putCollaborator"}

Idle == [pc |-> "idle", op |-> "", caller |-> <<"", "">>, target |-> <<"", "">>, to |-> "", id |-> Nobody, targetId |-> Nobody]

MTypeOK ==
    /\ prow \in [Ids -> [state : {"free", "legacy", "bound"}, subject : {""} \cup {p[1] : p \in Identities},
                   binding : {""} \cup {p[2] : p \in Identities}, kind : {"user", "service_account"}]]
    /\ owner \in [type : {"none", "user", "org"}, principal : Ids \cup {Nobody}]
    /\ member \in [Ids -> {"none", "member", "admin"}]
    /\ team \in [made : BOOLEAN, members : SUBSET Ids]
    /\ grant \in [Ids -> Roles \cup {"none"}] /\ teamGrant \in Roles \cup {"none"}
    /\ visible \in Visibilities
    /\ asked \in 0..MaxRequests

MInit ==
    /\ prow = [i \in Ids |-> IF i \in DOMAIN LegacyRows THEN [state |-> "legacy", subject |-> LegacyRows[i][1], binding |-> "", kind |-> LegacyRows[i][2]]
                          ELSE FreeRow]
    /\ owner = [type |-> "none", principal |-> Nobody]
    /\ member = [i \in Ids |-> "none"]
    /\ team = [made |-> FALSE, members |-> {}]
    /\ grant = [i \in Ids |-> "none"] /\ teamGrant = "none" /\ visible = "private"
    /\ asked = 0
    /\ req = [c \in Callers |-> Idle]

Goes(c, pc) == req' = [req EXCEPT ![c].pc = pc]
Answer(c) == req' = [req EXCEPT ![c] = Idle]
Rows == <<owner, member, team, grant, teamGrant, visible>>

-----------------------------------------------------------------------------
(* Where a request may come from: what its handler takes from the path and body. *)
Request(op, caller, target, to) ==
    [pc |-> "adopt", op |-> op, caller |-> caller, target |-> target, to |-> to, id |-> Nobody, targetId |-> Nobody]

MemberRequests ==
    {Request("putMember", p, t, r) : p \in Identities, t \in Identities, r \in {"admin", "member"}}
    \cup {Request(op, p, t, "member") : op \in {"removeMember", "putTeamMember", "removeTeamMember"}, p \in Identities, t \in Identities}
    \cup {Request("putCollaborator", p, t, r) : p \in Identities, t \in Identities, r \in GivenRoles}
    \cup {Request("removeCollaborator", p, t, "none") : p \in Identities, t \in Identities}
    \cup {Request(op, p, p, r) : op \in {"putTeamAccess"}, p \in Identities, r \in {"owner"}}
    \cup {Request(op, p, p, "none") : op \in {"createTeam", "removeTeamAccess", "claim", "createOrg", "namespace"}, p \in Identities}
    \cup {Request("patchRepo", p, p, v) : p \in Identities, v \in GivenVisibilities}

Begin(c) ==
    /\ req[c].pc = "idle" /\ asked < MaxRequests
    /\ \E r \in {q \in MemberRequests : asked + 1 = MaxRequests => q.op \in LastOps} : req' = [req EXCEPT ![c] = r]
    /\ asked' = asked + 1
    /\ UNCHANGED <<prow, Rows>>

\* Mutant: whichever row has the subject, whose-ever issuer and binding it has.
AdoptableBySubject(identity) ==
    IF RowOf(identity) # {} THEN {} ELSE {i \in Ids : prow[i].subject = identity[1] /\ prow[i].kind = Kind(identity)}

\* upsertPrincipal's UPDATE: a row of the first schema with this subject and kind, unless
\* the identity has a row of its own.
Adoptable(identity) ==
    IF RowOf(identity) # {} THEN {}
    ELSE {i \in Ids : prow[i].state = "legacy" /\ prow[i].subject = identity[1] /\ prow[i].kind = Kind(identity)}

AdoptRow(identity) ==
    IF Adoptable(identity) = {} THEN UNCHANGED prow
    ELSE \E i \in Adoptable(identity) :
            prow' = [prow EXCEPT ![i] = Bound(identity)]

Adopt(c) ==
    /\ req[c].pc \in {"adopt", "adoptTarget"}
    /\ AdoptRow(IF req[c].pc = "adopt" THEN req[c].caller ELSE req[c].target)
    /\ Goes(c, IF req[c].pc = "adopt" THEN "upsert" ELSE "upsertTarget")
    /\ UNCHANGED <<Rows, asked>>

\* Its INSERT ... ON CONFLICT: the row there is, or a new one.
Upsert(c) ==
    LET actor == req[c].pc = "upsert"
        identity == IF actor THEN req[c].caller ELSE req[c].target
        free == {i \in Ids : prow[i].state = "free"}
    IN /\ req[c].pc \in {"upsert", "upsertTarget"}
       /\ \E i \in IF RowOf(identity) # {} THEN RowOf(identity)
                   ELSE {i \in free : \A j \in free : i <= j} :
             /\ prow' = [prow EXCEPT ![i] = Bound(identity)]
             /\ req' = [req EXCEPT ![c] = IF actor THEN [@ EXCEPT !.id = i, !.pc = "authorize"]
                                          ELSE [@ EXCEPT !.targetId = i, !.pc = "write"]]
       /\ UNCHANGED <<Rows, asked>>

-----------------------------------------------------------------------------
Principal(id, identity) ==
    [id |-> id, kind |-> Kind(identity), member |-> identity \in Members, teams |-> {}]
RepoNow ==
    [visibility |-> visible, ownerType |-> owner.type, ownerPrincipal |-> owner.principal, orgRoles |-> member,
     collaborators |-> grant, teamRoles |-> [i \in Ids |-> IF i \in team.members THEN teamGrant ELSE "none"]]
RoleOf(c) == A!effectiveRole(RepoNow, Principal(req[c].id, req[c].caller))

\* requireOrgAdmin, requireRepoAccess, hasAppMembership: read, and believed from here on.
Permitted(c) ==
    CASE req[c].op \in OrgOps -> owner.type = "org" /\ member[req[c].id] = "admin"
      [] req[c].op \in RepoOps ->
            /\ owner.type # "none"
            /\ A!roleAtLeast(RoleOf(c), IF req[c].op = "patchRepo" THEN "maintainer" ELSE "owner")
            /\ req[c].op \in {"putTeamAccess", "removeTeamAccess"} => owner.type = "org"
      [] req[c].op = "namespace" -> TRUE
      [] req[c].op \in {"claim", "createOrg"} -> Kind(req[c].caller) = "service_account" \/ req[c].caller \in Members

Authorize(c) ==
    /\ req[c].pc = "authorize" /\ Permitted(c)
    /\ Goes(c, IF req[c].op \in NamesTarget THEN "adoptTarget" ELSE IF req[c].op \in OwnerOps THEN "resolveOwner" ELSE "write")
    /\ UNCHANGED <<prow, Rows, asked>>

Refuse(c) ==
    /\ req[c].pc = "authorize" /\ ~Permitted(c)
    /\ Answer(c) /\ UNCHANGED <<prow, Rows, asked>>

-----------------------------------------------------------------------------
(* The owner's name: read, then inserted where it was free; the index on the *)
(* login lets one in.                                                         *)
ResolveOwner(c) ==
    /\ req[c].pc = "resolveOwner"
    /\ IF owner.type = "none" THEN Goes(c, "write") ELSE Answer(c)
    /\ UNCHANGED <<prow, Rows, asked>>

InsertOwner(c) ==
    /\ req[c].pc = "write" /\ req[c].op \in OwnerOps
    /\ CASE owner.type # "none" -> UNCHANGED <<owner, member>>
         [] owner.type = "none" /\ req[c].op = "createOrg" ->
               owner' = [type |-> "org", principal |-> Nobody] /\ member' = [member EXCEPT ![req[c].id] = "admin"]
         [] owner.type = "none" /\ req[c].op # "createOrg" ->
               owner' = [type |-> "user", principal |-> req[c].id] /\ UNCHANGED member
    /\ Answer(c) /\ UNCHANGED <<prow, team, grant, teamGrant, visible, asked>>

\* Mutant: whoever goes is counted as the admin who stays (principal_id <> ? is missing).
SomeAdmin(id) == \E other \in Ids : member[other] = "admin"
AnotherAdmin(id) == \E other \in Ids \ {id} : member[other] = "admin"

\* putOrgMember's one statement: the caller is still an admin, and one remains.
PutMember(c) ==
    LET id == req[c].targetId
        fenced == member[req[c].id] = "admin" /\ (req[c].to = "admin" \/ member[id] # "admin" \/ AnotherAdmin(id))
    IN /\ req[c].pc = "write" /\ req[c].op = "putMember"
       /\ member' = IF fenced THEN [member EXCEPT ![id] = req[c].to] ELSE member
       /\ Answer(c) /\ UNCHANGED <<prow, owner, team, grant, teamGrant, visible, asked>>

\* deleteOrgMember is given an id.  The team keeps its member.
RemoveMember(c) ==
    /\ req[c].pc = "write" /\ req[c].op = "removeMember"
    /\ \E id \in Ids :
          /\ RowOf(req[c].target) = {id} \/ RowOf(req[c].target) = {}
          /\ member' = IF member[req[c].id] = "admin" /\ RowOf(req[c].target) # {} /\ (member[id] # "admin" \/ AnotherAdmin(id))
                       THEN [member EXCEPT ![id] = "none"] ELSE member
    /\ Answer(c) /\ UNCHANGED <<prow, owner, team, grant, teamGrant, visible, asked>>

\* The others write what was asked, whatever has become of their caller.
WriteTeam(c) ==
    /\ req[c].pc = "write" /\ req[c].op \in {"createTeam", "putTeamMember", "removeTeamMember"}
    /\ team' = CASE req[c].op = "createTeam" -> [team EXCEPT !.made = TRUE]
                 [] req[c].op = "putTeamMember" /\ team.made -> [team EXCEPT !.members = @ \cup {req[c].targetId}]
                 [] req[c].op = "removeTeamMember" /\ team.made -> [team EXCEPT !.members = @ \ Subject(req[c].target[1])]
                 [] OTHER -> team
    /\ Answer(c) /\ UNCHANGED <<prow, owner, member, grant, teamGrant, visible, asked>>

WriteGrant(c) ==
    /\ req[c].pc = "write" /\ req[c].op \in {"putCollaborator", "removeCollaborator"}
    /\ grant' = IF req[c].op = "putCollaborator" THEN [grant EXCEPT ![req[c].targetId] = req[c].to]
                ELSE [i \in Ids |-> IF i \in Subject(req[c].target[1]) THEN "none" ELSE grant[i]]
    /\ Answer(c) /\ UNCHANGED <<prow, owner, member, team, teamGrant, visible, asked>>

WriteRepo(c) ==
    /\ req[c].pc = "write" /\ req[c].op \in {"putTeamAccess", "removeTeamAccess", "patchRepo"}
    /\ CASE req[c].op = "putTeamAccess" -> teamGrant' = (IF team.made THEN req[c].to ELSE teamGrant) /\ UNCHANGED visible
         [] req[c].op = "removeTeamAccess" -> teamGrant' = "none" /\ UNCHANGED visible
         [] req[c].op = "patchRepo" -> visible' = req[c].to /\ UNCHANGED teamGrant
    /\ Answer(c) /\ UNCHANGED <<prow, owner, member, team, grant, asked>>

MNext ==
    \E c \in Callers :
        \/ Begin(c) \/ Adopt(c) \/ Upsert(c) \/ Authorize(c) \/ Refuse(c)
        \/ ResolveOwner(c) \/ InsertOwner(c)
        \/ PutMember(c) \/ RemoveMember(c) \/ WriteTeam(c) \/ WriteGrant(c) \/ WriteRepo(c)

MSpec == MInit /\ [][MNext]_mvars

-----------------------------------------------------------------------------
\* "An organization must retain an admin" (collaborators.ts:206): whatever demotions and
\* removals run at a time.
OrgKeepsAdmin == owner.type = "org" => \E i \in Ids : member[i] = "admin"

\* An identity that has a row keeps it, and with it every grant; no other identity is given
\* the row: adoptions of rows of the first schema and upserts run at a time.
KeepsId == prow' # prow => \A p \in Identities : RowOf(p) \subseteq RowOf(p)'
IdentityKeepsId == [][KeepsId]_mvars
=============================================================================
