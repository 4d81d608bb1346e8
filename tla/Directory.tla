----------------------------- MODULE Directory ------------------------------
(***************************************************************************)
(* The shared tables of the Keyrock identity manager about who may do      *)
(* what: users, organizations and their members, applications with their   *)
(* roles, permissions, IoT agents and PEP proxies, the assignments of      *)
(* roles and the permissions granted to roles; and what every request      *)
(* about them goes through before its handler runs:                        *)
(*   src/fiware-idm/models/models.js                    tables, foreign    *)
(*                                                      keys, cascades     *)
(*   src/fiware-idm/controllers/web/check_permissions.js                   *)
(*   src/fiware-idm/controllers/api/check_permissions.js                   *)
(* A handler is a chain of database calls; each awaited call is a step, so *)
(* requests interleave between any two.  The handlers themselves are in    *)
(* Organizations, Applications and Roles, put together by Keyrock.         *)
(***************************************************************************)
EXTENDS Naturals, FiniteSets

CONSTANTS
    Users, Orgs, Apps, Roles, Perms, Agents, Proxies,  \* ids of rows
    Home,        \* the application the first rows belong to
    Reqs, None,
    Scenarios,   \* the rows there are at the start, and the kinds of requests
    MaxRows      \* bound on the rows of user_organization ever created

\* The seeded roles and permissions, which no handler changes: the provider
\* of an application may do everything, the purchaser assign public roles.
Internal == {"provider", "purchaser"}
Standard == {"1", "2", "3", "4", "5", "6"}
SeededGrants == {<<"provider", p>> : p \in Standard} \cup {<<"purchaser", "5">>}
MemberRoles == {"owner", "member"}

AllRoles == Roles \cup Internal
AllPerms == Perms \cup Standard
Ids == Users \cup Orgs \cup Apps \cup Roles \cup Perms \cup Agents \cup Proxies

\* Who holds a role: a user, or the owners or the members of an organization.
Holders == [user : Users, org : {None}, how : {None}]
             \cup [user : {None}, org : Orgs, how : MemberRoles]
OfUser(u) == [user |-> u, org |-> None, how |-> None]
OfOrg(o, h) == [user |-> None, org |-> o, how |-> h]

Assignable == [app : Apps, role : AllRoles, to : Holders]
Grantable == [role : Roles, perm : AllPerms]

ASSUME DirectoryAssumption ==
    /\ None \notin Ids \cup AllRoles \cup AllPerms \cup MemberRoles \cup Reqs
    \* Every table has ids of its own, and none has a seeded one.
    /\ LET idsOf == <<Users, Orgs, Apps, Roles, Perms, Agents, Proxies, Internal,
                      Standard>>
       IN \A i, j \in 1..9 : i # j => idsOf[i] \cap idsOf[j] = {}
    /\ Roles \cap Grantable = {}  \* so that a form tells a role from a pair
    /\ \A s \in Scenarios : s.rows \subseteq Ids /\ Home \in s.rows
    /\ Home \in Apps
    /\ IsFiniteSet(Users) /\ MaxRows \in Nat /\ Cardinality(Users) <= MaxRows

VARIABLES
    row,      \* id -> whether its row was never there, is there or is deleted
    of,       \* role, permission, agent or proxy -> its application
    member,   \* the rows of user_organization
    fresh,    \* the next autoincrement id of that table
    assign,   \* role_assignment: how many rows say so
    grant,    \* role_permission, without the seeded rows
    trust,    \* trusted_application: <<application, the one it trusts>>
    admin,    \* the users whose admin column is true
    token,    \* application -> its kind of tokens, and whether it has a secret
    pass,     \* agent or proxy -> the request that made its password
    req,      \* the requests
    scene     \* the member of Scenarios that this behaviour belongs to

tables == <<row, of, member, fresh, assign, grant, trust, admin, token,
            pass>>
vars == <<tables, req, scene>>

-----------------------------------------------------------------------------
(* Rows. *)

Here(x) == row[x] = "here"
Free(S) == {x \in S : row[x] = "free"}
MemberRow == [id : 1..MaxRows, org : Orgs, user : Users, role : MemberRoles]

\* The roles a handler may name for an application: its own and the internal.
RolesOf(a) == {r \in Roles : Here(r) /\ of[r] = a} \cup Internal
RolesAt(a, to) == {r \in AllRoles :
                     assign[[app |-> a, role |-> r, to |-> to]] > 0}
PermsOf(r) == IF r \in Internal THEN {p \in Standard : <<r, p>> \in SeededGrants}
              ELSE {p \in AllPerms : grant[[role |-> r, perm |-> p]] > 0}

\* Foreign keys: the rows of an application go with it, the rows that link
\* two others with either of them.
Delete(X) ==
    LET gone == X \cup {x \in DOMAIN of : of[x] \in X}
    IN /\ row' = [x \in Ids |-> IF x \in gone /\ Here(x) THEN "gone" ELSE row[x]]
       /\ member' = {m \in member : m.org \notin gone /\ m.user \notin gone}
       /\ assign' = [k \in Assignable |->
             IF {k.app, k.role, k.to.user, k.to.org} \cap gone = {}
             THEN assign[k] ELSE 0]
       /\ grant' = [k \in Grantable |->
             IF {k.role, k.perm} \cap gone = {} THEN grant[k] ELSE 0]
       /\ trust' = {t \in trust : t[1] \notin gone /\ t[2] \notin gone}
       /\ admin' = admin \ gone
       /\ UNCHANGED <<of, fresh, token, pass>>

\* An insertion is refused by the foreign keys if a row it refers to is gone.
Exists(X) == \A x \in X \cap Ids : Here(x)

-----------------------------------------------------------------------------
(* Requests.  quiet says that no other request has written anything since  *)
(* this one arrived: what such a request reads and leaves behind is the    *)
(* reference for what its handler means to do.                             *)

WebRolesKinds == {"role_create", "role_edit", "role_delete",
    "role_permissions_assign", "permission_create", "permission_edit",
    "permission_delete"}
WebAssignKinds == {"authorize_users", "authorize_organizations",
    "authorize_trusted_applications"}
WebManageKinds == {"app_update_info", "change_token_type", "reset_jwt_secret",
    "app_destroy", "register_pep", "delete_pep", "reset_password_pep",
    "register_iot", "delete_iot", "reset_password_iot"}
ApiRolesKinds == {"api_role_create", "api_role_update", "api_role_delete",
    "api_permission_create", "api_permission_update", "api_permission_delete",
    "api_grant_create", "api_grant_delete"}
ApiAssignKinds == {"api_user_addRole", "api_user_removeRole",
    "api_org_role_addRole", "api_org_role_removeRole", "addTrusted",
    "removeTrusted"}
ApiManageKinds == {"api_app_update", "api_app_delete", "api_pep_create",
    "api_pep_update", "api_pep_delete", "api_iot_create", "api_iot_update",
    "api_iot_delete"}
OrgKinds == {"org_update_info", "org_destroy", "add_members", "api_org_update",
    "api_org_delete", "addRole", "removeRole"}
OpenKinds == {"org_create", "org_remove", "api_org_create",
    "update_administrators", "app_create", "api_app_create"}
CreateKinds == {"api_role_create", "api_permission_create", "api_pep_create",
    "api_iot_create"}   \* who is the row to be created
ApiAppKinds == ApiRolesKinds \cup ApiAssignKinds \cup ApiManageKinds
AppKinds == WebRolesKinds \cup WebAssignKinds \cup WebManageKinds \cup ApiAppKinds
DecisionKinds == {"resource_request", "access_token_info"}
AllKinds == OrgKinds \cup OpenKinds \cup AppKinds \cup DecisionKinds

Posted == Users \cup Apps \cup Roles \cup Perms
            \cup [user : Users, role : MemberRoles]
            \cup [to : Holders, role : AllRoles]
            \cup Grantable

Final == {"ok", "refused", "missing", "failed", "denied", "silent", "hung",
          "permit", "deny"}
Stages == {"idle", "load", "owner", "member", "held", "can", "params", "go",
           "change", "fill", "second", "provider"} \cup Final
ReqType ==
    [st : Stages, kind : AllKinds \cup {"none"}, by : Users \cup {None},
     app : Apps \cup {None}, org : Orgs \cup {None},
     role : AllRoles \cup {None}, perm : AllPerms \cup {None},
     who : Ids \cup {None}, how : MemberRoles \cup {None},
     types : {"kept", "bearer", "jwt"}, jwt : BOOLEAN, saved : BOOLEAN,
     form : SUBSET Posted,
     found : MemberRow \cup {None},
     mem : SUBSET (Orgs \X MemberRoles), held : SUBSET AllRoles,
     can : SUBSET AllPerms, changeable : SUBSET AllRoles,
     admins : SUBSET Users, apps : SUBSET Apps, quiet : BOOLEAN]

IdleReq == [st |-> "idle", kind |-> "none", by |-> None, app |-> None,
            org |-> None, role |-> None, perm |-> None, who |-> None,
            how |-> None, types |-> "kept", jwt |-> FALSE, saved |-> FALSE,
            form |-> {}, found |-> None,
            mem |-> {}, held |-> {}, can |-> {}, changeable |-> {},
            admins |-> {}, apps |-> {}, quiet |-> TRUE]
Opened(k, u) == [IdleReq EXCEPT !.st = "load", !.kind = k, !.by = u]

Arrive(r, q) ==
    /\ req[r].st = "idle" /\ q.kind \in scene.kinds
    /\ req' = [req EXCEPT ![r] = q]
    /\ UNCHANGED <<tables, scene>>

At(r, k, stage) == req[r].kind = k /\ req[r].st = stage
Reading(r, k, stage, q) ==
    /\ At(r, k, stage)
    /\ req' = [req EXCEPT ![r] = q]
    /\ UNCHANGED <<tables, scene>>
Ended(r, k, stage, end) == Reading(r, k, stage, [req[r] EXCEPT !.st = end])

\* A statement that writes: the caller says which tables change and how.
Wrote(r, stage) ==
    /\ req' = [s \in Reqs |-> IF s = r THEN [req[s] EXCEPT !.st = stage]
                              ELSE [req[s] EXCEPT !.quiet = FALSE]]
    /\ UNCHANGED scene

\* Where decisions are asked for, a role of the application may be anybody's
\* and have a permission, and the application be trusted by another.
FirstHolders(first) ==
    [app : {Home}, role : Roles \cap first,
     to : {h \in Holders : {h.user, h.org} \cap Ids \subseteq first}]
FirstGrants(first) == [role : Roles \cap first, perm : Perms \cap first]
FirstTrust(first) == {<<a, Home>> : a \in (Apps \cap first) \ {Home}}
Chosen(S) == IF scene.kinds \cap DecisionKinds = {} THEN {{}} ELSE SUBSET S

FirstTables(first, founder, ids) ==
    /\ row = [x \in Ids |-> IF x \in first THEN "here" ELSE "free"]
    /\ of = [x \in Roles \cup Perms \cup Agents \cup Proxies |->
                IF x \in first THEN Home ELSE None]
    /\ member = {[id |-> ids[u], org |-> o, user |-> u,
                  role |-> IF u = founder THEN "owner" ELSE "member"] :
                   u \in Users \cap first, o \in Orgs \cap first}
    /\ fresh = Cardinality(Users) + 1
    /\ \E given \in Chosen(FirstHolders(first)) :
          assign = [k \in Assignable |->
            IF \/ k.app \in first /\ k.role = "provider" /\ k.to = OfUser(founder)
               \/ k \in given
            THEN 1 ELSE 0]
    /\ \E given \in Chosen(FirstGrants(first)) :
          grant = [k \in Grantable |-> IF k \in given THEN 1 ELSE 0]
    /\ trust \in Chosen(FirstTrust(first)) /\ admin = {founder}
    /\ token = [a \in Apps |-> [jwt |-> FALSE, openid |-> FALSE,
                                secret |-> FALSE]]
    /\ pass = [x \in Agents \cup Proxies |-> None]

\* A reachable state: one user has created the applications, the roles and
\* permissions of the first of them, and at most one organization, of which
\* the others are members.
Init ==
    /\ scene \in Scenarios
    /\ \E founder \in Users \cap scene.rows,
          ids \in [Users -> 1..Cardinality(Users)] :
          /\ ids[founder] = 1 /\ \A u, v \in Users : ids[u] = ids[v] => u = v
          /\ FirstTables(scene.rows, founder, ids)
    /\ req = [r \in Reqs |-> IdleReq]

-----------------------------------------------------------------------------
(* What runs before the handlers. *)

\* Which permissions allow a kind of request, one of them being enough: by the
\* path of the page, and by the policy file of the API.
WebNeeds(k) == IF k \in WebRolesKinds THEN {"3"}
               ELSE IF k \in WebAssignKinds THEN {"1", "5", "6"} ELSE {"2"}
ApiNeeds(k) == IF k \in ApiRolesKinds THEN {"3"}
               ELSE IF k \in ApiAssignKinds THEN {"1", "5", "6"} ELSE {"2"}
Needs(k) == IF k \in ApiAppKinds THEN ApiNeeds(k) ELSE WebNeeds(k)

\* The rows that the path of the API names beside the application.
RoleHere(q) == q.role # None => q.role \in RolesOf(q.app)
PermissionHere(q) ==
    q.perm # None => q.perm \in Standard \/ (Here(q.perm) /\ of[q.perm] = q.app)
UserHere(q) == q.who \in Users => Here(q.who)
OrganizationHere(q) == q.org # None => Here(q.org)
IotaHere(q) ==
    q.who \in Agents /\ q.kind \notin CreateKinds =>
       Here(q.who) /\ of[q.who] = q.app
TrustedHere(q) == q.who \in Apps => Here(q.who)
ParamsHere(q) == /\ RoleHere(q) /\ PermissionHere(q) /\ UserHere(q)
                 /\ OrganizationHere(q) /\ IotaHere(q) /\ TrustedHere(q)

\* The application of the path, whose row the handler keeps.  The web routes
\* only copy the other ids.
LoadRow(r, kinds) ==
    /\ req[r].kind \in kinds /\ req[r].st = "load"
    /\ LET next == IF Here(req[r].app) THEN "member" ELSE "missing"
       IN req' = [req EXCEPT ![r].st = next, ![r].jwt = token[req[r].app].jwt]
    /\ UNCHANGED <<tables, scene>>
LoadApplication(r) == LoadRow(r, AppKinds \ ApiAppKinds)
ApiLoadApplication(r) == LoadRow(r, ApiAppKinds)

\* owned_permissions: three reads, each of what the one before returned.
FindMemberships(r) ==
    /\ req[r].kind \in AppKinds /\ req[r].st = "member"
    /\ req' = [req EXCEPT ![r].st = "held",
                          ![r].mem = {<<m.org, m.role>> :
                              m \in {m \in member : m.user = req[r].by}}]
    /\ UNCHANGED <<tables, scene>>

\* Mutation: what an organization holds goes to owners and members alike.
FindRolesOfAll(r) ==
    /\ req[r].kind \in AppKinds /\ req[r].st = "held"
    /\ req' = [req EXCEPT ![r].st = "can",
                 ![r].held = RolesAt(req[r].app, OfUser(req[r].by)) \cup
                     UNION {RolesAt(req[r].app, OfOrg(m[1], h)) :
                              m \in req[r].mem, h \in MemberRoles}]
    /\ UNCHANGED <<tables, scene>>

FindRoles(r) ==
    /\ req[r].kind \in AppKinds /\ req[r].st = "held"
    /\ req' = [req EXCEPT ![r].st = "can",
                 ![r].held = RolesAt(req[r].app, OfUser(req[r].by)) \cup
                     UNION {RolesAt(req[r].app, OfOrg(m[1], m[2])) : m \in req[r].mem}]
    /\ UNCHANGED <<tables, scene>>

\* The browser of someone the check refuses gets no answer at all, because
\* nobody waits for the rejected promise; the API answers 403.
Decide(r, kinds, further, refused) ==
    /\ req[r].kind \in kinds /\ req[r].st = "can"
    /\ LET can == UNION {PermsOf(x) : x \in req[r].held}
           next == IF Needs(req[r].kind) \cap can = {} THEN refused ELSE further
       IN req' = [req EXCEPT ![r].can = can, ![r].st = next]
    /\ UNCHANGED <<tables, scene>>
OwnedPermissions(r) == Decide(r, AppKinds \ ApiAppKinds, "go", "silent")
CheckRequest(r) == Decide(r, ApiAppKinds, "params", "denied")

\* Mutation: nobody answers for a role or a user that is not found.
LoadParametersSilent(r) ==
    /\ req[r].st = "params" /\ ParamsHere(req[r])
    /\ req' = [req EXCEPT ![r].st = "go"]
    /\ UNCHANGED <<tables, scene>>

\* The API loads the rest of the path once the permission is checked.
LoadParameters(r) ==
    /\ req[r].st = "params"
    /\ req' = [req EXCEPT ![r].st = IF ParamsHere(req[r]) THEN "go" ELSE "missing"]
    /\ UNCHANGED <<tables, scene>>

\* What comes with a request may be refused for itself: an empty name, a rule
\* that is not one, a kind of tokens that does not exist.
BodyKinds == {"role_create", "role_edit", "permission_create", "permission_edit",
    "api_role_create", "api_role_update", "api_permission_create",
    "api_permission_update", "api_app_update", "app_update_info",
    "org_update_info", "api_org_update", "org_create", "api_org_create"}
RefuseBody(r) ==
    req[r].kind \in BodyKinds /\ Ended(r, req[r].kind, "go", "refused")

Check(r) ==
    \/ LoadApplication(r) \/ ApiLoadApplication(r) \/ FindMemberships(r)
    \/ FindRoles(r) \/ OwnedPermissions(r) \/ CheckRequest(r) \/ LoadParameters(r)
    \/ RefuseBody(r)
=============================================================================
