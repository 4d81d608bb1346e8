------------------------------- MODULE Roles --------------------------------
(***************************************************************************)
(* Roles and permissions of an application, the permissions granted to     *)
(* roles and the roles assigned to users and organizations:                *)
(*   src/fiware-idm/controllers/web/roles.js, permissions.js,              *)
(*     authorize_user_apps.js, authorize_org_apps.js                       *)
(*   src/fiware-idm/controllers/api/roles.js, permissions.js,              *)
(*     role_permission_assignments.js, role_user_assignments.js,           *)
(*     role_organization_assignments.js                                    *)
(* The dialogs post the whole set of rows: the handler deletes the old     *)
(* rows by one statement and creates the posted ones by another.           *)
(***************************************************************************)
EXTENDS Applications

OwnRoles(a) == RolesOf(a) \ Internal
OwnPerms(a) == {p \in Perms : Here(p) /\ of[p] = a}

\* Bounds: two of the seeded permissions stand for all of them, and a form has
\* at most two entries.
Offered(a) == OwnPerms(a) \cup {"1", "5"}
Forms(S) == {{}} \cup {{x, y} : x, y \in S}

\* A page posts the ids of any rows: whether they are the application's is for
\* the handler to find out, and role_permissions_assign does not.  The API has
\* loaded the row as one of the application.
AnyRole == {x \in Roles : Here(x)} \cup Internal
AnyPerm == {p \in Perms : Here(p)} \cup {"1", "5"}
GrantForms ==
    UNION {{keys \cup pairs : pairs \in Forms([role : keys, perm : AnyPerm])} :
             keys \in SUBSET (AnyRole \ Internal)}
UserHolders == {OfUser(u) : u \in {u \in Users : Here(u)}}
OrgHolders == {OfOrg(o, h) : o \in {o \in Orgs : Here(o)}, h \in MemberRoles}

NewRoleRequest(r) ==
    \E u \in Users, a \in Apps :
       /\ Here(u) /\ Here(a)
       /\ \/ \E x \in Free(Roles \cup Perms) :
               /\ \A s \in Reqs : req[s].who # x
               /\ \E k \in IF x \in Roles THEN {"role_create", "api_role_create"}
                           ELSE {"permission_create", "api_permission_create"} :
                     Arrive(r, [Opened(k, u) EXCEPT !.app = a, !.who = x])
          \/ \E x \in AnyRole, k \in {"role_edit", "role_delete", "api_role_update",
                                      "api_role_delete"} :
                /\ k \in ApiRolesKinds => x \in RolesOf(a)
                /\ Arrive(r, [Opened(k, u) EXCEPT !.app = a, !.role = x])
          \/ \E p \in AnyPerm, k \in {"permission_edit", "permission_delete",
                         "api_permission_update", "api_permission_delete"} :
                /\ k \in ApiRolesKinds => p \in Offered(a)
                /\ Arrive(r, [Opened(k, u) EXCEPT !.app = a, !.perm = p])
          \/ \E k \in {"api_grant_create", "api_grant_delete"},
               x \in RolesOf(a), p \in Offered(a) :
                Arrive(r, [Opened(k, u) EXCEPT !.app = a, !.role = x, !.perm = p])
          \/ \E form \in GrantForms :
                Arrive(r, [Opened("role_permissions_assign", u)
                             EXCEPT !.app = a, !.form = form])
          \/ \E form \in Forms([to : UserHolders, role : AnyRole]) :
                Arrive(r, [Opened("authorize_users", u)
                             EXCEPT !.app = a, !.form = form])
          \/ \E form \in Forms([to : OrgHolders, role : AnyRole]) :
                Arrive(r, [Opened("authorize_organizations", u)
                             EXCEPT !.app = a, !.form = form])
          \/ \E k \in {"api_user_addRole", "api_user_removeRole"},
               x \in RolesOf(a), w \in Users :
                /\ Here(w)
                /\ Arrive(r, [Opened(k, u) EXCEPT !.app = a, !.role = x, !.who = w])
          \/ \E k \in {"api_org_role_addRole", "api_org_role_removeRole"},
               x \in RolesOf(a), o \in Orgs, h \in MemberRoles :
                /\ Here(o)
                /\ Arrive(r, [Opened(k, u) EXCEPT !.app = a, !.role = x,
                                                  !.org = o, !.how = h])

-----------------------------------------------------------------------------
(* Roles and permissions. *)

\* A row of the application, refused by the foreign key if that is gone.
Create(r, k) ==
    /\ At(r, k, "go")
    /\ IF Here(req[r].app)
       THEN /\ row' = [row EXCEPT ![req[r].who] = "here"]
            /\ of' = [of EXCEPT ![req[r].who] = req[r].app]
            /\ Wrote(r, "ok")
            /\ UNCHANGED <<member, fresh, assign, grant, trust, admin, token, pass>>
       ELSE Ended(r, k, "go", "failed")
CreateRole(r) == Create(r, "role_create")
CreatePermission(r) == Create(r, "permission_create")
ApiCreateRole(r) == Create(r, "api_role_create")
ApiCreatePermission(r) == Create(r, "api_permission_create")

\* Names are not modelled: an edit is refused for what every application has,
\* and otherwise answers the same whether the row is still there or not.
Edit(r, k, x) ==
    Ended(r, k, "go", IF x \in Internal \cup Standard THEN "refused" ELSE "ok")
EditRole(r) == Edit(r, "role_edit", req[r].role)
EditPermission(r) == Edit(r, "permission_edit", req[r].perm)
ApiUpdateRole(r) == Edit(r, "api_role_update", req[r].role)
ApiUpdatePermission(r) == Edit(r, "api_permission_update", req[r].perm)

\* The page tells whether its statement deleted a row of the application; the
\* API destroys the row it has loaded.
DeleteRow(r, k, x, sure) ==
    /\ At(r, k, "go")
    /\ \/ x \in Internal \cup Standard /\ Ended(r, k, "go", "refused")
       \/ /\ x \notin Internal \cup Standard
          /\ IF Here(x) /\ of[x] = req[r].app THEN Delete({x}) /\ Wrote(r, "ok")
             ELSE Ended(r, k, "go", IF sure THEN "ok" ELSE "failed")
DeleteRole(r) == DeleteRow(r, "role_delete", req[r].role, FALSE)
DeletePermission(r) == DeleteRow(r, "permission_delete", req[r].perm, FALSE)
ApiDeleteRole(r) == DeleteRow(r, "api_role_delete", req[r].role, TRUE)
ApiDeletePermission(r) == DeleteRow(r, "api_permission_delete", req[r].perm, TRUE)

-----------------------------------------------------------------------------
(* Permissions of roles. *)

\* Mutation: rows are added to those there are.
WithoutRolesNot(S) == grant

SetGrant(r, pairs, end) ==
    /\ grant' = pairs /\ Wrote(r, end)
    /\ UNCHANGED <<row, of, member, fresh, assign, trust, admin, token, pass>>
WithoutRoles(S) == [k \in Grantable |-> IF k.role \in S THEN 0 ELSE grant[k]]
WithPairs(S) == [k \in Grantable |-> IF k \in S THEN grant[k] + 1 ELSE grant[k]]

\* role_permissions_assign: the keys of the form are roles, some of them
\* without a permission.  A form of internal roles only changes nothing.
FormRoles(q) == q.form \cap Roles
FormPairs(q) == q.form \cap Grantable
DestroyGrants(r) ==
    /\ At(r, "role_permissions_assign", "go")
    /\ IF FormRoles(req[r]) = {}
       THEN Ended(r, "role_permissions_assign", "go", "ok")
       ELSE SetGrant(r, WithoutRoles(FormRoles(req[r])), "fill")
CreateGrants(r) ==
    /\ At(r, "role_permissions_assign", "fill")
    /\ IF Exists(UNION {{k.role, k.perm} : k \in FormPairs(req[r])})
       THEN SetGrant(r, WithPairs(FormPairs(req[r])), "ok")
       ELSE Ended(r, "role_permissions_assign", "fill", "failed")

\* findOrCreate, and destroy.
ItsPair(q) == [role |-> q.role, perm |-> q.perm]
ApiCreateGrant(r) ==
    \/ Reading(r, "api_grant_create", "go", [req[r] EXCEPT !.st =
         IF req[r].role \in Internal THEN "refused"
         ELSE IF grant[ItsPair(req[r])] > 0 THEN "ok" ELSE "change"])
    \/ /\ At(r, "api_grant_create", "change")
       /\ IF Exists({req[r].role, req[r].perm})
          THEN SetGrant(r, WithPairs({ItsPair(req[r])}), "ok")
          ELSE Ended(r, "api_grant_create", "change", "failed")
ApiDeleteGrant(r) ==
    /\ At(r, "api_grant_delete", "go")
    /\ IF req[r].role \in Internal
       THEN Ended(r, "api_grant_delete", "go", "refused")
       ELSE SetGrant(r, [grant EXCEPT ![ItsPair(req[r])] = 0],
                     IF grant[ItsPair(req[r])] > 0 THEN "ok" ELSE "missing")

-----------------------------------------------------------------------------
(* Roles of users and organizations. *)

SetAssign(r, rows, end) ==
    /\ assign' = rows /\ Wrote(r, end)
    /\ UNCHANGED <<row, of, member, fresh, grant, trust, admin, token, pass>>

\* The roles that the one who asks may assign, by the permissions that the
\* check has found: "6" what he holds himself, "5" what the application has,
\* "1" the internal ones.
Changeable(q) ==
    (IF "6" \in q.can THEN {x \in q.held \ Internal : Here(x)} ELSE {})
      \cup (IF "5" \in q.can THEN OwnRoles(q.app) ELSE {})
      \cup (IF "1" \in q.can THEN Internal ELSE {})

AssignApiKinds == ApiAssignKinds \ {"addTrusted", "removeTrusted"}
SearchChangeableRoles(r, k) ==
    Reading(r, k, "go", [req[r] EXCEPT !.st = "change",
                                       !.changeable = Changeable(req[r])])

\* authorize_users and authorize_organizations: what the form does not name
\* of the roles the editor may change is deleted.  A form without any role is
\* not allowed.
AssignedRoles(q) == {f.role : f \in q.form}

\* Mutation: the roles of the form are taken as they come.
DestroyAssignmentsUnchecked(r, k, kind) ==
    \/ req[r].form = {} /\ Ended(r, k, "go", "refused")
    \/ req[r].form # {} /\ SearchChangeableRoles(r, k)
    \/ /\ At(r, k, "change")
       /\ SetAssign(r, [x \in Assignable |->
            IF x.app = req[r].app /\ x.role \in req[r].changeable /\ x.to \in kind
            THEN 0 ELSE assign[x]], "fill")

DestroyAssignments(r, k, kind) ==
    \/ req[r].form = {} /\ Ended(r, k, "go", "refused")
    \/ req[r].form # {} /\ SearchChangeableRoles(r, k)
    \/ /\ At(r, k, "change")
       /\ IF AssignedRoles(req[r]) \subseteq req[r].changeable
          THEN SetAssign(r, [x \in Assignable |->
                 IF /\ x.app = req[r].app
                    /\ x.role \in req[r].changeable
                    /\ x.to \in kind
                 THEN 0 ELSE assign[x]], "fill")
          ELSE Ended(r, k, "change", "refused")
CreateAssignments(r, k) ==
    /\ At(r, k, "fill")
    /\ LET a == req[r].app
           new == {[app |-> a, role |-> f.role, to |-> f.to] : f \in req[r].form}
       IN IF Exists({a} \cup UNION {{x.role, x.to.user, x.to.org} : x \in new})
          THEN SetAssign(r, [x \in Assignable |-> IF x \in new THEN assign[x] + 1
                                                  ELSE assign[x]], "ok")
          ELSE Ended(r, k, "fill", "failed")
AuthorizeUsers(r) ==
    \/ DestroyAssignments(r, "authorize_users", {h \in Holders : h.org = None})
    \/ CreateAssignments(r, "authorize_users")
AuthorizeOrganizations(r) ==
    \/ DestroyAssignments(r, "authorize_organizations", {h \in Holders : h.user = None})
    \/ CreateAssignments(r, "authorize_organizations")

\* The API: findOrCreate of one row, and destroy.
ItsRow(q) ==
    [app |-> q.app, role |-> q.role,
     to |-> IF q.org = None THEN OfUser(q.who) ELSE OfOrg(q.org, q.how)]
AddRoleTo(r, k) ==
    \/ Reading(r, k, "change", [req[r] EXCEPT !.st =
         IF req[r].role \notin req[r].changeable THEN "refused"
         ELSE IF assign[ItsRow(req[r])] > 0 THEN "ok" ELSE "second"])
    \/ /\ At(r, k, "second")
       /\ LET x == ItsRow(req[r])
          IN IF Exists({x.app, x.role, x.to.user, x.to.org})
             THEN SetAssign(r, [assign EXCEPT ![x] = @ + 1], "ok")
             ELSE Ended(r, k, "second", "failed")

RemoveRoleFrom(r, k) ==
    /\ At(r, k, "change")
    /\ IF req[r].role \notin req[r].changeable
       THEN Ended(r, k, "change", "refused")
       ELSE SetAssign(r, [assign EXCEPT ![ItsRow(req[r])] = 0],
                      IF assign[ItsRow(req[r])] > 0 THEN "ok" ELSE "missing")
UserAddRole(r) == AddRoleTo(r, "api_user_addRole")
UserRemoveRole(r) == RemoveRoleFrom(r, "api_user_removeRole")
OrgAddRole(r) == AddRoleTo(r, "api_org_role_addRole")
OrgRemoveRole(r) == RemoveRoleFrom(r, "api_org_role_removeRole")

RoleStep(r) ==
    \/ CreateRole(r) \/ CreatePermission(r) \/ ApiCreateRole(r)
    \/ ApiCreatePermission(r) \/ EditRole(r) \/ EditPermission(r)
    \/ ApiUpdateRole(r) \/ ApiUpdatePermission(r)
    \/ DeleteRole(r) \/ DeletePermission(r) \/ ApiDeleteRole(r)
    \/ ApiDeletePermission(r)
    \/ DestroyGrants(r) \/ CreateGrants(r) \/ ApiCreateGrant(r) \/ ApiDeleteGrant(r)
    \/ \E k \in AssignApiKinds : SearchChangeableRoles(r, k)
    \/ AuthorizeUsers(r) \/ AuthorizeOrganizations(r)
    \/ UserAddRole(r) \/ UserRemoveRole(r) \/ OrgAddRole(r) \/ OrgRemoveRole(r)
=============================================================================
