--------------------------- MODULE Organizations ----------------------------
(***************************************************************************)
(* Organizations, their members, and the list of administrators:           *)
(*   src/fiware-idm/controllers/web/organizations.js                       *)
(*   src/fiware-idm/controllers/web/manage_members.js                      *)
(*   src/fiware-idm/controllers/web/admins.js                              *)
(*   src/fiware-idm/controllers/api/organizations.js                       *)
(*   src/fiware-idm/controllers/api/user_organization_assignments.js       *)
(* user_organization has no unique index: only the order of a handler's    *)
(* statements keeps a user from having two rows in one organization.       *)
(***************************************************************************)
EXTENDS Directory

OwnerRows(o, u) ==
    {m \in member : m.org = o /\ m.user = u /\ m.role = "owner"}

\* A form of the members dialog names users with their roles.
MemberForms == SUBSET [user : Users, role : MemberRoles]
OneRoleEach(form) == \A f, g \in form : f.user = g.user => f = g

NewOrgRequest(r) ==
    \/ \E k \in {"org_create", "api_org_create"}, u \in Users, o \in Free(Orgs) :
          /\ \A s \in Reqs : req[s].org # o
          /\ Here(u) /\ Arrive(r, [Opened(k, u) EXCEPT !.st = "go", !.org = o])
    \/ \E k \in {"org_update_info", "org_destroy", "org_remove",
                 "api_org_update", "api_org_delete"}, u \in Users, o \in Orgs :
          Here(u) /\ Here(o) /\ Arrive(r, [Opened(k, u) EXCEPT !.org = o])
    \/ \E u \in Users, o \in Orgs, form \in MemberForms :
          /\ Here(u) /\ Here(o) /\ fresh + Cardinality(form) <= MaxRows
          /\ Arrive(r, [Opened("add_members", u) EXCEPT !.org = o, !.form = form])
    \/ \E k \in {"addRole", "removeRole"}, u, w \in Users, o \in Orgs,
          h \in MemberRoles :
          /\ Here(u) /\ Here(w) /\ Here(o)
          /\ Arrive(r, [Opened(k, u) EXCEPT !.org = o, !.who = w, !.how = h])
    \/ \E u \in Users, form \in SUBSET Users : \* the session remembers an admin
          Here(u) /\ Arrive(r, [Opened("update_administrators", u) EXCEPT !.st = "go",
                                                               !.form = form])

-----------------------------------------------------------------------------
(* Before the handlers. *)

LoadOrganization(r) ==
    /\ req[r].kind \in OrgKinds \cup {"org_remove"} /\ req[r].st = "load"
    /\ LET next == IF ~Here(req[r].org) THEN "missing"
                   ELSE IF req[r].kind = "org_remove" THEN "go" ELSE "owner"
       IN req' = [req EXCEPT ![r].st = next]
    /\ UNCHANGED <<tables, scene>>

\* Only owners go on.  The API then loads the user of the path.
OwnersOnly(r) ==
    /\ req[r].kind \in OrgKinds /\ req[r].st = "owner"
    /\ LET next == IF OwnerRows(req[r].org, req[r].by) = {} THEN "denied"
                   ELSE IF req[r].kind \in {"addRole", "removeRole"}
                   THEN "params" ELSE "go"
       IN req' = [req EXCEPT ![r].st = next]
    /\ UNCHANGED <<tables, scene>>

-----------------------------------------------------------------------------
(* The pages. *)

\* create: the organization is saved, then its owner; if the user is gone by
\* then, the catch looks for a list of errors a foreign key does not give,
\* throws, and nothing is answered.
SaveOrganization(r, k) ==
    /\ At(r, k, "go")
    /\ row' = [row EXCEPT ![req[r].org] = "here"]
    /\ Wrote(r, "second")
    /\ UNCHANGED <<of, member, fresh, assign, grant, trust, admin, token, pass>>

CreateOwner(r, k, failed) ==
    /\ At(r, k, "second")
    /\ IF Exists({req[r].org, req[r].by}) /\ fresh <= MaxRows
       THEN /\ member' = member \cup
                 {[id |-> fresh, org |-> req[r].org, user |-> req[r].by,
                   role |-> "owner"]}
            /\ fresh' = fresh + 1
            /\ Wrote(r, "ok")
            /\ UNCHANGED <<row, of, assign, grant, trust, admin, token, pass>>
       ELSE /\ ~Exists({req[r].org, req[r].by})
            /\ Ended(r, k, "second", failed)

\* The columns of an organization are not modelled: update_info only answers,
\* and says the same whether the row is still there or not.
UpdateInfo(r) == Ended(r, "org_update_info", "go", "ok")
ApiUpdateOrganization(r) == Ended(r, "api_org_update", "go", "ok")

DestroyOrganization(r) ==
    /\ At(r, "org_destroy", "go")
    /\ Delete({req[r].org}) /\ Wrote(r, "ok")

ApiDeleteOrganization(r) ==
    /\ At(r, "api_org_delete", "go")
    /\ Delete({req[r].org}) /\ Wrote(r, "ok")

\* remove: whoever leaves must be a member, and is told so in any case.
Remove(r) ==
    /\ At(r, "org_remove", "go")
    /\ member' = {m \in member : ~(/\ m.org = req[r].org
                                   /\ m.user = req[r].by
                                   /\ m.role = "member")}
    /\ Wrote(r, "ok")
    /\ UNCHANGED <<row, of, fresh, assign, grant, trust, admin, token, pass>>

\* Mutation: the dialog goes on when it has found nothing to delete.
DestroyMembersAlways(r) ==
    /\ At(r, "add_members", "go") /\ OneRoleEach(req[r].form)
    /\ member' = {m \in member : m.org # req[r].org}
    /\ Wrote(r, "fill")
    /\ UNCHANGED <<row, of, fresh, assign, grant, trust, admin, token, pass>>

\* add_members: a form that names a user twice is turned down.  Then all rows
\* of the organization go; the new ones are inserted only if some went, by one
\* statement that a missing user fails as a whole.
DestroyMembers(r) ==
    /\ At(r, "add_members", "go")
    /\ IF OneRoleEach(req[r].form)
       THEN /\ member' = {m \in member : m.org # req[r].org}
            /\ Wrote(r, IF member' = member THEN "failed" ELSE "fill")
            /\ UNCHANGED <<row, of, fresh, assign, grant, trust, admin, token, pass>>
       ELSE Ended(r, "add_members", "go", "failed")

CreateMembers(r) ==
    /\ At(r, "add_members", "fill")
    /\ IF Exists({req[r].org} \cup {f.user : f \in req[r].form})
       THEN /\ fresh + Cardinality(req[r].form) <= MaxRows + 1
            /\ \E ids \in [req[r].form -> fresh..(fresh + Cardinality(req[r].form) - 1)] :
                 /\ \A f, g \in req[r].form : ids[f] = ids[g] => f = g
                 /\ member' = member \cup
                      {[id |-> ids[f], org |-> req[r].org, user |-> f.user,
                        role |-> f.role] : f \in req[r].form}
            /\ fresh' = fresh + Cardinality(req[r].form)
            /\ Wrote(r, "ok")
            /\ UNCHANGED <<row, of, assign, grant, trust, admin, token, pass>>
       ELSE Ended(r, "add_members", "fill", "failed")

\* update_administrators: the list is read, then those who are new to it are
\* written, then those who left it.
ReadAdministrators(r) ==
    Reading(r, "update_administrators", "go",
            [req[r] EXCEPT !.st = "change", !.admins = admin])

AddAdministrators(r) ==
    /\ At(r, "update_administrators", "change")
    /\ admin' = admin \cup {u \in req[r].form \ req[r].admins : Here(u)}
    /\ Wrote(r, "second")
    /\ UNCHANGED <<row, of, member, fresh, assign, grant, trust, token, pass>>

RemoveAdministrators(r) ==
    /\ At(r, "update_administrators", "second")
    /\ admin' = admin \ (req[r].admins \ req[r].form)
    /\ Wrote(r, "ok")
    /\ UNCHANGED <<row, of, member, fresh, assign, grant, trust, token, pass>>

-----------------------------------------------------------------------------
(* The REST API. *)

\* addRole: a row of the user is found, if there is one, and saved by its id.
FindMember(r) ==
    /\ At(r, "addRole", "go")
    /\ LET rows == {m \in member : m.org = req[r].org /\ m.user = req[r].who}
       IN \E m \in IF rows = {} THEN {None} ELSE rows :
             Reading(r, "addRole", "go",
                     [req[r] EXCEPT !.st = "change", !.found = m])

SaveMember(r) ==
    /\ At(r, "addRole", "change") /\ req[r].found # None
    /\ member' = {IF m.id = req[r].found.id THEN [m EXCEPT !.role = req[r].how]
                  ELSE m : m \in member}
    /\ Wrote(r, "ok")
    /\ UNCHANGED <<row, of, fresh, assign, grant, trust, admin, token, pass>>

CreateMember(r) ==
    /\ At(r, "addRole", "change") /\ req[r].found = None
    /\ IF Exists({req[r].org, req[r].who})
       THEN /\ fresh <= MaxRows
            /\ member' = member \cup
                 {[id |-> fresh, org |-> req[r].org, user |-> req[r].who,
                   role |-> req[r].how]}
            /\ fresh' = fresh + 1
            /\ Wrote(r, "ok")
            /\ UNCHANGED <<row, of, assign, grant, trust, admin, token, pass>>
       ELSE Ended(r, "addRole", "change", "failed")

RemoveRole(r) ==
    /\ At(r, "removeRole", "go")
    /\ member' = {m \in member : ~(/\ m.org = req[r].org
                                   /\ m.user = req[r].who
                                   /\ m.role = req[r].how)}
    /\ Wrote(r, IF member' = member THEN "missing" ELSE "ok")
    /\ UNCHANGED <<row, of, fresh, assign, grant, trust, admin, token, pass>>

OrganizationStep(r) ==
    \/ LoadOrganization(r) \/ OwnersOnly(r)
    \/ SaveOrganization(r, "org_create") \/ CreateOwner(r, "org_create", "hung")
    \/ SaveOrganization(r, "api_org_create")
    \/ CreateOwner(r, "api_org_create", "failed")
    \/ UpdateInfo(r) \/ ApiUpdateOrganization(r)
    \/ DestroyOrganization(r) \/ ApiDeleteOrganization(r) \/ Remove(r)
    \/ DestroyMembers(r) \/ CreateMembers(r)
    \/ ReadAdministrators(r) \/ AddAdministrators(r) \/ RemoveAdministrators(r)
    \/ FindMember(r) \/ SaveMember(r) \/ CreateMember(r) \/ RemoveRole(r)
=============================================================================
