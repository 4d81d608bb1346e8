------------------------------ MODULE Keyrock -------------------------------
(***************************************************************************)
(* The handlers of Organizations, Applications, Roles and Decisions on the *)
(* tables of Directory at the same time, while an administrator deletes    *)
(* accounts (src/fiware-idm/controllers/web/list_users.js).                *)
(***************************************************************************)
EXTENDS Decisions

DeleteAccount(u) ==
    /\ "user_delete" \in scene.kinds /\ Here(u)
    /\ Delete({u})
    /\ req' = [s \in Reqs |-> [req[s] EXCEPT !.quiet = FALSE]]
    /\ UNCHANGED scene

NewRequest(r) == \/ NewOrgRequest(r) \/ NewAppRequest(r) \/ NewRoleRequest(r)
                 \/ NewDecision(r)
Handle(r) == \/ Check(r) \/ OrganizationStep(r) \/ ApplicationStep(r) \/ RoleStep(r)
             \/ DecisionStep(r)

Next ==
    \/ \E r \in Reqs : NewRequest(r) \/ Handle(r)
    \/ \E u \in Users : DeleteAccount(u)

Spec == Init /\ [][Next]_vars

\* The event loop and the database go on with every request that can go on.
FairSpec == Spec /\ \A r \in Reqs : WF_vars(Handle(r))

-----------------------------------------------------------------------------
TypeOK ==
    /\ row \in [Ids -> {"free", "here", "gone"}]
    /\ of \in [Roles \cup Perms \cup Agents \cup Proxies -> Apps \cup {None}]
    /\ member \subseteq MemberRow /\ fresh \in 1..(MaxRows + 1)
    /\ assign \in [Assignable -> Nat] /\ grant \in [Grantable -> Nat]
    /\ trust \subseteq Apps \X Apps /\ admin \subseteq Users
    /\ token \in [Apps -> [jwt : BOOLEAN, openid : BOOLEAN, secret : BOOLEAN]]
    /\ pass \in [Agents \cup Proxies -> Reqs \cup {None}]
    /\ req \in [Reqs -> ReqType]
    /\ scene \in Scenarios

\* The tables are well formed, every row that links two others finds both, and
\* nobody is assigned a role in an application whose role it is not, whatever a
\* form names and however the handlers and the deletions interleave.  (A role
\* may be granted the permission of another application: role_permissions_assign
\* takes the ids of the form as they come.)
Belongs(x, a) == x \in Internal \/ (Here(x) /\ of[x] = a)
AllHere(X) == \A x \in X \cap Ids : Here(x)
RowsFit ==
    /\ TypeOK
    /\ \A x \in DOMAIN of : Here(x) => Here(of[x])
    /\ \A m \in member : Here(m.org) /\ Here(m.user)
    /\ \A k \in Assignable : assign[k] > 0 =>
          Here(k.app) /\ Belongs(k.role, k.app) /\ AllHere({k.to.user, k.to.org})
    /\ \A k \in Grantable : grant[k] > 0 => AllHere({k.role, k.perm})
    /\ \A t \in trust : Here(t[1]) /\ Here(t[2]) /\ t[1] # t[2]
    /\ \A u \in admin : Here(u)

-----------------------------------------------------------------------------
(* The check of permissions, against a definition of its own: what the     *)
(* assignments, the memberships and the grants give someone at one moment. *)

Holds(u, a, x) ==
    \/ assign[[app |-> a, role |-> x, to |-> OfUser(u)]] > 0
    \/ \E m \in member :
          m.user = u /\ assign[[app |-> a, role |-> x, to |-> OfOrg(m.org, m.role)]] > 0
May(u, a, p) == \E x \in AllRoles : Holds(u, a, x) /\ p \in PermsOf(x)
Entitled(q) == q.kind \in AppKinds /\ \E p \in Needs(q.kind) : May(q.by, q.app, p)

\* A request that nothing has disturbed gets past the check if, and only if,
\* one of the roles its user holds, himself or as a member or an owner of an
\* organization, has a permission that its route asks for.
CheckExact ==
    \A r \in Reqs : req[r].kind \in AppKinds /\ req[r].quiet =>
       /\ req[r].st \in {"denied", "silent"} => ~Entitled(req[r])
       /\ req[r].st \in {"params", "go"} => Entitled(req[r])

\* A decision that nothing has disturbed permits exactly what a role of the
\* user allows there, his own or that of an organization of his, and only to
\* the application itself or to one that trusts it.
MayThere(q) == \E x \in Roles, p \in q.form :
                  /\ Holds(q.by, q.app, x) /\ grant[[role |-> x, perm |-> p]] > 0
                  /\ Here(p) /\ of[p] = q.app
DecisionExact ==
    \A r \in Reqs : LET q == req[r] IN q.quiet =>
       /\ q.st = "permit" => MayThere(q)
       /\ q.st = "deny" => ~MayThere(q)
       /\ q.st \in {"permit", "deny"} =>
            q.who \in {None, q.app} \/ <<q.who, q.app>> \in trust
       /\ q.kind = "access_token_info" /\ q.st \in {"ok", "refused"} =>
            /\ q.held = {x \in Roles : Holds(q.by, q.app, x)}
            /\ q.st = "ok" <=> \E x \in AllRoles : Holds(q.by, q.app, x)

-----------------------------------------------------------------------------
(* What an answered request has done. *)

Keys(q, kind) == {k \in Assignable : k.app = q.app /\ k.to \in kind}
Users1 == {h \in Holders : h.org = None}
Orgs1 == {h \in Holders : h.user = None}
FormHeld(q, kind) ==
    \A k \in Keys(q, kind) : k.role \in q.changeable \cup {f.role : f \in q.form} =>
       assign[k] = IF [to |-> k.to, role |-> k.role] \in q.form THEN 1 ELSE 0

\* A dialog that was saved while nobody else wrote leaves exactly the rows its
\* form names: no row it dropped, none twice, and no role that the editor was
\* not allowed to change.  A role that the API has added is there (twice, if two
\* dialogs saved at once had put it there twice before).
SavedAsPosted ==
    \A r \in Reqs : LET q == req[r] IN q.quiet /\ q.st = "ok" =>
       /\ q.kind = "authorize_users" => FormHeld(q, Users1)
       /\ q.kind = "authorize_organizations" => FormHeld(q, Orgs1)
       /\ q.kind = "role_permissions_assign" =>
            \A k \in Grantable : k.role \in FormRoles(q) =>
               grant[k] = IF k \in q.form THEN 1 ELSE 0
       /\ q.kind = "authorize_trusted_applications" =>
            {t[2] : t \in TrustedBy(q.app)} = q.form \ {q.app}
       /\ q.kind = "add_members" =>
            {[user |-> m.user, role |-> m.role] : m \in {m \in member : m.org = q.org}}
              = q.form
       /\ q.kind = "update_administrators" => admin = {u \in q.form : Here(u)}
       /\ q.kind \in {"api_user_addRole", "api_org_role_addRole"} =>
            assign[ItsRow(q)] > 0
       /\ q.kind = "addRole" =>
            \E m \in member : m.org = q.org /\ m.user = q.who /\ m.role = q.how

\* A creation is answered with success only when its maker, or the owners of
\* the organization he chose, are the provider or the owner of what is there;
\* an application whose creation failed for its organization is destroyed.  An
\* agent or proxy is there with the password that was answered, or is deleted.
CreationsComplete ==
    \A r \in Reqs : LET q == req[r] IN q.quiet =>
       /\ q.kind \in {"app_create", "api_app_create"} =>
            /\ q.st = "ok" => Here(q.app) /\ assign[ProviderKey(q)] > 0
            /\ q.st = "failed" => ~Here(q.app) /\ assign[ProviderKey(q)] = 0
       /\ q.kind \in {"org_create", "api_org_create"} =>
            (q.st = "ok" => OwnerRows(q.org, q.by) # {}) /\ q.st # "failed"
       /\ q.who \in Agents \cup Proxies /\ q.st = "ok" =>
            IF pass[q.who] = r THEN Matches(q) ELSE ~Here(q.who)

\* As long as memberships are changed by the pages only, nobody is twice in
\* an organization: of two dialogs saved at once, the one that finds all the
\* rows deleted gives up.
MembersOnce ==
    "addRole" \notin scene.kinds =>
       \A m, n \in member : m.org = n.org /\ m.user = n.user => m = n

\* A request for an application, by someone who is entitled to it all along,
\* is answered.
Answered == {"ok", "refused", "missing", "failed"}
AllowedAnswered ==
    \A r \in Reqs :
       [](req[r].st = "load" /\ [](Entitled(req[r])) => <>(req[r].st \in Answered))
=============================================================================
