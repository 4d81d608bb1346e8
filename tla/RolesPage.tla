----------------------------- MODULE RolesPage ------------------------------
(***************************************************************************)
(* The page where the roles and permissions of an application are managed  *)
(* (src/fiware-idm/public/javascripts/applications: handle_roles.js,       *)
(* handle_permissions.js, handle_usage_policies.js and                     *)
(* handle_assign_permissions_roles.js) and what the server does with what  *)
(* it posts (controllers/web/roles.js, usage_policies.js).                 *)
(*                                                                         *)
(* The page asks for the roles and for the usage policies at once, and     *)
(* each answer writes the global application.  Which role a click on a     *)
(* permission is for is read from the class "active" that Bootstrap moves; *)
(* which way it goes is read from the class "active" of the permission.    *)
(***************************************************************************)
EXTENDS Integers, Sequences, FiniteSets, SequencesExt, Functions, Positions,
        Browser

CONSTANTS
    Ids, Perms, Policies, \* roles, permissions and policies there ever are
    Provider,             \* the role that comes with Keyrock
    MaxClicks             \* bound: clicks on permissions and policies

\* Identifiers are random, and there are as many as were ever made.
ASSUME RolesAssumption ==
    /\ IsFiniteSet(Perms) /\ IsFiniteSet(Policies)
    /\ Ids \cap Perms = {} /\ Ids \cap Policies = {} /\ Perms \cap Policies = {}
    /\ Provider \in Ids /\ None \notin Ids

Own == Ids \ {Provider}

VARIABLES
    db,          \* rows of the server: roles, permissions, policies, and the
                 \* pairs of role_permission and of role_usage_policy
    awaited,     \* what the page has asked for and has not arrived
    read,        \* what the server has read of it: the answers on their way
    application, \* the global of that name
    policies,    \* the array of that name
    rendered,    \* what has a row on the page
    forms,       \* the roles whose row is a form with the name
    puts,        \* the names that were sent and not answered
    active,      \* the role with the class "active", or None
    visible,     \* which of the two lists are on the screen
    marked,      \* permissions and policies with the class "active"
    saved,       \* how the form was answered
    shown, chosen, rash, clicks \* history, of the properties below

rolesVars == <<db, awaited, read, application, policies, rendered, forms, puts, active,
               visible, marked, saved, shown, chosen, rash, clicks>>

\* The permissions or the policies of each role that has any.
ByRole(rows) ==
    [r \in {x[1] : x \in rows} |-> SetToSeq({x[2] : x \in {y \in rows : y[1] = r}})]
Listed(f, r) == IF r \in DOMAIN f THEN ToSet(f[r]) ELSE {}
Pairs(f) == UNION {{r} \X Listed(f, r) : r \in DOMAIN f}

RolesInit ==
    /\ \E rs \in {S \in SUBSET Own : S # {}}, ps \in SUBSET Perms, qs \in SUBSET Policies :
          \E as \in SUBSET (rs \X ps), us \in SUBSET (rs \X qs) :
             db = [roles |-> rs \cup {Provider}, permissions |-> ps, policies |-> qs,
                   assigned |-> as, used |-> us]
    /\ awaited = {"roles", "policies"}
    /\ read = [roles |-> None, policies |-> None]
    /\ application = [id |-> "", roles |-> {}, permissions |-> {},
                      role_permission_assign |-> <<>>, role_policy_assign |-> <<>>]
    /\ policies = {} /\ rendered = {} /\ forms = {} /\ puts = {} /\ active = None
    /\ visible = {} /\ marked = {} /\ saved = "no"
    /\ shown = None /\ chosen = db.assigned \cup db.used /\ rash = FALSE /\ clicks = 0

OnPage == saved = "no"

-----------------------------------------------------------------------------
(* The answers to what the page asks for when it is ready. *)

\* What the server reads for each of them; with the first, no policies.
SentRoles == [id |-> "application", roles |-> db.roles, permissions |-> db.permissions,
              role_permission_assign |-> ByRole(db.assigned),
              role_policy_assign |-> <<>>]
SentPolicies == [usage_policies |-> db.policies,
                 role_usage_policy_assign |-> ByRole(db.used)]
ReadRoles ==
    /\ OnPage /\ "roles" \in awaited /\ read.roles = None
    /\ read' = [read EXCEPT !.roles = SentRoles]
    /\ UNCHANGED <<db, awaited, application, policies, rendered, forms, puts, active,
                   visible, marked, saved, shown, chosen, rash, clicks>>
ReadPolicies ==
    /\ OnPage /\ "policies" \in awaited /\ read.policies = None
    /\ read' = [read EXCEPT !.policies = SentPolicies]
    /\ UNCHANGED <<db, awaited, application, policies, rendered, forms, puts, active,
                   visible, marked, saved, shown, chosen, rash, clicks>>

\* The whole global is replaced; rows are added to those that are there.
ManageRoles ==
    /\ OnPage /\ "roles" \in awaited /\ read.roles # None
    /\ awaited' = awaited \ {"roles"} /\ read' = [read EXCEPT !.roles = None]
    /\ application' = read.roles
    /\ rendered' = rendered \cup read.roles.roles \cup read.roles.permissions
    /\ rash' = (rash \/ "policies" \notin awaited)
    /\ UNCHANGED <<db, policies, forms, puts, active, visible, marked, saved,
                   shown, chosen, clicks>>
\* The array is replaced and its rows are added, without a mark, whichever role
\* is shown: a policy created before keeps its row, not its place in the array.
UsagePolicies ==
    /\ OnPage /\ "policies" \in awaited /\ read.policies # None
    /\ awaited' = awaited \ {"policies"} /\ read' = [read EXCEPT !.policies = None]
    /\ policies' = read.policies.usage_policies
    /\ rendered' = rendered \cup read.policies.usage_policies
    /\ application' = [application EXCEPT
                         !.role_policy_assign = read.policies.role_usage_policy_assign]
    /\ rash' = (rash \/ shown # None)
    /\ UNCHANGED <<db, forms, puts, active, visible, marked, saved, shown, chosen,
                   clicks>>
NoAnswer ==
    /\ OnPage
    /\ \E a \in awaited : awaited' = awaited \ {a} /\ read' = [read EXCEPT ![a] = None]
    /\ rash' = TRUE
    /\ UNCHANGED <<db, application, policies, rendered, forms, puts, active, visible,
                   marked, saved, shown, chosen, clicks>>

-----------------------------------------------------------------------------
(* Looking at a role. *)

\* Mutation: the marks of the role shown before are added to, not replaced.
MarksAdding(r) ==
    marked \cup Listed(application.role_permission_assign, r)
           \cup Listed(application.role_policy_assign, r)
\* Only the rows of what is in the two arrays are marked anew.
Marks(r) ==
    (Listed(application.role_permission_assign, r) \cap application.permissions)
      \cup (Listed(application.role_policy_assign, r) \cap policies)
      \cup (marked \ (application.permissions \cup policies))
Show(r) ==
    /\ marked' = Marks(r) /\ visible' = {"permissions", "policies"} /\ shown' = r

Rows == (rendered \cap Ids) \ forms
ClickRole(r) ==
    /\ OnPage /\ r \in Rows /\ Show(r) /\ active' = r
    /\ UNCHANGED <<db, awaited, read, application, policies, rendered, forms, puts, saved,
                   chosen, rash, clicks>>

\* The row is replaced by a form before the click reaches the list of roles,
\* which shows the role, and never reaches the handler that moves "active".
EditName(r) ==
    /\ OnPage /\ r \in Rows \ {Provider} /\ Show(r)
    /\ forms' = forms \cup {r}
    /\ active' = IF active = r THEN None ELSE active
    /\ UNCHANGED <<db, awaited, read, application, policies, rendered, puts, saved, chosen,
                   rash, clicks>>
\* The name comes from the array.
CancelName(r) ==
    /\ OnPage /\ r \in forms \cap application.roles /\ forms' = forms \ {r}
    /\ UNCHANGED <<db, awaited, read, application, policies, rendered, puts, active,
                   visible, marked, saved, shown, chosen, rash, clicks>>
SubmitName(r) ==
    /\ OnPage /\ r \in forms \ puts /\ puts' = puts \cup {r}
    /\ UNCHANGED <<db, awaited, read, application, policies, rendered, forms, active,
                   visible, marked, saved, shown, chosen, rash, clicks>>
\* A new row, without the class, in the place of the form or of the row there.
NameAnswered(r, ok) ==
    /\ OnPage /\ r \in puts /\ puts' = puts \ {r}
    /\ IF ok THEN /\ forms' = forms \ {r}
                  /\ active' = IF active = r THEN None ELSE active
       ELSE UNCHANGED <<forms, active>>
    /\ UNCHANGED <<db, awaited, read, application, policies, rendered, visible, marked,
                   saved, shown, chosen, rash, clicks>>

-----------------------------------------------------------------------------
(* Choosing.  A click on the mark of a permission goes by the mark. *)

Toggled(f, r, x) ==
    LET l == IF r \in DOMAIN f THEN f[r] ELSE <<>>
        new == IF x \notin marked THEN Append(l, x)
               ELSE IF x \in ToSet(l) THEN RemoveFirst(l, x) ELSE l
    IN  [s \in DOMAIN f \cup {r} |-> IF s = r THEN new ELSE f[s]]
Chose(x) ==
    /\ marked' = IF x \in marked THEN marked \ {x} ELSE marked \cup {x}
    /\ chosen' = IF x \in marked THEN chosen \ {<<shown, x>>}
                 ELSE chosen \cup {<<shown, x>>}
    /\ rash' = (rash \/ shown = None \/ active # shown)
    /\ clicks' = clicks + 1
    /\ UNCHANGED <<db, awaited, read, policies, rendered, forms, puts, active, visible,
                   saved, shown>>

ClickPermission(p) ==
    /\ OnPage /\ clicks < MaxClicks
    /\ "permissions" \in visible /\ p \in rendered
    /\ active # Provider /\ shown # Provider  \* whose permissions are another list
    /\ application' = [application EXCEPT !.role_permission_assign = Toggled(@, active, p)]
    /\ Chose(p)
ClickPolicy(q) ==
    /\ OnPage /\ clicks < MaxClicks
    /\ "policies" \in visible /\ q \in rendered
    /\ application' = [application EXCEPT !.role_policy_assign = Toggled(@, active, q)]
    /\ Chose(q)

-----------------------------------------------------------------------------
(* Creating and deleting, in dialogs that stay until they are answered.    *)
(* All but the creation of a role and of a policy are sent to an address   *)
(* made with the application's id, which comes with the roles.             *)

CreateRole(r) ==
    /\ OnPage /\ r \in Own \ db.roles
    /\ db' = [db EXCEPT !.roles = @ \cup {r}]
    /\ application' = [application EXCEPT !.roles = @ \cup {r}]
    /\ rendered' = rendered \cup {r}
    /\ rash' = (rash \/ "roles" \in awaited)
    /\ UNCHANGED <<awaited, read, policies, forms, puts, active, visible, marked, saved,
                   shown, chosen, clicks>>
CreatePermission(p) ==
    /\ OnPage /\ application.id # "" /\ p \in Perms \ db.permissions
    /\ db' = [db EXCEPT !.permissions = @ \cup {p}]
    /\ application' = [application EXCEPT !.permissions = @ \cup {p}]
    /\ rendered' = rendered \cup {p}
    /\ UNCHANGED <<awaited, read, policies, forms, puts, active, visible, marked, saved,
                   shown, chosen, rash, clicks>>
CreatePolicy(q) ==
    /\ OnPage /\ q \in Policies \ db.policies
    /\ db' = [db EXCEPT !.policies = @ \cup {q}]
    /\ policies' = policies \cup {q}
    /\ rendered' = rendered \cup {q}
    /\ rash' = (rash \/ "policies" \in awaited)
    /\ UNCHANGED <<awaited, read, application, forms, puts, active, visible, marked,
                   saved, shown, chosen, clicks>>

Dropped(rows, x) == {y \in rows : x \notin {y[1], y[2]}}
\* The click on its icon has shown the role.  The list of permissions is
\* hidden, that of policies is not, and the role keeps its entry there.
DeleteRole(r) ==
    /\ OnPage /\ r \in Rows \ {Provider} /\ application.id # ""
    /\ db' = [db EXCEPT !.roles = @ \ {r}, !.assigned = Dropped(@, r),
                        !.used = Dropped(@, r)]
    /\ application' = [application EXCEPT !.roles = @ \ {r},
                         !.role_permission_assign = Restrict(@, DOMAIN @ \ {r})]
    /\ marked' = Marks(r) /\ visible' = {"policies"} /\ shown' = None /\ active' = None
    /\ rendered' = rendered \ {r}
    /\ chosen' = Dropped(chosen, r)
    /\ rash' = \/ rash \/ r \in puts \/ "policies" \in awaited
               \/ r \in DOMAIN application.role_policy_assign
    /\ UNCHANGED <<awaited, read, policies, forms, puts, saved, clicks>>

\* Mutation: a deleted permission stays with the roles that have it.
DeletePermissionKept(p) ==
    /\ OnPage /\ "permissions" \in visible /\ p \in rendered /\ application.id # ""
    /\ shown # Provider
    /\ db' = [db EXCEPT !.permissions = @ \ {p}, !.assigned = Dropped(@, p)]
    /\ application' = [application EXCEPT !.permissions = @ \ {p}]
    /\ marked' = marked \ {p} /\ visible' = visible \ {"permissions"}
    /\ rendered' = rendered \ {p} /\ chosen' = Dropped(chosen, p)
    /\ UNCHANGED <<awaited, read, policies, forms, puts, active, saved, shown, rash,
                   clicks>>
DeletePermission(p) ==
    /\ OnPage /\ "permissions" \in visible /\ p \in rendered /\ application.id # ""
    /\ shown # Provider
    /\ db' = [db EXCEPT !.permissions = @ \ {p}, !.assigned = Dropped(@, p)]
    /\ application' = [application EXCEPT !.permissions = @ \ {p},
                         !.role_permission_assign =
                            [r \in DOMAIN @ |-> Omit(@[r], {p})]]
    /\ marked' = marked \ {p} /\ visible' = visible \ {"permissions"}
    /\ rendered' = rendered \ {p} /\ chosen' = Dropped(chosen, p)
    /\ UNCHANGED <<awaited, read, policies, forms, puts, active, saved, shown, rash,
                   clicks>>

-----------------------------------------------------------------------------
(* Saving.  The rows of the roles that are posted are deleted by one       *)
(* statement and those posted created by another, which the foreign keys   *)
(* refuse as a whole.                                                      *)

Posted(f) == Pairs(Restrict(f, DOMAIN f \ {Provider}))
Accepted(f, xs) == Posted(f) \subseteq db.roles \X xs
Replaced(old, f, xs) ==
    {y \in old : y[1] \notin DOMAIN f \ {Provider}}
      \cup (IF Accepted(f, xs) THEN Posted(f) ELSE {})
UpdateAccessControl ==
    Replaced(db.assigned, application.role_permission_assign, db.permissions)
UpdateUsageControl ==
    Replaced(db.used, application.role_policy_assign, db.policies)
Save ==
    /\ OnPage
    /\ db' = [db EXCEPT !.assigned = UpdateAccessControl, !.used = UpdateUsageControl]
    /\ saved' = IF /\ Accepted(application.role_permission_assign, db.permissions)
                   /\ Accepted(application.role_policy_assign, db.policies)
                THEN "saved" ELSE "error"
    /\ UNCHANGED <<awaited, read, application, policies, rendered, forms, puts, active,
                   visible, marked, shown, chosen, rash, clicks>>

RolesNext ==
    \/ ReadRoles \/ ReadPolicies \/ ManageRoles \/ UsagePolicies \/ NoAnswer \/ Save
    \/ \E r \in Ids : \/ ClickRole(r) \/ EditName(r) \/ CancelName(r) \/ SubmitName(r)
                      \/ CreateRole(r) \/ DeleteRole(r)
                      \/ \E ok \in BOOLEAN : NameAnswered(r, ok)
    \/ \E p \in Perms : ClickPermission(p) \/ CreatePermission(p) \/ DeletePermission(p)
    \/ \E q \in Policies : ClickPolicy(q) \/ CreatePolicy(q)
RolesSpec == RolesInit /\ [][RolesNext]_rolesVars

-----------------------------------------------------------------------------
\* What is stored after the page is saved is what the person chose: every role
\* has the permissions and the policies that it had, with those changed that
\* were clicked while it was shown.  This takes the roles to be answered before
\* the policies and these before a role is shown or deleted, no role or policy
\* to be created before the answer that lists its like, no click on a
\* permission or a policy between the edit of a name, or the deletion of a role,
\* and the next click on a role, and no deletion of a role that has policies.
SavedAsChosen ==
    (saved # "no" /\ ~rash) =>
        /\ saved = "saved"
        /\ \A y \in db.assigned \cup db.used \cup chosen :
              y[1] \in Own => (y \in db.assigned \cup db.used <=> y \in chosen)

\* The marks say what a click will do: of the role that is shown, what is
\* marked is what will be posted for it, once, with the exceptions above.  (A
\* policy created before the answer to handle_usage_policies.js:16-38 that does
\* not list it keeps a row that is not marked anew for any role.)
MarksAgree ==
    (shown \in Own /\ visible = {"permissions", "policies"} /\ ~rash) =>
        LET posted(f) == IF shown \in DOMAIN f THEN f[shown] ELSE <<>>
            a == posted(application.role_permission_assign)
            u == posted(application.role_policy_assign)
        IN  marked = ToSet(a \o u) /\ IsInjective(a \o u)
=============================================================================
