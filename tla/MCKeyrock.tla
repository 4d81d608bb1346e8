----------------------------- MODULE MCKeyrock ------------------------------
(* Small instances of Keyrock for TLC: which kinds of requests meet, and   *)
(* the rows that they find.                                                *)
EXTENDS Keyrock, TLC

CONSTANTS First,   \* the rows that are there in every scenario
          Second   \* another application, where there are two
Of(kinds) == [kinds |-> kinds, rows |-> First]
OfTwo(kinds) == [kinds |-> kinds, rows |-> First \cup {Second}]
Alone(rows, kinds) == {[kinds |-> kinds, rows |-> rows \ {u}] : u \in Users}

\* Two requests of kinds that write the same rows, and the end of an account.
Dialogs == {Of(k) : k \in {
    {"authorize_users", "role_delete"},
    {"role_permissions_assign", "permission_delete"},
    {"role_permissions_assign", "api_grant_create"},
    {"add_members", "org_remove"},
    {"add_members", "addRole"}, {"add_members", "user_delete"},
    {"update_administrators", "user_delete"}}}
Singles == {Of({k, "app_destroy"}) :
              k \in AppKinds \ {"authorize_users", "authorize_organizations",
                                "role_permissions_assign", "addTrusted"}}
Others == {Of(k) : k \in {
    {"org_create", "user_delete"}, {"api_org_create", "user_delete"},
    {"api_app_create", "user_delete"},
    {"app_create", "org_destroy", "user_delete"},
    {"org_update_info", "api_org_update", "api_org_delete"},
    {"addRole", "removeRole", "user_delete"}, {"api_user_addRole", "user_delete"},
    {"register_iot", "reset_password_iot"}, {"register_iot", "delete_iot"},
    {"api_iot_create", "api_iot_update"}, {"api_iot_create", "api_iot_delete"},
    {"register_pep", "delete_pep"}, {"register_pep", "reset_password_pep"},
    {"api_pep_create", "api_pep_update", "api_pep_delete"},
    {"api_role_delete", "role_edit"}, {"change_token_type", "reset_jwt_secret"}}}
Trusted == {OfTwo(k) : k \in {
    {"addTrusted", "app_destroy"}, {"addTrusted", "removeTrusted"},
    {"authorize_trusted_applications"}}}
\* Forms that may name the role of another application.
TwoApps == Alone(First \cup {Second}, {"authorize_users", "role_create"})
             \cup Alone(First \cup {Second}, {"role_permissions_assign", "role_create"})
\* A second user adds nothing to what is asked of one, or of organizations.
Asked == Alone(First \cup {Second}, {"resource_request"})
           \cup Alone(First, {"resource_request", "role_delete"})
           \cup Alone(First, {"authorize_organizations", "org_destroy"})
           \cup {Of({"access_token_info"})}
Pairs == Dialogs \cup Singles \cup Others \cup Trusted \cup TwoApps \cup Asked

\* What passes through the check, while its roles and members change.
Checked == {Of(k) : k \in {
    {"app_update_info", "api_user_removeRole"}, {"permission_edit", "add_members"},
    {"api_role_update", "role_delete"}}}
\* Creations and edits of what an application signs its tokens with.
Tokens == {Of({"app_create", "app_update_info", "change_token_type"})}
\* Decisions only read: two of them at once show no more than one.
OneDecision == Cardinality({r \in Reqs : req[r].kind \in DecisionKinds}) <= 1
SafetySymmetry == Permutations(Reqs) \cup Permutations(Users)
=============================================================================
