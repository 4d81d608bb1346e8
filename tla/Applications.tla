---------------------------- MODULE Applications ----------------------------
(***************************************************************************)
(* Applications, their kind of tokens, their IoT agents and PEP proxies,   *)
(* and the applications they trust:                                        *)
(*   src/fiware-idm/controllers/web/applications.js, iot_agents.js,        *)
(*     pep_proxies.js, trusted_apps.js                                     *)
(*   src/fiware-idm/controllers/api/applications.js, iot_agents.js,        *)
(*     pep_proxies.js, trusted_applications.js                             *)
(***************************************************************************)
EXTENDS Organizations

ProxiesOf(a) == {p \in Proxies : Here(p) /\ of[p] = a}

NewAppRequest(r) ==
    \/ \E k \in {"app_create", "api_app_create"}, u \in Users, a \in Free(Apps),
          o \in Orgs \cup {None}, t \in {"kept", "jwt"} :
          /\ \A s \in Reqs : req[s].app # a
          /\ Here(u) /\ (o # None => k = "app_create" /\ Here(o))
          /\ Arrive(r, [Opened(k, u) EXCEPT !.st = "go", !.app = a, !.org = o,
                                            !.types = t])
    \/ \E k \in {"app_update_info", "change_token_type", "api_app_update"},
          u \in Users, a \in Apps, t \in {"kept", "bearer", "jwt"} :
          /\ Here(u) /\ Here(a)
          /\ k = "app_update_info" => t # "bearer"
          /\ k = "change_token_type" => t # "kept"
          /\ Arrive(r, [Opened(k, u) EXCEPT !.app = a, !.types = t])
    \/ \E k \in {"reset_jwt_secret", "app_destroy", "api_app_delete",
                 "api_pep_update", "api_pep_delete"}, u \in Users, a \in Apps :
          Here(u) /\ Here(a) /\ Arrive(r, [Opened(k, u) EXCEPT !.app = a])
    \/ \E u \in Users, a \in Apps, x \in Free(Agents \cup Proxies) :
          /\ Here(u) /\ Here(a) /\ \A s \in Reqs : req[s].who # x
          /\ \E k \in IF x \in Agents THEN {"register_iot", "api_iot_create"}
                      ELSE {"register_pep", "api_pep_create"} :
                Arrive(r, [Opened(k, u) EXCEPT !.app = a, !.who = x])
    \/ \E u \in Users, a \in Apps, x \in Agents \cup Proxies :
          /\ Here(u) /\ Here(a) /\ Here(x)
          /\ \E k \in IF x \in Agents
                      THEN {"delete_iot", "reset_password_iot", "api_iot_update",
                            "api_iot_delete"}
                      ELSE {"delete_pep", "reset_password_pep"} :
                Arrive(r, [Opened(k, u) EXCEPT !.app = a, !.who = x])
    \/ \E u \in Users, a \in Apps, form \in SUBSET Apps :
          /\ Here(u) /\ Here(a)
          /\ Arrive(r, [Opened("authorize_trusted_applications", u)
                          EXCEPT !.app = a, !.form = form])
    \/ \E k \in {"addTrusted", "removeTrusted"}, u \in Users, a, b \in Apps :
          /\ Here(u) /\ Here(a) /\ Here(b)
          /\ Arrive(r, [Opened(k, u) EXCEPT !.app = a, !.who = b])

-----------------------------------------------------------------------------
(* Creation.  An application is saved, then its provider's assignment.     *)

ProviderKey(q) ==
    [app |-> q.app, role |-> "provider",
     to |-> IF q.org = None THEN OfUser(q.by) ELSE OfOrg(q.org, "owner")]
AddProvider(r) ==
    /\ assign' = [assign EXCEPT ![ProviderKey(req[r])] = @ + 1]
    /\ UNCHANGED <<row, of, member, fresh, grant, trust, admin, token, pass>>

\* The columns that save() names: the page leaves out the kind of tokens and
\* the secret, which it sets on the object only.
SaveColumns(a, k, t) ==
    token' = [token EXCEPT ![a] =
        IF k = "app_create"
        THEN [jwt |-> FALSE, openid |-> t = "jwt", secret |-> FALSE]
        ELSE [jwt |-> t = "jwt", openid |-> FALSE, secret |-> t = "jwt"]]
SaveApplication(r, k) ==
    /\ req[r].kind = k /\ ~req[r].saved
    /\ req[r].st \in {"go", "second", "provider", "change"}
    /\ row' = [row EXCEPT ![req[r].app] = "here"]
    /\ SaveColumns(req[r].app, k, req[r].types)
    /\ req' = [s \in Reqs |-> IF s = r
          THEN [req[s] EXCEPT !.saved = TRUE,
                              !.st = IF @ = "go" /\ req[s].org = None THEN "fill" ELSE @]
          ELSE [req[s] EXCEPT !.quiet = FALSE]]
    /\ UNCHANGED <<of, member, fresh, assign, grant, trust, admin, pass, scene>>

\* The user as the provider.  A foreign key error has no list of errors: the
\* page's catch throws on it and nothing is answered.
CreateProvider(r, k, failed) ==
    /\ At(r, k, "fill")
    /\ IF Exists({req[r].app, req[r].by}) THEN AddProvider(r) /\ Wrote(r, "ok")
       ELSE Ended(r, k, "fill", failed)

\* An organization as the provider.  Its owner is looked up, and its row
\* created, while the application is being saved: the row may come first.
LookUpOwner(r) ==
    /\ req[r].org # None
    /\ Reading(r, "app_create", "go", [req[r] EXCEPT !.st =
         IF OwnerRows(req[r].org, req[r].by) = {} THEN "change" ELSE "second"])
CreateOwnersRow(r) ==
    /\ At(r, "app_create", "second")
    /\ IF Exists({req[r].app, req[r].org})
       THEN AddProvider(r) /\ Wrote(r, "provider")
       ELSE Ended(r, "app_create", "second", "change")
AnswerCreated(r) ==
    req[r].saved /\ Ended(r, "app_create", "provider", "ok")
\* Mutation: the failure is answered, and the application stays.
DestroyUnownedNot(r) ==
    /\ At(r, "app_create", "change") /\ req[r].saved
    /\ Ended(r, "app_create", "change", "failed")

\* no_organization: the application that was saved is destroyed again.
DestroyUnowned(r) ==
    /\ At(r, "app_create", "change") /\ req[r].saved
    /\ Delete({req[r].app}) /\ Wrote(r, "failed")

-----------------------------------------------------------------------------
(* The kind of tokens. *)

SetToken(r, a, t, end) ==
    /\ token' = IF Here(a) THEN [token EXCEPT ![a] = t] ELSE token
    /\ Wrote(r, end)
    /\ UNCHANGED <<row, of, member, fresh, assign, grant, trust, admin, pass>>
ItsToken(r) == token[req[r].app]

\* update_info: the statement writes the scope, but has no value for the
\* secret, and the kind of tokens is not among its fields.
AppUpdateInfo(r) ==
    /\ At(r, "app_update_info", "go")
    /\ SetToken(r, req[r].app,
                [ItsToken(r) EXCEPT !.openid = req[r].types = "jwt"], "ok")

ChangeTokenType(r) ==
    /\ At(r, "change_token_type", "go")
    /\ SetToken(r, req[r].app,
                [ItsToken(r) EXCEPT !.jwt = req[r].types = "jwt",
                                    !.secret = req[r].types = "jwt"],
                IF Here(req[r].app) THEN "ok" ELSE "failed")

\* The kind of tokens is the one that was loaded with the application.
ResetJwtSecret(r) ==
    \/ req[r].jwt /\ At(r, "reset_jwt_secret", "go")
       /\ SetToken(r, req[r].app, [ItsToken(r) EXCEPT !.secret = TRUE],
                   IF Here(req[r].app) THEN "ok" ELSE "failed")
    \/ ~req[r].jwt /\ Ended(r, "reset_jwt_secret", "go", "refused")

\* update: the setter of token_types appends to the list it is given, so the
\* column counts as changed and is saved as it was loaded even if the request
\* does not name it; the secret is saved only if it does.
ApiUpdateApplication(r) ==
    /\ At(r, "api_app_update", "go")
    /\ SetToken(r, req[r].app,
         IF req[r].types = "kept" THEN [ItsToken(r) EXCEPT !.jwt = req[r].jwt]
         ELSE [ItsToken(r) EXCEPT !.jwt = req[r].types = "jwt",
                                  !.secret = req[r].types = "jwt"], "ok")

DestroyApplication(r) ==
    /\ At(r, "app_destroy", "go")
    /\ Delete({req[r].app}) /\ Wrote(r, "ok")
ApiDeleteApplication(r) ==
    /\ At(r, "api_app_delete", "go")
    /\ Delete({req[r].app}) /\ Wrote(r, "ok")

-----------------------------------------------------------------------------
(* IoT agents and PEP proxies. *)

\* An agent or proxy and its password, if the application is still there.
Register(r, k, stage) ==
    /\ At(r, k, stage)
    /\ IF Here(req[r].app)
       THEN /\ row' = [row EXCEPT ![req[r].who] = "here"]
            /\ of' = [of EXCEPT ![req[r].who] = req[r].app]
            /\ pass' = [pass EXCEPT ![req[r].who] = r]
            /\ Wrote(r, "ok")
            /\ UNCHANGED <<member, fresh, assign, grant, trust, admin, token>>
       ELSE Ended(r, k, stage, "failed")
RegisterIot(r) == Register(r, "register_iot", "go")
ApiCreateIot(r) == Register(r, "api_iot_create", "go")

\* One proxy for an application: looked for, and registered if there is none.
\* (The page answers that there is one, then fails to answer again.)
RegisterPep(r) ==
    \/ Reading(r, "register_pep", "go", [req[r] EXCEPT !.st =
         IF ProxiesOf(req[r].app) = {} THEN "change" ELSE "refused"])
    \/ Register(r, "register_pep", "change")
ApiCreatePep(r) ==
    \/ Reading(r, "api_pep_create", "go", [req[r] EXCEPT !.st =
         IF ProxiesOf(req[r].app) = {} THEN "change" ELSE "refused"])
    \/ Register(r, "api_pep_create", "change")

\* The page names the row in its statement, and tells if there was one.
Matches(q) == Here(q.who) /\ of[q.who] = q.app
Unregister(r, k) ==
    /\ At(r, k, "go")
    /\ IF Matches(req[r]) THEN Delete({req[r].who}) /\ Wrote(r, "ok")
       ELSE Ended(r, k, "go", "failed")
DeleteIot(r) == Unregister(r, "delete_iot")
DeletePep(r) == Unregister(r, "delete_pep")

NewPassword(r, x, end) ==
    /\ pass' = IF Here(x) THEN [pass EXCEPT ![x] = r] ELSE pass
    /\ Wrote(r, end)
    /\ UNCHANGED <<row, of, member, fresh, assign, grant, trust, admin, token>>
ResetPassword(r, k) ==
    /\ At(r, k, "go")
    /\ IF Matches(req[r]) THEN NewPassword(r, req[r].who, "ok")
       ELSE Ended(r, k, "go", "failed")
ResetPasswordIot(r) == ResetPassword(r, "reset_password_iot")
ResetPasswordPep(r) == ResetPassword(r, "reset_password_pep")

\* The API has loaded the agent, or searches a proxy of the application, and
\* saves or destroys that row by its id, answering the same if it is gone.
ApiUpdateIot(r) ==
    At(r, "api_iot_update", "go") /\ NewPassword(r, req[r].who, "ok")
ApiDeleteIot(r) ==
    At(r, "api_iot_delete", "go") /\ Delete({req[r].who}) /\ Wrote(r, "ok")
SearchPepProxy(r, k) ==
    LET found == ProxiesOf(req[r].app)
    IN \/ \E p \in found :
            Reading(r, k, "go", [req[r] EXCEPT !.st = "change", !.who = p])
       \/ found = {} /\ Ended(r, k, "go", "missing")
ApiUpdatePep(r) ==
    \/ SearchPepProxy(r, "api_pep_update")
    \/ At(r, "api_pep_update", "change") /\ NewPassword(r, req[r].who, "ok")
ApiDeletePep(r) ==
    \/ SearchPepProxy(r, "api_pep_delete")
    \/ At(r, "api_pep_delete", "change") /\ Delete({req[r].who}) /\ Wrote(r, "ok")

-----------------------------------------------------------------------------
(* Trusted applications. *)

SetTrust(r, pairs, end) ==
    /\ trust' = pairs /\ Wrote(r, end)
    /\ UNCHANGED <<row, of, member, fresh, assign, grant, admin, token, pass>>
TrustedBy(a) == {t \in trust : t[1] = a}

DestroyTrusted(r) ==
    /\ At(r, "authorize_trusted_applications", "go")
    /\ SetTrust(r, trust \ TrustedBy(req[r].app), "fill")
CreateTrusted(r) ==
    /\ At(r, "authorize_trusted_applications", "fill")
    /\ LET a == req[r].app
           others == req[r].form \ {a}
       IN IF others = {} \/ Exists({a} \cup others)
          THEN SetTrust(r, trust \cup {<<a, b>> : b \in others}, "ok")
          ELSE Ended(r, "authorize_trusted_applications", "fill", "failed")

\* findOrCreate: one transaction, of a search and an insertion.
AddTrusted(r) ==
    LET pair == <<req[r].app, req[r].who>>
    IN \/ Reading(r, "addTrusted", "go", [req[r] EXCEPT !.st =
            IF req[r].app = req[r].who \/ pair \in trust THEN "refused"
            ELSE "change"])
       \/ /\ At(r, "addTrusted", "change")
          /\ IF Exists({req[r].app, req[r].who})
             THEN SetTrust(r, trust \cup {pair}, "ok")
             ELSE Ended(r, "addTrusted", "change", "failed")
RemoveTrusted(r) ==
    LET pair == <<req[r].app, req[r].who>>
    IN IF pair \in trust /\ At(r, "removeTrusted", "go")
       THEN SetTrust(r, trust \ {pair}, "ok")
       ELSE Ended(r, "removeTrusted", "go", "refused")

ApplicationStep(r) ==
    \/ \E k \in {"app_create", "api_app_create"} : SaveApplication(r, k)
    \/ CreateProvider(r, "app_create", "hung")
    \/ CreateProvider(r, "api_app_create", "failed")
    \/ LookUpOwner(r) \/ CreateOwnersRow(r) \/ AnswerCreated(r) \/ DestroyUnowned(r)
    \/ AppUpdateInfo(r) \/ ChangeTokenType(r) \/ ResetJwtSecret(r)
    \/ ApiUpdateApplication(r) \/ DestroyApplication(r) \/ ApiDeleteApplication(r)
    \/ RegisterIot(r) \/ ApiCreateIot(r) \/ RegisterPep(r) \/ ApiCreatePep(r)
    \/ DeleteIot(r) \/ DeletePep(r) \/ ResetPasswordIot(r) \/ ResetPasswordPep(r)
    \/ ApiUpdateIot(r) \/ ApiDeleteIot(r) \/ ApiUpdatePep(r) \/ ApiDeletePep(r)
    \/ DestroyTrusted(r) \/ CreateTrusted(r) \/ AddTrusted(r) \/ RemoveTrusted(r)
=============================================================================
