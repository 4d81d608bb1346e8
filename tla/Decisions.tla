----------------------------- MODULE Decisions ------------------------------
(***************************************************************************)
(* What a policy enforcement point is told about the user of a token:      *)
(*   src/fiware-idm/models/model_oauth_server.js     create_oauth_response *)
(*   src/fiware-idm/controllers/api/authenticate_oauth.js                  *)
(* Both look up the user's organizations, then the roles, then the         *)
(* permissions, by statements that other requests may come between.  The   *)
(* token has been checked before (OAuthTokens).  form holds the            *)
(* permissions whose action and resource are those that are asked for; who *)
(* is the application that asks, when it says so.                          *)
(***************************************************************************)
EXTENDS Roles

\* Bound: one permission matches the action and the resource, or none does.
NewDecision(r) ==
    \E u \in Users, a \in Apps :
       /\ Here(u) /\ Here(a)
       /\ \/ \E match \in {{}} \cup {{p} : p \in OwnPerms(a)},
               b \in {None} \cup {b \in Apps : Here(b)} :
                Arrive(r, [Opened("resource_request", u) EXCEPT
                             !.app = a, !.who = b, !.form = match])
          \/ Arrive(r, [Opened("access_token_info", u) EXCEPT !.app = a])

\* The applications that the asking one trusts.
TrustedApplications(r) ==
    Reading(r, "resource_request", "load",
            [req[r] EXCEPT !.st = "member",
                           !.apps = {t[2] : t \in {t \in trust : t[1] = req[r].who}}])

Memberships(u) == {<<m.org, m.role>> : m \in {m \in member : m.user = u}}
SearchOrganizations(r) ==
    \/ Reading(r, "resource_request", "member",
               [req[r] EXCEPT !.st = "held", !.mem = Memberships(req[r].by)])
    \/ Reading(r, "access_token_info", "load",
               [req[r] EXCEPT !.st = "held", !.mem = Memberships(req[r].by)])

HeldBy(q) == RolesAt(q.app, OfUser(q.by))
               \cup UNION {RolesAt(q.app, OfOrg(m[1], m[2])) : m \in q.mem}

\* Mutation: what the organizations of a user may do is left out.
UserRolesOwn(r) ==
    Reading(r, "resource_request", "held",
            [req[r] EXCEPT !.st = "can",
                           !.held = RolesAt(req[r].app, OfUser(req[r].by)) \ Internal])

\* The internal roles are no business of the application.
UserRoles(r) ==
    Reading(r, "resource_request", "held",
            [req[r] EXCEPT !.st = "can", !.held = HeldBy(req[r]) \ Internal])

\* The older interface refuses whoever has no role at all, internal ones
\* included, and leaves those out of what it answers.
InfoToken(r) ==
    Reading(r, "access_token_info", "held",
            [req[r] EXCEPT !.st = IF HeldBy(req[r]) = {} THEN "refused" ELSE "ok",
                           !.held = HeldBy(req[r]) \ Internal])

UserPermissions(r) ==
    Reading(r, "resource_request", "can",
            [req[r] EXCEPT !.st = "go",
                           !.can = UNION {PermsOf(x) : x \in req[r].held}])

Match(q) == {p \in q.can : p \in OwnPerms(q.app) \cap q.form}
Foreign(q) == q.who # None /\ q.who # q.app /\ q.app \notin q.apps
SearchUserInfo(r) ==
    Reading(r, "resource_request", "go",
            [req[r] EXCEPT !.st = IF Foreign(req[r]) THEN "refused"
                                  ELSE IF Match(req[r]) # {} THEN "permit"
                                  ELSE "deny"])

DecisionStep(r) ==
    \/ TrustedApplications(r) \/ SearchOrganizations(r) \/ UserRoles(r)
    \/ UserPermissions(r) \/ SearchUserInfo(r) \/ InfoToken(r)
=============================================================================
