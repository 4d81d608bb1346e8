---------------------------- MODULE OAuthTokens ----------------------------
(***************************************************************************)
(* The OAuth2 endpoints of the Keyrock identity manager:                   *)
(*   src/fiware-idm/controllers/oauth2/oauth2.js       the HTTP handlers   *)
(*   src/fiware-idm/models/model_oauth_server.js       the storage model   *)
(*   src/fiware-idm/models/oauth2/oauth_*.js           the three tables    *)
(* Every HTTP request is a process; each awaited database call of the      *)
(* handlers is one action, so that requests interleave between any two     *)
(* awaits.  The "x.save()" calls that nobody awaits are writes in flight   *)
(* (variable saves): they land, or are lost, at some later step.           *)
(*                                                                         *)
(* The npm package "oauth2-server" is not part of the repository: the      *)
(* order in which it calls the storage model is taken from what those      *)
(* functions return, and where that does not decide it, both are allowed.  *)
(***************************************************************************)
EXTENDS Naturals, FiniteSets

CONSTANTS
    Clients, Users, Iots, \* rows of oauth_client, user and iot at the start
    ClientOf,             \* the application an IoT agent belongs to
    Codes, Refreshes, Accesses, \* the random strings the server can mint
    Reqs,                 \* concurrent HTTP requests
    None,                 \* SQL NULL
    Kinds,                \* the requests that arrive in this instance
    Removals,             \* the tables administrators delete rows from
    AskedScopes,          \* values of the scope parameter
    TokenTypes,           \* oauth_client.token_types
    OpenIdClients,        \* the clients whose scope column has "openid"
    AskAuthorization,     \* config.oauth2.ask_authorization
    CodeLife, AccessLife, RefreshLife, \* config.oauth2.*_lifetime
    MaxTime,              \* bound on the clock
    DbFails               \* may the database refuse a write?

Ids == Codes \cup Refreshes \cup Accesses
Owners == Users \cup Iots \cup {None}
ScopeWords == {"bearer", "permanent", "jwt", "openid"}
AllKinds == {"code", "refresh", "password", "client", "authorize",
             "implicit", "bearer", "revoke"}

ASSUME OAuthAssumption ==
    /\ None \notin Clients \cup Users \cup Iots \cup Ids
    /\ Users \cap Iots = {}
    /\ Codes \cap Refreshes = {} /\ Codes \cap Accesses = {}
    /\ Refreshes \cap Accesses = {}
    /\ ClientOf \in [Iots -> Clients]
    /\ Kinds \subseteq AllKinds
    /\ Removals \subseteq {"client", "user", "iot", "consent"}
    /\ AskedScopes \subseteq SUBSET ScopeWords
    /\ TokenTypes \in [Clients -> SUBSET ScopeWords]
    /\ OpenIdClients \subseteq Clients
    /\ AskAuthorization \in BOOLEAN /\ DbFails \in BOOLEAN
    /\ CodeLife \in Nat /\ AccessLife \in Nat /\ RefreshLife \in Nat
    /\ MaxTime \in Nat

VARIABLES
    clients, users, iots, \* the rows of those tables that still exist
    consents,  \* user_authorized_application, as pairs <<user, client>>
    row,       \* the three token tables, by primary key
    saves,     \* keys whose "valid = false" is sent and not yet written
    known,     \* the strings some client has been answered
    now,       \* the clock
    req        \* the requests in progress

vars == <<clients, users, iots, consents, row, saves, known, now, req>>

-----------------------------------------------------------------------------
(* Rows.  "minted": generated by the server and not inserted (yet).        *)

RowType ==
    [st : {"free", "minted", "live", "gone"},
     cl : Clients \cup {None}, own : Owners,
     code : Codes \cup {None}, rt : Refreshes \cup {None},
     scope : SUBSET ScopeWords, exp : Nat \cup {None}, valid : BOOLEAN]

BlankRow == [st |-> "free", cl |-> None, own |-> None, code |-> None,
             rt |-> None, scope |-> {}, exp |-> None, valid |-> FALSE]

Live(i) == row[i].st = "live"
Expired(i) == row[i].exp # None /\ row[i].exp < now
Usable(i) == Live(i) /\ row[i].valid /\ ~Expired(i)
Dead(i) == row[i].st = "gone" \/ (Live(i) /\ ~Usable(i))

\* A minted string has been drawn from a space so large that it is new.
Fresh(S) == {i \in S : row[i].st = "free"}

-----------------------------------------------------------------------------
(* Requests.  tok is the code or token presented, at and rt the strings    *)
(* minted for the answer, todo the writes of storeToken still to be made.  *)
(* late is a history variable: the presented token was already dead when   *)
(* the request arrived.                                                    *)

Stages == {"idle", "find", "revoke", "reuse", "reuse2", "consent", "enable",
           "store", "saving", "accept", "paired", "answered"}
Writes == {"refresh", "access", "consent"}

ReqType ==
    [st : Stages, kind : AllKinds \cup {"none"}, cl : Clients \cup {None},
     own : Owners, tok : Ids \cup {None}, scope : SUBSET ScopeWords,
     at : Accesses \cup {None}, rt : Refreshes \cup {None},
     todo : SUBSET Writes, ans : {"none", "ok", "error"},
     late : BOOLEAN, hit : BOOLEAN]

IdleReq == [st |-> "idle", kind |-> "none", cl |-> None, own |-> None,
            tok |-> None, scope |-> {}, at |-> None, rt |-> None,
            todo |-> {}, ans |-> "none", late |-> FALSE, hit |-> FALSE]

Goto(r, st) == req' = [req EXCEPT ![r].st = st]
Reply(r, ans) ==
    req' = [req EXCEPT ![r].st = "answered", ![r].ans = ans]

\* Mutation: the column gets the presented string whatever the grant.
CodeOfAny(r) == req[r].tok

\* The code an answer is issued for: only that grant has one.
CodeOf(r) == IF req[r].kind = "code" THEN req[r].tok ELSE None

(* validateScope, called with the scope words of the request.  A request   *)
(* it refuses is answered at once and changes nothing.                     *)
ValidScope(c, s) ==
    /\ ~({"bearer", "jwt"} \subseteq s)
    /\ IF {"permanent", "jwt"} \cap s # {} THEN s \subseteq TokenTypes[c]
       ELSE "openid" \in s => c \in OpenIdClients

-----------------------------------------------------------------------------
Init ==
    /\ clients = Clients /\ users = Users /\ iots = Iots
    /\ consents = {}
    /\ row = [i \in Ids |-> BlankRow]
    /\ saves = {} /\ known = {} /\ now = 0
    /\ req = [r \in Reqs |-> IdleReq]

tables == <<clients, users, iots, consents, row, saves, known, now>>

(* Bound: a request is admitted only while enough strings are left for it  *)
(* and for the requests before it.                                         *)
Uses(k) == CASE k \in {"code", "refresh", "password"} -> {Refreshes, Accesses}
             [] k \in {"client", "implicit"} -> {Accesses}
             [] k = "authorize" -> {Codes}
             [] OTHER -> {}
Room(k) == \A S \in Uses(k) :
    Cardinality(Fresh(S)) > Cardinality({r \in Reqs : S \in Uses(req[r].kind)
                                /\ req[r].st \notin {"saving", "answered"}})

(* A request reaches its handler; getClient has found the client, if the   *)
(* endpoint asks for one.                                                  *)
Arrive(r, k, c, u, t, s, stage) ==
    /\ k \in Kinds /\ Room(k) /\ req[r].st = "idle"
    /\ c \in clients \cup {None}
    /\ req' = [req EXCEPT ![r] =
         [st |-> stage, kind |-> k, cl |-> c, own |-> u, tok |-> t,
          scope |-> s, at |-> None, rt |-> None, todo |-> {}, ans |-> "none",
          late |-> IF t = None THEN FALSE ELSE Dead(t), hit |-> FALSE]]
    /\ UNCHANGED tables

\* POST /oauth2/token, one disjunct per grant_type.
TokenRequest(r) ==
    \E c \in Clients :
       \/ \E t \in Codes \cap known : Arrive(r, "code", c, None, t, {}, "find")
       \/ \E t \in Refreshes \cap known, s \in AskedScopes :
             ValidScope(c, s) /\ Arrive(r, "refresh", c, None, t, s, "find")
       \/ \E o \in Users \cup Iots, s \in AskedScopes :
             ValidScope(c, s) /\ Arrive(r, "password", c, o, None, s, "find")
       \/ \E s \in AskedScopes :
             ValidScope(c, s) /\ Arrive(r, "client", c, None, None, s, "store")

(* GET or POST /oauth2/authorize by a user with a session, and the POST    *)
(* /oauth2/enable_app of the "allow" button.  The session names the user   *)
(* and survives the deletion of the account.  kind is the response_type:   *)
(* "authorize" for a code, "implicit" for a token.                         *)
AuthorizeRequest(r) ==
    \E c \in Clients, u \in Users, k \in {"authorize", "implicit"},
       s \in AskedScopes, page \in {"consent", "enable"} :
       /\ ValidScope(c, s)
       /\ Arrive(r, k, c, u, None, s, IF AskAuthorization THEN page ELSE "store")

\* GET /user?access_token=...
BearerRequest(r) ==
    \E t \in Accesses \cap known : Arrive(r, "bearer", None, None, t, {}, "find")

\* POST /oauth2/revoke by an authenticated client.
RevokeRequest(r) ==
    \E c \in Clients, t \in (Accesses \cup Refreshes) \cap known :
       Arrive(r, "revoke", c, None, t, {}, "find")

-----------------------------------------------------------------------------
(* Reading what the request presents.                                      *)

At(r, k, stage) == req[r].kind = k /\ req[r].st = stage

(* getAuthorizationCode.  A code that was already exchanged makes the      *)
(* server revoke what was issued for it.  validateScope gets the column as *)
(* a list, of which it looks at the first word only: both outcomes are     *)
(* kept, since whether the library validates again is not in the source.   *)
FindCode(r) ==
    /\ At(r, "code", "find")
    /\ LET c == row[req[r].tok]
       IN  IF c.st # "live" \/ c.cl # req[r].cl THEN Reply(r, "error")
           ELSE IF ~c.valid THEN Goto(r, "reuse")
           ELSE IF Expired(req[r].tok) THEN Reply(r, "error")
           ELSE \E s \in {c.scope} \cup {{w} : w \in c.scope} :
                  req' = [req EXCEPT ![r].st = "revoke", ![r].own = c.own,
                                     ![r].scope = s]
    /\ UNCHANGED tables

\* Mutation: the library is not told whether the row is still valid.
FindRefreshUnchecked(r) ==
    /\ At(r, "refresh", "find")
    /\ LET t == row[req[r].tok]
       IN  IF Live(req[r].tok) /\ t.cl = req[r].cl /\ t.own \notin Iots
           THEN req' = [req EXCEPT ![r].st = "revoke", ![r].own = t.own]
           ELSE Reply(r, "error")
    /\ UNCHANGED tables

\* Mutation: a refused refresh token is never answered.
FindRefreshSilent(r) ==
    /\ At(r, "refresh", "find")
    /\ Usable(req[r].tok) /\ row[req[r].tok].own \notin Iots
    /\ req' = [req EXCEPT ![r].st = "revoke", ![r].own = row[req[r].tok].own]
    /\ UNCHANGED tables

(* getRefreshToken.  For the token of an IoT agent the handler dereferences *)
(* the user that is not there, and the caught TypeError is a refusal.      *)
FindRefresh(r) ==
    /\ At(r, "refresh", "find")
    /\ LET t == row[req[r].tok]
       IN  IF /\ Usable(req[r].tok) /\ t.cl = req[r].cl
              /\ t.own \notin Iots
           THEN req' = [req EXCEPT ![r].st = "revoke", ![r].own = t.own]
           ELSE Reply(r, "error")
    /\ UNCHANGED tables

(* getIdentity, with the right password or a wrong one.  An agent signs in *)
(* to its own application only.                                            *)
FindIdentity(r) ==
    /\ At(r, "password", "find")
    /\ \/ /\ \/ req[r].own \in users
             \/ /\ req[r].own \in iots
                /\ ClientOf[req[r].own] = req[r].cl
          /\ Goto(r, "store")
       \/ Reply(r, "error")
    /\ UNCHANGED tables

\* getAccessToken and the checks of the bearer authentication.
FindAccess(r) ==
    /\ At(r, "bearer", "find")
    /\ IF Usable(req[r].tok) THEN Goto(r, "accept") ELSE Reply(r, "error")
    /\ UNCHANGED tables

\* create_oauth_response has gathered the roles: 200 with the user's data.
Accept(r) ==
    /\ At(r, "bearer", "accept")
    /\ Reply(r, "ok")
    /\ UNCHANGED tables

-----------------------------------------------------------------------------
(* Revoking.  A revoke* function finds one valid row, and sends the save   *)
(* without waiting for it.                                                 *)

\* findOne: any one of the matching rows, or none if there is none.
SendSaveOfOne(S) ==
    \/ \E i \in S : saves' = saves \cup {i}
    \/ S = {} /\ saves' = saves

Matching(S) == {i \in S : Live(i) /\ row[i].valid}

noSave == <<clients, users, iots, consents, row, known, now>>

\* revokeAuthorizationCode: the exchange goes on whether or not the row
\* was still valid.
RevokeAuthorizationCode(r) ==
    /\ At(r, "code", "revoke")
    /\ SendSaveOfOne(Matching({req[r].tok}))
    /\ Goto(r, "store")
    /\ UNCHANGED noSave

\* revokeRefreshToken(token) of the refresh grant: null when another
\* request revoked it since it was read; the library may refuse then.
RotateRefreshToken(r) ==
    /\ At(r, "refresh", "revoke")
    /\ SendSaveOfOne(Matching({req[r].tok}))
    /\ \/ Goto(r, "store")
       \/ Matching({req[r].tok}) = {} /\ Reply(r, "error")
    /\ UNCHANGED noSave

OfCode(r, S) == {i \in S : row[i].code = req[r].tok /\ row[i].cl = req[r].cl}

\* revokeAccessToken(null, code, client) and revokeRefreshToken(null,
\* code, client) when a code is presented again.
ReuseRevokesAccess(r) ==
    /\ At(r, "code", "reuse")
    /\ SendSaveOfOne(Matching(OfCode(r, Accesses)))
    /\ Goto(r, "reuse2")
    /\ UNCHANGED noSave
ReuseRevokesRefresh(r) ==
    /\ At(r, "code", "reuse2")
    /\ SendSaveOfOne(Matching(OfCode(r, Refreshes)))
    /\ Reply(r, "error")
    /\ UNCHANGED noSave

\* POST /oauth2/revoke with an access token, or a refresh token: the row
\* itself, if it belongs to the client.
RevokePresented(r) ==
    /\ At(r, "revoke", "find")
    /\ LET S == Matching({i \in {req[r].tok} : row[i].cl = req[r].cl})
       IN  /\ SendSaveOfOne(S)
           /\ IF req[r].tok \in Refreshes
              THEN \/ req' = [req EXCEPT ![r].st = "paired",
                                         ![r].hit = (S # {})]
                   \/ S = {} /\ Reply(r, "ok")
              ELSE req' = [req EXCEPT ![r].st = "answered", ![r].ans = "ok",
                                      ![r].hit = (S # {})]
    /\ UNCHANGED noSave

\* Mutation: the access token of a revoked refresh token is left alone.
RevokePairedNot(r) ==
    /\ At(r, "revoke", "paired")
    /\ Reply(r, "ok")
    /\ UNCHANGED tables

\* revokeAccessToken(null, null, client, refresh_token): one access token
\* of the revoked refresh token.
RevokePaired(r) ==
    /\ At(r, "revoke", "paired")
    /\ SendSaveOfOne(Matching({i \in Accesses : /\ row[i].rt = req[r].tok
                                                /\ row[i].cl = req[r].cl}))
    /\ Reply(r, "ok")
    /\ UNCHANGED noSave

\* Mutation: the instance was not marked as changed, save() writes nothing.
SaveLandsNot(i) ==
    /\ i \in saves
    /\ saves' = saves \ {i}
    /\ UNCHANGED <<clients, users, iots, consents, row, known, now, req>>

(* The write of an earlier save reaches the database.  A row that was      *)
(* deleted in the meantime is not brought back by the UPDATE.              *)
SaveLands(i) ==
    /\ i \in saves
    /\ saves' = saves \ {i}
    /\ row' = IF Live(i) THEN [row EXCEPT ![i].valid = FALSE] ELSE row
    /\ UNCHANGED <<clients, users, iots, consents, known, now, req>>

\* The database refuses it: a rejected promise nobody looks at.
SaveLost(i) ==
    /\ DbFails /\ i \in saves
    /\ saves' = saves \ {i}
    /\ UNCHANGED <<clients, users, iots, consents, row, known, now, req>>

-----------------------------------------------------------------------------
(* Issuing tokens: saveToken, generateJwtToken and storeToken.             *)

\* The grants the library generates a refresh token for; saveToken drops
\* it from a permanent token.
Renewable(q) == q.kind \in {"code", "refresh", "password"}
                /\ "permanent" \notin q.scope

\* Mutation: a refresh answers the same refresh token again.
MintKeepingRefresh(r) ==
    /\ req[r].st = "store" /\ req[r].kind # "authorize"
    /\ \E t \in IF req[r].kind = "refresh" THEN {req[r].tok} ELSE Fresh(Refreshes),
         a \in Fresh(Accesses) :
         /\ row' = [i \in Ids |-> IF i \in {t, a} /\ row[i].st = "free"
                                  THEN [row[i] EXCEPT !.st = "minted"]
                                  ELSE row[i]]
         /\ req' = [req EXCEPT ![r].st = "saving", ![r].rt = t, ![r].at = a,
                ![r].todo = IF req[r].kind = "refresh" THEN {"access"}
                            ELSE {"access", "refresh"}]
    /\ UNCHANGED <<clients, users, iots, consents, saves, known, now>>

(* The strings are minted, and storeToken has started its writes: the      *)
(* refresh row, after it the access row (a jwt needs none), and beside     *)
(* them the consent of the user.                                           *)
Mint(r) ==
    /\ req[r].st = "store" /\ req[r].kind # "authorize"
    /\ LET q == req[r]
           plan == (IF Renewable(q) THEN {"refresh"} ELSE {})
                     \cup (IF "jwt" \in q.scope THEN {} ELSE {"access"})
                     \cup (IF q.own \in Users /\ AskAuthorization
                           THEN {"consent"} ELSE {})
       IN  \E t \in IF "refresh" \in plan THEN Fresh(Refreshes) ELSE {None},
              a \in IF "access" \in plan THEN Fresh(Accesses) ELSE {None} :
              /\ row' = [i \in Ids |-> IF i \in {t, a}
                                       THEN [row[i] EXCEPT !.st = "minted"]
                                       ELSE row[i]]
              /\ req' = [req EXCEPT ![r] = [@ EXCEPT !.st = "saving",
                                        !.todo = plan, !.rt = t, !.at = a]]
    /\ UNCHANGED <<clients, users, iots, consents, saves, known, now>>

\* Mutation: user_id is a column without a foreign key.
ParentsExistButOwner(c, o, code, t) ==
    c \in clients /\ \A i \in {code, t} \ {None} : Live(i)

\* The foreign keys of the migrations: the INSERT needs its parent rows.
ParentsExist(c, o, code, t) ==
    /\ c \in clients
    /\ o \in users \cup iots \cup {None}
    /\ \A i \in {code, t} \ {None} : Live(i)

Insert(i, c, o, code, t, s, exp) ==
    row' = [row EXCEPT ![i] = [st |-> "live", cl |-> c, own |-> o,
                code |-> code, rt |-> t, scope |-> s, exp |-> exp,
                valid |-> TRUE]]

\* oauth_refresh_token.create; if it fails, the access row is not tried
\* and the caught error is answered.
CreateRefresh(r) ==
    /\ "refresh" \in req[r].todo
    /\ LET q == req[r]
       IN  \/ /\ ParentsExist(q.cl, q.own, CodeOf(r), None)
              /\ Insert(q.rt, q.cl, q.own, CodeOf(r), None, q.scope,
                        now + RefreshLife)
              /\ req' = [req EXCEPT ![r].todo = @ \ {"refresh"}]
           \/ /\ DbFails \/ ~ParentsExist(q.cl, q.own, CodeOf(r), None)
              /\ req' = [req EXCEPT ![r].todo = @ \ {"refresh", "access"},
                           ![r].ans = IF "access" \in q.todo THEN "error" ELSE @]
              /\ UNCHANGED row
    /\ UNCHANGED <<clients, users, iots, consents, saves, known, now>>

\* oauth_access_token.create, after the refresh row.
CreateAccess(r) ==
    /\ "access" \in req[r].todo /\ "refresh" \notin req[r].todo
    /\ LET q == req[r]
       IN  \/ /\ ParentsExist(q.cl, q.own, CodeOf(r), q.rt)
              /\ Insert(q.at, q.cl, q.own, CodeOf(r), q.rt, q.scope,
                        IF "permanent" \in q.scope THEN None
                        ELSE now + AccessLife)
              /\ req' = [req EXCEPT ![r].todo = @ \ {"access"}]
           \/ /\ DbFails \/ ~ParentsExist(q.cl, q.own, CodeOf(r), q.rt)
              /\ req' = [req EXCEPT ![r].todo = @ \ {"access"},
                                    ![r].ans = "error"]
              /\ UNCHANGED row
    /\ UNCHANGED <<clients, users, iots, consents, saves, known, now>>

\* user_authorized_application.findOrCreate of storeToken.
RecordConsent(r) ==
    /\ "consent" \in req[r].todo
    /\ LET q == req[r]
       IN  \/ /\ q.own \in users /\ q.cl \in clients
              /\ consents' = consents \cup {<<q.own, q.cl>>}
              /\ req' = [req EXCEPT ![r].todo = @ \ {"consent"}]
           \/ /\ DbFails \/ ~(q.own \in users /\ q.cl \in clients)
              /\ req' = [req EXCEPT ![r].todo = @ \ {"consent"},
                           ![r].ans = IF q.st = "saving" THEN "error" ELSE @]
              /\ UNCHANGED consents
    /\ UNCHANGED <<clients, users, iots, row, saves, known, now>>

\* Mutation: the promises of the writes are not waited for.
AnswerTokenEarly(r) ==
    /\ req[r].st = "saving"
    /\ Reply(r, "ok")
    /\ known' = known \cup ({req[r].at, req[r].rt} \ {None})
    /\ UNCHANGED <<clients, users, iots, consents, row, saves, now>>

(* The promises storeToken returns have settled: the access row, then the  *)
(* consent.  The refresh row of a jwt is not among them.                   *)
AnswerToken(r) ==
    /\ req[r].st = "saving" /\ "access" \notin req[r].todo
    /\ IF req[r].ans = "error"
       THEN Reply(r, "error") /\ UNCHANGED known
       ELSE /\ "consent" \notin req[r].todo
            /\ Reply(r, "ok")
            /\ known' = known \cup ({req[r].at, req[r].rt} \ {None})
    /\ UNCHANGED <<clients, users, iots, consents, row, saves, now>>

-----------------------------------------------------------------------------
(* The authorization endpoint.                                             *)

\* check_user_authorized_application: without a consent the user gets the
\* page that asks for it, and nothing is issued.
CheckConsent(r) ==
    /\ req[r].st = "consent"
    /\ IF <<req[r].own, req[r].cl>> \in consents THEN Goto(r, "store")
       ELSE Reply(r, "error")
    /\ UNCHANGED tables

\* enable_app: findOrCreate, then oauth_authorize.
EnableApp(r) ==
    /\ req[r].st = "enable"
    /\ LET q == req[r]
       IN  \/ /\ q.own \in users /\ q.cl \in clients
              /\ consents' = consents \cup {<<q.own, q.cl>>}
              /\ Goto(r, "store")
           \/ /\ DbFails \/ ~(q.own \in users /\ q.cl \in clients)
              /\ Reply(r, "error")
              /\ UNCHANGED consents
    /\ UNCHANGED <<clients, users, iots, row, saves, known, now>>

\* saveAuthorizationCode, and the redirect that carries the code.
SaveAuthorizationCode(r) ==
    /\ At(r, "authorize", "store")
    /\ LET q == req[r]
       IN  \/ /\ q.own \in users /\ q.cl \in clients
              /\ \E i \in Fresh(Codes) :
                    /\ Insert(i, q.cl, q.own, None, None, q.scope, now + CodeLife)
                    /\ known' = known \cup {i}
              /\ Reply(r, "ok")
           \/ /\ DbFails \/ ~(q.own \in users /\ q.cl \in clients)
              /\ Reply(r, "error")
              /\ UNCHANGED <<row, known>>
    /\ UNCHANGED <<clients, users, iots, consents, saves, now>>

\* The connection is closed and no write of the request is left.
Finish(r) ==
    /\ req[r].st = "answered" /\ req[r].todo = {}
    /\ req' = [req EXCEPT ![r] = IdleReq]
    /\ UNCHANGED tables

-----------------------------------------------------------------------------
(* Deletions elsewhere in the program, and time.                           *)

\* Mutation: ON DELETE SET NULL, the tokens of a deleted owner are anyone's.
CascadeSetsNull(S) ==
    row' = [i \in Ids |-> IF i \in S THEN [row[i] EXCEPT !.own = None]
                          ELSE row[i]]

(* ON DELETE CASCADE of the migrations: from a client, user or agent to    *)
(* its codes and tokens, from a code to the tokens issued for it, from a   *)
(* refresh token to its access token.                                      *)
Cascade(S) ==
    LET codes == S \cup {i \in Ids : Live(i) /\ row[i].code \in S}
        dead == codes \cup {i \in Ids : Live(i) /\ row[i].rt \in codes}
    IN  row' = [i \in Ids |-> IF i \in dead THEN [row[i] EXCEPT !.st = "gone"]
                              ELSE row[i]]

DeleteClient(c) ==
    /\ "client" \in Removals /\ c \in clients
    /\ clients' = clients \ {c}
    /\ iots' = {i \in iots : ClientOf[i] # c}
    /\ consents' = {p \in consents : p[2] # c}
    /\ Cascade({i \in Ids : Live(i) /\ (row[i].cl = c
                  \/ \E o \in iots : row[i].own = o /\ ClientOf[o] = c)})
    /\ UNCHANGED <<users, saves, known, now, req>>

DeleteUser(u) ==
    /\ "user" \in Removals /\ u \in users
    /\ users' = users \ {u}
    /\ consents' = {p \in consents : p[1] # u}
    /\ Cascade({i \in Ids : Live(i) /\ row[i].own = u})
    /\ UNCHANGED <<clients, iots, saves, known, now, req>>

DeleteIot(o) ==
    /\ "iot" \in Removals /\ o \in iots
    /\ iots' = iots \ {o}
    /\ Cascade({i \in Ids : Live(i) /\ row[i].own = o})
    /\ UNCHANGED <<clients, users, consents, saves, known, now, req>>

\* delete_third_party_application: the user withdraws a consent.
WithdrawConsent(p) ==
    /\ "consent" \in Removals /\ p \in consents
    /\ consents' = consents \ {p}
    /\ UNCHANGED <<clients, users, iots, row, saves, known, now, req>>

Tick == /\ now < MaxTime /\ now' = now + 1
        /\ UNCHANGED <<clients, users, iots, consents, row, saves, known, req>>

-----------------------------------------------------------------------------
NewRequest(r) == \/ TokenRequest(r) \/ AuthorizeRequest(r)
                 \/ BearerRequest(r) \/ RevokeRequest(r)

\* Every step the event loop takes for a request that has arrived.
Handle(r) ==
    \/ FindCode(r) \/ FindRefresh(r) \/ FindIdentity(r) \/ FindAccess(r)
    \/ Accept(r)
    \/ RevokeAuthorizationCode(r) \/ RotateRefreshToken(r)
    \/ ReuseRevokesAccess(r) \/ ReuseRevokesRefresh(r)
    \/ RevokePresented(r) \/ RevokePaired(r)
    \/ Mint(r) \/ CreateRefresh(r) \/ CreateAccess(r) \/ RecordConsent(r)
    \/ AnswerToken(r)
    \/ CheckConsent(r) \/ EnableApp(r) \/ SaveAuthorizationCode(r)
    \/ Finish(r)

Remove == \/ \E c \in Clients : DeleteClient(c)
          \/ \E u \in Users : DeleteUser(u)
          \/ \E o \in Iots : DeleteIot(o)
          \/ \E p \in Users \X Clients : WithdrawConsent(p)

Next == \/ \E r \in Reqs : NewRequest(r) \/ Handle(r)
        \/ \E i \in Ids : SaveLands(i) \/ SaveLost(i)
        \/ Remove
        \/ Tick

Spec == Init /\ [][Next]_vars

\* The event loop runs every callback, and the driver every statement.
Fairness == /\ \A r \in Reqs : WF_vars(Handle(r))
            /\ \A i \in Ids : WF_vars(SaveLands(i))

FairSpec == Spec /\ Fairness

-----------------------------------------------------------------------------
TypeOK ==
    /\ clients \subseteq Clients /\ users \subseteq Users /\ iots \subseteq Iots
    /\ consents \subseteq Users \X Clients
    /\ row \in [Ids -> RowType]
    /\ saves \subseteq Ids /\ known \subseteq Ids
    /\ now \in Nat
    /\ req \in [Reqs -> ReqType]

(* Ownership: a stored code or token belongs to a client and an identity   *)
(* that still exist, and to the same ones as the code it was issued for    *)
(* and the refresh token it can be renewed with.  It takes the order of    *)
(* the inserts of storeToken, the foreign keys and the cascade together.   *)
OwnersAgree ==
    \A i \in Ids : Live(i) =>
       /\ row[i].cl \in clients
       /\ row[i].own \in users \cup iots \cup {None}
       /\ \A j \in {row[i].code, row[i].rt} \ {None} :
             Live(j) /\ row[j].cl = row[i].cl /\ row[j].own = row[i].own
       /\ row[i].rt # None => row[row[i].rt].code = row[i].code

(* Two access tokens never share a refresh token: the reason why           *)
(* revokeAccessToken may look for one row only when it revokes "all" the   *)
(* access tokens of a refresh token.                                       *)
OneAccessPerRefresh ==
    \A a, b \in Accesses :
       Live(a) /\ Live(b) /\ row[a].rt # None /\ row[a].rt = row[b].rt => a = b

(* Nothing is issued or granted on the strength of a code or a token that  *)
(* was spent, revoked, expired or deleted when the request arrived, in     *)
(* whatever way the request interleaves with others.                       *)
NothingFromTheDead ==
    \A r \in Reqs :
       req[r].late /\ req[r].kind \in {"code", "refresh", "bearer"} =>
          \/ req[r].st \in {"find", "reuse", "reuse2"}
          \/ req[r].st = "answered" /\ req[r].ans = "error"

(* A token endpoint that answered 200 with a bearer token had stored it,   *)
(* and before it the refresh token of the same answer: storeToken swallows *)
(* its errors, so this rests on the order of its promises.                 *)
AnsweredTokensStored ==
    \A r \in Reqs :
       (req[r].st = "answered" /\ req[r].ans = "ok" /\ req[r].at # None) =>
          \A i \in {req[r].at, req[r].rt} \ {None} : row[i].st \in {"live", "gone"}

(* A revocation that found its token and was answered covers the token and *)
(* every access token of it: what is still valid has its save under way.   *)
RevocationCovers ==
    \A r \in Reqs :
       (~DbFails /\ req[r].kind = "revoke" /\ req[r].ans = "ok" /\ req[r].hit) =>
          \A i \in Ids :
             /\ i = req[r].tok \/ (Live(i) /\ row[i].rt = req[r].tok)
             /\ Live(i) /\ row[i].valid
             => i \in saves

(* A token of a user that a client was given comes with the consent of the *)
(* user for that client, unless the user withdrew it since.                *)
TokensConsented ==
    (AskAuthorization /\ "consent" \notin Removals) =>
       \A i \in known : Live(i) /\ row[i].own \in Users =>
          <<row[i].own, row[i].cl>> \in consents

(* The strings the server hands out live and die as TokenLife says.        *)
Phase(i) == IF Dead(i) THEN "dead" ELSE IF Live(i) THEN "usable" ELSE "unborn"
Life == INSTANCE TokenLife WITH
            Tokens <- Ids,
            Holders <- (Clients \X Owners) \cup {<<None, None>>},
            Nobody <- <<None, None>>,
            phase <- [i \in Ids |-> Phase(i)],
            holder <- [i \in Ids |-> <<row[i].cl, row[i].own>>]
TokensLive == Life!Spec

(* Every request that arrived is answered and done with.                   *)
RequestsAnswered == \A r \in Reqs : req[r].st # "idle" ~> req[r].st = "idle"

(* A token whose revocation found it stops working for good.               *)
RevocationSticks ==
    \A r \in Reqs, t \in Ids :
       (~DbFails /\ req[r].kind = "revoke" /\ req[r].tok = t /\ req[r].hit)
          ~> [](~Usable(t))

-----------------------------------------------------------------------------
(* What a test and a document say, and the code does not do.               *)

(* test/integration/oauth2.js:195: "should return a 200 OK (it is revoked  *)
(* if valid and if not is ignored)".  When revoke_token answers 200, the   *)
(* save of the row may still be in flight.                                 *)
RevokedWhenAnswered ==
    \A r \in Reqs :
       (req[r].kind = "revoke" /\ req[r].st = "answered" /\ req[r].hit) =>
          ~Usable(req[r].tok)
=============================================================================
