------------------------------ MODULE Accounts ------------------------------
(***************************************************************************)
(* The life of an account of the Keyrock identity manager:                 *)
(*   src/fiware-idm/controllers/web/users.js       sign up, activation,    *)
(*                                                 password reset          *)
(*   src/fiware-idm/controllers/web/settings.js    e-mail and password     *)
(*   src/fiware-idm/controllers/web/list_users.js  the administrators      *)
(*   src/fiware-idm/controllers/api/users.js       the REST API            *)
(* The links mailed to people carry a key that is kept in the registration *)
(* profile, a row found by the e-mail address of its account.  Requests    *)
(* interleave between a handler's database calls.                          *)
(***************************************************************************)
EXTENDS Naturals, FiniteSets

CONSTANTS
    Ids, Emails, Keys,   \* ids of accounts, addresses, keys of mailed links
    Profiles,            \* rows of user_registration_profile
    Browsers, Reqs, None,
    Kinds,               \* the requests that arrive in this instance
    Others,              \* what administrators and API clients do in it
    KeyLife,             \* validity of a link, 24 hours in the code
    MaxTime              \* bound on the clock

Purposes == {"activation", "reset", "verification"}
AllKinds == {"signup", "activate", "resend", "forgot", "reset", "email",
             "verify"}

ASSUME AccountsAssumption ==
    /\ None \notin Ids \cup Emails \cup Keys \cup Profiles \cup Browsers
    /\ Kinds \subseteq AllKinds
    /\ Others \subseteq {"create", "edit", "enable", "delete"}
    /\ KeyLife \in Nat /\ MaxTime \in Nat

VARIABLES
    user,     \* the user table, with what last changed each account
    prof,     \* the registration profiles
    issued,   \* the mailed links, by their key
    session,  \* the cookie of each browser
    now, req

vars == <<user, prof, issued, session, now, req>>

-----------------------------------------------------------------------------
(* Rows.  enabledBy, passBy and emailBy are history: the key of the link   *)
(* that made the change, None for a form, an administrator or the API.     *)

UserType ==
    [st : {"free", "present", "gone"}, email : Emails \cup {None},
     enabled : BOOLEAN, enabledBy : Keys \cup {None},
     passBy : Keys \cup {None}, emailBy : Keys \cup {None}]
NoUser == [st |-> "free", email |-> None, enabled |-> FALSE,
           enabledBy |-> None, passBy |-> None, emailBy |-> None]
Account(e, enabled) ==
    [NoUser EXCEPT !.st = "present", !.email = e, !.enabled = enabled]

ProfileType == [st : {"free", "live", "gone"}, email : Emails \cup {None},
                key : [Purposes -> Keys \cup {None}]]
NoProfile == [st |-> "free", email |-> None, key |-> [u \in Purposes |-> None]]

\* A link: its purpose, the account whose profile its key was put in, the
\* address in it, and when it expires.  Key and expiry are written together.
LinkType == [use : Purposes \cup {"none"}, for : Ids \cup {None},
             email : Emails \cup {None}, exp : Nat]
NoLink == [use |-> "none", for |-> None, email |-> None, exp |-> 0]

Present(u) == user[u].st = "present"
Holders(e) == {u \in Ids : Present(u) /\ user[u].email = e}
Taken(e) == Holders(e) # {}
FreeIds == {u \in Ids : user[u].st = "free"}
FreeKeys == {k \in Keys : issued[k].use = "none"}
FreeRows == {p \in Profiles : prof[p].st = "free"}

RowsOf(e) == {p \in Profiles : prof[p].st = "live" /\ prof[p].email = e}
\* What find({where: {user_email}}) may return: any of the rows.
Found(e) == IF RowsOf(e) = {} THEN {NoProfile} ELSE {prof[p] : p \in RowsOf(e)}

-----------------------------------------------------------------------------
(* Requests. *)

Stages == {"idle", "find", "insert", "profile", "create", "save", "write",
           "answered", "hung"}
ReqType ==
    [st : Stages, kind : AllKinds \cup {"none"}, br : Browsers \cup {None},
     id : Ids \cup {None}, email : Emails \cup {None},
     new : Emails \cup {None}, key : Keys \cup {None},
     row : Profiles \cup {None}]
IdleReq == [st |-> "idle", kind |-> "none", br |-> None, id |-> None,
            email |-> None, new |-> None, key |-> None, row |-> None]

SessionType == [id : Ids, email : Emails]

Init ==
    /\ user = [u \in Ids |-> NoUser]
    /\ prof = [p \in Profiles |-> NoProfile]
    /\ issued = [k \in Keys |-> NoLink]
    /\ session = [b \in Browsers |-> None]
    /\ now = 0
    /\ req = [r \in Reqs |-> IdleReq]

rows == <<user, prof, issued, session, now>>

\* Bound: a request comes in only if ids, keys and rows are left for it and
\* for those before it.
Minting == {"signup", "resend", "forgot", "email"}
Pending(kinds) == Cardinality({r \in Reqs : req[r].kind \in kinds
                                    /\ req[r].st \notin {"answered", "hung"}})
RoomFor(kinds) ==
    /\ Cardinality(FreeKeys) > Pending(Minting)
    /\ Cardinality(FreeRows) > Pending(Minting)
    /\ "signup" \in kinds => Cardinality(FreeIds) > Pending({"signup"})

Arrive(r, q) ==
    /\ req[r].st = "idle" /\ q.kind \in Kinds
    /\ q.kind \in Minting => RoomFor({q.kind})
    /\ req' = [req EXCEPT ![r] = q]
    /\ UNCHANGED rows

At(r, k, stage) == req[r].kind = k /\ req[r].st = stage
Goto(r, stage) == req' = [req EXCEPT ![r].st = stage]
Answered(r) == Goto(r, "answered")
Hung(r) == Goto(r, "hung") \* no code path is left that sends a response

Opened(k, b, i, e, n, key) ==
    [st |-> "find", kind |-> k, br |-> b, id |-> i, email |-> e, new |-> n,
     key |-> key, row |-> None]

\* A form with an address, a link that was mailed, or a form of the settings.
NewRequest(r) ==
    \/ \E k \in {"signup", "resend", "forgot"}, e \in Emails :
          Arrive(r, Opened(k, None, None, e, None, None))
    \/ \E k \in Keys : issued[k].use = "activation" /\
          Arrive(r, Opened("activate", None, None, issued[k].email, None, k))
    \/ \E k \in Keys : issued[k].use = "reset" /\
          Arrive(r, Opened("reset", None, None, issued[k].email, None, k))
    \/ \E b \in Browsers, n \in Emails : session[b] # None /\
          Arrive(r, Opened("email", b, session[b].id, None, n, None))
    \/ \E b \in Browsers, k \in Keys :
          /\ session[b] # None /\ issued[k].use = "verification"
          /\ Arrive(r, Opened("verify", b, session[b].id, session[b].email,
                              issued[k].email, k))

-----------------------------------------------------------------------------
(* Keys.  models.user_registration_profile.findOrCreate and the save that  *)
(* follows it.  No index makes user_email unique, so the look-up and the   *)
(* insertion are two steps.                                                *)

UseOf(kind) == CASE kind \in {"signup", "resend"} -> "activation"
                 [] kind = "forgot" -> "reset"
                 [] kind = "email" -> "verification"

\* The account joined to the profiles of an address.
Joined(e) == CHOOSE u \in Holders(e) : TRUE

\* Mail a fresh key of request r that was put in the profile of address e:
\* to the new address when the e-mail address changes.
Mail(r, k, e) ==
    LET q == req[r]
    IN  issued' = [issued EXCEPT ![k] =
            [use |-> UseOf(q.kind), for |-> IF Taken(e) THEN Joined(e) ELSE q.id,
             email |-> IF q.kind = "email" THEN q.new ELSE q.email,
             exp |-> now + KeyLife]]

FindProfile(r) ==
    /\ req[r].st = "profile"
    /\ \/ RowsOf(req[r].email) = {} /\ Goto(r, "create")
       \/ \E p \in RowsOf(req[r].email) :
             req' = [req EXCEPT ![r].st = "save", ![r].row = p]
    /\ UNCHANGED rows

(* The INSERT of findOrCreate needs an account with that address.  The     *)
(* rejection is caught except in the nested promises of sign_up.           *)
CreateProfile(r) ==
    /\ req[r].st = "create"
    /\ LET e == req[r].email
       IN  \/ /\ Taken(e)
              /\ \E k \in FreeKeys, p \in FreeRows :
                    /\ prof' = [prof EXCEPT ![p] =
                           [st |-> "live", email |-> e,
                            key |-> [NoProfile.key EXCEPT
                                        ![UseOf(req[r].kind)] = k]]]
                    /\ Mail(r, k, e)
              /\ Answered(r)
           \/ /\ ~Taken(e)
              /\ IF req[r].kind = "signup" THEN Hung(r) ELSE Answered(r)
              /\ UNCHANGED <<prof, issued>>
    /\ UNCHANGED <<user, session, now>>

\* user_prof[0].save({fields}): an UPDATE by primary key, of no row if the
\* row was deleted in the meantime.
SaveKey(r) ==
    /\ req[r].st = "save"
    /\ \E k \in FreeKeys :
          /\ prof' = IF prof[req[r].row].st # "live" THEN prof
                     ELSE [prof EXCEPT ![req[r].row].key[UseOf(req[r].kind)] = k]
          /\ Mail(r, k, prof[req[r].row].email)
    /\ Answered(r)
    /\ UNCHANGED <<user, session, now>>

-----------------------------------------------------------------------------
(* users.js *)

\* exports.create: the validation asks whether the address is taken.
ValidateSignUp(r) ==
    /\ At(r, "signup", "find")
    /\ IF Taken(req[r].email) THEN Answered(r) ELSE Goto(r, "insert")
    /\ UNCHANGED rows

\* Mutation: the address is not a unique key of the table.
InsertUserAnyway(r) ==
    /\ At(r, "signup", "insert")
    /\ \E u \in FreeIds :
          /\ user' = [user EXCEPT ![u] = Account(req[r].email, FALSE)]
          /\ req' = [req EXCEPT ![r].st = "profile", ![r].id = u]
    /\ UNCHANGED <<prof, issued, session, now>>

(* user.save(), whose promise is neither returned nor caught: if the       *)
(* address was taken in the meantime nothing answers the request.          *)
InsertUser(r) ==
    /\ At(r, "signup", "insert")
    /\ IF Taken(req[r].email) THEN Hung(r) /\ UNCHANGED user
       ELSE \E u \in FreeIds :
              /\ user' = [user EXCEPT ![u] = Account(req[r].email, FALSE)]
              /\ req' = [req EXCEPT ![r].st = "profile", ![r].id = u]
    /\ UNCHANGED <<prof, issued, session, now>>

Accepts(f, use, k) == /\ f.st = "live" /\ f.key[use] = k
                      /\ now <= issued[k].exp

\* exports.activate: an account that is enabled is left alone.
FindActivate(r) ==
    /\ At(r, "activate", "find")
    /\ LET e == req[r].email
       IN  \E f \in Found(e) :
           IF /\ Accepts(f, "activation", req[r].key)
              /\ Taken(e) /\ ~user[Joined(e)].enabled
           THEN req' = [req EXCEPT ![r].st = "write", ![r].id = Joined(e)]
           ELSE Answered(r)
    /\ UNCHANGED rows
EnableUser(r) ==
    /\ At(r, "activate", "write")
    /\ user' = IF ~Present(req[r].id) THEN user
               ELSE [user EXCEPT ![req[r].id].enabled = TRUE,
                                 ![req[r].id].enabledBy = req[r].key]
    /\ Answered(r)
    /\ UNCHANGED <<prof, issued, session, now>>

\* exports.resend_confirmation
FindResend(r) ==
    /\ At(r, "resend", "find")
    /\ LET e == req[r].email
       IN  IF Taken(e) /\ ~user[Joined(e)].enabled
           THEN req' = [req EXCEPT ![r].st = "write", ![r].id = Joined(e)]
           ELSE Answered(r)
    /\ UNCHANGED rows
\* An UPDATE of the rows with that address; it creates none.
UpdateKeys(r) ==
    /\ At(r, "resend", "write")
    /\ \E k \in FreeKeys :
          /\ prof' = [p \in Profiles |-> IF p \in RowsOf(req[r].email)
                        THEN [prof[p] EXCEPT !.key["activation"] = k]
                        ELSE prof[p]]
          /\ Mail(r, k, req[r].email)
    /\ Answered(r)
    /\ UNCHANGED <<user, session, now>>

\* exports.password_send_email
FindForgot(r) ==
    /\ At(r, "forgot", "find")
    /\ LET e == req[r].email
       IN  IF Taken(e) /\ user[Joined(e)].enabled
           THEN req' = [req EXCEPT ![r].st = "profile", ![r].id = Joined(e)]
           ELSE Answered(r)
    /\ UNCHANGED rows

(* exports.change_password.  Without a profile the handler dereferences    *)
(* null, and the error is logged only.                                     *)
FindReset(r) ==
    /\ At(r, "reset", "find")
    /\ LET e == req[r].email
       IN  \E f \in Found(e) :
           IF f.st # "live" THEN Hung(r)
           ELSE IF Accepts(f, "reset", req[r].key) /\ Taken(e)
           THEN req' = [req EXCEPT ![r].st = "write", ![r].id = Joined(e)]
           ELSE Answered(r)
    /\ UNCHANGED rows
ResetPassword(r) ==
    /\ At(r, "reset", "write")
    /\ user' = IF ~Present(req[r].id) THEN user
               ELSE [user EXCEPT ![req[r].id].passBy = req[r].key]
    /\ Answered(r)
    /\ UNCHANGED <<prof, issued, session, now>>

-----------------------------------------------------------------------------
(* settings.js and sessions.js *)

\* exports.email, with the right password or a wrong one.  An account that
\* is gone makes the handler throw where nobody catches.
FindEmail(r) ==
    /\ At(r, "email", "find")
    /\ LET u == req[r].id
       IN  \/ Answered(r)
           \/ ~Taken(req[r].new) /\ ~Present(u) /\ Hung(r)
           \/ /\ ~Taken(req[r].new) /\ Present(u)
              /\ req' = [req EXCEPT ![r].st = "profile",
                                    ![r].email = user[u].email]
    /\ UNCHANGED rows

\* Mutation: nobody catches the error of a link that is not found.
FindVerifyUncaught(r) ==
    /\ At(r, "verify", "find")
    /\ \E p \in RowsOf(req[r].email) :
          prof[p].key["verification"] = req[r].key
    /\ IF now <= issued[req[r].key].exp THEN Goto(r, "write") ELSE Answered(r)
    /\ UNCHANGED rows

\* exports.email_verify: the row has the key and the session's address.
FindVerify(r) ==
    /\ At(r, "verify", "find")
    /\ IF /\ \E p \in RowsOf(req[r].email) :
                prof[p].key["verification"] = req[r].key
          /\ now <= issued[req[r].key].exp
       THEN Goto(r, "write") ELSE Answered(r)
    /\ UNCHANGED rows

\* Mutation: the foreign key of the profile without ON UPDATE CASCADE.
MoveEmailOnly(u, e, k) ==
    /\ user' = [user EXCEPT ![u].email = e, ![u].emailBy = k]
    /\ prof' = prof

\* A new address; ON UPDATE CASCADE takes the profile along.
MoveEmail(u, e, k) ==
    /\ user' = [user EXCEPT ![u].email = e, ![u].emailBy = k]
    /\ prof' = [p \in Profiles |-> IF p \in RowsOf(user[u].email)
                                   THEN [prof[p] EXCEPT !.email = e]
                                   ELSE prof[p]]

(* The UPDATE looks for the address the look-up saw, not for the id.  The  *)
(* answer renews the cookie even if no row was found.                      *)
ChangeEmail(r) ==
    /\ At(r, "verify", "write")
    /\ LET q == req[r]
       IN  IF Taken(q.new) THEN UNCHANGED <<user, prof, session>>
           ELSE /\ IF Taken(q.email) THEN MoveEmail(Joined(q.email), q.new, q.key)
                   ELSE UNCHANGED <<user, prof>>
                /\ session' = [session EXCEPT ![q.br] =
                                  [id |-> q.id, email |-> q.new]]
    /\ Answered(r)
    /\ UNCHANGED <<issued, now>>

\* Mutation: the foreign key of the profile without ON DELETE CASCADE.
RemoveUserOnly(u) ==
    /\ user' = [user EXCEPT ![u] = [NoUser EXCEPT !.st = "gone"]]
    /\ prof' = prof

\* A deleted account; ON DELETE CASCADE takes the profile along.
RemoveUser(u) ==
    /\ user' = [user EXCEPT ![u] = [NoUser EXCEPT !.st = "gone"]]
    /\ prof' = [p \in Profiles |-> IF p \in RowsOf(user[u].email)
                                   THEN [NoProfile EXCEPT !.st = "gone"]
                                   ELSE prof[p]]

\* Mutation: the address is not among the attributes that are selected.
LoginBare(b) ==
    /\ session[b] = None
    /\ \E u \in Ids :
          /\ Present(u) /\ user[u].enabled
          /\ session' = [session EXCEPT ![b] = [id |-> u, email |-> None]]
    /\ UNCHANGED <<user, prof, issued, now, req>>

\* exports.create of sessions.js, for an account without a second factor.
Login(b) ==
    /\ session[b] = None
    /\ \E u \in Ids :
          /\ Present(u) /\ user[u].enabled
          /\ session' = [session EXCEPT ![b] = [id |-> u, email |-> user[u].email]]
    /\ UNCHANGED <<user, prof, issued, now, req>>
Logout(b) ==
    /\ session[b] # None
    /\ session' = [session EXCEPT ![b] = None]
    /\ UNCHANGED <<user, prof, issued, now, req>>

\* exports.password, with the current password.
ChangePassword(b) ==
    /\ session[b] # None /\ Present(session[b].id)
    /\ user' = [user EXCEPT ![session[b].id].passBy = None]
    /\ session' = [session EXCEPT ![b] = None]
    /\ UNCHANGED <<prof, issued, now, req>>

\* exports.cancel_account
CancelAccount(b) ==
    /\ session[b] # None /\ Present(session[b].id)
    /\ RemoveUser(session[b].id)
    /\ session' = [session EXCEPT ![b] = None]
    /\ UNCHANGED <<issued, now, req>>

-----------------------------------------------------------------------------
(* list_users.js of the administrators and the users of the REST API.      *)

CreateUser(e, enabled) ==
    /\ "create" \in Others /\ ~Taken(e) /\ RoomFor({"signup"})
    /\ \E u \in FreeIds : user' = [user EXCEPT ![u] = Account(e, enabled)]
    /\ UNCHANGED <<prof, issued, session, now, req>>
EditInfo(u, e) ==
    /\ "edit" \in Others /\ Present(u) /\ ~Taken(e)
    /\ MoveEmail(u, e, None)
    /\ UNCHANGED <<issued, session, now, req>>
\* PUT /v1/users/:id may set address and password; it enables the account,
\* always.
ApiUpdate(u, e) ==
    /\ "edit" \in Others /\ Present(u) /\ (Taken(e) => e = user[u].email)
    /\ \E p \in {None, user[u].passBy} :
          user' = [user EXCEPT ![u] = [user[u] EXCEPT
                   !.email = e, !.enabled = TRUE, !.passBy = p,
                   !.emailBy = IF e = user[u].email THEN user[u].emailBy
                               ELSE None,
                   !.enabledBy = IF user[u].enabled THEN user[u].enabledBy
                                 ELSE None]]
    /\ prof' = [p \in Profiles |-> IF p \in RowsOf(user[u].email)
                                   THEN [prof[p] EXCEPT !.email = e]
                                   ELSE prof[p]]
    /\ UNCHANGED <<issued, session, now, req>>
SetPassword(u) ==
    /\ "edit" \in Others /\ Present(u)
    /\ user' = [user EXCEPT ![u].passBy = None]
    /\ UNCHANGED <<prof, issued, session, now, req>>
Enable(u, on) ==
    /\ "enable" \in Others /\ Present(u)
    /\ user' = [user EXCEPT ![u].enabled = on, ![u].enabledBy = None]
    /\ UNCHANGED <<prof, issued, session, now, req>>
DeleteUser(u) ==
    /\ "delete" \in Others /\ Present(u)
    /\ RemoveUser(u)
    /\ UNCHANGED <<issued, session, now, req>>

-----------------------------------------------------------------------------
Finish(r) ==
    /\ req[r].st = "answered"
    /\ req' = [req EXCEPT ![r] = IdleReq]
    /\ UNCHANGED rows

Tick == /\ now < MaxTime /\ now' = now + 1
        /\ UNCHANGED <<user, prof, issued, session, req>>

Handle(r) ==
    \/ FindProfile(r) \/ CreateProfile(r) \/ SaveKey(r)
    \/ ValidateSignUp(r) \/ InsertUser(r)
    \/ FindActivate(r) \/ EnableUser(r)
    \/ FindResend(r) \/ UpdateKeys(r)
    \/ FindForgot(r) \/ FindReset(r) \/ ResetPassword(r)
    \/ FindEmail(r) \/ FindVerify(r) \/ ChangeEmail(r)
    \/ Finish(r)

Browse(b) == Login(b) \/ Logout(b) \/ ChangePassword(b) \/ CancelAccount(b)

Administrate ==
    \/ \E e \in Emails, on \in BOOLEAN : CreateUser(e, on)
    \/ \E u \in Ids : \/ \E e \in Emails : EditInfo(u, e) \/ ApiUpdate(u, e)
                      \/ \E on \in BOOLEAN : Enable(u, on)
                      \/ SetPassword(u) \/ DeleteUser(u)

Next == \/ \E r \in Reqs : NewRequest(r) \/ Handle(r)
        \/ \E b \in Browsers : Browse(b)
        \/ Administrate
        \/ Tick

Spec == Init /\ [][Next]_vars

\* The event loop runs the callbacks of every request.
FairSpec == Spec /\ \A r \in Reqs : WF_vars(Handle(r))

-----------------------------------------------------------------------------
TypeOK ==
    /\ user \in [Ids -> UserType]
    /\ prof \in [Profiles -> ProfileType]
    /\ issued \in [Keys -> LinkType]
    /\ session \in [Browsers -> SessionType \cup {None}]
    /\ now \in Nat
    /\ req \in [Reqs -> ReqType]

(* Two accounts never have the same address, although each handler asks    *)
(* whether it is taken a step before it writes it.                         *)
EmailsUnique ==
    \A u, v \in Ids : Present(u) /\ Present(v) /\ user[u].email = user[v].email
                         => u = v

(* Every registration profile belongs to an account: the keys of a deleted *)
(* account, or of an address that was given up, cannot be found again.     *)
ProfilesOwned ==
    \A p \in Profiles : prof[p].st = "live" => Taken(prof[p].email)

(* An account is only ever activated, and its password only ever reset, by *)
(* a link whose key was put in its own profile, although profiles and      *)
(* links are found by addresses, which accounts give up and others take.   *)
LinksServeTheirAccount ==
    \A u \in Ids :
       /\ user[u].enabledBy # None => issued[user[u].enabledBy].for = u
       /\ user[u].passBy # None => issued[user[u].passBy].for = u

(* Whoever follows a mailed link, asks for one from the login page or      *)
(* resends the confirmation is answered.                                   *)
LinksAnswered ==
    \A r \in Reqs : req[r].kind \in {"activate", "resend", "forgot", "verify"}
                       ~> req[r].st = "idle"

-----------------------------------------------------------------------------
(* What comments and messages say, and the code does not do.               *)

(* controllers/web/settings.js:229: "Follow the provided link to change    *)
(* your email".  Between look-up and update the address may have passed to *)
(* another account, and it is that account whose address changes.          *)
EmailLinkServesItsAccount ==
    \A u \in Ids : user[u].emailBy # None => issued[user[u].emailBy].for = u
=============================================================================
