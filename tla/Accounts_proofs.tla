--------------------------- MODULE Accounts_proofs ---------------------------
(***************************************************************************)
(* Theorems of Accounts for every number of accounts, addresses, keys,     *)
(* profiles, browsers and concurrent requests.  The inductive invariant    *)
(* adds to the types: keys in profiles were mailed for the account that    *)
(* has the profile's address (KeysOwned), a handler between look-up and    *)
(* update holds an account its key was mailed for (ReqOK), and the         *)
(* addresses that are copied into cookies and rows are addresses.          *)
(***************************************************************************)
EXTENDS Accounts, TLAPS

PresentOK == \A u \in Ids : Present(u) => user[u].email \in Emails

IssuedOK == \A k \in Keys : issued[k].use = "verification" =>
                               issued[k].email \in Emails

KeysOwned == \A p \in Profiles, u \in Purposes :
    prof[p].st = "live" /\ prof[p].key[u] # None =>
        /\ issued[prof[p].key[u]].use # "none"
        /\ issued[prof[p].key[u]].for \in Holders(prof[p].email)

MadeBy(u, k) == k # None => issued[k].use # "none" /\ issued[k].for = u
ByOwned == \A u \in Ids : MadeBy(u, user[u].enabledBy) /\ MadeBy(u, user[u].passBy)

DataType == /\ user \in [Ids -> UserType]
            /\ prof \in [Profiles -> ProfileType]
            /\ issued \in [Keys -> LinkType]
DataOK == /\ DataType /\ PresentOK /\ IssuedOK /\ EmailsUnique
          /\ ProfilesOwned /\ KeysOwned /\ ByOwned

Fine(q, links) ==
    /\ q.st \in {"profile", "create", "save"} =>
          q.kind \in {"signup", "forgot", "email"}
    /\ q.st = "save" => q.row \in Profiles
    /\ q.kind = "signup" => q.email \in Emails
    /\ q.kind \in {"email", "verify"} => q.id \in Ids /\ q.new \in Emails
    /\ q.kind = "verify" => q.br \in Browsers
    /\ q.kind \in {"activate", "reset"} =>
          /\ q.key \in Keys /\ links[q.key].use # "none"
          /\ q.st = "write" => q.id \in Ids /\ links[q.key].for = q.id
ReqOK == \A r \in Reqs : Fine(req[r], issued)

WebOK == /\ session \in [Browsers -> SessionType \cup {None}]
         /\ now \in Nat
         /\ req \in [Reqs -> ReqType]
         /\ ReqOK

IInv == DataOK /\ WebOK

-----------------------------------------------------------------------------
LEMMA InitIInv == Init => IInv
<1> SUFFICES ASSUME Init PROVE IInv
  OBVIOUS
<1> USE AccountsAssumption
<1>1. NoUser \in UserType /\ NoProfile \in ProfileType /\ NoLink \in LinkType
      /\ IdleReq \in ReqType
  BY DEF NoUser, UserType, NoProfile, ProfileType, Purposes, NoLink, LinkType,
         IdleReq, ReqType, Stages, AllKinds
<1>2. DataOK
  BY <1>1 DEF Init, DataOK, DataType, PresentOK, IssuedOK, EmailsUnique,
       ProfilesOwned, KeysOwned, ByOwned, MadeBy, Present, NoUser, NoProfile,
       NoLink
<1>3. WebOK
  BY <1>1 DEF Init, WebOK, ReqOK, Fine, IdleReq, SessionType
<1> QED
  BY <1>2, <1>3 DEF IInv

-----------------------------------------------------------------------------
(* The tables.  Each lemma is one way in which the program changes them.   *)

\* Two accounts with one address are one: the join finds the right account.
LEMMA JoinedIs ==
  ASSUME EmailsUnique, NEW e, NEW u \in Holders(e)
  PROVE Taken(e) /\ Joined(e) = u /\ u \in Ids
<1>1. Taken(e) /\ u \in Ids
  BY DEF Taken, Holders
<1>2. Joined(e) \in Holders(e)
  BY DEF Joined
<1> QED
  BY <1>1, <1>2 DEF EmailsUnique, Holders

\* A new row of the user table.
LEMMA Inserted ==
  ASSUME DataOK, NEW u \in FreeIds, NEW e \in Emails, NEW b \in BOOLEAN,
         ~Taken(e), user' = [user EXCEPT ![u] = Account(e, b)],
         UNCHANGED <<prof, issued>>
  PROVE DataOK'
<1> USE AccountsAssumption
<1> u \in Ids /\ ~Present(u)
  BY DEF FreeIds, Present
<1>1. Account(e, b) \in UserType
  BY DEF Account, NoUser, UserType
<1>2. DataType'
  BY <1>1 DEF DataOK, DataType
<1>3. \A v \in Ids : user'[v] = IF v = u THEN Account(e, b) ELSE user[v]
  BY DEF DataOK, DataType
<1>4. /\ Account(e, b).st = "present" /\ Account(e, b).email = e
      /\ Account(e, b).enabledBy = None /\ Account(e, b).passBy = None
  BY DEF Account, NoUser
<1>5. \A v \in Ids : Present(v) => user'[v] = user[v] /\ Present(v)' /\ v # u
  BY <1>3 DEF Present
<1>6. \A a : Holders(a) \subseteq Holders(a)'
  BY <1>5 DEF Holders
<1>7. PresentOK' /\ ByOwned' /\ IssuedOK'
  BY <1>3, <1>4 DEF DataOK, PresentOK, ByOwned, MadeBy, IssuedOK, Present
<1>8. EmailsUnique'
  BY <1>3, <1>4 DEF DataOK, EmailsUnique, Present, Taken, Holders
<1>9. ProfilesOwned'
  BY <1>6 DEF DataOK, ProfilesOwned, Taken
<1>10. KeysOwned'
  BY <1>6 DEF DataOK, KeysOwned
<1> QED
  BY <1>2, <1>7, <1>8, <1>9, <1>10 DEF DataOK

\* Flags, passwords and their history.
LEMMA Touched ==
  ASSUME DataOK, NEW u \in Ids, user' \in [Ids -> UserType],
         \A v \in Ids \ {u} : user'[v] = user[v],
         user'[u].st = user[u].st, user'[u].email = user[u].email,
         MadeBy(u, user'[u].enabledBy), MadeBy(u, user'[u].passBy),
         UNCHANGED <<prof, issued>>
  PROVE DataOK'
<1>1. \A v \in Ids : user'[v].st = user[v].st /\ user'[v].email = user[v].email
  OBVIOUS
<1>2. \A a : Holders(a)' = Holders(a)
  BY <1>1 DEF Holders, Present
<1>3. DataType' /\ IssuedOK'
  BY DEF DataOK, DataType, IssuedOK
<1>4. PresentOK' /\ EmailsUnique'
  BY <1>1 DEF DataOK, PresentOK, EmailsUnique, Present
<1>5. ProfilesOwned' /\ KeysOwned'
  BY <1>2 DEF DataOK, ProfilesOwned, KeysOwned, Taken
<1>6. ByOwned'
  <2>1. \A k : MadeBy(u, k)' = MadeBy(u, k)
    BY DEF MadeBy
  <2> QED
    BY DEF DataOK, ByOwned, MadeBy
<1> QED
  BY <1>3, <1>4, <1>5, <1>6 DEF DataOK

\* The address of an account changes, and the profiles follow.
LEMMA Moved ==
  ASSUME DataOK, NEW u \in Ids, NEW e \in Emails, Present(u),
         Taken(e) => e = user[u].email,
         user' \in [Ids -> UserType], \A v \in Ids \ {u} : user'[v] = user[v],
         user'[u].st = user[u].st, user'[u].email = e,
         MadeBy(u, user'[u].enabledBy), MadeBy(u, user'[u].passBy),
         prof' = [p \in Profiles |-> IF p \in RowsOf(user[u].email)
                                     THEN [prof[p] EXCEPT !.email = e]
                                     ELSE prof[p]],
         issued' = issued
  PROVE DataOK'
<1> DEFINE old == user[u].email
<1>1. \A p \in Profiles :
         /\ prof'[p].st = prof[p].st /\ prof'[p].key = prof[p].key
         /\ prof[p].st = "live" =>
               prof'[p].email = IF prof[p].email = old THEN e ELSE prof[p].email
  BY DEF DataOK, DataType, ProfileType, RowsOf
<1>2. DataType' /\ IssuedOK'
  <2>1. \A p \in Profiles : [prof[p] EXCEPT !.email = e] \in ProfileType
    BY DEF DataOK, DataType, ProfileType
  <2>2. prof' \in [Profiles -> ProfileType]
    BY <2>1 DEF DataOK, DataType
  <2> QED
    BY <2>2 DEF DataOK, DataType, IssuedOK
<1>3. PresentOK' /\ EmailsUnique'
  BY DEF DataOK, PresentOK, EmailsUnique, Present, Taken, Holders
<1>4. \A v \in Ids :
         /\ v # u => user'[v] = user[v]
         /\ v = u => user'[v].st = "present" /\ user'[v].email = e
  BY DEF Present
<1>5. \A v \in Ids : user[v].st = "present" /\ user[v].email = old => v = u
  BY DEF DataOK, EmailsUnique, Present
<1>6. \A a : \A v \in Ids : user[v].st = "present" /\ user[v].email = a =>
         /\ user'[v].st = "present"
         /\ user'[v].email = IF a = old THEN e ELSE a
  BY <1>4, <1>5
<1> HIDE DEF old
<1>7. ProfilesOwned'
  <2> SUFFICES ASSUME NEW p \in Profiles, prof'[p].st = "live"
               PROVE  \E v \in Ids : /\ user'[v].st = "present"
                                     /\ user'[v].email = prof'[p].email
    BY DEF ProfilesOwned, Taken, Holders, Present
  <2>1. \E v \in Ids : user[v].st = "present" /\ user[v].email = prof[p].email
    BY <1>1 DEF DataOK, ProfilesOwned, Taken, Holders, Present
  <2> QED
    BY <2>1, <1>1, <1>6
<1>8. KeysOwned'
  <2> SUFFICES ASSUME NEW p \in Profiles, NEW x \in Purposes,
                      prof'[p].st = "live", prof'[p].key[x] # None
               PROVE  LET i == issued'[prof'[p].key[x]]
                      IN  /\ i.use # "none" /\ i.for \in Ids
                          /\ user'[i.for].st = "present"
                          /\ user'[i.for].email = prof'[p].email
    BY DEF KeysOwned, Holders, Present
  <2>1. LET i == issued[prof[p].key[x]]
        IN  /\ i.use # "none" /\ i.for \in Ids
            /\ user[i.for].st = "present"
            /\ user[i.for].email = prof[p].email
    BY <1>1 DEF DataOK, KeysOwned, Holders, Present
  <2> QED
    BY <2>1, <1>1, <1>6
<1>9. ByOwned'
  BY DEF DataOK, ByOwned, MadeBy
<1> QED
  BY <1>2, <1>3, <1>7, <1>8, <1>9 DEF DataOK

\* An account is deleted, and its profiles with it.
LEMMA Removed ==
  ASSUME DataOK, NEW u \in Ids, Present(u), RemoveUser(u), issued' = issued
  PROVE DataOK'
<1> USE AccountsAssumption
<1> DEFINE old == user[u].email
           none == [NoUser EXCEPT !.st = "gone"]
<1>1. none \in UserType /\ [NoProfile EXCEPT !.st = "gone"] \in ProfileType
  BY DEF NoUser, UserType, NoProfile, ProfileType, Purposes
<1>2. \A v \in Ids : user'[v] = IF v = u THEN none ELSE user[v]
  BY DEF RemoveUser, DataOK, DataType
<1>3. \A p \in Profiles : prof'[p].st = "live" =>
         prof'[p] = prof[p] /\ prof[p].st = "live" /\ prof[p].email # old
  BY DEF RemoveUser, RowsOf, NoProfile
<1>4. none.st = "gone" /\ none.enabledBy = None /\ none.passBy = None
  BY DEF NoUser
<1>5. DataType' /\ IssuedOK'
  BY <1>1 DEF RemoveUser, DataOK, DataType, IssuedOK
<1>6. \A v \in Ids : user'[v].st = "present" => user'[v] = user[v]
  BY <1>2, <1>4
<1>7. PresentOK' /\ EmailsUnique'
  BY <1>6 DEF DataOK, PresentOK, EmailsUnique, Present
<1>8. ByOwned'
  BY <1>2, <1>4 DEF DataOK, ByOwned, MadeBy
<1>9. \A a, v : v \in Holders(a) /\ a # old => v \in Holders(a)'
  BY <1>2 DEF Holders, Present
<1>10. ProfilesOwned'
  BY <1>3, <1>9 DEF DataOK, ProfilesOwned, Taken
<1>11. KeysOwned'
  BY <1>3, <1>9 DEF DataOK, KeysOwned
<1> QED
  BY <1>5, <1>7, <1>8, <1>10, <1>11 DEF DataOK

\* A fresh key is put in profiles of one address and mailed.
LEMMA Mailed ==
  ASSUME DataOK, NEW r \in Reqs, NEW k \in FreeKeys, NEW e,
         req[r] \in ReqType, req[r].kind \in {"signup", "resend", "forgot", "email"},
         req[r].kind = "email" => req[r].new \in Emails,
         now \in Nat, Mail(r, k, e), user' = user,
         prof' \in [Profiles -> ProfileType],
         \A p \in Profiles : prof'[p].st = "live" =>
            \/ prof'[p] = prof[p]
            \/ /\ Taken(e) /\ prof'[p].email = e
               /\ \A use \in Purposes :
                     \/ prof'[p].key[use] \in {k, None}
                     \/ prof[p].st = "live" /\ prof[p].email = e
                        /\ prof'[p].key[use] = prof[p].key[use]
  PROVE DataOK'
<1> USE AccountsAssumption
<1> DEFINE who == IF Taken(e) THEN Joined(e) ELSE req[r].id
<1>1. k \in Keys /\ issued[k].use = "none"
  BY DEF FreeKeys
<1>2. UseOf(req[r].kind) \in Purposes
      /\ (UseOf(req[r].kind) = "verification" => req[r].kind = "email")
  BY DEF UseOf, Purposes
<1>3. Taken(e) => Joined(e) \in Holders(e) /\ Joined(e) \in Ids
  BY DEF Taken, Joined, Holders
<1> DEFINE new == [use |-> UseOf(req[r].kind), for |-> who,
                   email |-> IF req[r].kind = "email" THEN req[r].new
                             ELSE req[r].email,
                   exp |-> now + KeyLife]
<1>4. new \in LinkType
  BY <1>2, <1>3 DEF LinkType, ReqType
<1>5. issued' = [issued EXCEPT ![k] = new]
  BY DEF Mail
<1>6. \A j \in Keys : issued'[j] = IF j = k THEN new ELSE issued[j]
  BY <1>5 DEF DataOK, DataType
<1>7. DataType' /\ IssuedOK'
  BY <1>2, <1>4, <1>5, <1>6 DEF DataOK, DataType, IssuedOK
<1>8. PresentOK' /\ EmailsUnique' /\ \A a : Holders(a)' = Holders(a)
  BY DEF DataOK, PresentOK, EmailsUnique, Holders, Present
<1>9. ProfilesOwned'
  BY <1>8 DEF DataOK, ProfilesOwned, Taken
<1>10. \A j \in Keys : issued[j].use # "none" => issued'[j] = issued[j]
  BY <1>1, <1>6
<1>11. Taken(e) => issued'[k].use # "none" /\ issued'[k].for \in Holders(e)
  BY <1>1, <1>2, <1>3, <1>6 DEF Purposes
<1>12. \A p \in Profiles, u \in Purposes : prof[p].key[u] \in Keys \cup {None}
  BY DEF DataOK, DataType, ProfileType
<1>13. KeysOwned'
  BY <1>8, <1>10, <1>11, <1>12 DEF DataOK, KeysOwned
<1>14. ByOwned'
  BY <1>10 DEF DataOK, DataType, UserType, ByOwned, MadeBy
<1> QED
  BY <1>7, <1>8, <1>9, <1>13, <1>14 DEF DataOK

\* Requests, cookies and the clock only.
LEMMA Same ==
  ASSUME DataOK, UNCHANGED <<user, prof, issued>>
  PROVE DataOK'
BY DEF DataOK, DataType, PresentOK, IssuedOK, EmailsUnique, ProfilesOwned,
       KeysOwned, ByOwned, MadeBy, Taken, Holders, Present

\* The address of an account alone, by a form or by a link.
LEMMA MovedBy ==
  ASSUME DataOK, NEW u \in Ids, NEW e \in Emails, NEW k \in Keys \cup {None},
         Present(u), ~Taken(e), MoveEmail(u, e, k), issued' = issued
  PROVE DataOK'
<1> DEFINE row == [user[u] EXCEPT !.email = e, !.emailBy = k]
<1>1. user' = [user EXCEPT ![u] = row]
  BY DEF MoveEmail
<1>2. row \in UserType
  BY DEF DataOK, DataType, UserType
<1>3. /\ row.st = user[u].st /\ row.email = e
      /\ row.enabledBy = user[u].enabledBy /\ row.passBy = user[u].passBy
  BY DEF DataOK, DataType, UserType
<1> HIDE DEF row
<1>4. user' \in [Ids -> UserType] /\ user'[u] = row
      /\ \A v \in Ids \ {u} : user'[v] = user[v]
  BY <1>1, <1>2 DEF DataOK, DataType
<1>5. MadeBy(u, user[u].enabledBy) /\ MadeBy(u, user[u].passBy)
  BY DEF DataOK, ByOwned
<1>6. prof' = [p \in Profiles |-> IF p \in RowsOf(user[u].email)
                                  THEN [prof[p] EXCEPT !.email = e]
                                  ELSE prof[p]]
  BY DEF MoveEmail
<1> QED
  BY <1>3, <1>4, <1>5, <1>6, Moved

-----------------------------------------------------------------------------
(* Requests.  Links that were mailed are never changed, so that what a     *)
(* handler has found stays true of its link.                               *)

LinksKept == \A k \in Keys : issued[k].use # "none" => issued'[k] = issued[k]

LEMMA FineKept ==
  ASSUME LinksKept, NEW q, Fine(q, issued)
  PROVE Fine(q, issued')
BY DEF LinksKept, Fine

\* A request moves to the state q.
LEMMA Served ==
  ASSUME WebOK, LinksKept, NEW r \in Reqs, NEW q \in ReqType, Fine(q, issued),
         req' = [req EXCEPT ![r] = q],
         session' \in [Browsers -> SessionType \cup {None}], now' \in Nat
  PROVE WebOK'
<1>1. req' \in [Reqs -> ReqType] /\ \A s \in Reqs :
         req'[s] = IF s = r THEN q ELSE req[s]
  BY DEF WebOK
<1>2. \A s \in Reqs : Fine(req'[s], issued)
  BY <1>1 DEF WebOK, ReqOK
<1>3. ReqOK'
  BY <1>2, FineKept DEF ReqOK
<1> QED
  BY <1>1, <1>3 DEF WebOK

\* No request moves.
LEMMA Unserved ==
  ASSUME WebOK, issued' = issued, req' = req,
         session' \in [Browsers -> SessionType \cup {None}], now' \in Nat
  PROVE WebOK'
BY DEF WebOK, ReqOK

\* A handler that only goes on to another stage.
LEMMA Gone ==
  ASSUME WebOK, LinksKept, NEW r \in Reqs, NEW stage \in Stages,
         Goto(r, stage), UNCHANGED <<session, now>>,
         stage = "create" => req[r].st = "profile",
         stage \notin {"profile", "save"},
         stage = "write" => req[r].kind \notin {"activate", "reset"}
  PROVE WebOK'
<1> DEFINE q == [req[r] EXCEPT !.st = stage]
<1>1. q \in ReqType
  BY DEF WebOK, ReqType
<1>2. /\ q.st = stage /\ q.kind = req[r].kind /\ q.row = req[r].row
      /\ q.email = req[r].email /\ q.id = req[r].id /\ q.new = req[r].new
      /\ q.br = req[r].br /\ q.key = req[r].key
  BY DEF WebOK, ReqType
<1>3. req' = [req EXCEPT ![r] = q]
  BY DEF Goto
<1>4. Fine(req[r], issued)
  BY DEF WebOK, ReqOK
<1> HIDE DEF q
<1>5. Fine(q, issued)
  BY <1>2, <1>4 DEF Fine
<1> QED
  BY <1>1, <1>3, <1>5, Served DEF WebOK

-----------------------------------------------------------------------------
(* The steps. *)

LEMMA NewRequestIInv ==
  ASSUME IInv, NEW r \in Reqs, NewRequest(r)
  PROVE IInv'
<1> USE AccountsAssumption
<1>1. PICK q : Arrive(r, q) /\ q \in ReqType /\ Fine(q, issued)
  <2>1. CASE \E k \in {"signup", "resend", "forgot"}, e \in Emails :
                Arrive(r, Opened(k, None, None, e, None, None))
    BY <2>1 DEF Opened, ReqType, Stages, AllKinds, Fine
  <2>2. CASE \E k \in Keys : issued[k].use = "activation" /\
                Arrive(r, Opened("activate", None, None, issued[k].email, None, k))
    BY <2>2 DEF Opened, ReqType, Stages, AllKinds, Fine, IInv, DataOK,
         DataType, LinkType
  <2>3. CASE \E k \in Keys : issued[k].use = "reset" /\
                Arrive(r, Opened("reset", None, None, issued[k].email, None, k))
    BY <2>3 DEF Opened, ReqType, Stages, AllKinds, Fine, IInv, DataOK,
         DataType, LinkType
  <2>4. CASE \E b \in Browsers, n \in Emails : session[b] # None /\
                Arrive(r, Opened("email", b, session[b].id, None, n, None))
    BY <2>4 DEF Opened, ReqType, Stages, AllKinds, Fine, IInv, WebOK,
         SessionType
  <2>5. CASE \E b \in Browsers, k \in Keys :
                /\ session[b] # None /\ issued[k].use = "verification"
                /\ Arrive(r, Opened("verify", b, session[b].id,
                                    session[b].email, issued[k].email, k))
    BY <2>5 DEF Opened, ReqType, Stages, AllKinds, Fine, IInv, WebOK,
         SessionType, DataOK, IssuedOK
  <2> QED
    BY <2>1, <2>2, <2>3, <2>4, <2>5, Zenon DEF NewRequest
<1>2. req' = [req EXCEPT ![r] = q] /\ UNCHANGED <<user, prof, issued, session, now>>
  BY <1>1 DEF Arrive, rows
<1>3. DataOK'
  BY <1>2, Same DEF IInv
<1>4. WebOK'
  BY <1>1, <1>2, Served DEF IInv, WebOK, LinksKept
<1> QED
  BY <1>3, <1>4 DEF IInv

\* What the handlers read before they write.
LEMMA FoundIsOwners ==
  ASSUME IInv, NEW e, NEW f \in Found(e), NEW use \in Purposes,
         NEW k \in Keys, Accepts(f, use, k)
  PROVE  issued[k].use # "none" /\ issued[k].for = Joined(e)
<1>1. PICK p \in Profiles : p \in RowsOf(e) /\ f = prof[p]
  BY DEF Found, Accepts, NoProfile, RowsOf
<1>2. prof[p].st = "live" /\ prof[p].email = e /\ prof[p].key[use] = k
  BY <1>1 DEF RowsOf, Accepts
<1>3. k # None
  BY AccountsAssumption
<1>4. issued[k].use # "none" /\ issued[k].for \in Holders(e)
  BY <1>2, <1>3 DEF IInv, DataOK, KeysOwned
<1> QED
  BY <1>4, JoinedIs DEF IInv, DataOK

LEMMA JoinedType ==
  ASSUME NEW e, Taken(e)
  PROVE Joined(e) \in Ids /\ Present(Joined(e)) /\ user[Joined(e)].email = e
BY DEF Taken, Joined, Holders

LEMMA LookUpIInv ==
  ASSUME IInv, NEW r \in Reqs,
         \/ FindProfile(r) \/ ValidateSignUp(r) \/ FindActivate(r)
         \/ FindResend(r) \/ FindForgot(r) \/ FindReset(r)
         \/ FindEmail(r) \/ FindVerify(r) \/ Finish(r)
  PROVE IInv'
<1> USE AccountsAssumption
<1>1. UNCHANGED <<user, prof, issued, session, now>>
  BY DEF FindProfile, ValidateSignUp, FindActivate, FindResend, FindForgot,
       FindReset, FindEmail, FindVerify, Finish, rows
<1>2. DataOK' /\ LinksKept
  BY <1>1, Same DEF IInv, LinksKept
<1> SUFFICES WebOK'
  BY <1>2 DEF IInv
<1>3. req[r] \in ReqType /\ Fine(req[r], issued)
  BY DEF IInv, WebOK, ReqOK
<1>4. {"answered", "hung", "create", "insert", "write"} \subseteq Stages
  BY DEF Stages
<1>5. ASSUME Answered(r) \/ Hung(r)  PROVE WebOK'
  BY <1>1, <1>2, <1>4, <1>5, Gone DEF IInv, Answered, Hung
<1>6. ASSUME NEW i \in Ids, NEW stage \in {"write", "profile"},
             req' = [req EXCEPT ![r].st = stage, ![r].id = i],
             stage = "profile" => req[r].kind = "forgot",
             \/ req[r].kind \in {"resend", "forgot"}
             \/ req[r].kind \in {"activate", "reset"}
                   /\ issued[req[r].key].for = i
      PROVE WebOK'
  <2> DEFINE q == [req[r] EXCEPT !.st = stage, !.id = i]
  <2>1. req' = [req EXCEPT ![r] = q]
    BY <1>6
  <2>2. q \in ReqType
    BY <1>3 DEF ReqType, Stages
  <2>3. /\ q.st = stage /\ q.kind = req[r].kind /\ q.row = req[r].row
        /\ q.email = req[r].email /\ q.id = i /\ q.new = req[r].new
        /\ q.br = req[r].br /\ q.key = req[r].key
    BY <1>3 DEF ReqType
  <2> HIDE DEF q
  <2>4. Fine(q, issued)
    BY <1>3, <1>6, <2>3 DEF Fine
  <2> QED
    BY <1>1, <1>2, <2>1, <2>2, <2>4, Served DEF IInv, WebOK
<1>7. CASE FindProfile(r)
  <2>1. CASE Goto(r, "create")
    BY <1>1, <1>2, <1>4, <1>7, <2>1, Gone DEF IInv, FindProfile
  <2>2. CASE \E p \in RowsOf(req[r].email) :
                req' = [req EXCEPT ![r].st = "save", ![r].row = p]
    <3>1. PICK p \in Profiles :
                req' = [req EXCEPT ![r].st = "save", ![r].row = p]
      BY <2>2 DEF RowsOf
    <3> DEFINE q == [req[r] EXCEPT !.st = "save", !.row = p]
    <3>2. req' = [req EXCEPT ![r] = q]
      BY <3>1
    <3>3. q \in ReqType
      BY <1>3 DEF ReqType, Stages
    <3>4. /\ q.st = "save" /\ q.kind = req[r].kind /\ q.row = p
          /\ q.email = req[r].email /\ q.id = req[r].id /\ q.new = req[r].new
          /\ q.br = req[r].br /\ q.key = req[r].key
      BY <1>3 DEF ReqType
    <3> HIDE DEF q
    <3>5. Fine(q, issued)
      BY <1>3, <1>7, <3>4 DEF Fine, FindProfile
    <3> QED
      BY <1>1, <1>2, <3>2, <3>3, <3>5, Served DEF IInv, WebOK
  <2> QED
    BY <1>7, <2>1, <2>2 DEF FindProfile
<1>8. CASE ValidateSignUp(r)
  <2>1. CASE Goto(r, "insert")
    BY <1>1, <1>2, <1>4, <2>1, Gone DEF IInv
  <2> QED
    BY <1>5, <1>8, <2>1 DEF ValidateSignUp
<1>9. CASE FindActivate(r) \/ FindReset(r)
  <2>1. PICK use \in Purposes, f \in Found(req[r].email) :
           \/ Answered(r) \/ Hung(r)
           \/ /\ Accepts(f, use, req[r].key) /\ Taken(req[r].email)
              /\ req' = [req EXCEPT ![r].st = "write",
                                    ![r].id = Joined(req[r].email)]
    BY <1>9, Zenon DEF FindActivate, FindReset, Purposes
  <2>2. CASE Answered(r) \/ Hung(r)
    BY <1>5, <2>2
  <2>3. CASE /\ Accepts(f, use, req[r].key) /\ Taken(req[r].email)
             /\ req' = [req EXCEPT ![r].st = "write",
                                   ![r].id = Joined(req[r].email)]
    <3>1. req[r].kind \in {"activate", "reset"}
      BY <1>9 DEF FindActivate, FindReset, At
    <3>2. req[r].key \in Keys
      BY <1>3, <3>1 DEF Fine
    <3>3. issued[req[r].key].for = Joined(req[r].email)
      BY <2>3, <3>2, FoundIsOwners
    <3>4. Joined(req[r].email) \in Ids
      BY <2>3, JoinedType
    <3> QED
      BY <1>6, <2>3, <3>1, <3>3, <3>4
  <2> QED
    BY <2>1, <2>2, <2>3
<1>10. CASE FindResend(r) \/ FindForgot(r)
  <2>1. req[r].kind \in {"resend", "forgot"}
    BY <1>10 DEF FindResend, FindForgot, At
  <2>2. CASE Answered(r)
    BY <1>5, <2>2
  <2>3. CASE ~Answered(r)
    <3>1. PICK stage \in {"write", "profile"} :
             /\ Taken(req[r].email)
             /\ stage = "profile" => req[r].kind = "forgot"
             /\ req' = [req EXCEPT ![r].st = stage,
                                   ![r].id = Joined(req[r].email)]
      BY <1>10, <2>3 DEF FindResend, FindForgot, At
    <3>2. Joined(req[r].email) \in Ids
      BY <3>1, JoinedType
    <3> QED
      BY <1>6, <2>1, <3>1, <3>2
  <2> QED
    BY <2>2, <2>3
<1>11. CASE FindEmail(r)
  <2>1. CASE Answered(r) \/ Hung(r)
    BY <1>5, <2>1
  <2>2. CASE /\ Present(req[r].id)
             /\ req' = [req EXCEPT ![r].st = "profile",
                                   ![r].email = user[req[r].id].email]
    <3> DEFINE mail == user[req[r].id].email
               q == [req[r] EXCEPT !.st = "profile", !.email = mail]
    <3>1. req' = [req EXCEPT ![r] = q]
      BY <2>2
    <3>2. req[r].kind = "email" /\ req[r].id \in Ids
      BY <1>3, <1>11 DEF FindEmail, At, Fine
    <3>3. mail \in Emails
      BY <2>2, <3>2 DEF IInv, DataOK, PresentOK
    <3> HIDE DEF mail
    <3>4. q \in ReqType
      BY <1>3, <3>3 DEF ReqType, Stages
    <3>5. /\ q.st = "profile" /\ q.kind = req[r].kind /\ q.row = req[r].row
          /\ q.id = req[r].id /\ q.new = req[r].new
          /\ q.br = req[r].br /\ q.key = req[r].key
      BY <1>3 DEF ReqType
    <3> HIDE DEF q
    <3>6. Fine(q, issued)
      BY <1>3, <3>2, <3>5 DEF Fine
    <3> QED
      BY <1>1, <1>2, <3>1, <3>4, <3>6, Served DEF IInv, WebOK
  <2> QED
    BY <1>11, <2>1, <2>2, Zenon DEF FindEmail
<1>12. CASE FindVerify(r)
  <2>1. CASE Goto(r, "write") /\ req[r].kind = "verify"
    BY <1>1, <1>2, <1>4, <2>1, Gone DEF IInv
  <2> QED
    BY <1>5, <1>12, <2>1 DEF FindVerify, At
<1>13. CASE Finish(r)
  <2>1. IdleReq \in ReqType /\ Fine(IdleReq, issued)
    BY DEF IdleReq, ReqType, Stages, AllKinds, Fine
  <2> QED
    BY <1>1, <1>2, <1>13, <2>1, Served DEF IInv, WebOK, Finish
<1> QED
  BY <1>7, <1>8, <1>9, <1>10, <1>11, <1>12, <1>13

\* A key is mailed after it was put in a profile.
LEMMA KeyIInv ==
  ASSUME IInv, NEW r \in Reqs, CreateProfile(r) \/ SaveKey(r) \/ UpdateKeys(r)
  PROVE IInv'
<1> USE AccountsAssumption
<1> DEFINE use == UseOf(req[r].kind)
<1>1. req[r] \in ReqType /\ Fine(req[r], issued) /\ now \in Nat
  BY DEF IInv, WebOK, ReqOK
<1>2. UNCHANGED <<user, session, now>>
  BY DEF CreateProfile, SaveKey, UpdateKeys
<1>3. req[r].kind \in {"signup", "resend", "forgot", "email"}
  BY <1>1 DEF CreateProfile, SaveKey, UpdateKeys, At, Fine
<1>4. req[r].kind = "email" => req[r].new \in Emails
  BY <1>1 DEF Fine
<1>5. use \in Purposes
  BY <1>3 DEF UseOf, Purposes
<1>6. \A p \in Profiles : prof[p] \in ProfileType
  BY DEF IInv, DataOK, DataType
<1> HIDE DEF use
<1>7. (Answered(r) \/ Hung(r)) /\ LinksKept => WebOK'
  <2>1. {"answered", "hung"} \subseteq Stages
    BY DEF Stages
  <2> QED
    BY <1>2, <2>1, Gone DEF IInv, Answered, Hung
<1>8. ASSUME NEW k \in FreeKeys, NEW e, Mail(r, k, e)
      PROVE LinksKept
  BY <1>8 DEF Mail, FreeKeys, LinksKept, IInv, DataOK, DataType
<1>9. CASE CreateProfile(r)
  <2> DEFINE e == req[r].email
  <2>1. CASE /\ ~Taken(e) /\ (Answered(r) \/ Hung(r))
             /\ UNCHANGED <<prof, issued>>
    <3>1. LinksKept
      BY <2>1 DEF LinksKept
    <3> QED
      BY <1>2, <1>7, <2>1, <3>1, Same DEF IInv
  <2>2. CASE /\ Taken(e) /\ Answered(r)
             /\ \E k \in FreeKeys, p \in FreeRows :
                   /\ prof' = [prof EXCEPT ![p] =
                          [st |-> "live", email |-> e,
                           key |-> [NoProfile.key EXCEPT ![use] = k]]]
                   /\ Mail(r, k, e)
    <3>1. PICK k \in FreeKeys, p \in FreeRows :
                   /\ prof' = [prof EXCEPT ![p] =
                          [st |-> "live", email |-> e,
                           key |-> [NoProfile.key EXCEPT ![use] = k]]]
                   /\ Mail(r, k, e)
      BY <2>2
    <3> DEFINE keys == [NoProfile.key EXCEPT ![use] = k]
               new == [st |-> "live", email |-> e, key |-> keys]
    <3>2. /\ keys \in [Purposes -> Keys \cup {None}]
          /\ \A x \in Purposes : keys[x] \in {k, None}
      BY <1>5 DEF NoProfile, FreeKeys
    <3> HIDE DEF keys
    <3>3. new \in ProfileType
      BY <1>1, <3>2 DEF ProfileType, ReqType
    <3>4. prof' = [prof EXCEPT ![p] = new]
      BY <3>1 DEF keys
    <3>5. new.email = e /\ new.key = keys
      OBVIOUS
    <3> HIDE DEF new
    <3>6. /\ prof' \in [Profiles -> ProfileType]
          /\ \A x \in Profiles : prof'[x] = IF x = p THEN new ELSE prof[x]
      BY <3>3, <3>4 DEF IInv, DataOK, DataType
    <3>7. \A x \in Profiles : prof'[x].st = "live" =>
             \/ prof'[x] = prof[x]
             \/ /\ Taken(e) /\ prof'[x].email = e
                /\ \A y \in Purposes :
                      \/ prof'[x].key[y] \in {k, None}
                      \/ prof[x].st = "live" /\ prof[x].email = e
                         /\ prof'[x].key[y] = prof[x].key[y]
      BY <2>2, <3>2, <3>5, <3>6
    <3>8. DataOK'
      BY <1>1, <1>2, <1>3, <1>4, <3>1, <3>6, <3>7, Mailed DEF IInv
    <3> QED
      BY <1>7, <1>8, <2>2, <3>1, <3>8 DEF IInv
  <2> QED
    BY <1>9, <2>1, <2>2 DEF CreateProfile, use
<1>10. CASE SaveKey(r)
  <2> DEFINE p == req[r].row
             e == prof[p].email
  <2>1. p \in Profiles
    BY <1>1, <1>10 DEF SaveKey, Fine
  <2>2. PICK k \in FreeKeys :
           /\ prof' = IF prof[p].st # "live" THEN prof
                      ELSE [prof EXCEPT ![p].key[use] = k]
           /\ Mail(r, k, e)
    BY <1>10 DEF SaveKey, use
  <2> DEFINE keys == [prof[p].key EXCEPT ![use] = k]
             new == [prof[p] EXCEPT !.key = keys]
  <2>3. /\ keys \in [Purposes -> Keys \cup {None}]
        /\ \A y \in Purposes : keys[y] = k \/ keys[y] = prof[p].key[y]
    BY <1>5, <1>6, <2>1 DEF ProfileType, FreeKeys
  <2>4. prof' = IF prof[p].st # "live" THEN prof ELSE [prof EXCEPT ![p] = new]
    BY <2>2
  <2> HIDE DEF keys
  <2>5. /\ new \in ProfileType /\ new.email = e /\ new.key = keys
        /\ new.st = prof[p].st
    BY <1>6, <2>1, <2>3 DEF ProfileType
  <2> HIDE DEF new
  <2>6. /\ prof' \in [Profiles -> ProfileType]
        /\ \A x \in Profiles : prof'[x] =
              IF prof[p].st = "live" /\ x = p THEN new ELSE prof[x]
    BY <2>4, <2>5 DEF IInv, DataOK, DataType
  <2>7. prof[p].st = "live" => Taken(e)
    BY <2>1 DEF IInv, DataOK, ProfilesOwned
  <2>8. \A x \in Profiles : prof'[x].st = "live" =>
           \/ prof'[x] = prof[x]
           \/ /\ Taken(e) /\ prof'[x].email = e
              /\ \A y \in Purposes :
                    \/ prof'[x].key[y] \in {k, None}
                    \/ prof[x].st = "live" /\ prof[x].email = e
                       /\ prof'[x].key[y] = prof[x].key[y]
    BY <2>1, <2>3, <2>5, <2>6, <2>7
  <2>9. DataOK'
    BY <1>1, <1>2, <1>3, <1>4, <2>2, <2>6, <2>8, Mailed DEF IInv
  <2> QED
    BY <1>7, <1>8, <1>10, <2>2, <2>9 DEF IInv, SaveKey
<1>11. CASE UpdateKeys(r)
  <2>0. PICK e : e = req[r].email
    OBVIOUS
  <2>1. PICK k \in FreeKeys :
           /\ prof' = [p \in Profiles |-> IF p \in RowsOf(e)
                        THEN [prof[p] EXCEPT !.key["activation"] = k]
                        ELSE prof[p]]
           /\ Mail(r, k, e)
    BY <1>11, <2>0 DEF UpdateKeys
  <2> DEFINE keys(p) == [prof[p].key EXCEPT !["activation"] = k]
  <2>2. \A p \in Profiles :
           /\ keys(p) \in [Purposes -> Keys \cup {None}]
           /\ \A y \in Purposes : keys(p)[y] = k \/ keys(p)[y] = prof[p].key[y]
    BY <1>6 DEF ProfileType, FreeKeys, Purposes
  <2>3. \A p \in Profiles : prof'[p] =
            IF p \in RowsOf(e) THEN [prof[p] EXCEPT !.key = keys(p)]
            ELSE prof[p]
    BY <2>1
  <2> HIDE DEF keys
  <2>4. \A p \in Profiles : LET new == [prof[p] EXCEPT !.key = keys(p)]
                            IN  /\ new \in ProfileType
                                /\ new.email = prof[p].email
                                /\ new.key = keys(p) /\ new.st = prof[p].st
    BY <1>6, <2>2 DEF ProfileType
  <2>5. prof' \in [Profiles -> ProfileType]
    <3>1. \A p \in Profiles : prof'[p] \in ProfileType
      BY <1>6, <2>3, <2>4
    <3> QED
      BY <2>1, <3>1
  <2>6. \A p \in Profiles : p \in RowsOf(e) =>
           prof[p].st = "live" /\ prof[p].email = e /\ Taken(e)
    BY DEF RowsOf, IInv, DataOK, ProfilesOwned
  <2>7. \A x \in Profiles : prof'[x].st = "live" =>
           \/ prof'[x] = prof[x]
           \/ /\ Taken(e) /\ prof'[x].email = e
              /\ \A y \in Purposes :
                    \/ prof'[x].key[y] \in {k, None}
                    \/ prof[x].st = "live" /\ prof[x].email = e
                       /\ prof'[x].key[y] = prof[x].key[y]
    <3> SUFFICES ASSUME NEW x \in Profiles, prof'[x].st = "live"
                 PROVE  \/ prof'[x] = prof[x]
                        \/ /\ Taken(e) /\ prof'[x].email = e
                           /\ \A y \in Purposes :
                                 \/ prof'[x].key[y] \in {k, None}
                                 \/ prof[x].st = "live" /\ prof[x].email = e
                                    /\ prof'[x].key[y] = prof[x].key[y]
      OBVIOUS
    <3>1. CASE x \in RowsOf(e)
      <4>1. /\ prof'[x].email = prof[x].email /\ prof'[x].key = keys(x)
            /\ prof'[x].st = prof[x].st
        BY <2>3, <2>4, <3>1
      <4> QED
        BY <2>2, <2>6, <3>1, <4>1
    <3> QED
      BY <2>3, <3>1
  <2>8. Mail(r, k, e)
    BY <2>1
  <2>9. DataOK'
    BY <1>1, <1>2, <1>3, <1>4, <2>5, <2>7, <2>8, Mailed DEF IInv
  <2> QED
    BY <1>7, <1>8, <1>11, <2>8, <2>9 DEF IInv, UpdateKeys
<1> QED
  BY <1>9, <1>10, <1>11

\* Requests that write an account.
LEMMA WriteIInv ==
  ASSUME IInv, NEW r \in Reqs,
         InsertUser(r) \/ EnableUser(r) \/ ResetPassword(r) \/ ChangeEmail(r)
  PROVE IInv'
<1> USE AccountsAssumption
<1>1. req[r] \in ReqType /\ Fine(req[r], issued)
  BY DEF IInv, WebOK, ReqOK
<1>2. issued' = issued /\ now' = now /\ LinksKept
  BY DEF InsertUser, EnableUser, ResetPassword, ChangeEmail, LinksKept
<1>3. (Answered(r) \/ Hung(r)) /\ session' = session => WebOK'
  <2>1. {"answered", "hung"} \subseteq Stages
    BY DEF Stages
  <2> QED
    BY <1>2, <2>1, Gone DEF IInv, Answered, Hung
<1>4. CASE InsertUser(r)
  <2> DEFINE e == req[r].email
  <2>1. req[r].kind = "signup" /\ e \in Emails /\ UNCHANGED <<prof, issued, session, now>>
    BY <1>1, <1>4 DEF InsertUser, At, Fine
  <2>2. CASE Hung(r) /\ UNCHANGED user
    BY <1>3, <2>1, <2>2, Same DEF IInv
  <2>3. CASE /\ ~Taken(e)
             /\ \E u \in FreeIds :
                   /\ user' = [user EXCEPT ![u] = Account(e, FALSE)]
                   /\ req' = [req EXCEPT ![r].st = "profile", ![r].id = u]
    <3>1. PICK u \in FreeIds :
             /\ user' = [user EXCEPT ![u] = Account(e, FALSE)]
             /\ req' = [req EXCEPT ![r].st = "profile", ![r].id = u]
      BY <2>3
    <3>2. DataOK'
      BY <2>1, <2>3, <3>1, Inserted DEF IInv
    <3> DEFINE q == [req[r] EXCEPT !.st = "profile", !.id = u]
    <3>3. req' = [req EXCEPT ![r] = q]
      BY <3>1
    <3>4. q \in ReqType
      BY <1>1 DEF ReqType, Stages, FreeIds
    <3>5. q.st = "profile" /\ q.kind = "signup" /\ q.email = e
      BY <1>1, <2>1 DEF ReqType
    <3> HIDE DEF q
    <3>6. Fine(q, issued)
      BY <2>1, <3>5 DEF Fine
    <3>7. WebOK'
      BY <1>2, <2>1, <3>3, <3>4, <3>6, Served DEF IInv, WebOK
    <3> QED
      BY <3>2, <3>7 DEF IInv
  <2> QED
    BY <1>4, <2>2, <2>3 DEF InsertUser
<1>5. CASE EnableUser(r) \/ ResetPassword(r)
  <2> DEFINE u == req[r].id
             link == req[r].key
  <2>1. u \in Ids /\ link \in Keys /\ MadeBy(u, link)
    BY <1>1, <1>5 DEF EnableUser, ResetPassword, At, Fine, MadeBy
  <2>2. UNCHANGED <<prof, issued, session, now>> /\ Answered(r)
    BY <1>5 DEF EnableUser, ResetPassword
  <2>3. WebOK'
    BY <1>3, <2>2
  <2>4. user[u] \in UserType
    BY <2>1 DEF IInv, DataOK, DataType
  <2>5. MadeBy(u, user[u].enabledBy) /\ MadeBy(u, user[u].passBy)
    BY <2>1 DEF IInv, DataOK, ByOwned
  <2>6. CASE UNCHANGED user
    BY <2>2, <2>3, <2>6, Same DEF IInv
  <2>7. ASSUME NEW row \in UserType, user' = [user EXCEPT ![u] = row],
               row.st = user[u].st, row.email = user[u].email,
               MadeBy(u, row.enabledBy), MadeBy(u, row.passBy)
        PROVE  IInv'
    <3>1. /\ user' \in [Ids -> UserType] /\ user'[u] = row
          /\ \A v \in Ids \ {u} : user'[v] = user[v]
      BY <2>1, <2>7 DEF IInv, DataOK, DataType
    <3>2. DataOK'
      BY <2>1, <2>2, <2>7, <3>1, Touched DEF IInv
    <3> QED
      BY <2>3, <3>2 DEF IInv
  <2>8. CASE user' = [user EXCEPT ![u].enabled = TRUE, ![u].enabledBy = link]
    <3> DEFINE row == [user[u] EXCEPT !.enabled = TRUE, !.enabledBy = link]
    <3>1. user' = [user EXCEPT ![u] = row]
      BY <2>8
    <3>2. /\ row \in UserType /\ row.st = user[u].st
          /\ row.email = user[u].email /\ row.enabledBy = link
          /\ row.passBy = user[u].passBy
      BY <2>1, <2>4 DEF UserType
    <3> HIDE DEF row
    <3> QED
      BY <2>1, <2>5, <2>7, <3>1, <3>2
  <2>9. CASE user' = [user EXCEPT ![u].passBy = link]
    <3> DEFINE row == [user[u] EXCEPT !.passBy = link]
    <3>1. user' = [user EXCEPT ![u] = row]
      BY <2>9
    <3>2. /\ row \in UserType /\ row.st = user[u].st
          /\ row.email = user[u].email /\ row.passBy = link
          /\ row.enabledBy = user[u].enabledBy
      BY <2>1, <2>4 DEF UserType
    <3> HIDE DEF row
    <3> QED
      BY <2>1, <2>5, <2>7, <3>1, <3>2
  <2> QED
    BY <1>5, <2>6, <2>8, <2>9 DEF EnableUser, ResetPassword
<1>6. CASE ChangeEmail(r)
  <2> DEFINE q == req[r]
  <2>1. /\ q.id \in Ids /\ q.new \in Emails /\ q.br \in Browsers
        /\ q.key \in Keys \cup {None} /\ Answered(r)
    BY <1>1, <1>6 DEF ChangeEmail, At, Fine, ReqType
  <2>2. session' \in [Browsers -> SessionType \cup {None}]
    <3>1. [id |-> q.id, email |-> q.new] \in SessionType
      BY <2>1 DEF SessionType
    <3> QED
      BY <1>6, <3>1 DEF ChangeEmail, IInv, WebOK
  <2>3. WebOK'
    <3> DEFINE p == [q EXCEPT !.st = "answered"]
    <3>1. p \in ReqType /\ req' = [req EXCEPT ![r] = p]
      BY <1>1, <2>1 DEF ReqType, Stages, Answered, Goto
    <3>2. /\ p.st = "answered" /\ p.kind = q.kind /\ p.email = q.email
          /\ p.id = q.id /\ p.new = q.new /\ p.br = q.br /\ p.key = q.key
      BY <1>1 DEF ReqType
    <3> HIDE DEF p
    <3>3. Fine(p, issued)
      BY <1>1, <3>2 DEF Fine
    <3> QED
      BY <1>2, <2>2, <3>1, <3>3, Served DEF IInv, WebOK
  <2>4. DataOK'
    <3>1. CASE UNCHANGED <<user, prof>>
      BY <1>2, <3>1, Same DEF IInv
    <3>2. CASE /\ Taken(q.email) /\ ~Taken(q.new)
               /\ MoveEmail(Joined(q.email), q.new, q.key)
      <4>1. Joined(q.email) \in Ids /\ Present(Joined(q.email))
        BY <3>2, JoinedType
      <4> QED
        BY <1>2, <2>1, <3>2, <4>1, MovedBy DEF IInv
    <3> QED
      BY <1>6, <3>1, <3>2 DEF ChangeEmail
  <2> QED
    BY <2>3, <2>4 DEF IInv
<1> QED
  BY <1>4, <1>5, <1>6

\* Flags and passwords that no link changes.
LEMMA RowIInv ==
  ASSUME IInv, NEW u \in Ids, NEW row \in UserType,
         user' = [user EXCEPT ![u] = row],
         row.st = user[u].st, row.email = user[u].email,
         row.enabledBy \in {None, user[u].enabledBy},
         row.passBy \in {None, user[u].passBy},
         UNCHANGED <<prof, issued, now, req>>,
         session' \in [Browsers -> SessionType \cup {None}]
  PROVE  IInv'
<1>1. /\ user' \in [Ids -> UserType] /\ user'[u] = row
      /\ \A v \in Ids \ {u} : user'[v] = user[v]
  BY DEF IInv, DataOK, DataType
<1>2. MadeBy(u, row.enabledBy) /\ MadeBy(u, row.passBy)
  BY DEF IInv, DataOK, ByOwned, MadeBy
<1>3. DataOK'
  BY <1>1, <1>2, Touched DEF IInv
<1>4. WebOK'
  BY Unserved DEF IInv, WebOK
<1> QED
  BY <1>3, <1>4 DEF IInv

LEMMA BrowseIInv ==
  ASSUME IInv, NEW b \in Browsers, Browse(b)
  PROVE IInv'
<1> USE AccountsAssumption
<1>1. UNCHANGED <<issued, now, req>>
  BY DEF Browse, Login, Logout, ChangePassword, CancelAccount
<1>2. session' \in [Browsers -> SessionType \cup {None}]
  <2>1. \A u \in Ids : Present(u) =>
           [id |-> u, email |-> user[u].email] \in SessionType
    BY DEF IInv, DataOK, PresentOK, SessionType
  <2>2. session \in [Browsers -> SessionType \cup {None}]
    BY DEF IInv, WebOK
  <2>3. CASE Login(b)
    BY <2>1, <2>2, <2>3 DEF Login
  <2> QED
    BY <2>2, <2>3 DEF Browse, Logout, ChangePassword, CancelAccount
<1>3. WebOK'
  BY <1>1, <1>2, Unserved DEF IInv, WebOK
<1>4. CASE Login(b) \/ Logout(b)
  <2>1. DataOK'
    BY <1>4, Same DEF Login, Logout, IInv
  <2> QED
    BY <1>3, <2>1 DEF IInv
<1>5. ASSUME session[b] # None  PROVE session[b].id \in Ids
  BY <1>5 DEF IInv, WebOK, SessionType
<1>6. CASE ChangePassword(b)
  <2>1. PICK u \in Ids : UNCHANGED prof /\ user' = [user EXCEPT ![u].passBy = None]
    BY <1>5, <1>6 DEF ChangePassword
  <2> DEFINE row == [user[u] EXCEPT !.passBy = None]
  <2>2. user' = [user EXCEPT ![u] = row]
    BY <2>1
  <2>3. /\ row \in UserType /\ row.st = user[u].st
        /\ row.email = user[u].email /\ row.enabledBy = user[u].enabledBy
        /\ row.passBy = None
    BY DEF UserType, IInv, DataOK, DataType
  <2> HIDE DEF row
  <2> QED
    BY <1>1, <1>2, <2>1, <2>2, <2>3, RowIInv
<1>7. CASE CancelAccount(b)
  <2>1. PICK u \in Ids : Present(u) /\ RemoveUser(u)
    BY <1>5, <1>7 DEF CancelAccount
  <2>2. DataOK'
    BY <1>1, <2>1, Removed DEF IInv
  <2> QED
    BY <1>3, <2>2 DEF IInv
<1> QED
  BY <1>4, <1>6, <1>7 DEF Browse

LEMMA AdministrateIInv ==
  ASSUME IInv, Administrate
  PROVE IInv'
<1> USE AccountsAssumption
<1>1. UNCHANGED <<issued, session, now, req>>
  BY DEF Administrate, CreateUser, EditInfo, ApiUpdate, Enable, SetPassword,
       DeleteUser
<1>2. WebOK'
  BY <1>1, Unserved DEF IInv, WebOK
<1>3. ASSUME NEW e \in Emails, NEW on \in BOOLEAN, CreateUser(e, on)
      PROVE  IInv'
  <2>1. DataOK'
    BY <1>3, Inserted DEF CreateUser, IInv
  <2> QED
    BY <1>2, <2>1 DEF IInv
<1>4. ASSUME NEW u \in Ids, NEW e \in Emails, EditInfo(u, e)
      PROVE  IInv'
  <2>1. DataOK'
    BY <1>1, <1>4, MovedBy DEF EditInfo, IInv
  <2> QED
    BY <1>2, <2>1 DEF IInv
<1>5. ASSUME NEW u \in Ids, NEW e \in Emails, ApiUpdate(u, e)
      PROVE  IInv'
  <2>1. PICK p \in {None, user[u].passBy} :
          user' = [user EXCEPT ![u] = [user[u] EXCEPT
                   !.email = e, !.enabled = TRUE, !.passBy = p,
                   !.emailBy = IF e = user[u].email THEN user[u].emailBy
                               ELSE None,
                   !.enabledBy = IF user[u].enabled THEN user[u].enabledBy
                                 ELSE None]]
    BY <1>5 DEF ApiUpdate
  <2> DEFINE by == IF e = user[u].email THEN user[u].emailBy ELSE None
             eby == IF user[u].enabled THEN user[u].enabledBy ELSE None
             row == [user[u] EXCEPT !.email = e, !.enabled = TRUE, !.passBy = p,
                                    !.emailBy = by, !.enabledBy = eby]
  <2>2. user[u] \in UserType
    BY DEF IInv, DataOK, DataType
  <2>3. user' = [user EXCEPT ![u] = row]
    BY <2>1, <2>2 DEF UserType
  <2>4. by \in Keys \cup {None} /\ p \in Keys \cup {None}
        /\ eby \in Keys \cup {None} /\ eby \in {None, user[u].enabledBy}
    BY <2>2 DEF UserType
  <2> HIDE DEF by, eby
  <2>5. /\ row \in UserType /\ row.st = user[u].st /\ row.email = e
        /\ row.enabledBy = eby /\ row.passBy = p
    BY <2>2, <2>4 DEF UserType
  <2> HIDE DEF row
  <2>6. /\ user' \in [Ids -> UserType] /\ user'[u] = row
        /\ \A v \in Ids \ {u} : user'[v] = user[v]
    BY <2>3, <2>5 DEF IInv, DataOK, DataType
  <2>7. MadeBy(u, row.enabledBy) /\ MadeBy(u, row.passBy)
    BY <2>1, <2>4, <2>5 DEF IInv, DataOK, ByOwned, MadeBy
  <2>8. /\ Present(u) /\ (Taken(e) => e = user[u].email)
        /\ prof' = [q \in Profiles |-> IF q \in RowsOf(user[u].email)
                                       THEN [prof[q] EXCEPT !.email = e]
                                       ELSE prof[q]]
    BY <1>5 DEF ApiUpdate
  <2>9. DataOK'
    BY <1>1, <2>5, <2>6, <2>7, <2>8, Moved DEF IInv
  <2> QED
    BY <1>2, <2>9 DEF IInv
<1>6. ASSUME NEW u \in Ids, SetPassword(u) \/ \E on \in BOOLEAN : Enable(u, on)
      PROVE  IInv'
  <2>1. PICK row : /\ user' = [user EXCEPT ![u] = row]
                   /\ \/ row = [user[u] EXCEPT !.passBy = None]
                      \/ \E on \in BOOLEAN : row =
                           [user[u] EXCEPT !.enabled = on, !.enabledBy = None]
    <3>1. CASE SetPassword(u)
      <4>1. user' = [user EXCEPT ![u] = [user[u] EXCEPT !.passBy = None]]
        BY <3>1 DEF SetPassword
      <4> QED
        BY <4>1, Zenon
    <3>2. CASE \E on \in BOOLEAN : Enable(u, on)
      <4>1. PICK on \in BOOLEAN : user' = [user EXCEPT ![u] =
                     [user[u] EXCEPT !.enabled = on, !.enabledBy = None]]
        BY <3>2 DEF Enable
      <4> QED
        BY <4>1, Zenon
    <3> QED
      BY <1>6, <3>1, <3>2
  <2>2. /\ row \in UserType /\ row.st = user[u].st
        /\ row.email = user[u].email
        /\ row.enabledBy \in {None, user[u].enabledBy}
        /\ row.passBy \in {None, user[u].passBy}
    BY <2>1 DEF UserType, IInv, DataOK, DataType
  <2>3. prof' = prof
    BY <1>6 DEF SetPassword, Enable
  <2>4. session' \in [Browsers -> SessionType \cup {None}]
    BY <1>1 DEF IInv, WebOK
  <2> QED
    BY <1>1, <2>1, <2>2, <2>3, <2>4, RowIInv
<1>7. ASSUME NEW u \in Ids, DeleteUser(u)
      PROVE  IInv'
  <2>1. DataOK'
    BY <1>7, Removed DEF DeleteUser, IInv
  <2> QED
    BY <1>2, <2>1 DEF IInv
<1> QED
  BY <1>3, <1>4, <1>5, <1>6, <1>7 DEF Administrate

-----------------------------------------------------------------------------
\* Every step preserves the inductive invariant.
LEMMA StepIInv == IInv /\ [Next]_vars => IInv'
<1> SUFFICES ASSUME IInv, [Next]_vars  PROVE IInv'
  OBVIOUS
<1>1. CASE UNCHANGED vars
  <2>1. DataOK'
    BY <1>1, Same DEF vars, IInv
  <2>2. WebOK'
    BY <1>1, Unserved DEF vars, IInv, WebOK
  <2> QED
    BY <2>1, <2>2 DEF IInv
<1>2. ASSUME NEW r \in Reqs, NewRequest(r) \/ Handle(r)  PROVE IInv'
  BY <1>2, NewRequestIInv, LookUpIInv, KeyIInv, WriteIInv DEF Handle
<1>3. ASSUME NEW b \in Browsers, Browse(b)  PROVE IInv'
  BY <1>3, BrowseIInv
<1>4. CASE Administrate
  BY <1>4, AdministrateIInv
<1>5. CASE Tick
  <2>1. DataOK'
    BY <1>5, Same DEF Tick, IInv
  <2>2. now' \in Nat
    BY <1>5 DEF Tick, IInv, WebOK
  <2>3. WebOK'
    BY <1>5, <2>2, Unserved DEF Tick, IInv, WebOK
  <2> QED
    BY <2>1, <2>3 DEF IInv
<1> QED
  BY <1>1, <1>2, <1>3, <1>4, <1>5 DEF Next

LEMMA Inductive == Spec => []IInv
BY InitIInv, StepIInv, PTL DEF Spec

-----------------------------------------------------------------------------
(* The tables, the cookies and the requests always have their types: the   *)
(* addresses that handlers copy out of sessions, links and rows are        *)
(* addresses.                                                              *)
THEOREM AccountsTypeCorrect == Spec => []TypeOK
<1>1. IInv => TypeOK
  BY DEF IInv, DataOK, DataType, WebOK, TypeOK
<1> QED
  BY Inductive, <1>1, PTL

(* Two accounts never have the same address, however many sign-ups, moves  *)
(* and administrators interleave: the unique index refuses the write that  *)
(* the earlier look-up of the handler let through.                         *)
THEOREM OneAccountPerAddress == Spec => []EmailsUnique
<1>1. IInv => EmailsUnique
  BY DEF IInv, DataOK
<1> QED
  BY Inductive, <1>1, PTL

(* Every registration profile belongs to an account: deletions and changes *)
(* of address take the profiles along, and none is created for an address  *)
(* whose account is gone.                                                  *)
THEOREM ProfilesHaveOwners == Spec => []ProfilesOwned
<1>1. IInv => ProfilesOwned
  BY DEF IInv, DataOK
<1> QED
  BY Inductive, <1>1, PTL

(* An account is only activated, and its password only reset, by a link    *)
(* whose key was put in its own profile, although addresses pass from one  *)
(* account to another between the mail and the click, and between the      *)
(* look-up of the profile and the update.                                  *)
THEOREM LinksServe == Spec => []LinksServeTheirAccount
<1>1. IInv => LinksServeTheirAccount
  BY DEF IInv, DataOK, ByOwned, MadeBy, LinksServeTheirAccount
<1> QED
  BY Inductive, <1>1, PTL
=============================================================================
