----------------------------- MODULE ApiTokens ------------------------------
(***************************************************************************)
(* The tokens of the REST API of the Keyrock identity manager, in          *)
(*   src/fiware-idm/controllers/api/authenticate.js                        *)
(*   src/fiware-idm/controllers/api/authenticate_oauth.js                  *)
(*   src/fiware-idm/models/auth_token.js                                   *)
(* A user or a PEP proxy gets one for its password, for another token, or  *)
(* for both; with one it may see and delete those of its own.  The         *)
(* look-ups of a request go to the database at the same time, and          *)
(* accounts, passwords and tokens change between them.                     *)
(***************************************************************************)
EXTENDS Naturals, FiniteSets

CONSTANTS
    Members, Proxies,   \* the accounts of users, and the PEP proxies
    Admins,             \* the users who are administrators
    Tokens, Callers, Null,
    Calls,              \* the kinds of requests of this instance
    Passwords           \* bound: the passwords anyone ever has

Owners == Members \cup Proxies

VARIABLES
    there,   \* the accounts and proxies whose rows exist
    enabled, \* the accounts that may sign in
    word,    \* owner -> its password
    tok,     \* token -> its row: phase and owner
    call,    \* the requests
    known    \* history: request -> whoever it has shown to be, by which means

apiVars == <<there, enabled, word, tok, call, known>>

\* What a look-up has not found out is no owner, and NULL neither owner nor
\* token; the module that is run assumes it.
ApiAssumption == /\ Null \notin Owners \cup Tokens \cup {"todo", "no"}
                 /\ {"todo", "no"} \cap Owners = {}

Phases == {"unborn", "live", "expired", "gone"}
TokenRow == [phase : Phases, owner : Owners \cup {Null}]
Answers == {"201", "200", "204", "400", "401", "403", "404", "500"}
Call == [kind : Calls \cup {"none"}, st : {"idle", "look", "found"} \cup Answers,
         name : Owners \cup {Null}, word : Passwords \cup {Null},
         auth : Tokens \cup {Null}, subject : Tokens \cup {Null},
         by : {"todo", "identity", "no", "yes"},      \* what the password shows
         owner : Owners \cup {Null, "todo", "no"},    \* what the token shows
         other : Owners \cup {Null, "todo", "no"},    \* of the subject token
         new : Tokens \cup {Null}]
IdleCall == [kind |-> "none", st |-> "idle", name |-> Null, word |-> Null,
             auth |-> Null, subject |-> Null, by |-> "todo", owner |-> "todo",
             other |-> "todo", new |-> Null]

ApiTypeOK ==
    /\ there \subseteq Owners /\ enabled \subseteq Members
    /\ word \in [Owners -> Passwords]
    /\ tok \in [Tokens -> TokenRow]
    /\ call \in [Callers -> Call]
    /\ known \in [Callers -> SUBSET (Owners \X {"password", "token"})]

ApiInit ==
    /\ there = Owners /\ enabled = Members
    /\ \E w \in Passwords : word = [o \in Owners |-> w]
    /\ tok = [t \in Tokens |-> [phase |-> "unborn", owner |-> Null]]
    /\ call = [c \in Callers |-> IdleCall]
    /\ known = [c \in Callers |-> {}]

Live(t) == tok[t].phase = "live"
InTable(t) == tok[t].phase \in {"live", "expired"}
Put(c, q) == call' = [call EXCEPT ![c] = q]
Answer(c, code) == Put(c, [call[c] EXCEPT !.st = code])
tables == <<there, enabled, word, tok>>

-----------------------------------------------------------------------------
(* POST /v1/auth/tokens *)

\* Without name and password, and without a token, it is refused at once; all
\* refusals look alike.
CheckCreateTokenRequest(c) ==
    /\ "create" \in Calls /\ call[c].st = "idle"
    /\ \/ Put(c, [IdleCall EXCEPT !.kind = "create", !.st = "401"])
       \/ \E n \in Owners \cup {Null}, w \in Passwords, t \in Tokens \cup {Null} :
            /\ n # Null \/ t # Null
            /\ t # Null => tok[t].phase # "unborn"
            /\ Put(c, [IdleCall EXCEPT !.kind = "create", !.st = "look",
                         !.name = n, !.word = IF n = Null THEN Null ELSE w,
                         !.auth = t,
                         !.by = IF n = Null THEN "yes" ELSE "todo",
                         !.owner = IF t = Null THEN Null ELSE "todo"])
    /\ UNCHANGED <<tables, known>>

Looking(c) == call[c].kind = "create" /\ call[c].st = "look"

\* Whether the name is that of a user or of a proxy.
SearchIdentity(c) ==
    /\ Looking(c) /\ call[c].by = "todo"
    /\ Put(c, [call[c] EXCEPT !.by = IF call[c].name \in there THEN "identity"
                                     ELSE "no"])
    /\ UNCHANGED <<tables, known>>

\* The password, by a read of its own.
Authenticate(c, who, right) ==
    /\ Looking(c) /\ call[c].by = "identity" /\ call[c].name \in who
    /\ Put(c, [call[c] EXCEPT !.by = IF right THEN "yes" ELSE "no"])
    /\ known' = IF right
                THEN [known EXCEPT ![c] = @ \cup {<<call[c].name, "password">>}]
                ELSE known
    /\ UNCHANGED tables
AuthenticateUser(c) ==
    LET u == call[c].name
    IN Authenticate(c, Members,
                    u \in there /\ u \in enabled /\ word[u] = call[c].word)
AuthenticatePepProxy(c) ==
    LET p == call[c].name
    IN Authenticate(c, Proxies, p \in there /\ word[p] = call[c].word)

\* Mutation: an expired token is good for another.
SearchTokenOwnerExpired(c) ==
    /\ Looking(c) /\ call[c].owner = "todo"
    /\ LET t == call[c].auth
       IN /\ Put(c, [call[c] EXCEPT !.owner = IF InTable(t) THEN tok[t].owner ELSE "no"])
          /\ known' = IF Live(t)
                      THEN [known EXCEPT ![c] = @ \cup {<<tok[t].owner, "token">>}]
                      ELSE known
    /\ UNCHANGED tables

SearchTokenOwner(c) ==
    /\ Looking(c) /\ call[c].owner = "todo"
    /\ LET t == call[c].auth
       IN /\ Put(c, [call[c] EXCEPT !.owner = IF Live(t) THEN tok[t].owner ELSE "no"])
          /\ known' = IF Live(t)
                      THEN [known EXCEPT ![c] = @ \cup {<<tok[t].owner, "token">>}]
                      ELSE known
    /\ UNCHANGED tables

\* Mutation: the promises have no catch.
CompareMethodsUncaught(c) ==
    /\ Looking(c) /\ call[c].by = "yes" /\ call[c].owner \notin {"todo", "no"}
    /\ LET q == call[c]
       IN IF q.name # Null /\ q.auth # Null /\ q.name # q.owner
          THEN Answer(c, "401") ELSE Answer(c, "found")
    /\ UNCHANGED <<tables, known>>

\* The first look-up that fails ends the request; when both succeed they must
\* be of one and the same.
CompareMethods(c) ==
    /\ Looking(c)
    /\ LET q == call[c]
       IN \/ /\ q.by = "no" \/ q.owner = "no"
             /\ Answer(c, "401")
          \/ /\ q.by = "yes" /\ q.owner \notin {"todo", "no"}
             /\ IF q.name # Null /\ q.auth # Null /\ q.name # q.owner
                THEN Answer(c, "401") ELSE Answer(c, "found")
    /\ UNCHANGED <<tables, known>>

\* The foreign keys of a new row.
OwnerThere(o) == o \in there

\* Mutation: the row of a token that expired is written over.
CreateTokenOver(c) ==
    /\ call[c].st = "found" /\ call[c].kind = "create"
    /\ \E t \in Tokens :
         LET o == IF call[c].name # Null THEN call[c].name ELSE call[c].owner
         IN /\ tok[t].phase \in {"unborn", "expired"}
            /\ tok' = [tok EXCEPT ![t] = [phase |-> "live", owner |-> o]]
            /\ Put(c, [call[c] EXCEPT !.st = "201", !.new = t])
    /\ UNCHANGED <<there, enabled, word, known>>

CreateToken(c) ==
    /\ call[c].st = "found" /\ call[c].kind = "create"
    /\ \E t \in Tokens :
         LET o == IF call[c].name # Null THEN call[c].name ELSE call[c].owner
         IN /\ tok[t].phase = "unborn"
            /\ IF OwnerThere(o)
               THEN /\ tok' = [tok EXCEPT ![t] = [phase |-> "live", owner |-> o]]
                    /\ Put(c, [call[c] EXCEPT !.st = "201", !.new = t])
               ELSE Answer(c, "500") /\ UNCHANGED tok
    /\ UNCHANGED <<there, enabled, word, known>>

-----------------------------------------------------------------------------
(* GET and DELETE /v1/auth/tokens: one token about another. *)

CheckHeadersRequest(c) ==
    /\ call[c].st = "idle"
    /\ \E k \in Calls \cap {"info", "delete"} :
         \/ Put(c, [IdleCall EXCEPT !.kind = k,
                      !.st = IF k = "info" THEN "401" ELSE "400"])
         \/ \E t, s \in Tokens :
              /\ tok[t].phase # "unborn" /\ tok[s].phase # "unborn"
              /\ Put(c, [IdleCall EXCEPT !.kind = k, !.st = "look",
                           !.auth = t, !.subject = s])
    /\ UNCHANGED <<tables, known>>

Pair(c) == call[c].kind \in {"info", "delete"} /\ call[c].st = "look"
\* Of an expired token the row is found; that it expired counts for the one
\* that authorizes only.
SearchAuthToken(c) ==
    /\ Pair(c) /\ call[c].owner = "todo"
    /\ LET t == call[c].auth
       IN Put(c, [call[c] EXCEPT !.owner = IF Live(t) THEN tok[t].owner
                                  ELSE IF InTable(t) THEN Null ELSE "no"])
    /\ UNCHANGED <<tables, known>>
SearchSubjectToken(c) ==
    /\ Pair(c) /\ call[c].other = "todo"
    /\ LET s == call[c].subject
       IN Put(c, [call[c] EXCEPT !.other = IF InTable(s) THEN tok[s].owner ELSE "no"])
    /\ UNCHANGED <<tables, known>>

MaySee(q) == \/ q.owner = q.other
             \/ q.owner \in Members \cap Admins /\ q.other \in Members

CheckRequestedTokens(c) ==
    /\ Pair(c) /\ call[c].owner # "todo" /\ call[c].other # "todo"
    /\ LET q == call[c]
           code == IF q.owner = "no" \/ q.other = "no" THEN "404"
                   ELSE IF q.owner = Null THEN "401"
                   ELSE IF ~MaySee(q) THEN "403" ELSE "found"
       IN Put(c, [q EXCEPT !.st = IF q.kind = "delete" THEN code
                                  ELSE IF code = "found" THEN "200" ELSE "401"])
    /\ UNCHANGED <<tables, known>>

DeleteToken(c) ==
    /\ call[c].st = "found" /\ call[c].kind = "delete"
    /\ tok' = [tok EXCEPT ![call[c].subject].phase = "gone"]
    /\ Answer(c, "204")
    /\ UNCHANGED <<there, enabled, word, known>>

-----------------------------------------------------------------------------
(* The rest of the API, and the older interface of the proxies. *)

\* The row of the token stands for its owner, enabled or not; a proxy gets no
\* further than its own token.
ValidateToken(c) ==
    /\ "use" \in Calls /\ call[c].st = "idle"
    /\ \/ Put(c, [IdleCall EXCEPT !.kind = "use", !.st = "400"])
       \/ \E t \in Tokens :
            /\ tok[t].phase # "unborn"
            /\ Put(c, [IdleCall EXCEPT !.kind = "use", !.auth = t,
                 !.owner = IF Live(t) THEN tok[t].owner ELSE "no",
                 !.st = CASE tok[t].phase = "gone" -> "404"
                          [] tok[t].phase = "expired" -> "401"
                          [] OTHER -> "found"])
    /\ UNCHANGED <<tables, known>>
IsUser(c) ==
    /\ call[c].kind = "use" /\ call[c].st = "found"
    /\ Answer(c, IF call[c].owner \in Members THEN "200" ELSE "403")
    /\ UNCHANGED <<tables, known>>
SearchOldAuthToken(c) ==
    /\ "access" \in Calls /\ call[c].st = "idle"
    /\ \E t \in Tokens :
         /\ tok[t].phase # "unborn"
         /\ Put(c, [IdleCall EXCEPT !.kind = "access", !.auth = t,
              !.owner = IF Live(t) THEN tok[t].owner ELSE "no",
              !.st = CASE tok[t].phase = "gone" -> "404"
                       [] tok[t].phase = "expired" -> "401"
                       [] OTHER -> "200"])
    /\ UNCHANGED <<tables, known>>

-----------------------------------------------------------------------------
(* Meanwhile. *)

ExpireToken(t) ==
    /\ Live(t)
    /\ tok' = [tok EXCEPT ![t].phase = "expired"]
    /\ UNCHANGED <<there, enabled, word, call, known>>

\* An account or a proxy is deleted, and its tokens with it.
RemoveOwner(o) ==
    /\ o \in there
    /\ there' = there \ {o}
    /\ tok' = [t \in Tokens |-> IF tok[t].owner = o /\ InTable(t)
                                THEN [tok[t] EXCEPT !.phase = "gone"] ELSE tok[t]]
    /\ UNCHANGED <<enabled, word, call, known>>
ChangePassword(o, w) ==
    /\ o \in there /\ word[o] # w
    /\ word' = [word EXCEPT ![o] = w]
    /\ UNCHANGED <<there, enabled, tok, call, known>>
DisableAccount(u) ==
    /\ u \in enabled
    /\ enabled' = enabled \ {u}
    /\ UNCHANGED <<there, word, tok, call, known>>

Arrive(c) == \/ CheckCreateTokenRequest(c) \/ CheckHeadersRequest(c)
             \/ ValidateToken(c) \/ SearchOldAuthToken(c)
Handle(c) ==
    \/ SearchIdentity(c) \/ AuthenticateUser(c) \/ AuthenticatePepProxy(c)
    \/ SearchTokenOwner(c) \/ CompareMethods(c) \/ CreateToken(c)
    \/ SearchAuthToken(c) \/ SearchSubjectToken(c) \/ CheckRequestedTokens(c)
    \/ DeleteToken(c) \/ IsUser(c)
\* A caller whose request was answered may make another one.
Forget(c) ==
    /\ call[c].st \in Answers
    /\ call' = [call EXCEPT ![c] = IdleCall]
    /\ known' = [known EXCEPT ![c] = {}]
    /\ UNCHANGED tables

ApiNext ==
    \/ \E c \in Callers : Arrive(c) \/ Handle(c) \/ Forget(c)
    \/ \E t \in Tokens : ExpireToken(t)
    \/ \E o \in Owners : RemoveOwner(o) \/ \E w \in Passwords : ChangePassword(o, w)
    \/ \E u \in Members : DisableAccount(u)

ApiSpec == ApiInit /\ [][ApiNext]_apiVars
ApiFairSpec == ApiSpec /\ \A c \in Callers : WF_apiVars(Handle(c))

-----------------------------------------------------------------------------
\* A token is issued once, to one owner, and once it expired or was deleted,
\* alone or with its owner, it never works again.
PhaseOf(t) == CASE tok[t].phase = "unborn" -> "unborn"
                [] tok[t].phase = "live" -> "usable"
                [] OTHER -> "dead"
phase == [t \in Tokens |-> PhaseOf(t)]
holder == [t \in Tokens |-> tok[t].owner]
Life == INSTANCE TokenLife WITH Holders <- Owners, Nobody <- Null
ApiTokensLive == Life!Spec

\* No token of the table belongs to an account or proxy that is gone, whatever
\* was deleted between the look-ups of a request and its insertion.
OwnersThere == \A t \in Tokens : InTable(t) => tok[t].owner \in there

\* Whoever is answered a new token has shown, while this very request was
\* served, the password, the live token, or both, and both of himself.
IssuedToTheProven ==
    \A c \in Callers : LET q == call[c] IN q.st = "201" =>
       /\ q.name # Null => <<tok[q.new].owner, "password">> \in known[c]
       /\ q.auth # Null => <<tok[q.new].owner, "token">> \in known[c]

\* A token is seen and deleted with a live token of the same owner, or of an
\* administrator when both are users.
SeenByItsOwner ==
    \A c \in Callers : LET q == call[c] IN
       (q.kind \in {"info", "delete"} /\ q.st \in {"200", "204", "found"}) =>
          /\ q.owner \in Owners /\ q.other \in Owners
          /\ q.owner = tok[q.auth].owner /\ q.other = tok[q.subject].owner
          /\ q.owner # q.other => q.owner \in Admins /\ q.other \in Members

\* What tokens are issued, kept and shown for is their owners, as the three say.
KeptToOwners == OwnersThere /\ IssuedToTheProven /\ SeenByItsOwner

\* Every request is answered, as long as there are tokens left to issue.
Waiting(c) == call[c].st = "look"
Served(c) == call[c].st \in Answers \/ \A t \in Tokens : tok[t].phase # "unborn"
CallsAnswered == \A c \in Callers : Waiting(c) ~> Served(c)
=============================================================================
